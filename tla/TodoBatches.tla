---------------------------- MODULE TodoBatches ----------------------------
(***************************************************************************)
(* The Todos of one game in one period, and the Batches that execute them: *)
(* a Batch freezes its plan when it is created, runs later, behind the     *)
(* Batches before it, is adjudicated and sealed, and the newest seal of    *)
(* the current scope says whether the game counts as accepted.  Operators  *)
(* change the selection, mark Todos, release human gates and reset.        *)
(***************************************************************************)
EXTENDS TodoDispatch, FiniteSets

CONSTANTS Todos,      \* the Todos of the game, all required
          Session,    \* those whose binding is a session action
          Forbidden,  \* those with forbidden risk
          Batches,    \* how many Batches may be created
          Selections, \* the selections an operator may make
          Transients, \* bound: whether a failure may be reported as transient
          MaxReset,   \* bound on explicit resets
          MaxMark     \* bound on operator transitions

TodoAssumption ==
    /\ Session \subseteq Todos /\ Forbidden \subseteq Todos
    /\ Selections \subseteq SUBSET Todos /\ Transients \subseteq BOOLEAN
    /\ Batches \in Nat /\ MaxReset \in Nat /\ MaxMark \in Nat
    /\ None # "accepted"

B == 1 .. Batches

VARIABLES
    todo,      \* the Todo instances
    blocker,   \* blocker[b][t]: the active blocker Batch b left on Todo t, or None
    batch,     \* the Batches with their one GameRun
    running,   \* the Todo attempt that is executing: <<b, t>>, or None
    selected,  \* the Todos the configuration selects
    seq,       \* the event sequence, which also orders times
    reset,     \* sequence of the newest explicit reset of every Todo
    gated,     \* Todos that await an explicit release (a history variable)
    resets, marks
vars == <<todo, blocker, batch, running, selected, seq, reset, gated, resets, marks>>

NoBatch == [state |-> "none", plan |-> {}, scope |-> {}, replay |-> {}, tried |-> {},
            outcome |-> None, reviewed |-> FALSE, facts |-> <<>>, seal |-> 0]
Pending == [status |-> "pending", run |-> 0, released |-> FALSE, retry |-> FALSE,
            transient |-> FALSE, unneeded |-> FALSE, done |-> 0]

Init ==
    /\ todo = [t \in Todos |-> Pending]
    /\ blocker = [b \in B |-> [t \in Todos |-> None]]
    /\ batch = [b \in B |-> NoBatch]
    /\ running = None /\ selected \in Selections
    /\ seq = 0 /\ reset = [t \in Todos |-> 0] /\ gated = {} /\ resets = 0 /\ marks = 0

---------------------------------------------------------------------------
(* Projections                                                             *)

\* Blockers are raised in the order the Batches run.
Newest(t) ==
    LET active == {b \in B : blocker[b][t] # None}
    IN  IF active = {} THEN None
        ELSE blocker[CHOOSE b \in active : \A c \in active : c <= b][t]

Facts(t) ==
    LET k == Newest(t)
    IN  [status |-> todo[t].status, risk |-> IF t \in Forbidden THEN "forbidden" ELSE "routine_action",
         released |-> todo[t].released, blocker |-> IF k = None THEN None ELSE k.kind,
         again |-> k # None /\ k.again, retry |-> todo[t].retry,
         transient |-> todo[t].transient, bound |-> TRUE, resumable |-> FALSE]

IsDone(t)  == todo[t].status = "completed"
Unresolved == {t \in selected : ~IsDone(t)}
Eligible   == {t \in Unresolved : Disposition(Facts(t)) = "eligible"}

\* A completed session Todo is re-entered, but only in front of other work.
PlanOf == Eligible \cup {t \in selected \cap Session : IsDone(t) /\ Eligible # {} /\ t \notin Forbidden}

\* The seals of exactly the current scope that are newer than every reset of it.
Contracts == {b \in B : /\ batch[b].state = "sealed" /\ batch[b].reviewed
                        /\ batch[b].scope = selected
                        /\ \A t \in selected : batch[b].seal > reset[t]}

NewestContract == CHOOSE b \in Contracts : \A c \in Contracts : batch[c].seal <= batch[b].seal

Completion ==
    IF selected = {} \/ Unresolved # {} \/ Contracts = {} THEN "none"
    ELSE IF batch[NewestContract].outcome = "accepted" THEN "accepted_done"
    ELSE "evidence_pending"

---------------------------------------------------------------------------
(* Reconciling                                                             *)

\* A conditional Todo that the tool proved to be unneeded counts as completed.
Reconciled ==
    [t \in Todos |-> IF todo[t].status = "skipped" /\ todo[t].unneeded
                     THEN [todo[t] EXCEPT !.status = "completed", !.done = seq + 1] ELSE todo[t]]

Reconcile ==
    /\ Reconciled # todo /\ todo' = Reconciled /\ seq' = seq + 1
    /\ UNCHANGED <<blocker, batch, running, selected, reset, gated, resets, marks>>

---------------------------------------------------------------------------
(* Creating a Batch                                                        *)

HostBusy == \E b \in B : batch[b].state = "executing"

\* A human gate that is still open keeps the game day to its Batch.
HumanGate == \E b \in B : batch[b].state = "human"

\* A completed scope is only adjudicated again, for the run of its newest
\* contract; without one the Batch is sealed without a contract.
SealedAtOnce(outcome) ==
    [NoBatch EXCEPT !.state = "sealed", !.scope = selected, !.seal = seq',
        !.reviewed = outcome # None, !.outcome = outcome,
        !.facts = [t \in selected |-> todo'[t].done]]

Replanned == [NoBatch EXCEPT !.state = "queued", !.plan = PlanOf', !.scope = selected]

\* The request reconciles, plans and commits the Batch in one transaction.
Create(b) ==
    /\ batch[b].state = "none" /\ \A c \in B : c < b => batch[c].state # "none"
    /\ ~HumanGate /\ selected # {}
    /\ todo' = Reconciled
    /\ UNCHANGED <<blocker, selected>>
    /\ IF Unresolved' = {}
       THEN /\ seq' = seq + 1
            /\ \E outcome \in {"accepted", "review_required", None} :
                   /\ (outcome # None) = (Contracts # {} /\ batch[NewestContract].outcome # "accepted")
                   /\ batch' = [batch EXCEPT ![b] = SealedAtOnce(outcome)]
       ELSE /\ Eligible' # {} /\ ~HostBusy
            /\ seq' = IF Reconciled = todo THEN seq ELSE seq + 1
            /\ batch' = [batch EXCEPT ![b] = Replanned]
    /\ UNCHANGED <<running, reset, gated, resets, marks>>

---------------------------------------------------------------------------
(* Running it                                                              *)

\* The worker launches the game; the Host is still idle.
Launch(b) ==
    /\ batch[b].state = "queued"
    /\ \A c \in B : c < b => batch[c].state \notin {"queued", "launching", "executing"}
    /\ batch' = [batch EXCEPT ![b].state = "launching"]
    /\ UNCHANGED <<todo, blocker, running, selected, seq, reset, gated, resets, marks>>

\* What is completed by now is marked as a replay when the attempt is committed.
Replayed(b)  == {t \in batch[b].plan : IsDone(t)}

Execute(b) ==
    /\ batch[b].state = "launching"
    /\ batch' = [batch EXCEPT ![b].state = "executing", ![b].replay = Replayed(b)]
    /\ UNCHANGED <<todo, blocker, running, selected, seq, reset, gated, resets, marks>>

\* What start_todo_attempt accepts.
Startable(b, t) ==
    \/ todo[t].status \in {"pending", "in_progress"}
    \/ todo[t].status \in {"blocked", "review_required"} /\ todo[t].run \notin {0, b}
    \/ todo[t].status = "completed" /\ t \in batch[b].replay

\* Starting a fresh attempt closes the retryable blockers of other runs.
Superseded(b, t) ==
    [c \in B |-> [u \in Todos |->
        IF /\ u = t /\ c # b /\ todo[t].status \in {"blocked", "review_required"}
           /\ blocker[c][u] # None /\ blocker[c][u].again
           /\ blocker[c][u].kind \in {"contract_invariant", "review_required"}
        THEN None ELSE blocker[c][u]]]

\* The new attempt is now the latest one.
Attempted(t) == [todo[t] EXCEPT !.retry = FALSE, !.transient = FALSE, !.unneeded = FALSE]

StartedAfresh(b, t) ==
    [Attempted(t) EXCEPT !.status = "in_progress", !.run = b, !.released = FALSE]

\* A replay leaves the completed instance as it is.
Started(b, t) ==
    IF t \in batch[b].replay THEN Attempted(t)
    ELSE [Attempted(t) EXCEPT !.status = "in_progress", !.run = b, !.released = FALSE]

Start(b, t) ==
    /\ batch[b].state = "executing" /\ running = None
    /\ t \in batch[b].plan \ batch[b].tried /\ Startable(b, t)
    /\ running' = <<b, t>>
    /\ batch' = [batch EXCEPT ![b].tried = @ \cup {t}]
    /\ blocker' = Superseded(b, t)
    /\ todo' = [todo EXCEPT ![t] = Started(b, t)]
    /\ UNCHANGED <<selected, seq, reset, gated, resets, marks>>

\* The transitions of a Todo instance.
Transitions ==
    [s \in Statuses |->
        CASE s = "pending"     -> Statuses \ {"completed"}
          [] s = "in_progress" -> Statuses \ {"pending"}
          [] s = "skipped"     -> Statuses \ {"pending", "completed"}
          [] s \in {"blocked", "review_required"} -> Statuses \ {"completed"}
          [] s = "human_required" -> {"human_required", "review_required", "skipped", "blocked"}
          [] s = "completed"   -> {}]

Kind(s) == CASE s = "blocked" -> "contract_invariant" [] s = "review_required" -> s
             [] s = "human_required" -> s

\* _persist_terminal_todo_blocker: without evidence there is none, and an active one is kept.
BlockerOf(s, retry, evidence, before) ==
    IF s \in {"blocked", "review_required", "human_required"} /\ evidence /\ before = None
    THEN [kind |-> Kind(s), again |-> retry] ELSE before

Ended(b, s) == [batch EXCEPT ![b].state = IF s = "human_required" THEN "human" ELSE "review"]

\* How a Todo is left when its attempt settles; a replay only updates the attempt.
Settled(b, t, s, retry, transient, unneeded) ==
    LET attempt == [todo[t] EXCEPT !.retry = retry, !.transient = transient, !.unneeded = unneeded]
    IN  IF t \in batch[b].replay THEN attempt
        ELSE [attempt EXCEPT !.status = s, !.released = FALSE, !.run = b,
                             !.done = IF s = "completed" THEN seq + 1 ELSE 0]

Gates(b, t, s) ==
    IF s = "human_required" /\ t \notin batch[b].replay THEN gated \cup {t} ELSE gated

\* The Adapter settles the attempt.  A blocker is kept when there is evidence.
Finish(b, t, s, retry, transient, evidence) ==
    /\ running = <<b, t>>
    /\ t \notin batch[b].replay => s \in Transitions[todo[t].status]
    /\ s = "human_required" => ~retry
    /\ s = "completed" => evidence /\ ~retry /\ blocker[b][t] = None
    /\ s = "skipped" => ~retry
    /\ transient => s = "review_required"
    /\ running' = None /\ seq' = IF s = "completed" THEN seq + 1 ELSE seq
    /\ todo' = [todo EXCEPT ![t] = Settled(b, t, s, retry, transient, s = "skipped" /\ evidence)]
    /\ gated' = Gates(b, t, s)
    /\ blocker' = [blocker EXCEPT ![b][t] = BlockerOf(s, retry, evidence, @)]
    /\ batch' = IF s = "human_required" THEN Ended(b, s) ELSE batch
    /\ UNCHANGED <<selected, reset, resets, marks>>

\* The Adapter result (or the recovery of the Manager) settles what still runs.
EndRun(b, s) ==
    /\ batch[b].state = "executing" /\ running' = None
    /\ IF running = None THEN s = "blocked" /\ UNCHANGED <<todo, gated>>
       ELSE LET t == running[2]
            IN  /\ t \notin batch[b].replay => s \in Transitions[todo[t].status]
                /\ todo' = [todo EXCEPT ![t] = Settled(b, t, s, FALSE, FALSE, FALSE)]
                /\ gated' = Gates(b, t, s)
    /\ batch' = Ended(b, s)
    /\ UNCHANGED <<blocker, selected, seq, reset, resets, marks>>

\* An answer accepts what is proven of the whole scope.
AcceptableUnproven(b) == batch[b].state = "review"
Acceptable(b) == \A t \in batch[b].scope : IsDone(t)

\* The adjudication keeps, of every Todo of the scope, the completion it saw.
FrozenFacts(b) == [t \in batch[b].scope |-> todo[t].done]

\* The review phase ends with an answer or by its barrier, and is adjudicated.
Adjudicate(b, reviewed, accepts) ==
    /\ batch[b].state = "review"
    /\ accepts => reviewed
    /\ batch' = [batch EXCEPT ![b].state = "adjudicated", ![b].reviewed = reviewed,
            ![b].outcome = IF accepts /\ Acceptable(b) THEN "accepted"
                           ELSE "review_required",
            ![b].facts = FrozenFacts(b)]
    /\ UNCHANGED <<todo, blocker, running, selected, seq, reset, gated, resets, marks>>

Seal(b) ==
    /\ batch[b].state = "adjudicated"
    /\ batch' = [batch EXCEPT ![b].state = "sealed", ![b].seal = seq + 1]
    /\ seq' = seq + 1
    /\ UNCHANGED <<todo, blocker, running, selected, reset, gated, resets, marks>>

---------------------------------------------------------------------------
(* Operators                                                               *)

\* The explicit reset of the current period refuses when any Todo is running.
Reset ==
    /\ resets < MaxReset /\ \A t \in Todos : todo[t].status # "in_progress"
    /\ todo' = [t \in Todos |-> [todo[t] EXCEPT !.status = "pending", !.run = 0,
                                                !.released = FALSE, !.done = 0]]
    /\ blocker' = [b \in B |-> [t \in Todos |-> None]]
    /\ seq' = seq + 1 /\ reset' = [t \in Todos |-> seq + 1] /\ resets' = resets + 1
    /\ gated' = {}
    /\ UNCHANGED <<batch, running, selected, marks>>

\* The transition request: never to completed or in_progress, and the run stays.
Mark(t, s) ==
    /\ marks < MaxMark /\ marks' = marks + 1
    /\ s \in {"skipped", "blocked", "review_required", "human_required"} \cap Transitions[todo[t].status]
    /\ t \in Forbidden => s \in {"skipped", "review_required"}
    /\ todo' = [todo EXCEPT ![t].status = s, ![t].released = FALSE]
    /\ gated' = IF s = "human_required" THEN gated \cup {t} ELSE gated \ {t}
    /\ UNCHANGED <<blocker, batch, running, selected, seq, reset, resets>>

\* The human blockers of the Batch are resolved, the others stay.
ReleasedBlockers(b) ==
    [blocker EXCEPT ![b] = [t \in Todos |->
        IF @[t] # None /\ @[t].kind = "human_required" THEN None ELSE @[t]]]

\* The explicit release of the run of Batch b, which leaves it to be resumed.
Release(b) ==
    LET freed == {t \in batch[b].plan : todo[t].status = "human_required"}
    IN  /\ batch[b].state = "human"
        /\ batch' = [batch EXCEPT ![b].state = "released"]
        /\ blocker' = ReleasedBlockers(b)
        /\ todo' = [t \in Todos |->
                IF t \notin freed THEN todo[t]
                ELSE [todo[t] EXCEPT !.status = "review_required", !.released = TRUE, !.run = b]]
        /\ gated' = gated \ freed
        /\ UNCHANGED <<running, selected, seq, reset, resets, marks>>

Select(S) ==
    /\ S # selected /\ selected' = S
    /\ UNCHANGED <<todo, blocker, batch, running, seq, reset, gated, resets, marks>>

Work(b) ==
    \/ Create(b) \/ Launch(b) \/ Execute(b) \/ Seal(b) \/ Release(b)
    \/ \E r, a \in BOOLEAN : Adjudicate(b, r, a)
    \/ \E s \in {"blocked", "human_required", "review_required"} : EndRun(b, s)
    \/ \E t \in Todos :
        \/ Start(b, t)
        \/ \E s \in Statuses \ {"pending", "in_progress"}, r, e \in BOOLEAN, x \in Transients : Finish(b, t, s, r, x, e)

Operator ==
    \/ Reset \/ Reconcile
    \/ \E t \in Todos, s \in Statuses : Mark(t, s)
    \/ \E S \in Selections : Select(S)

Next == Operator \/ \E b \in B : Work(b)

Spec == Init /\ [][Next]_vars

---------------------------------------------------------------------------
(* Properties                                                              *)

States == {"none", "queued", "launching", "executing", "human", "released",
           "review", "adjudicated", "sealed"}

TypeOK ==
    /\ \A t \in Todos : /\ todo[t].status \in Statuses /\ todo[t].run \in 0 .. Batches
                        /\ (todo[t].status = "completed") = (todo[t].done > 0)
                        /\ todo[t].done <= seq /\ reset[t] <= seq
    /\ \A b \in B : batch[b].state \in States /\ batch[b].seal <= seq
    /\ running # None => batch[running[1]].state = "executing"

\* What was completed stays as it was through every replay and every later
\* Batch; only an explicit reset of the period takes it back.
CompletedStep ==
    \A t \in Todos : IsDone(t) =>
        IF resets' = resets THEN todo'[t].status = "completed" /\ todo'[t].done = todo[t].done
        ELSE todo'[t].status = "pending"
CompletedKept == [][CompletedStep]_vars

\* No Batch executes past a human gate of an earlier run: the blocker of that
\* gate is closed by its release or a reset, never by starting another attempt.
HumanBlockerStep ==
    \A b \in B, t \in Todos :
        (/\ blocker[b][t] # None /\ blocker[b][t].kind = "human_required"
         /\ blocker'[b][t] = None)
        => resets' # resets \/ batch'[b].state = "released"
HumanBlockerKept == [][HumanBlockerStep]_vars

KeptStep == CompletedStep /\ HumanBlockerStep

\* A game counts as accepted only on a reviewed seal of exactly the selected
\* Todos, which found every one of them completed.
AcceptedIsProven ==
    Completion = "accepted_done" =>
        \E b \in B : /\ batch[b].state = "sealed" /\ batch[b].reviewed
                     /\ batch[b].outcome = "accepted"
                     /\ \A t \in selected : t \in DOMAIN batch[b].facts /\ batch[b].facts[t] > 0

\* "An operator gate is deliberately not executable" (sqlite_store.py:64).
GateNeedsRelease ==
    [][\A t \in gated : todo[t].status # "in_progress" => todo'[t].status # "in_progress"]_vars

\* "Completed Todo facts remain immutable ... must not silently replay"
\* (manager_todos.py): only session actions are executed a second time.
NotReplayed ==
    \A b \in B : batch[b].replay \subseteq Session

\* A Todo that a Batch was told is eligible can be started by its run.
EligibleCanStart ==
    \A b \in B, t \in Todos :
        (batch[b].state = "executing" /\ t \in batch[b].plan /\ t \in Eligible) => Startable(b, t)

\* "An explicit current-period reset invalidates every older seal"
\* (current_completion.py): what was found before a reset no longer counts.
ResetSupersedes ==
    Completion = "accepted_done" =>
        \A t \in selected : batch[NewestContract].facts[t] = todo[t].done

\* "A newer blocked or review-required contract supersedes an older
\* acceptance" (current_completion.py:6).
NewestDecides ==
    Completion = "accepted_done" =>
        \A b \in B : (/\ batch[b].state = "sealed" /\ batch[b].scope = selected
                      /\ batch[b].seal > batch[NewestContract].seal
                      /\ batch[b].outcome # None)
                     => batch[b].outcome = "accepted"
=============================================================================
