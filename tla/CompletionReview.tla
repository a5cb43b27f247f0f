------------------------- MODULE CompletionReview -------------------------
(***************************************************************************)
(* The review barrier of one Batch and its seal: the Manager opens an      *)
(* evidence review for every final GameRun, named Agents answer it, and a  *)
(* worker, the watchdog, the Agent's request or a cancellation seals the   *)
(* Batch from what the adjudication of CompletionContract says of every    *)
(* run.  What the ledger says of the finished attempts is frozen: Init     *)
(* picks it from Ledgers.                                                  *)
(***************************************************************************)
EXTENDS CompletionContract, Sequences

CONSTANTS Runs,      \* the final GameRuns of the Batch, a sequence
          Todos,     \* their frozen Todos
          Artifacts, \* the artifacts of those Todos
          Ledgers,   \* the frozen facts a behaviour may start from
          Threads,   \* who resumes the review phase
          Earlier,   \* the attempt (and GameRun) a carried Todo was done in
          DayEnd,    \* the GameDay is [1, DayEnd), and time stops there
          MaxCrash   \* bound on crashes of the Manager

ASSUME ReviewAssumption == DayEnd \in Nat \ {0} /\ MaxCrash \in Nat

\* What a review is stored as: verdicts on Todos, observations of rules.
Rules         == UNION {DOMAIN f.rules[Runs[i]] : f \in Ledgers, i \in DOMAIN Runs}
Partial(S, T) == UNION {[D -> T] : D \in SUBSET S}
ReviewRows ==
    [decision : {"accepted", "rejected", "review_required"}, refs : SUBSET Artifacts,
     verdicts : Partial(Todos, [verdict : {"confirmed", "rejected"}, refs : SUBSET Artifacts]),
     observations : Partial(Rules, [holds : BOOLEAN, refs : SUBSET Artifacts]),
     at : 1 .. DayEnd]

\* No row and no list of screenshots is None.
ASSUME NoneAssumption == None \notin ReviewRows /\ \A A \in SUBSET Artifacts : None # A

VARIABLES ledger,   \* the frozen facts
          damaged,  \* artifacts whose file no longer matches its record
          now,      \* the clock
          elapsed,  \* the barrier of the review phase has run out
          batch,    \* the Batch row
          offered,  \* run -> the artifacts of its open review item, or None
          review,   \* run -> its newest completion review, or None
          thread,   \* what every resuming thread knows
          crashes
vars == <<ledger, damaged, now, elapsed, batch, offered, review, thread, crashes>>

RunSet == {Runs[i] : i \in DOMAIN Runs}

\* What the adjudication sees of a review.
ReviewFacts ==
    [own : {TRUE}, run : RunSet, attempt : RunSet, sameDay : {TRUE}, at : 1 .. DayEnd,
     decision : {"accepted", "rejected", "review_required"}, refs : SUBSET Artifacts,
     verdicts : Partial(Todos, [verdict : {"confirmed", "rejected"}, refs : SUBSET Artifacts]),
     observations : Partial(Rules, [holds : BOOLEAN, refs : SUBSET Artifacts]), promoted : {"no"}]

\* A Batch has a run, an attempt ends no earlier than its GameDay begins, and
\* neither a time nor a run is None.
ASSUME FactsAssumption ==
    /\ Runs \in Seq(RunSet) /\ Runs # <<>> /\ None \notin Nat \cup RunSet \cup ReviewFacts
    /\ \A f \in Ledgers : /\ \A r \in RunSet : f.attempt[r].completed \in Nat \ {0}
                           /\ \A e \in Artifacts : f.artifact[e].captured \in Nat

Idle   == [at |-> "idle", expired |-> FALSE, rejected |-> FALSE, cancels |-> FALSE,
           left |-> <<>>, contracts |-> <<>>]

---------------------------------------------------------------------------
(* The snapshot of one run                                                 *)

TodosOf(r)    == {t \in Todos : ledger.todo[t].run = r}
RequiredOf(r) == {t \in TodosOf(r) : ledger.todo[t].required}
IsDone(t)     == ledger.todo[t].status = "completed"

\* A completed Todo the run did not execute itself was done by Earlier.
OwnerOf(t) == IF ledger.todo[t].carried THEN Earlier
              ELSE IF ledger.todo[t].status = "pending" THEN None ELSE ledger.todo[t].run

RefsOf(t) == {e \in Artifacts : ledger.artifact[e].todo = t /\ ledger.artifact[e].cited}

LineageOf(r) ==
    LET own == ledger.attempt[r]
    IN  [a \in {r} \cup {OwnerOf(t) : t \in {t \in TodosOf(r) : ledger.todo[t].carried}} |->
            IF a = r THEN [own |-> TRUE, run |-> r, state |-> own.state,
                           started |-> 1, completed |-> own.completed]
            ELSE [own |-> TRUE, run |-> Earlier, state |-> "partial", started |-> 1, completed |-> 1]]

TodoFacts(r) ==
    [t \in TodosOf(r) |->
        [required |-> ledger.todo[t].required, status |-> ledger.todo[t].status,
         own |-> TRUE, sameDay |-> TRUE, upstream |-> ledger.todo[t].upstream,
         run |-> OwnerOf(t), attempt |-> OwnerOf(t),
         completed |-> IF IsDone(t) THEN 1 ELSE None, refs |-> RefsOf(t)]]

\* Cited evidence, what a review cites, and the screenshots of the current attempt.
EvidenceOf(r) ==
    {e \in Artifacts : LET f == ledger.artifact[e] IN
        /\ f.todo \in TodosOf(r)
        /\ \/ f.cited
           \/ review[r] # None /\ e \in review[r].refs
           \/ f.image /\ OwnerOf(f.todo) = r}

EvidenceFacts(r) ==
    [e \in EvidenceOf(r) |-> LET f == ledger.artifact[e] IN
        [own |-> TRUE, run |-> OwnerOf(f.todo), attempt |-> OwnerOf(f.todo), todo |-> f.todo,
         kind |-> f.kind, sameDay |-> TRUE, captured |-> f.captured, intact |-> e \notin damaged,
         allowed |-> TRUE, image |-> f.image, raw |-> f.raw, hash |-> f.hash]]

BlockerFacts(r) ==
    {[own |-> TRUE, run |-> r, attempt |-> r, sameDay |-> TRUE] :
        t \in {t \in TodosOf(r) : ledger.todo[t].status \in {"blocked", "human_required"}}}

ReviewFact(r) ==
    IF review[r] = None THEN None
    ELSE [own |-> TRUE, run |-> r, attempt |-> r, sameDay |-> TRUE, at |-> review[r].at,
          decision |-> review[r].decision, refs |-> review[r].refs,
          verdicts |-> review[r].verdicts, observations |-> review[r].observations,
          promoted |-> "no"]

\* The reset shape of the frozen Todos decides whether a policy is supported.
PolicyOf(r) == [available |-> ledger.supported, window |-> TRUE, rules |-> ledger.rules[r]]

Snapshot(r) ==
    [day |-> [start |-> 1, end |-> DayEnd], run |-> r, current |-> r,
     lineage |-> LineageOf(r), todos |-> TodoFacts(r), evidence |-> EvidenceFacts(r),
     blockers |-> BlockerFacts(r), review |-> ReviewFact(r), policy |-> PolicyOf(r)]

\* What the immutable contract keeps of the decision.
Contract(r) ==
    LET s == Snapshot(r)
    IN  [outcome  |-> Outcome(s),
         reviewed |-> review[r] # None,
         excluded |-> DOMAIN s.evidence \ AcceptedEvidence(s),
         blockers |-> s.blockers]

---------------------------------------------------------------------------
(* The review item and the Agent's answer                                  *)

\* The screenshots of the lineage that the review item shows.
Screenshots(r) ==
    {e \in EvidenceOf(r) : LET f == ledger.artifact[e] IN
        f.image /\ OwnerOf(f.todo) # None /\ 1 <= f.captured /\ f.captured < DayEnd}

\* Only a run whose attempt and required Todos completed can still be accepted.
CanChangeOutcome(r) ==
    /\ ledger.attempt[r].state = "completed"
    /\ RequiredOf(r) # {}
    /\ \A t \in RequiredOf(r) : IsDone(t)

\* An accepted pre-v2 review without Todo verdicts is history, not authority.
Reviewed(r) ==
    review[r] # None /\ (review[r].decision = "accepted" => review[r].verdicts # <<>>)

Citations(A)     == {{e} : e \in A} \cup ({A} \ {{}})   \* never nothing

\* Every verdict and every observation cites at least one artifact.
Submissions(r) ==
    LET A == offered[r]
        accepts == [decision : {"accepted"}, refs : {A},
                    verdicts : [RequiredOf(r) -> [verdict : {"confirmed"}, refs : Citations(A)]],
                    observations : [DOMAIN ledger.rules[r] -> [holds : BOOLEAN, refs : Citations(A)]]]
        bare    == [decision : {"accepted", "review_required"}, refs : {{}, A},
                    verdicts : {<<>>}, observations : {<<>>}]
        rejects == {sub \in [decision : {"accepted", "rejected"}, refs : Citations(A),
                             verdicts : UNION {[{t} -> [verdict : {"rejected"}, refs : Citations(A)]] :
                                                  t \in RequiredOf(r)},
                             observations : {<<>>}] :
                        \A t \in DOMAIN sub.verdicts : sub.verdicts[t].refs = sub.refs}
    IN  accepts \cup bare \cup rejects

\* The owner and the time of one piece of cited evidence, for any decision.
MayCite(r, e) ==
    LET f == ledger.artifact[e] IN
    /\ e \in offered[r]
    /\ OwnerOf(f.todo) = r                    \* document.runId is the reviewed run
    /\ f.cited                                \* in the terminal TodoAttempt's refs
    /\ 1 <= f.captured /\ f.captured < DayEnd /\ f.captured <= now
    /\ f.raw /\ f.image

Unambiguous(refs) ==
    \A e, f \in refs :
        LET a == ledger.artifact[e]
            b == ledger.artifact[f]
        IN  a.hash = b.hash => a.todo = b.todo /\ a.kind = b.kind

MayAccept(r, sub) ==
    /\ ledger.attempt[r].state = "completed"
    /\ now < DayEnd
    /\ ledger.supported
    /\ DOMAIN sub.verdicts = RequiredOf(r)
    /\ \A t \in RequiredOf(r) : IsDone(t) /\ sub.verdicts[t].verdict = "confirmed"
    /\ DOMAIN sub.observations = DOMAIN ledger.rules[r]
    /\ \A p \in DOMAIN sub.observations : sub.observations[p].holds
    /\ sub.refs # {} /\ sub.refs \cap damaged = {}
    /\ Unambiguous(sub.refs)
    /\ \E e \in sub.refs : OwnerOf(ledger.artifact[e].todo) = r

AnyVerdicts(sub) == \A t \in DOMAIN sub.verdicts : sub.verdicts[t].refs \subseteq sub.refs
OwnVerdicts(sub) ==
    \A t \in DOMAIN sub.verdicts :
        /\ sub.verdicts[t].refs \subseteq sub.refs
        /\ \A e \in sub.verdicts[t].refs : ledger.artifact[e].todo = t

\* An observation is of a rule of the contract, and cites what the rule allows.
OwnObservations(r, sub) ==
    /\ DOMAIN sub.observations \subseteq DOMAIN ledger.rules[r]
    /\ \A p \in DOMAIN sub.observations :
          /\ sub.observations[p].refs \subseteq sub.refs
          /\ \A e \in sub.observations[p].refs : /\ ledger.artifact[e].todo \in RequiredOf(r)
                                                 /\ ledger.artifact[e].kind \in ledger.rules[r][p]

Validates(r, sub) ==
    /\ ledger.attempt[r].completed <= now
    /\ RequiredOf(r) # {}
    /\ \A e \in sub.refs : MayCite(r, e)
    /\ DOMAIN sub.verdicts \subseteq RequiredOf(r)
    /\ OwnVerdicts(sub) /\ OwnObservations(r, sub)
    /\ sub.decision = "accepted" => MayAccept(r, sub)

\* One transaction records the review and resolves the item of its claim.
Decide(r) ==
    /\ offered[r] # None
    /\ \E sub \in Submissions(r) :
         /\ Validates(r, sub)
         /\ review' = [review EXCEPT ![r] =
                [decision |-> sub.decision, refs |-> sub.refs, verdicts |-> sub.verdicts,
                 observations |-> sub.observations, at |-> now]]
    /\ offered' = [offered EXCEPT ![r] = None]
    /\ UNCHANGED <<ledger, damaged, now, elapsed, batch, thread, crashes>>

---------------------------------------------------------------------------
(* The phase                                                               *)

\* A run the review phase asks an Agent about.
Asked(r) == ~HasUpstreamResults(Snapshot(r)) /\ ~Reviewed(r)

EnsureOne(R) == offered' = [r \in RunSet |->
    IF r \in R /\ r = (CHOOSE x \in R : TRUE) THEN Screenshots(r) ELSE offered[r]]
\* An open item with the same scope is kept, with the newer screenshots.
Ensure(R) == offered' = [r \in RunSet |->
    IF r \in R THEN Screenshots(r) \cup (IF offered[r] = None THEN {} ELSE offered[r])
    ELSE offered[r]]

BeginPhase ==
    /\ batch.phase = "running"
    /\ LET asked == {r \in RunSet : Asked(r)} IN
       /\ Ensure(asked)
       /\ batch' = [batch EXCEPT !.phase = "awaiting",
                                 !.awaiting = {r \in asked : CanChangeOutcome(r)}]
    /\ UNCHANGED <<ledger, damaged, now, elapsed, review, thread, crashes>>

\* _resume_completion_review_batch: read the row and the age of the barrier.
Resume(p) ==
    /\ thread[p].at = "idle" /\ batch.phase = "awaiting"
    /\ thread' = [thread EXCEPT ![p] = [Idle EXCEPT !.at = "look", !.expired = elapsed]]
    /\ UNCHANGED <<ledger, damaged, now, elapsed, batch, offered, review, crashes>>

StillAwaitedUntilFirst(p) ==
    IF \E r \in RunSet : Reviewed(r) THEN {}
    ELSE {r \in RunSet : Asked(r) /\ ~thread[p].expired /\ CanChangeOutcome(r)}
StillAwaitedForever(p) == {r \in RunSet : Asked(r) /\ CanChangeOutcome(r)}
StillAwaited(p) ==
    {r \in RunSet : Asked(r) /\ ~thread[p].expired /\ CanChangeOutcome(r)}

AnyRefused ==
    \E r \in RunSet : ~HasUpstreamResults(Snapshot(r)) /\ Reviewed(r) /\ review[r].decision # "accepted"

\* One transaction; the update of a sealed row raises and undoes it.
Look(p) ==
    /\ thread[p].at = "look"
    /\ IF StillAwaited(p) # {}
       THEN /\ thread' = [thread EXCEPT ![p] = Idle]
            /\ IF batch.phase = "sealed"
               THEN UNCHANGED <<batch, offered>>
               ELSE /\ Ensure({r \in RunSet : Asked(r)})
                    /\ batch' = [batch EXCEPT !.awaiting = StillAwaited(p)]
       ELSE /\ Ensure({r \in RunSet : Asked(r)})
            /\ thread' = [thread EXCEPT ![p] =
                  [@ EXCEPT !.at = "adjudicate", !.left = Runs, !.rejected = AnyRefused]]
            /\ UNCHANGED batch
    /\ UNCHANGED <<ledger, damaged, now, elapsed, review, crashes>>

\* _seal_cancelled_batch goes straight to the seal, once nothing runs.
CancelBatch(p) ==
    /\ thread[p].at = "idle" /\ batch.phase # "sealed"
    /\ thread' = [thread EXCEPT ![p] =
           [Idle EXCEPT !.at = "adjudicate", !.left = Runs, !.cancels = TRUE]]
    /\ UNCHANGED <<ledger, damaged, now, elapsed, batch, offered, review, crashes>>

\* The runs are adjudicated one after the other, outside any transaction.
Adjudicated(w) ==
    LET r == Head(w.left) IN
    [w EXCEPT !.left = Tail(@),
              !.contracts = [x \in DOMAIN @ \cup {r} |-> IF x = r THEN Contract(r) ELSE @[x]],
              !.at = IF Len(w.left) = 1 THEN "seal" ELSE "adjudicate"]
Adjudicate(p) ==
    /\ thread[p].at = "adjudicate"
    /\ thread' = [thread EXCEPT ![p] = IF batch.phase = "sealed" /\ @.left = Runs THEN Idle ELSE Adjudicated(@)]
    /\ UNCHANGED <<ledger, damaged, now, elapsed, batch, offered, review, crashes>>

Completes(r) == ledger.attempt[r].state = "completed"

AcceptedThoughDeferred(p) ==
    /\ ~thread[p].cancels
    /\ \A r \in RunSet : thread[p].contracts[r].outcome = "accepted_done" /\ Completes(r)
\* Every part of the frozen scope must have been finished and accepted.
AcceptedDone(p) ==
    /\ ~thread[p].cancels
    /\ \A r \in RunSet : thread[p].contracts[r].outcome = "accepted_done" /\ Completes(r)
    /\ \A t \in Todos : ledger.todo[t].required => IsDone(t)
    /\ ~ledger.deferred

SealedStateFailed(p) == IF AcceptedDone(p) THEN "done" ELSE "failed"
SealedState(p) ==
    IF AcceptedDone(p) THEN "done"
    ELSE IF thread[p].cancels THEN "cancelled"
    ELSE IF thread[p].rejected \/ (\E r \in RunSet : ~Completes(r)) THEN "blocked"
    ELSE "review_required"

\* What the seal writes into the Batch, from the contracts of this thread.
FrozenResult(p) ==
    [phase |-> "sealed", awaiting |-> {}, state |-> SealedState(p),
     accepted |-> AcceptedDone(p), contracts |-> thread[p].contracts]

\* Store.seal_batch: the first seal wins, a second one returns it.
MaySealAgain == TRUE
MaySeal == batch.phase # "sealed"
Seal(p) ==
    /\ thread[p].at = "seal"
    /\ batch' = IF MaySeal THEN FrozenResult(p) ELSE batch
    /\ thread' = [thread EXCEPT ![p] = Idle]
    /\ UNCHANGED <<ledger, damaged, now, elapsed, offered, review, crashes>>

---------------------------------------------------------------------------
(* The world                                                               *)

Tick ==
    /\ now < DayEnd
    /\ now' = now + 1
    /\ UNCHANGED <<ledger, damaged, elapsed, batch, offered, review, thread, crashes>>

BarrierElapses ==
    /\ batch.phase = "awaiting" /\ ~elapsed
    /\ elapsed' = TRUE
    /\ UNCHANGED <<ledger, damaged, now, batch, offered, review, thread, crashes>>

\* A file of the artifact store is rewritten or lost.
Damage ==
    /\ damaged = {} /\ ledger.fragile
    /\ \E e \in Artifacts : damaged' = {e}
    /\ UNCHANGED <<ledger, now, elapsed, batch, offered, review, thread, crashes>>

Crash ==
    /\ crashes < MaxCrash
    /\ crashes' = crashes + 1
    /\ thread' = [p \in Threads |-> Idle]
    /\ UNCHANGED <<ledger, damaged, now, elapsed, batch, offered, review>>

Init ==
    /\ ledger \in Ledgers
    /\ damaged = {} /\ elapsed = FALSE /\ crashes = 0
    /\ now \in 1..DayEnd /\ \A r \in RunSet : ledger.attempt[r].completed <= now
    /\ batch = [phase |-> "running", awaiting |-> {}, state |-> "running",
                accepted |-> FALSE, contracts |-> <<>>]
    /\ offered = [r \in RunSet |-> None]
    /\ review = [r \in RunSet |-> None]
    /\ thread = [p \in Threads |-> Idle]

Resumer(p) == Resume(p) \/ Look(p) \/ Adjudicate(p) \/ Seal(p)

Next ==
    \/ BeginPhase \/ Tick \/ BarrierElapses \/ Damage \/ Crash
    \/ \E r \in RunSet : Decide(r)
    \/ \E p \in Threads : Resumer(p) \/ CancelBatch(p)

Spec == Init /\ [][Next]_vars

\* The watchdog resumes a pending phase at every tick, the barrier is a real
\* timer, and a queue whose runs have ended begins the phase (also at startup).
FairSpec ==
    /\ Spec
    /\ WF_vars(BeginPhase) /\ WF_vars(BarrierElapses)
    /\ \A p \in Threads : WF_vars(Resumer(p))

---------------------------------------------------------------------------
(* Properties                                                              *)

TypeOK ==
    /\ ledger \in Ledgers /\ damaged \subseteq Artifacts
    /\ now \in 1..DayEnd /\ elapsed \in BOOLEAN /\ crashes \in 0..MaxCrash
    /\ batch.phase \in {"running", "awaiting", "sealed"} /\ batch.awaiting \subseteq RunSet
    /\ batch.state \in {"running", "done", "cancelled", "blocked", "review_required"}
    /\ \A r \in RunSet : offered[r] = None \/ offered[r] \subseteq Artifacts
    /\ \A p \in Threads : thread[p].at \in {"idle", "look", "adjudicate", "seal"}

\* A Batch is accepted as done only when nothing of its scope was deferred and
\* an Agent's review, given within the GameDay, confirmed every required Todo
\* of every run on raw screenshots of that Todo which no other Todo reuses,
\* every required metric was observed, no Todo of a run was blocked and the
\* attempt itself completed.
AcceptedIsProven ==
    batch.accepted =>
        /\ ~ledger.deferred
        /\ \A r \in RunSet :
             /\ Completes(r) /\ BlockerFacts(r) = {} /\ RequiredOf(r) # {}
             /\ review[r] # None /\ review[r].decision = "accepted" /\ review[r].at < DayEnd
             /\ \A t \in RequiredOf(r) :
                  /\ IsDone(t) /\ review[r].verdicts[t].verdict = "confirmed"
                  /\ \E e \in review[r].verdicts[t].refs :
                       LET f == ledger.artifact[e] IN
                       /\ f.todo = t /\ f.raw /\ f.image /\ f.captured \in 1..(DayEnd - 1)
                       /\ \A g \in Screenshots(r) :
                            ledger.artifact[g].hash = f.hash => ledger.artifact[g].todo = t
             /\ \A p \in DOMAIN ledger.rules[r] : review[r].observations[p].holds

\* The API and the adjudication agree: a review that was validated and that
\* the adjudication of the seal saw makes the run accepted, unless evidence
\* of the run was damaged or ambiguous then, or a Todo holds a blocker.
ValidatedIsAccepted ==
    batch.phase = "sealed" =>
        \A r \in RunSet :
            LET c == batch.contracts[r] IN
            /\ c.reviewed /\ review[r].decision = "accepted"
            /\ c.excluded = {} /\ c.blockers = {}
            => c.outcome = "accepted_done"

\* Before the barrier runs out a Batch is sealed only by a cancellation, or
\* when every run that a review could still accept has been reviewed.
NotSealedEarly ==
    batch.phase = "sealed" /\ batch.state # "cancelled" /\ ~elapsed =>
        \A r \in DOMAIN review : \/ HasUpstreamResults(Snapshot(r))
                                 \/ ~CanChangeOutcome(r)
                                 \/ review[r] # None

\* While the seal waits for a run, an Agent can still answer for it (or has
\* answered): a review item is open.
AwaitedIsAsked ==
    batch.phase = "awaiting" =>
        \A r \in batch.awaiting : offered[r] # None \/ review[r] # None

\* A Batch is accepted only on proof, a validated review makes its run accepted,
\* and no review that could still come is cut off or left without an open work
\* item (resume_completion_review, seal_batch).
ReviewProven == AcceptedIsProven /\ ValidatedIsAccepted /\ NotSealedEarly /\ AwaitedIsAsked

\* A sealed Batch never changes, whoever else was about to seal it.
SealIsFinal == [][batch.phase = "sealed" => batch' = batch]_batch

\* A Batch under review is sealed in the end, with or without an answer.
ReviewEnds == (batch.phase = "awaiting") ~> (batch.phase = "sealed")

\* docs/integrations/orchestration-contract.md: screenshots are no gate on what
\* an upstream tool reports as done, so such a run needs no further evidence.
UpstreamDecides ==
    batch.phase = "sealed" =>
        \A r \in RunSet :
            (/\ HasUpstreamResults(Snapshot(r)) /\ CanChangeOutcome(r)
             /\ damaged = {} /\ BlockerFacts(r) = {})
            => batch.contracts[r].outcome # "review_required"

\* services/completion_contract.py on the lineage: a successor batch can skip
\* what a predecessor GameRun completed, so an Agent can accept such a run.
CarriedCanBeAccepted ==
    \A r \in RunSet :
        (/\ offered[r] # None /\ CanChangeOutcome(r) /\ now < DayEnd /\ damaged = {}
         /\ Unambiguous(EvidenceOf(r)) /\ DOMAIN ledger.rules[r] = {}
         /\ \A t \in RequiredOf(r) : \E e \in RefsOf(t) : ledger.artifact[e].raw /\ e \in offered[r])
        => \E sub \in Submissions(r) : sub.decision = "accepted" /\ Validates(r, sub)
===========================================================================
