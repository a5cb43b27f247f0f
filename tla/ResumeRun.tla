----------------------------- MODULE ResumeRun -----------------------------
(***************************************************************************)
(* A successor attempt of one GameRun.  A resume command commits an intent *)
(* and leaves the run pending; its thread then prepares the attempt,       *)
(* launches the game, hands over to the Host and settles the intent.       *)
(* Around it: a second resume, takeover, its release, a cancellation, the  *)
(* Host's callback, the watchdog of orphans and a restart.                 *)
(***************************************************************************)
EXTENDS Integers, Sequences, TLC

CONSTANTS Commands,    \* the threads that serve resume commands
          Todos,
          Memberships, \* whether the run is the one member of an unsealed batch: a set of BOOLEAN
          Startable,   \* how a launch may end: a subset of LaunchEnds
          MaxAttempts, \* bound on the attempts of the run
          MaxIntents,  \* bound on its resume intents
          MaxControls, \* bound on takeovers, releases and cancellations
          MaxCrashes   \* bound on the crashes of the Manager

LaunchEnds == {"launched", "refused", "human", "failed"}

ResumeAssumption == /\ {MaxAttempts, MaxIntents, MaxControls, MaxCrashes} \subseteq Nat
                           /\ Memberships \subseteq BOOLEAN /\ Startable \subseteq LaunchEnds

VARIABLES run,      \* state of the GameRun
          attempts, \* its attempts in order: state, launch phase and whether the lease is active
          intents,  \* its resume intents in order: predecessor, state and successor
          todo,     \* Todo -> what the snapshot of a resume sees of it
          takeover, \* a takeover request that no one released
          member,   \* the membership: state, intent and attempt
          ready,    \* the batch is ready_for_resume and has no completion review
          host,     \* the attempt the Host runs, or 0
          stop,     \* the Host was told to cancel
          owed,     \* a committed takeover or cancellation whose delivery is to come
          thr,      \* Command -> where its thread is
          cb,       \* the completion callback of the Host
          closed,   \* the attempts whose game the Manager closed
          up, controls, crashes
Interchangeable == Permutations(Commands)
batchVars == <<member, ready>>
vars == <<run, attempts, intents, todo, takeover, member, ready, host, stop, owed, thr, cb,
          closed, up, controls, crashes>>

LiveStates == {"starting", "running", "cancelling"}
Last      == Len(attempts)
Newest    == Len(intents)
LiveAtt(a) == attempts[a].state \in LiveStates
SomeLive  == \E a \in DOMAIN attempts : LiveAtt(a)
Leased    == \E a \in DOMAIN attempts : attempts[a].lease
Idle      == [pc |-> "idle", intent |-> 0, att |-> 0, seen |-> "", scope |-> {}]
NoCall    == [pc |-> "none", att |-> 0, by |-> "none", res |-> "none", control |-> "none"]
InBatch   == member.state # "none"
MyAtt(c)    == thr[c].att
MyIntent(c) == thr[c].intent

Init == /\ \E s \in {"failed", "completed", "human_required"}, launch \in {"human", "host"} :
              /\ (launch = "human" => s = "human_required")
              /\ run = IF s = "completed" THEN "review_required" ELSE s
              /\ attempts = <<[state |-> s, launch |-> launch, lease |-> FALSE]>>
        /\ intents = <<>> /\ takeover = FALSE
        /\ todo \in [Todos -> {"pending", "human"}]
        /\ ready \in Memberships
        /\ member = [state |-> IF ready THEN "terminal" ELSE "none", intent |-> 0, att |-> 1]
        /\ host = 0 /\ stop = FALSE /\ owed = "none"
        /\ thr = [c \in Commands |-> Idle] /\ cb = NoCall /\ closed = {}
        /\ up = TRUE /\ controls = 0 /\ crashes = 0

Goto(c, pc) == thr' = [thr EXCEPT ![c].pc = pc]
EndLease(a) == [attempts EXCEPT ![a].lease = FALSE]
(* update_run_attempt: the transitions the store accepts of a live attempt. *)
Accepts(a, s) == /\ LiveAtt(a)
                 /\ attempts[a].state = "cancelling" => s \notin {"running", "completed"}
(* _terminalize_unsealed_batch_memberships *)
TerminalMember(a) ==
    IF member.state \in {"active", "resume_pending", "reconciliation_required"}
    THEN [member EXCEPT !.state = "terminal", !.att = a] ELSE member

---------------------------------------------------------------------------
(* The commands                                                            *)

Eligible == {t \in Todos : todo[t] = "pending"}
Deferred == Todos \ (Eligible \cup {t \in Todos : todo[t] = "completed"})
LaunchGate == /\ run = "human_required"
              /\ attempts[Last].launch = "human" /\ attempts[Last].state = "human_required"

ResumableAny == TRUE                    \* mutant: an attempt that still runs is replaced
Resumable == ~LiveAtt(Last)

Executes == Eligible # {} /\ Deferred = {} /\ (InBatch => ready)

(* A resume command commits its intent: execute, or only reconcile. *)
\* What create_or_get_resume_intent writes, what becomes of the run, and of its membership.
Intent == [pred |-> Last, succ |-> 0,
           state |-> IF Executes THEN "successor_pending"
                     ELSE IF Deferred # {} \/ Eligible # {} THEN "reconciliation_required"
                     ELSE "no_execution"]
RunAfter == IF Executes THEN "pending_execution"
            ELSE IF \E t \in Todos : todo[t] \in {"human", "bare"} THEN "human_required"
            ELSE "review_required"
MemberAfter == IF Executes /\ InBatch
               THEN [state |-> "resume_pending", intent |-> Newest + 1, att |-> Last] ELSE member

\* What the committed command hands to the start of the successor.
Successor == [Idle EXCEPT !.pc = "read", !.intent = Newest + 1, !.scope = Eligible]

ResumeTx(c) ==
    /\ up /\ thr[c].pc = "idle" /\ Newest < MaxIntents /\ Last < MaxAttempts
    /\ run \notin {"done", "cancelled", "cancelling"}
    /\ ~LaunchGate /\ Resumable
    /\ intents' = Append(intents, Intent) /\ run' = RunAfter /\ member' = MemberAfter
    /\ thr' = IF Executes THEN [thr EXCEPT ![c] = Successor] ELSE thr
    /\ UNCHANGED <<attempts, todo, takeover, ready, host, stop, owed, cb, closed, up, controls, crashes>>

CanControl == up /\ controls < MaxControls /\ controls' = controls + 1 /\ owed = "none"

Takeover ==
    /\ CanControl /\ run \notin {"done", "cancelled"}
    /\ takeover' = TRUE /\ run' = "human_required" /\ owed' = "takeover"
    /\ attempts' = IF LiveAtt(Last) THEN EndLease(Last) ELSE attempts
    /\ UNCHANGED <<intents, todo, batchVars, host, stop, thr, cb, closed, up, crashes>>

(* The release resolves the human gates; every gated Todo is to be reviewed. *)
ReleaseTakeover ==
    /\ CanControl /\ run \notin {"done", "cancelled"}
    /\ run = "human_required" \/ takeover \/ \E t \in Todos : todo[t] = "human"
    /\ run' = "review_required" /\ takeover' = FALSE
    /\ todo' = [t \in Todos |-> IF todo[t] \in {"human", "bare"} THEN "review" ELSE todo[t]]
    /\ UNCHANGED <<attempts, intents, batchVars, host, stop, owed, thr, cb, closed, up, crashes>>

CancelLive ==
    /\ run \in {"running", "cancelling"} \/ (run = "pending_execution" /\ LiveAtt(Last))
    /\ attempts' = IF LiveAtt(Last)
                   THEN [EndLease(Last) EXCEPT ![Last].state = "cancelling"] ELSE attempts
    /\ run' = "cancelling" /\ owed' = "cancel" /\ UNCHANGED intents
CancelPending ==
    /\ run = "pending_execution" /\ ~LiveAtt(Last) /\ host = 0 /\ ~Leased
    /\ run' = "cancelled"
    /\ intents' = [i \in DOMAIN intents |->
         IF intents[i].state \in {"successor_pending", "successor_dispatched"}
         THEN [intents[i] EXCEPT !.state = "successor_failed"] ELSE intents[i]]
    /\ UNCHANGED <<attempts, owed>>
CancelRun ==
    /\ CanControl /\ (CancelLive \/ CancelPending)
    /\ UNCHANGED <<todo, takeover, batchVars, host, stop, thr, cb, closed, up, crashes>>

(* Delivery comes after the commit; a cancellation waits for the handoff lock. *)
LockFree == \A c \in Commands : thr[c].pc # "spawn"
Deliver ==
    /\ up /\ owed # "none" /\ (owed = "cancel" => LockFree)
    /\ owed' = "none" /\ stop' = (stop \/ host # 0)
    /\ UNCHANGED <<run, attempts, intents, todo, takeover, batchVars, host, thr, cb, closed, up, controls, crashes>>

---------------------------------------------------------------------------
(* The thread that starts the successor                                    *)

KeepRest == UNCHANGED <<todo, takeover, host, stop, owed, cb, closed, up, controls, crashes>>

ReadRun(c) ==
    /\ thr[c].pc = "read"
    /\ thr' = [thr EXCEPT ![c].pc = "prepare", ![c].seen = run]
    /\ UNCHANGED <<run, attempts, intents, batchVars>> /\ KeepRest

(* validate_resume_intent *)
OwnsNewestAny(c) == TRUE                \* mutant: the intent is not looked up again
OwnsNewest(c) == MyIntent(c) = Newest /\ intents[Newest].state = "successor_pending"

MayPrepare(c) == /\ host = 0 /\ ~Leased
                 /\ run = thr[c].seen /\ run # "cancelled"
                 /\ OwnsNewest(c) /\ Last = intents[MyIntent(c)].pred

Prepare(c) ==
    /\ thr[c].pc = "prepare" /\ MayPrepare(c)
    /\ attempts' = Append(attempts, [state |-> "starting", launch |-> "pre", lease |-> TRUE])
    /\ intents' = [intents EXCEPT ![MyIntent(c)].succ = Last + 1]
    /\ member' = IF member.state \in {"resume_pending", "reconciliation_required", "active"}
                 THEN [member EXCEPT !.state = "active", !.att = Last + 1] ELSE member
    /\ thr' = [thr EXCEPT ![c].pc = "mark", ![c].att = Last + 1]
    /\ UNCHANGED <<run, ready>> /\ KeepRest

(* The desktop may be quarantined or leased to another run. *)
PrepareRefused(c) ==
    /\ thr[c].pc = "prepare" /\ (~MayPrepare(c) \/ "refused" \in Startable)
    /\ Goto(c, "fail") /\ UNCHANGED <<run, attempts, intents, batchVars>> /\ KeepRest

(* The attempt and then the run are written running, before the launch and again in it. *)
MarkAttempt(c) ==
    /\ thr[c].pc \in {"mark", "again"}
    /\ IF Accepts(MyAtt(c), "running")
       THEN /\ attempts' = [attempts EXCEPT ![MyAtt(c)].state = "running"]
            /\ Goto(c, IF thr[c].pc = "mark" THEN "write" ELSE "rewrite")
       ELSE /\ Goto(c, IF thr[c].pc = "mark" THEN "fail" ELSE "failed") /\ UNCHANGED attempts
    /\ UNCHANGED <<run, intents, batchVars>> /\ KeepRest
MarkRun(c) ==
    /\ thr[c].pc \in {"write", "rewrite"}
    /\ run' = "running" /\ Goto(c, IF thr[c].pc = "write" THEN "again" ELSE "gate")
    /\ UNCHANGED <<attempts, intents, batchVars>> /\ KeepRest

StillStarting(c) == attempts[MyAtt(c)].state \in {"starting", "running"}
(* The other games of the queue are closed first: a human gate of one of them, or one *)
(* that cannot be closed, is a person's.                                              *)
QueueClosed == IF InBatch /\ "human" \in Startable THEN {"launch", "human"} ELSE {"launch"}
CleanupGate(c) ==
    /\ thr[c].pc = "gate"
    /\ \E next \in QueueClosed :
          Goto(c, IF ~StillStarting(c) THEN "cancelled"
                  ELSE IF run = "human_required" THEN "human" ELSE next)
    /\ UNCHANGED <<run, attempts, intents, batchVars>> /\ KeepRest

Launch(c) ==
    /\ thr[c].pc = "launch"
    /\ \E e \in Startable \ {"refused"} :
          Goto(c, IF ~StillStarting(c) THEN "cancelled"
                  ELSE IF e = "launched" THEN "handoff" ELSE e)
    /\ UNCHANGED <<run, attempts, intents, batchVars>> /\ KeepRest

(* The handoff lock is held from here until the Host runs (spawn). *)
Handoff(c) ==
    /\ thr[c].pc = "handoff" /\ LockFree
    /\ Goto(c, IF ~OwnsNewest(c) \/ intents[MyIntent(c)].succ # MyAtt(c) \/ ~StillStarting(c)
               THEN "cancelled"
               ELSE IF ~attempts[MyAtt(c)].lease \/ host # 0 THEN "failed" ELSE "spawn")
    /\ UNCHANGED <<run, attempts, intents, batchVars>> /\ KeepRest
Spawn(c) ==
    /\ thr[c].pc = "spawn"
    /\ host' = MyAtt(c) /\ stop' = FALSE /\ Goto(c, "tail")
    /\ attempts' = [attempts EXCEPT ![MyAtt(c)].launch = "host"]
    /\ UNCHANGED <<run, intents, todo, takeover, batchVars, owed, cb, closed, up, controls, crashes>>
(* The attempt is read, and the run is written after it. *)
ReadAttempt(c) ==
    /\ thr[c].pc = "tail"
    /\ thr' = [thr EXCEPT ![c].pc = IF LiveAtt(MyAtt(c)) THEN "tell" ELSE "settle",
                          ![c].seen = attempts[MyAtt(c)].state]
    /\ UNCHANGED <<run, attempts, intents, batchVars>> /\ KeepRest
TellRun(c) ==
    /\ thr[c].pc = "tell"
    /\ run' = IF thr[c].seen = "cancelling" THEN "cancelling" ELSE "running"
    /\ Goto(c, "settle")
    /\ UNCHANGED <<attempts, intents, batchVars>> /\ KeepRest
(* The intent is read, and written after it. *)
ReadIntent(c) ==
    /\ thr[c].pc = "settle"
    /\ thr' = [thr EXCEPT ![c] = IF intents[MyIntent(c)].state = "successor_pending"
                                 THEN [@ EXCEPT !.pc = "dispatched"] ELSE Idle]
    /\ UNCHANGED <<run, attempts, intents, batchVars>> /\ KeepRest
Dispatched(c) ==
    /\ thr[c].pc = "dispatched"
    /\ intents' = [intents EXCEPT ![MyIntent(c)].state = "successor_dispatched",
                                  ![MyIntent(c)].succ = MyAtt(c)]
    /\ thr' = [thr EXCEPT ![c] = Idle]
    /\ UNCHANGED <<run, attempts, batchVars>> /\ KeepRest

---------------------------------------------------------------------------
(* A start that fails                                                      *)

Ended(a, s, launch) ==
    [EndLease(a) EXCEPT ![a].state = IF LiveAtt(a) THEN s ELSE @,
                        ![a].launch = IF LiveAtt(a) /\ launch # "" THEN launch ELSE @]

LaunchCancelled(c) ==
    /\ thr[c].pc = "cancelled"
    /\ attempts' = Ended(MyAtt(c), "cancelled", "") /\ run' = "cancelled"
    /\ member' = TerminalMember(MyAtt(c)) /\ Goto(c, "fail")
    /\ UNCHANGED <<intents, ready>> /\ KeepRest
LaunchHuman(c) ==
    /\ thr[c].pc = "human"
    /\ attempts' = Ended(MyAtt(c), "human_required", "human")
    /\ run' = "human_required"
    /\ member' = TerminalMember(MyAtt(c)) /\ Goto(c, "fail")
    /\ UNCHANGED <<intents, ready>> /\ KeepRest

(* _terminal_game_cleanup_gate: what forbids to close the game of an attempt. *)
Gate(a) ==
    IF run = "human_required" \/ attempts[a].state = "human_required" \/ \E t \in Todos : todo[t] = "human"
    THEN "human_required"
    ELSE IF attempts[a].state \notin {"starting", "running"} \/ run \in {"cancelling", "cancelled"}
            \/ (InBatch /\ member.att = a /\ member.state # "active")
    THEN "cancelled" ELSE "none"

LaunchFailed(c) ==
    /\ thr[c].pc = "failed"
    /\ LET s == IF Gate(MyAtt(c)) = "none" THEN "failed" ELSE Gate(MyAtt(c))
       IN attempts' = Ended(MyAtt(c), s, "") /\ run' = s
    /\ member' = TerminalMember(MyAtt(c)) /\ Goto(c, "fail")
    /\ UNCHANGED <<intents, ready>> /\ KeepRest

(* fail_resume_successor, under the handoff lock. *)
MayFailDispatched(c) == intents[MyIntent(c)].state = "successor_dispatched"  \* mutant: forgets the pending one
MayFail(c) == intents[MyIntent(c)].state \in {"successor_pending", "successor_dispatched", "successor_failed"}
NewestFailed(c) == MyIntent(c) = Newest /\ host = 0 /\ ~Leased /\ ~SomeLive
FailIntent(c) ==
    /\ thr[c].pc = "fail" /\ LockFree
    /\ intents' = IF MayFail(c) THEN [intents EXCEPT ![MyIntent(c)].state = "successor_failed"] ELSE intents
    /\ member' = IF MayFail(c) /\ NewestFailed(c) /\ member.intent = MyIntent(c) /\ member.att = Last
                    /\ member.state \in {"resume_pending", "active"}
                 THEN [member EXCEPT !.state = "terminal"] ELSE member
    /\ Goto(c, IF MayFail(c) /\ NewestFailed(c) THEN "recover" ELSE "finish")
    /\ UNCHANGED <<run, attempts, ready>> /\ KeepRest

(* orphan_pending_execution_candidates *)
OrphanAnyIntent == run = "pending_execution" /\ ~SomeLive  \* mutant: whatever the intents say
Orphan == /\ run = "pending_execution" /\ ~SomeLive /\ ~Leased
          /\ member.state \in {"none", "terminal", "cancelled"}
          /\ Newest > 0 /\ intents[Newest].state = "successor_failed"
          /\ \A i \in DOMAIN intents : intents[i].state \notin {"successor_pending", "successor_dispatched"}
RawOutcome == attempts[Last].state      \* mutant: a completed attempt is no state of a run
Outcome == IF attempts[Last].state = "completed" THEN "review_required" ELSE attempts[Last].state
RecoverNow(c) ==
    /\ thr[c].pc = "recover" /\ LockFree
    /\ run' = IF Orphan /\ host = 0 /\ MyIntent(c) = Newest THEN Outcome ELSE run
    /\ Goto(c, "finish")
    /\ UNCHANGED <<attempts, intents, batchVars>> /\ KeepRest

(* _finish_resumed_batch_attempt: the batch goes to review, or waits for a person. *)
FinishBatch ==
    LET open  == member.state \notin {"terminal", "cancelled"}
        fence == open /\ LiveAtt(Last)
        i     == member.intent
        settled == {"successor_failed", "successor_terminal"} \cup (IF fence THEN {"reconciliation_required"} ELSE {})
    IN  /\ member' = IF fence THEN [member EXCEPT !.state = "reconciliation_required"]
                     ELSE IF open THEN [member EXCEPT !.state = "terminal", !.att = Last] ELSE member
        /\ intents' = IF i # 0 /\ intents[i].state \notin settled
                      THEN [intents EXCEPT ![i].state = IF fence THEN "reconciliation_required"
                                                        ELSE "successor_terminal"]
                      ELSE intents
        /\ ready' = (~fence /\ run = "human_required")
        /\ run' = IF fence THEN "review_required" ELSE run
AfterFailure(c) ==
    /\ thr[c].pc = "finish"
    /\ thr' = [thr EXCEPT ![c] = Idle]
    /\ IF InBatch THEN FinishBatch ELSE UNCHANGED <<run, member, intents, ready>>
    /\ UNCHANGED attempts /\ KeepRest

---------------------------------------------------------------------------
(* The Host and its completion callback                                    *)

KeepHost == UNCHANGED <<intents, takeover, stop, owed, thr, up, controls, crashes>>

HostTodo(t) ==
    /\ up /\ host # 0 /\ cb = NoCall /\ LiveAtt(host)
    /\ \/ todo[t] = "pending" /\ todo' = [todo EXCEPT ![t] = "running"]
       \/ todo[t] = "running" /\ \E s \in {"completed", "human"} : todo' = [todo EXCEPT ![t] = s]
    /\ UNCHANGED <<run, attempts, batchVars, host, cb, closed>> /\ KeepHost

(* The executor ends; a command thread that already left its start gets the callback. *)
HostEnds ==
    /\ up /\ host # 0 /\ cb = NoCall
    /\ \E r \in {"completed", "failed", "human_required", "cancelled"} :
          /\ (r = "completed" => \A t \in Todos : todo[t] = "completed")
          /\ (r = "human_required" => \E t \in Todos : todo[t] = "human")
          /\ (r = "cancelled" => stop)
          /\ cb' = [NoCall EXCEPT !.pc = "cleanup", !.att = host, !.res = r]
    /\ UNCHANGED <<run, attempts, todo, batchVars, host, closed>> /\ KeepHost

(* cleanup_game: the client is closed unless the gate preserves it. *)
Cleanup ==
    /\ up /\ cb.pc = "cleanup"
    /\ IF ~LiveAtt(cb.att) THEN cb' = [cb EXCEPT !.pc = "handoff", !.res = "ignored"] /\ UNCHANGED closed
       ELSE /\ cb' = [cb EXCEPT !.pc = "result", !.control = Gate(cb.att)]
            /\ closed' = IF Gate(cb.att) = "none" /\ cb.res # "cancelled"
                         THEN closed \cup {cb.att} ELSE closed
    /\ UNCHANGED <<run, attempts, todo, batchVars, host>> /\ KeepHost

(* _finish_adapter_result: the gate is asked again in the transaction. *)
Result ==
    /\ up /\ cb.pc = "result"
    /\ IF ~LiveAtt(cb.att)
       THEN cb' = [cb EXCEPT !.pc = "handoff", !.res = "ignored"] /\ UNCHANGED <<run, attempts, todo, member>>
       ELSE LET g == IF Gate(cb.att) # "none" THEN Gate(cb.att) ELSE cb.control
                s == IF g = "none" THEN cb.res ELSE g
            IN  /\ attempts' = Ended(cb.att, s, "")
                /\ run' = IF s = "completed" THEN "review_required" ELSE s
                /\ todo' = [t \in Todos |-> IF todo[t] = "running"
                              THEN IF s = "human_required" THEN "bare" ELSE "unknown" ELSE todo[t]]
                /\ member' = TerminalMember(cb.att)
                /\ cb' = [cb EXCEPT !.pc = IF s = "completed" THEN "accept" ELSE "handoff"]
    /\ UNCHANGED <<ready, host, closed>> /\ KeepHost

(* Every Todo was completed upstream: the run may be done, if nothing changed it. *)
Accept ==
    /\ up /\ cb.pc = "accept"
    /\ cb' = [cb EXCEPT !.pc = "handoff"]
    /\ run' = IF (\A t \in Todos : todo[t] = "completed") /\ Last = cb.att /\ run = "review_required"
              THEN "done" ELSE run
    /\ UNCHANGED <<attempts, todo, batchVars, host, closed>> /\ KeepHost

(* The Host is given back, then the resumed batch goes on. *)
GiveBack ==
    /\ up /\ cb.pc = "handoff"
    /\ host' = 0
    /\ cb' = IF InBatch /\ cb.res # "ignored" THEN [cb EXCEPT !.pc = "resumed"] ELSE NoCall
    /\ UNCHANGED <<run, attempts, todo, batchVars, closed>> /\ KeepHost
Resumed ==
    /\ up /\ cb.pc = "resumed"
    /\ FinishBatch /\ cb' = NoCall
    /\ UNCHANGED <<attempts, todo, takeover, host, stop, owed, thr, closed, up, controls, crashes>>

---------------------------------------------------------------------------
(* The watchdog, and a restart of the Manager                              *)

Watchdog ==
    /\ up /\ LockFree /\ Orphan /\ host = 0
    /\ run' = Outcome
    /\ UNCHANGED <<attempts, intents, todo, takeover, batchVars, host, stop, owed, thr, cb, closed, up, controls, crashes>>

Crash ==
    /\ up /\ crashes < MaxCrashes /\ crashes' = crashes + 1
    /\ up' = FALSE /\ host' = 0 /\ stop' = FALSE /\ owed' = "none" /\ cb' = NoCall
    /\ thr' = [c \in Commands |-> Idle]
    /\ UNCHANGED <<run, attempts, intents, todo, takeover, batchVars, closed, controls>>

(* Leases of the old process, then pending intents.  A batch that waits for a resume is not active. *)
Revoked == {a \in DOMAIN attempts : attempts[a].lease}
Startup ==
    /\ ~up /\ up' = TRUE
    /\ attempts' = [a \in DOMAIN attempts |-> IF a \in Revoked THEN Ended(a, "review_required", "")[a]
                                              ELSE attempts[a]]
    /\ intents' = [i \in DOMAIN intents |->
         IF intents[i].state = "successor_pending"
         THEN [intents[i] EXCEPT !.state = "reconciliation_required"] ELSE intents[i]]
    /\ run' = IF run \in {"done", "cancelled"} THEN run
              ELSE IF (\E a \in Revoked : LiveAtt(a)) \/ \E i \in DOMAIN intents : intents[i].state = "successor_pending"
              THEN "review_required" ELSE run
    /\ todo' = [t \in Todos |-> IF todo[t] = "running" /\ Revoked # {} THEN "unknown" ELSE todo[t]]
    /\ UNCHANGED <<takeover, batchVars, host, stop, owed, thr, cb, closed, controls, crashes>>

---------------------------------------------------------------------------
Step(c) == \/ ReadRun(c) \/ Prepare(c) \/ PrepareRefused(c) \/ MarkAttempt(c) \/ MarkRun(c)
           \/ CleanupGate(c) \/ Launch(c) \/ Handoff(c) \/ Spawn(c) \/ ReadAttempt(c) \/ TellRun(c)
           \/ ReadIntent(c) \/ Dispatched(c) \/ LaunchCancelled(c) \/ LaunchHuman(c)
           \/ LaunchFailed(c) \/ FailIntent(c) \/ RecoverNow(c) \/ AfterFailure(c)
Callback == Cleanup \/ Result \/ Accept \/ GiveBack \/ Resumed
Next == \/ \E c \in Commands : ResumeTx(c) \/ Step(c)
        \/ Takeover \/ ReleaseTakeover \/ CancelRun \/ Deliver
        \/ \E t \in Todos : HostTodo(t)
        \/ HostEnds \/ Callback \/ Watchdog \/ Crash \/ Startup
Spec == Init /\ [][Next]_vars
Fair == /\ \A c \in Commands : WF_vars(Step(c))
        /\ WF_vars(Callback) /\ WF_vars(HostEnds) /\ WF_vars(Watchdog) /\ WF_vars(Startup) /\ WF_vars(Deliver)
LiveSpec == Spec /\ Fair

---------------------------------------------------------------------------
(* Properties                                                              *)

RunStates == {"failed", "review_required", "human_required", "pending_execution", "running",
              "cancelling", "cancelled", "done"}

(* The rows stay in the shapes the store declares, and every intent names its attempts. *)
TypeOK ==
    /\ run \in RunStates /\ takeover \in BOOLEAN /\ ready \in BOOLEAN
    /\ \A i \in DOMAIN intents : intents[i].pred \in DOMAIN attempts /\ intents[i].succ \in 0..Last
    /\ host \in 0..Last /\ member.intent \in 0..Newest /\ member.att \in 1..Last
    /\ closed \subseteq DOMAIN attempts

(* However many resumes race, one attempt of the run is live, it is the newest one,      *)
(* only it holds the Host, and no desktop lease outlives the attempt it was granted to   *)
(* (manager.py create_run_control_request, _prepare_run_attempt).                        *)
OneLive == \A a \in DOMAIN attempts : /\ LiveAtt(a) \/ host = a => a = Last
                                      /\ attempts[a].lease => LiveAtt(a)

(* A Host is started only for the newest intent of the run, which still waits for this   *)
(* very successor: a start that an older intent began never reaches the Host.            *)
StartStep ==
    host' \notin {0, host} => /\ intents[Newest].succ = host'
                              /\ intents[Newest].state = "successor_pending"

(* Nothing takes back the reservation of a run while a thread still carries its newest   *)
(* intent: neither the watchdog nor the failure of an older intent.                      *)
ReservationStep ==
    (run = "pending_execution" /\ run' \notin {run, "running", "human_required"} /\ controls' = controls)
      => ~\E c \in Commands : OwnsNewest(c) /\ thr[c].pc \in {"read", "prepare"}

ResumeStep == StartStep /\ ReservationStep

(* The failure of an older intent changes neither the newest intent nor the run.         *)
OldIntentQuiet ==
    [][\A c \in Commands :
         thr[c].pc \in {"fail", "recover", "finish"} /\ thr'[c] # thr[c] /\ MyIntent(c) < Newest
           => intents'[Newest] = intents[Newest] /\ run' = run]_vars

(* A run that was cancelled or accepted as done is never written another state by the    *)
(* threads, callbacks and watchdogs that still know it.                                  *)
FinalKept == [][(run \in {"cancelled", "done"}) => (run' = run)]_vars

(* A game is never closed while a takeover that no one released is on record.            *)
TakeoverPreserves == [][(closed' # closed) => ~takeover]_vars

(* No successor is committed while a takeover is on record and not released.             *)
ReleasedFirst ==
    [][(Len(intents') > Newest /\ intents'[Newest + 1].state = "successor_pending") => ~takeover]_vars

(* After a restart no attempt of an earlier process is live.                             *)
NoneSurvives ==
    [][(~up /\ up') => (\A a \in DOMAIN attempts : attempts'[a].state \notin LiveStates)]_vars

(* A run whose newest successor could not be started gets back the outcome of its last   *)
(* attempt.                                                                              *)
FailedStartRestores ==
    \A c \in Commands : (thr[c].pc = "fail" /\ MyIntent(c) = Newest /\ run = "pending_execution")
                          ~> run # "pending_execution"

(* A run that waits for its first successor does not wait for ever: the start goes on,   *)
(* fails, is cancelled, or is taken back by the watchdog or the next process.            *)
PendingLeaves == run = "pending_execution" ~> run # "pending_execution"
=============================================================================
