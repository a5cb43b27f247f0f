---------------------------- MODULE QueueCommands ---------------------------
(***************************************************************************)
(* What operators and clients ask of the queue: create, cancel and resume  *)
(* a batch, cancel one run, decide a recovery work item, and the review    *)
(* that seals a batch.  Cancelling starts a delivery thread.               *)
(***************************************************************************)
EXTENDS QueueState

KeepRest == UNCHANGED <<launch, dispatch, parked, recovered, humanGate,
                        quarantine>>

StartWorker(b, list) ==
    /\ pc' = [pc EXCEPT ![b] = "start"]
    /\ todo' = [todo EXCEPT ![b] = list]
    /\ UNCHANGED <<cur, intent>>

\* An execute batch is admitted while the Host is idle and no batch waits
\* for a human.
CreateBatch(b) ==
    /\ batch[b] = "absent" /\ hostPhase = "idle"
    /\ \A c \in Batches : Open(c) => batch[c] # "human_required"
    /\ batch' = [batch EXCEPT ![b] = "queued"]
    /\ StartWorker(b, Members(b)) /\ UNCHANGED resumed
    /\ UNCHANGED <<attemptVars, memberVars, runVars, seal, recovery, workItem,
                   decisionVars, cancelVars, quarantine, hostVars>>

-----------------------------------------------------------------------------
\* Mutant of Cancellable: a sealed batch can be cancelled.
CancellableAlways(b) == b \in Cancels /\ batch[b] # "absent"

Cancellable(b) == b \in Cancels /\ batch[b] # "absent" /\ Open(b)

\* cancel_batch with attempts that may still run: the intent is durable and
\* a delivery thread starts.  A request already there is asked for again.
CancelBatch(b) ==
    /\ Cancellable(b) /\ LiveIn(b) # {} /\ tries[b] = 0
    /\ cancel[b] = "none" \/ b \in Recancels
    /\ attempt' = [r \in Runs |->
          IF r \in LiveIn(b) THEN "cancelling" ELSE attempt[r]]
    /\ run' = [r \in Runs |->
          IF r \in LiveIn(b) /\ run[r] \in {"queued", "running"}
          THEN "cancelling" ELSE run[r]]
    /\ batch' = [batch EXCEPT ![b] = "cancelling"]
    /\ cancel' = [cancel EXCEPT ![b] = IF @ = "none" THEN "requested" ELSE @]
    /\ tries' = [tries EXCEPT ![b] = 1]
    /\ undelivered' = [undelivered EXCEPT ![b] = LiveIn(b)]
    /\ KeepRest
    /\ UNCHANGED <<lease, memberVars, runCancel, seal, recovery, workItem,
                   decisionVars, sealing, hostVars, workerVars>>

\* cancel_batch with nothing running seals in the same transaction.
CancelIdleBatch(b) ==
    /\ Cancellable(b) /\ LiveIn(b) = {}
    /\ AcknowledgeSeal(b, member, outcome, run)
    /\ cancel' = [cancel EXCEPT ![b] = "sealed"]
    /\ seal' = [seal EXCEPT ![b] = "cancelled"]
    /\ KeepRest
    /\ UNCHANGED <<attempt, lease, runCancel, batch, recovery, workItem,
                   decisionVars, tries, undelivered, sealing, hostVars,
                   workerVars>>

\* Second half of _seal_cancelled_batch.
SealCommit(b) ==
    /\ b \in sealing
    /\ sealing' = sealing \ {b}
    /\ seal' = [seal EXCEPT ![b] = IF @ = "open" THEN "cancelled" ELSE @]
    /\ cancel' = [cancel EXCEPT ![b] = "sealed"]
    /\ UNCHANGED <<attemptVars, memberVars, runVars, batch, recovery, workItem,
                   decisionVars, tries, undelivered, quarantine, hostVars,
                   workerVars>>

\* Mutant of TriesLeft: the tries are not counted.
TriesUncounted(b) == tries[b] > 0

TriesLeft(b) == tries[b] \in 1 .. MaxDeliveries

\* One try of the delivery thread, under the handoff lock: a launch sees the
\* durable state by itself, a running Host is signalled, which may fail.
DeliverTry(b) ==
    LET polled == {r \in undelivered[b] : launch[r] = "pre"}
        hosted == {r \in undelivered[b] \ polled :
                     hostOwner = r /\ hostPhase = "running"}
    IN  /\ TriesLeft(b) /\ ~HandoffHeld
        /\ \E sent \in SUBSET (polled \cup hosted) :
              /\ polled \subseteq sent
              /\ undelivered' = [undelivered EXCEPT ![b] = @ \ sent]
              /\ signalled' = (signalled \/ sent \cap hosted # {})
              /\ attempt' = [r \in Runs |->
                    IF r \in sent /\ attempt[r] \in Live
                    THEN "cancelling" ELSE attempt[r]]
              /\ run' = [r \in Runs |->
                    IF r \in sent /\ attempt[r] \in Live
                       /\ run[r] \in {"queued", "running"}
                    THEN "cancelling" ELSE run[r]]
              /\ tries' = [tries EXCEPT ![b] =
                    IF undelivered[b] \subseteq sent
                    THEN MaxDeliveries + 1 ELSE @ + 1]
        /\ KeepRest
        /\ UNCHANGED <<lease, memberVars, runCancel, batchVars, cancel,
                       sealing, hostOwner, hostPhase, hostResult, reported,
                       workerVars>>

\* The delivery thread ends: the signal was delivered, or a work item asks
\* for reconciliation, unless the request has moved on by itself.
DeliverSettle(b) ==
    LET failed == undelivered[b] # {} /\ cancel[b] = "requested"
    IN  /\ tries[b] = MaxDeliveries + 1
        /\ cancel' = [cancel EXCEPT ![b] =
              IF @ # "requested" THEN @
              ELSE IF failed THEN "reconciliation_required"
              ELSE "signal_delivered"]
        /\ workItem' = [workItem EXCEPT ![b] = @ \/ failed]
        /\ IF failed /\ Open(b)
           THEN /\ batch' = [batch EXCEPT ![b] = "review_required"]
                /\ recovery' = [recovery EXCEPT ![b] =
                                  "awaiting_reconciliation"]
           ELSE UNCHANGED <<batch, recovery>>
        /\ tries' = [tries EXCEPT ![b] = 0]
        /\ undelivered' = [undelivered EXCEPT ![b] = {}]
        /\ UNCHANGED <<attemptVars, memberVars, runVars, seal, decisionVars,
                       sealing, quarantine, hostVars, workerVars>>

-----------------------------------------------------------------------------
\* cancel_game_run of a run that may be executing: the lease goes first.
CancelRun(r) ==
    /\ r \in RunCancels /\ runCancel[r] = "none"
    /\ run[r] \in {"running", "cancelling"}
    /\ EndLeases({r} \cap LiveIn(BatchOf[r]))
    /\ attempt' = [attempt EXCEPT ![r] =
                     IF @ \in {"starting", "running"} THEN "cancelling" ELSE @]
    /\ run' = [run EXCEPT ![r] = "cancelling"]
    /\ runCancel' = [runCancel EXCEPT ![r] = "accepted"]
    /\ KeepRest
    /\ UNCHANGED <<memberVars, batchVars, cancelVars, hostVars, workerVars>>

\* cancel_game_run of a run that is only queued.
WithdrawRun(r) ==
    /\ r \in RunCancels /\ runCancel[r] = "none"
    /\ batch[BatchOf[r]] # "absent" /\ run[r] = "queued"
    /\ run' = [run EXCEPT ![r] = "cancelled"]
    /\ runCancel' = [runCancel EXCEPT ![r] = "withdrawn"]
    /\ KeepRest
    /\ UNCHANGED <<attempt, lease, memberVars, batchVars, cancelVars,
                   hostVars, workerVars>>

\* Its one try to deliver, under the handoff lock.
DeliverRunCancel(r) ==
    LET hosted == hostOwner = r /\ hostPhase = "running"
    IN  /\ runCancel[r] = "accepted" /\ ~HandoffHeld
        /\ \/ /\ launch[r] = "pre" \/ hosted
              /\ runCancel' = [runCancel EXCEPT ![r] = "delivered"]
              /\ signalled' = (signalled \/ (launch[r] # "pre" /\ hosted))
              /\ attempt' = [attempt EXCEPT ![r] =
                               IF @ \in Live THEN "cancelling" ELSE @]
           \/ /\ launch[r] # "pre"
              /\ runCancel' = [runCancel EXCEPT ![r] = "failed"]
              /\ UNCHANGED <<signalled, attempt>>
        /\ KeepRest
        /\ UNCHANGED <<lease, memberVars, run, batchVars, cancelVars,
                       hostOwner, hostPhase, hostResult, reported, workerVars>>

-----------------------------------------------------------------------------
\* A decision on the claimed work item: one transaction records it, and
\* closes the work item when it is accepted ...
Decide(b) ==
    /\ workItem[b]
    /\ \E d \in {"accepted", "rejected"} :
          /\ decided' = [decided EXCEPT ![b] = @ \cup {d}]
          /\ workItem' = [workItem EXCEPT ![b] = d = "rejected"]
    /\ UNCHANGED <<attemptVars, memberVars, runVars, batch, seal, recovery,
                   resolving, cancelVars, quarantine, hostVars, workerVars>>

\* Mutants of Resolved: a repeated request runs it again even where it is
\* not supposed to; a repeated request never does.
ResolvedAgain(b, d) == d \in decided[b] /\ UNCHANGED decided
ResolvedOnce(b, d) ==
    d \in decided[b] /\ decided' = [decided EXCEPT ![b] = @ \ {d}]

\* ... and its resolution runs after the commit, and again whenever the
\* client repeats the request.
Resolved(b, d) ==
    /\ d \in decided[b]
    /\ decided' = IF b \in Replays THEN decided
                  ELSE [decided EXCEPT ![b] = @ \ {d}]

\* Mutant of Reconciled: attempts that may still run are closed too.
ReconciledAll(b) == {r \in Members(b) : member[r] = "reconciliation_required"}

Reconciled(b) == {r \in Members(b) : member[r] = "reconciliation_required"
                                     /\ attempt[r] \notin Live}

\* _resolve_batch_recovery_decision of an accepted decision: it reads whether
\* a cancellation is active, and the members are reconciled in a transaction.
Resolve(b) ==
    /\ Resolved(b, "accepted")
    /\ IF Open(b)
       THEN /\ member' = [r \in Runs |->
                  IF r \notin Reconciled(b) THEN member[r]
                  ELSE IF attempt[r] = "none" THEN "resume_pending"
                  ELSE "terminal"]
            /\ outcome' = [r \in Runs |->
                  IF r \notin Reconciled(b) THEN outcome[r] ELSE attempt[r]]
            /\ resolving' = [resolving EXCEPT ![b] = @ \cup
                  {IF CancelActive(b) THEN "cancelled" ELSE "uncancelled"}]
       ELSE UNCHANGED <<memberVars, resolving>>
    /\ UNCHANGED <<attemptVars, runVars, batch, seal, recovery, workItem,
                   cancelVars, quarantine, hostVars, workerVars>>

ResolvedWith(b, read) ==
    /\ read \in resolving[b]
    /\ resolving' = [resolving EXCEPT ![b] = @ \ {read}]
    /\ KeepRest
    /\ UNCHANGED <<attempt, lease, runCancel, seal, workItem, decided, tries,
                   undelivered, hostVars, workerVars>>

\* Then a cancelled batch is sealed, or waits for the next decision ...
ResolveCancelled(b) ==
    /\ ResolvedWith(b, "cancelled")
    /\ UNCHANGED <<batch, recovery>>
    /\ \/ /\ ~Open(b)
          /\ UNCHANGED <<memberVars, run, cancel, sealing>>
       \/ /\ Open(b) /\ LiveIn(b) = {}
          /\ AcknowledgeSeal(b, member, outcome, run)
          /\ cancel' = [cancel EXCEPT ![b] = "acknowledged"]
          /\ sealing' = sealing \cup {b}
       \/ /\ Open(b) /\ LiveIn(b) # {}
          /\ cancel' = [cancel EXCEPT ![b] = "reconciliation_required"]
          /\ UNCHANGED <<memberVars, run, sealing>>

\* ... and any other is offered for resumption or for its completion review,
\* unless it has been sealed since.
ResolveOpen(b) ==
    LET left == {member[r] : r \in Members(b)}
    IN  /\ ResolvedWith(b, "uncancelled")
        /\ UNCHANGED <<memberVars, run, cancel, sealing>>
        /\ IF Open(b)
           THEN /\ batch' = [batch EXCEPT ![b] = "review_required"]
                /\ recovery' = [recovery EXCEPT ![b] =
                      IF "reconciliation_required" \in left
                      THEN "reconciliation_required"
                      ELSE IF left \subseteq {"terminal", "cancelled"}
                      THEN "completion_review" ELSE "ready_for_resume"]
           ELSE UNCHANGED <<batch, recovery>>

\* _resolve_batch_recovery_decision of a rejected decision.
Dismiss(b) ==
    /\ Resolved(b, "rejected") /\ UNCHANGED resolving
    /\ IF Open(b)
       THEN /\ batch' = [batch EXCEPT ![b] = "review_required"]
            /\ recovery' = [recovery EXCEPT ![b] = "reconciliation_required"]
       ELSE UNCHANGED <<batch, recovery>>
    /\ UNCHANGED <<attemptVars, memberVars, runVars, seal, workItem,
                   cancelVars, quarantine, hostVars, workerVars>>

\* resume_batch: only never-started members, and only when nothing of the
\* batch is active, unreconciled or owed a resume of its own.
ResumeBatch(b) ==
    LET pending == {r \in Members(b) : member[r] \in {"queued",
                                                      "resume_pending"}}
    IN  /\ recovery[b] = "ready_for_resume" /\ Open(b) /\ ~CancelActive(b)
        /\ hostPhase = "idle" /\ pc[b] = "idle"
        /\ pending # {}
        /\ \A r \in Members(b) :
              /\ member[r] \notin {"active", "reconciliation_required"}
              /\ member[r] = "terminal" /\ attempt[r] # "none" =>
                    outcome[r] = "completed"
        /\ \A r \in pending : attempt[r] = "none"
        /\ run' = [r \in Runs |-> IF r \in pending THEN "queued" ELSE run[r]]
        /\ batch' = [batch EXCEPT ![b] = "queued"]
        /\ recovery' = [recovery EXCEPT ![b] = "resume_dispatch_pending"]
        /\ StartWorker(b, pending) /\ resumed' = resumed \cup {b}
        /\ KeepRest
        /\ UNCHANGED <<attempt, lease, memberVars, runCancel, seal, workItem,
                       decisionVars, cancelVars, hostVars>>

\* Every completion review is in, or the review barrier expired.
ReviewSeal(b) ==
    /\ recovery[b] = "completion_review" /\ Open(b)
    /\ Members(b) \cap parked = {}
    /\ seal' = [seal EXCEPT ![b] = "reviewed"]
    /\ UNCHANGED <<attemptVars, memberVars, runVars, batch, recovery, workItem,
                   decisionVars, cancelVars, quarantine, hostVars, workerVars>>

---------------------------------------------------------------------------
(* A crash of the Manager process and the startup of the next one, which  *)
(* revokes what the dead process held and fences the batches it was       *)
(* executing before it serves anything.                                   *)

\* Threads, the Host's owner, pending seals and drain capabilities are
\* memory of the process; every row stays.
Crash ==
    /\ mgr # "failed" /\ restarts < MaxRestarts
    /\ restarts' = restarts + 1
    /\ mgr' = "revoke" /\ unrecovered' = {}
    /\ hostOwner' = Nobody /\ hostPhase' = "idle" /\ signalled' = FALSE
    /\ hostResult' = "none" /\ reported' = {}
    /\ pc' = [b \in Batches |-> "idle"] /\ todo' = [b \in Batches |-> {}]
    /\ cur' = [b \in Batches |-> Nobody]
    /\ intent' = [b \in Batches |-> "none"] /\ UNCHANGED resumed
    /\ tries' = [b \in Batches |-> 0]
    /\ undelivered' = [b \in Batches |-> {}]
    /\ sealing' = {}
    /\ quarantine' = IF quarantine = "none" THEN "none" ELSE "held"
    /\ runCancel' = [r \in Runs |->
          IF runCancel[r] = "accepted" THEN "failed" ELSE runCancel[r]]
    /\ resolving' = [b \in Batches |-> {}]
    /\ UNCHANGED <<attemptVars, memberVars, run, parked, recovered, humanGate,
                   batch, seal, recovery, workItem, decided, cancel>>

\* revoke_stale_controller_leases, one transaction.
StartRevoke ==
    LET lost == {r \in LeaseHolders : attempt[r] \in Live}
    IN  /\ mgr = "revoke"
        /\ mgr' = "recover"
        /\ EndLeases(Runs)
        /\ attempt' = [r \in Runs |->
              IF r \in lost THEN "review_required" ELSE attempt[r]]
        /\ run' = [r \in Runs |->
              IF r \in lost /\ run[r] \notin {"done", "cancelled"}
              THEN "review_required" ELSE run[r]]
        /\ unrecovered' = {b \in Batches : Open(b) /\
                             batch[b] \in {"queued", "running", "cancelling"}}
        /\ UNCHANGED <<launch, dispatch, memberVars, parked, recovered,
                       humanGate, runCancel, batchVars, cancelVars,
                       quarantine, hostVars, workerVars, restarts>>

-----------------------------------------------------------------------------
\* Launches the dead process was still making, with no Adapter yet.
PreAdapter(b) == {r \in LiveIn(b) : launch[r] = "pre"}

\* The rows after _terminalize_interrupted_pre_adapter_launch.
ClosedAs(b) == IF CancelActive(b) THEN "cancelled" ELSE "review_required"

ClosedAttempt(b) ==
    [r \in Runs |-> IF r \in PreAdapter(b) THEN ClosedAs(b) ELSE attempt[r]]

ClosedNow(b) == IF CancelActive(b)
                THEN {r \in PreAdapter(b) : Terminalizable(r)} ELSE {}

ClosedMember(b) ==
    [r \in Runs |-> IF r \in ClosedNow(b) THEN "terminal" ELSE member[r]]

ClosedOutcome(b) ==
    [r \in Runs |-> IF r \in ClosedNow(b) THEN "cancelled" ELSE outcome[r]]

ClosedRun(b) ==
    [r \in Runs |-> IF r \in PreAdapter(b) THEN ClosedAs(b) ELSE run[r]]

CloseLaunches(b) ==
    /\ attempt' = ClosedAttempt(b)
    /\ EndLeases(PreAdapter(b))
    /\ UNCHANGED <<launch, dispatch>>

StillLive(b) == LiveIn(b) \ PreAdapter(b)

\* A recovered cancellation with nothing left running is sealed at once.
SealsAtStartup(b) ==
    CancelActive(b) /\ PreAdapter(b) # {} /\ StillLive(b) = {}

\* update_batch_cancel_request and update_batch_run_membership refuse these
\* transitions; the exception ends the startup.
StartupRefused(b) ==
    \/ cancel[b] = "acknowledged"
    \/ ClosedNow(b) # {}

\* Mutant of Interrupted: every member goes back to reconciliation.
InterruptedAll(b) == Members(b)

Interrupted(b) == {r \in Members(b) :
    member[r] \in {"active", "resume_pending", "reconciliation_required"}}

\* Nothing of the batch is executed before a decision about what was
\* interrupted, for which a work item asks.
AwaitReconciliation(b) ==
    LET affected == Interrupted(b)
    IN  /\ member' = [r \in Runs |-> IF r \in affected
                         THEN "reconciliation_required" ELSE member[r]]
        /\ outcome' = [r \in Runs |->
              IF r \in affected /\ ClosedAttempt(b)[r] \in Ended
              THEN ClosedAttempt(b)[r] ELSE outcome[r]]
        /\ run' = ClosedRun(b)
        /\ batch' = [batch EXCEPT ![b] = "review_required"]
        /\ recovery' = [recovery EXCEPT ![b] = "awaiting_reconciliation"]
        /\ workItem' = [workItem EXCEPT ![b] = TRUE]
        /\ cancel' = IF CancelActive(b)
                     THEN [cancel EXCEPT ![b] = "reconciliation_required"]
                     ELSE cancel
        /\ unrecovered' = unrecovered \ {b}
        /\ UNCHANGED <<seal, sealing, mgr>>

\* _recover_active_batches, for one batch.
RecoverBatch(b) ==
    /\ mgr = "recover" /\ b \in unrecovered
    /\ CloseLaunches(b)
    /\ UNCHANGED <<parked, recovered, humanGate, runCancel, decisionVars,
                   tries, undelivered, quarantine, hostVars, workerVars,
                   restarts>>
    /\ \/ /\ SealsAtStartup(b)
          /\ AcknowledgeSeal(b, ClosedMember(b), ClosedOutcome(b),
                             ClosedRun(b))
          /\ cancel' = [cancel EXCEPT ![b] = "acknowledged"]
          /\ sealing' = sealing \cup {b}
          /\ unrecovered' = unrecovered \ {b}
          /\ UNCHANGED <<batch, seal, recovery, workItem, mgr>>
       \/ /\ ~SealsAtStartup(b) /\ StartupRefused(b)
          /\ mgr' = "failed"
          /\ member' = ClosedMember(b) /\ outcome' = ClosedOutcome(b)
          /\ run' = ClosedRun(b)
          /\ UNCHANGED <<batch, seal, recovery, workItem, cancel, sealing,
                         unrecovered>>
       \/ ~SealsAtStartup(b) /\ ~StartupRefused(b) /\ AwaitReconciliation(b)

\* Recovery is over and the pending seals are written: the process serves.
StartDone ==
    /\ mgr = "recover" /\ unrecovered = {} /\ sealing = {}
    /\ mgr' = "up"
    /\ UNCHANGED <<attemptVars, memberVars, runVars, batchVars, cancelVars,
                   quarantine, hostVars, workerVars, unrecovered, restarts>>
=============================================================================
