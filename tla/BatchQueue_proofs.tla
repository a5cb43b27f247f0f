-------------------------- MODULE BatchQueue_proofs ---------------------------
(***************************************************************************)
(* Proofs about the batch queue, for every set of batches and runs, every  *)
(* assignment of runs to batches and every number of crashes.              *)
(*                                                                         *)
(* Only four kinds of step matter to who holds the desktop: the two that   *)
(* start a worker, the one that takes the next run and the one that        *)
(* prepares its attempt.  All others are Calm: they neither create nor     *)
(* forget an attempt, at most end leases, and only shorten the lists of    *)
(* the workers.  The first lemmas show that, one leaf per action.          *)
(***************************************************************************)
EXTENDS BatchQueue, WellFoundedInduction, TLAPS

\* What the proof needs to know of the types.
Shape ==
    /\ lease \in [Runs -> {"none", "active", "ended"}]
    /\ DOMAIN attempt = Runs
    /\ DOMAIN batch = Batches
    /\ DOMAIN pc = Batches
    /\ DOMAIN cur = Batches
    /\ DOMAIN todo = Batches

\* The callback finds the result the Host process ended with.
HostResultKnown == hostPhase = "reporting" => hostResult \in HostResults

QueueShape == Shape /\ HostResultKnown

\* No attempt is created or forgotten.
CalmRows ==
    /\ DOMAIN attempt' = Runs
    /\ \A r \in Runs : attempt'[r] = "none" <=> attempt[r] = "none"

\* Leases are at most ended.
CalmLeases ==
    /\ lease' \in [Runs -> {"none", "active", "ended"}]
    /\ \A r \in Runs : \/ lease'[r] = lease[r]
                       \/ lease[r] = "active" /\ lease'[r] = "ended"

\* No batch is forgotten.
CalmBatches ==
    /\ DOMAIN batch' = Batches
    /\ \A b \in Batches : batch'[b] = "absent" => batch[b] = "absent"

\* No worker starts, and none turns to another run it may prepare.
CalmWorkers ==
    /\ DOMAIN pc' = Batches /\ DOMAIN cur' = Batches /\ DOMAIN todo' = Batches
    /\ \A b \in Batches :
          /\ todo'[b] \subseteq todo[b]
          /\ pc[b] = "idle" => pc'[b] = "idle"
          /\ pc'[b] \in {"dispatch", "prepare"} =>
                pc[b] \in {"dispatch", "prepare"} /\ cur'[b] = cur[b]

CalmHost ==
    hostPhase' = "reporting" =>
        \/ hostResult' \in HostResults
        \/ hostPhase = "reporting" /\ hostResult' = hostResult

\* The desktop is quarantined only once nobody holds it.
CalmDesktop ==
    quarantine' # "none" =>
        quarantine # "none" \/ \A r \in Runs : lease'[r] # "active"

Calm == CalmRows /\ CalmLeases /\ CalmBatches /\ CalmWorkers /\ CalmHost
        /\ CalmDesktop

\* The steps of a worker thread, but the two that take a run and prepare it.
LEMMA WorkerCalm ==
    ASSUME QueueShape, NEW b \in Batches, Worker(b), ~Pick(b), ~Prepare(b)
    PROVE  Calm
<1> USE DEF QueueShape, Shape, Calm, CalmRows, CalmLeases, CalmBatches,
            CalmWorkers, CalmHost, CalmDesktop, EndLeases, attemptVars,
            memberVars, runVars, batchVars, decisionVars, cancelVars,
            hostVars, workerVars,
            Goto, Retire, KeepRunFlags, KeepCancel, KeepFixed, Live
<1>1. CASE WorkerStart(b)
  BY <1>1 DEF WorkerStart, SealFromWorker, AcknowledgeSeal
<1>2. CASE Begin(b)
  BY <1>2 DEF Begin, WriteRunning
<1>3. CASE LoopEnds(b)
  BY <1>3 DEF LoopEnds
<1>4. CASE SkipQuarantined(b)
  BY <1>4 DEF SkipQuarantined
<1>5. CASE Dispatch(b)
  BY <1>5 DEF Dispatch, WriteRunning
<1>6. CASE PrepareFails(b)
  BY <1>6 DEF PrepareFails
<1>7. CASE FailUnstarted(b)
  BY <1>7 DEF FailUnstarted
<1>8. CASE Claim(b)
  BY <1>8 DEF Claim
<1>9. CASE Mark(b)
  BY <1>9 DEF Mark
<1>10. CASE MarkRun(b)
  BY <1>10 DEF MarkRun
<1>11. CASE Launch(b)
  BY <1>11 DEF Launch, FailStart
<1>12. CASE LauncherFails(b)
  BY <1>12 DEF LauncherFails, FailStart
<1>13. CASE Abort(b)
  BY <1>13 DEF Abort
<1>14. CASE AbortRun(b)
  BY <1>14 DEF AbortRun
<1>15. CASE AbortLease(b)
  BY <1>15 DEF AbortLease
<1>16. CASE AbortMember(b)
  BY <1>16 DEF AbortMember
<1>17. CASE TakeHandoff(b)
  BY <1>17 DEF TakeHandoff
<1>18. CASE Spawn(b)
  BY <1>18 DEF Spawn
<1>19. CASE SpawnFails(b)
  BY <1>19 DEF SpawnFails, FailStart
<1>20. CASE Record(b)
  BY <1>20 DEF Record
<1>21. CASE Reread(b)
  BY <1>21 DEF Reread
<1>22. CASE SetRun(b)
  BY <1>22 DEF SetRun
<1>23. CASE Collect(b)
  BY <1>23 DEF Collect
<1>24. CASE Timeout(b)
  BY <1>24 DEF Timeout, WaitExpired, Asked
<1>25. CASE Recover(b)
  BY <1>25 DEF Recover, Recoverable, Authorised, LeaseHolders
<1>26. CASE GiveUp(b)
  BY <1>26 DEF GiveUp
<1>27. CASE FenceUnknown(b)
  BY <1>27 DEF FenceUnknown, FenceFromWorker, Fence
<1>28. CASE RefuseOwner(b)
  BY <1>28 DEF RefuseOwner
<1>29. CASE AfterRecovery(b)
  BY <1>29 DEF AfterRecovery
<1>30. CASE Park(b)
  BY <1>30 DEF Park
<1>31. CASE StopAtGate(b)
  BY <1>31 DEF StopAtGate
<1>32. CASE Stop(b)
  BY <1>32 DEF Stop
<1>33. CASE NextMember(b)
  BY <1>33 DEF NextMember
<1>34. CASE FinishCancelled(b)
  BY <1>34 DEF FinishCancelled, SealFromWorker, AcknowledgeSeal,
     FenceFromWorker, Fence
<1>35. CASE Finish(b)
  BY <1>35 DEF Finish
<1>36. CASE Conclude(b)
  BY <1>36 DEF Conclude
<1>37. QED
  BY <1>1, <1>2, <1>3, <1>4, <1>5, <1>6, <1>7, <1>8, <1>9, <1>10, <1>11,
     <1>12, <1>13, <1>14, <1>15, <1>16, <1>17, <1>18, <1>19, <1>20, <1>21,
     <1>22, <1>23, <1>24, <1>25, <1>26, <1>27, <1>28, <1>29, <1>30, <1>31,
     <1>32, <1>33, <1>34, <1>35, <1>36 DEF Worker

\* Commands, but the two that start a worker, and the delivery thread.
LEMMA CommandCalm ==
    ASSUME QueueShape, NEW b \in Batches, Command(b) \/ Delivery(b),
           ~CreateBatch(b), ~ResumeBatch(b)
    PROVE  Calm
<1> USE DEF QueueShape, Shape, Calm, CalmRows, CalmLeases, CalmBatches,
            CalmWorkers, CalmHost, CalmDesktop, EndLeases, attemptVars,
            memberVars, runVars, batchVars, decisionVars, cancelVars,
            hostVars, workerVars,
            KeepRest, Live
<1>1. CASE CancelBatch(b)
  BY <1>1 DEF CancelBatch, Cancellable, LiveIn, Members
<1>2. CASE CancelIdleBatch(b)
  BY <1>2 DEF CancelIdleBatch
<1>3. CASE Decide(b)
  BY <1>3 DEF Decide
<1>4. CASE Resolve(b)
  BY <1>4 DEF Resolve
<1>5. CASE ResolveCancelled(b)
  BY <1>5 DEF ResolveCancelled, ResolvedWith
<1>6. CASE ResolveOpen(b)
  BY <1>6 DEF ResolveOpen, ResolvedWith
<1>7. CASE Dismiss(b)
  BY <1>7 DEF Dismiss
<1>8. CASE ReviewSeal(b)
  BY <1>8 DEF ReviewSeal
<1>9. CASE DeliverTry(b)
  BY <1>9 DEF DeliverTry
<1>10. CASE DeliverSettle(b)
  BY <1>10 DEF DeliverSettle
<1>11. QED
  BY <1>1, <1>2, <1>3, <1>4, <1>5, <1>6, <1>7, <1>8, <1>9, <1>10 DEF
     Command, Delivery

\* Commands on a single run.
LEMMA RunCommandCalm ==
    ASSUME QueueShape, NEW r \in Runs, RunCommand(r)
    PROVE  Calm
<1> USE DEF QueueShape, Shape, Calm, CalmRows, CalmLeases, CalmBatches,
            CalmWorkers, CalmHost, CalmDesktop, EndLeases, attemptVars,
            memberVars, runVars, batchVars, decisionVars, cancelVars,
            hostVars, workerVars,
            KeepRest, Live
<1>1. CASE CancelRun(r)
  BY <1>1 DEF CancelRun
<1>2. CASE WithdrawRun(r)
  BY <1>2 DEF WithdrawRun
<1>3. CASE DeliverRunCancel(r)
  BY <1>3 DEF DeliverRunCancel
<1>4. QED
  BY <1>1, <1>2, <1>3 DEF RunCommand

\* The Host, its callback and the release of the quarantine.
LEMMA HostCalm ==
    ASSUME QueueShape, Host \/ ReleaseQuarantine
    PROVE  Calm
<1> USE DEF QueueShape, Shape, Calm, CalmRows, CalmLeases, CalmBatches,
            CalmWorkers, CalmHost, CalmDesktop, EndLeases, attemptVars,
            memberVars, runVars, batchVars, decisionVars, cancelVars,
            hostVars, workerVars,
            HostResultKnown, KeepBatches, KeepOwner, Live
<1>1. CASE HostExit
  BY <1>1 DEF HostExit
<1>2. CASE HostLost
  BY <1>2 DEF HostLost
<1>3. CASE HumanEvent
  BY <1>3 DEF HumanEvent
<1>4. CASE FinishCommit
  BY <1>4, ResultsAssumption DEF FinishCommit, Finishing, FinalState,
     Control
<1>5. CASE FinishFail
  BY <1>5 DEF FinishFail
<1>6. CASE FinishLost
  BY <1>6 DEF FinishLost
<1>7. CASE Adjudicate
  BY <1>7 DEF Adjudicate
<1>8. CASE HandOff
  BY <1>8 DEF HandOff
<1>9. CASE ReleaseQuarantine
  BY <1>9 DEF ReleaseQuarantine
<1>10. QED
  BY <1>1, <1>2, <1>3, <1>4, <1>5, <1>6, <1>7, <1>8, <1>9 DEF Host

\* A crash and the startup that follows it.
LEMMA RestartCalm ==
    ASSUME QueueShape, Restart
    PROVE  Calm
<1> USE DEF QueueShape, Shape, Calm, CalmRows, CalmLeases, CalmBatches,
            CalmWorkers, CalmHost, CalmDesktop, EndLeases, attemptVars,
            memberVars, runVars, batchVars, decisionVars, cancelVars,
            hostVars, workerVars, Live
<1>1. CASE Crash
  BY <1>1 DEF Crash
<1>2. CASE StartRevoke
  BY <1>2 DEF StartRevoke
<1>3. ASSUME NEW b \in Batches, RecoverBatch(b) PROVE Calm
  BY <1>3 DEF RecoverBatch, AwaitReconciliation, CloseLaunches, ClosedAttempt,
     ClosedAs, PreAdapter, LiveIn
<1>4. CASE StartDone
  BY <1>4 DEF StartDone
<1>5. QED
  BY <1>1, <1>2, <1>3, <1>4 DEF Restart

\* A seal that is written late touches no attempt, lease or worker.
LEMMA SealCalm ==
    ASSUME QueueShape, Seal
    PROVE  Calm
BY DEF QueueShape, Shape, Calm, CalmRows, CalmLeases, CalmBatches,
       CalmWorkers, CalmHost, CalmDesktop, attemptVars, hostVars,
       workerVars, Seal, SealCommit

\* Every step is Calm or one of the four that start a worker, choose its
\* next run or prepare an attempt.
LEMMA StepKinds ==
    ASSUME QueueShape, Next
    PROVE  \/ Calm
           \/ \E b \in Batches : \/ CreateBatch(b) \/ ResumeBatch(b)
                                \/ Pick(b) \/ Prepare(b)
<1>1. ASSUME NEW b \in Batches, Worker(b), ~Pick(b), ~Prepare(b) PROVE Calm
  BY <1>1, WorkerCalm
<1>2. ASSUME NEW b \in Batches, Command(b) \/ Delivery(b), ~CreateBatch(b),
             ~ResumeBatch(b)
      PROVE  Calm
  BY <1>2, CommandCalm
<1>3. ASSUME NEW r \in Runs, RunCommand(r) PROVE Calm
  BY <1>3, RunCommandCalm
<1>4. ASSUME Host \/ ReleaseQuarantine PROVE Calm
  BY <1>4, HostCalm
<1>5. ASSUME Seal \/ Restart PROVE Calm
  BY <1>5, SealCalm, RestartCalm
<1>6. QED
  BY <1>1, <1>2, <1>3, <1>4, <1>5 DEF Next, Serve

-----------------------------------------------------------------------------
\* A run whose attempt row does not exist has never held the desktop.
LeaseNeedsAttempt == \A r \in Runs : attempt[r] = "none" => lease[r] = "none"

\* Nothing of a batch that was not created yet is executing.
AbsentUntouched ==
    \A b \in Batches : batch[b] = "absent" =>
        pc[b] = "idle" /\ \A r \in Members(b) : attempt[r] = "none"

\* The list of a worker holds members of its batch that never started.
AheadUnstarted ==
    \A b \in Batches :
        todo[b] \subseteq Members(b) /\ \A r \in todo[b] : attempt[r] = "none"

\* So does the run it is about to prepare, which is no longer on the list.
PickedUnstarted ==
    \A b \in Batches : pc[b] \in {"dispatch", "prepare"} =>
        cur[b] \in Members(b) \ todo[b] /\ attempt[cur[b]] = "none"

\* The inductive invariant.
QueueInv ==
    /\ QueueShape
    /\ OneController
    /\ QuarantineIdle
    /\ LeaseNeedsAttempt
    /\ AbsentUntouched
    /\ AheadUnstarted
    /\ PickedUnstarted

LEMMA InitQueueInv == Init => QueueInv
<1> SUFFICES ASSUME Init PROVE QueueInv
  OBVIOUS
<1>1. QueueShape /\ OneController /\ QuarantineIdle /\ LeaseNeedsAttempt
  BY DEF Init, QueueShape, Shape, HostResultKnown, OneController,
         LeaseHolders, QuarantineIdle, LeaseNeedsAttempt
<1>2. AbsentUntouched /\ AheadUnstarted /\ PickedUnstarted
  BY DEF Init, AbsentUntouched, AheadUnstarted, PickedUnstarted, Members
<1>3. QED
  BY <1>1, <1>2 DEF QueueInv

LEMMA CalmKeepsInv == QueueInv /\ Calm => QueueInv'
<1> SUFFICES ASSUME QueueInv, Calm PROVE QueueInv'
  OBVIOUS
<1> USE DEF QueueInv, Calm, QueueShape, Shape
<1>1. QueueShape'
  BY DEF CalmRows, CalmLeases, CalmBatches, CalmWorkers, CalmHost,
         HostResultKnown
<1>2. OneController'
  BY DEF CalmLeases, OneController, LeaseHolders
<1>3. QuarantineIdle' /\ LeaseNeedsAttempt'
  BY DEF CalmRows, CalmLeases, CalmDesktop, QuarantineIdle, LeaseHolders,
         LeaseNeedsAttempt
<1>4. AbsentUntouched'
  BY DEF CalmRows, CalmBatches, CalmWorkers, AbsentUntouched, Members
<1>5. AheadUnstarted'
  BY DEF CalmRows, CalmWorkers, AheadUnstarted, Members
<1>6. PickedUnstarted'
  BY DEF CalmRows, CalmWorkers, PickedUnstarted, Members
<1>7. QED
  BY <1>1, <1>2, <1>3, <1>4, <1>5, <1>6

\* The run a worker takes next is one of its list.
LEMMA FirstIsAhead ==
    ASSUME NEW b, todo[b] # {}, todo[b] \subseteq Runs
    PROVE  First(b) \in todo[b]
<1> DEFINE R == {ss \in Nat \X Nat : ss[1] < ss[2]}
<1>1. IsWellFoundedOn(R, Nat)
  BY NatLessThanWellFounded DEF OpToRel
<1>2. todo[b] \subseteq Nat
  BY RunsAssumption
<1> HIDE DEF R
<1>3. PICK x \in todo[b] : \A y \in todo[b] : ~ (<<y, x>> \in R)
  BY <1>1, <1>2, WFMin
<1>4. ASSUME NEW y \in todo[b] PROVE x <= y
  <2>1. x \in Nat /\ y \in Nat /\ <<y, x>> \notin R
    BY <1>2, <1>3
  <2>2. QED
    BY <2>1 DEF R
<1>5. QED
  BY <1>4 DEF First

LEMMA PickKeepsInv ==
    ASSUME QueueInv, NEW b \in Batches, Pick(b)
    PROVE  QueueInv'
<1> USE DEF QueueInv, QueueShape, Shape, attemptVars, hostVars, workerVars
<1>1. First(b) \in todo[b]
  BY FirstIsAhead DEF Pick, AheadUnstarted, Members
<1>2. /\ UNCHANGED <<attempt, lease, quarantine, hostPhase, hostResult>>
      /\ DOMAIN batch' = Batches
      /\ \A c \in Batches : batch'[c] = "absent" => batch[c] = "absent"
      /\ pc[b] = "pick"
  BY DEF Pick, Fence
<1>3. \/ Retire(b)
      \/ /\ cur' = [cur EXCEPT ![b] = First(b)]
         /\ todo' = [todo EXCEPT ![b] = @ \ {First(b)}]
         /\ pc' = [pc EXCEPT ![b] = "dispatch"]
  BY DEF Pick
<1>4. QueueShape' /\ OneController' /\ QuarantineIdle' /\ LeaseNeedsAttempt'
  BY <1>2, <1>3 DEF Retire, HostResultKnown, OneController, LeaseHolders,
     QuarantineIdle, LeaseNeedsAttempt
<1>5. AbsentUntouched'
  BY <1>2, <1>3 DEF Retire, AbsentUntouched, Members
<1>6. AheadUnstarted'
  BY <1>2, <1>3 DEF Retire, AheadUnstarted, Members
<1>7. PickedUnstarted'
  BY <1>1, <1>2, <1>3 DEF Retire, AheadUnstarted, PickedUnstarted, Members
<1>8. QED
  BY <1>4, <1>5, <1>6, <1>7

\* A worker is started on members that never ran: all of them for a new
\* batch, the ones left for a resumed batch.
LEMMA StartKeepsInv ==
    ASSUME QueueInv, NEW b \in Batches, CreateBatch(b) \/ ResumeBatch(b)
    PROVE  QueueInv'
<1> USE DEF QueueInv, QueueShape, Shape, attemptVars, hostVars
<1>1. /\ UNCHANGED <<attempt, lease, quarantine, hostPhase, hostResult, cur>>
      /\ batch' = [batch EXCEPT ![b] = "queued"]
      /\ pc' = [pc EXCEPT ![b] = "start"]
  BY DEF CreateBatch, ResumeBatch, StartWorker, KeepRest
<1>2. PICK list : /\ todo' = [todo EXCEPT ![b] = list]
                  /\ list \subseteq Members(b)
                  /\ \A r \in list : attempt[r] = "none"
  <2>1. CASE CreateBatch(b)
    BY <2>1 DEF CreateBatch, StartWorker, AbsentUntouched
  <2>2. CASE ResumeBatch(b)
    BY <2>2 DEF ResumeBatch, StartWorker
  <2>3. QED
    BY <2>1, <2>2
<1>3. QueueShape' /\ OneController' /\ QuarantineIdle' /\ LeaseNeedsAttempt'
  BY <1>1, <1>2 DEF HostResultKnown, OneController, LeaseHolders,
     QuarantineIdle, LeaseNeedsAttempt
<1>4. AbsentUntouched'
  BY <1>1 DEF AbsentUntouched, Members
<1>5. AheadUnstarted'
  BY <1>1, <1>2 DEF AheadUnstarted, Members
<1>6. PickedUnstarted'
  BY <1>1, <1>2 DEF PickedUnstarted, Members
<1>7. QED
  BY <1>3, <1>4, <1>5, <1>6

LEMMA PrepareKeepsInv ==
    ASSUME QueueInv, NEW b \in Batches, Prepare(b)
    PROVE  QueueInv'
<1> USE DEF QueueInv, QueueShape, Shape, hostVars
<1> DEFINE r == cur[b]
<1>1. /\ pc[b] = "prepare" /\ LeaseHolders = {} /\ quarantine = "none"
      /\ attempt' = [attempt EXCEPT ![r] = "starting"]
      /\ lease' = [lease EXCEPT ![r] = "active"]
      /\ pc' = [pc EXCEPT ![b] = "claim"]
      /\ UNCHANGED <<batch, cur, todo, quarantine, hostPhase, hostResult>>
  BY DEF Prepare, DesktopFree, DesktopReleased, Goto, batchVars
<1>2. r \in Members(b) \ todo[b]
  BY <1>1 DEF PickedUnstarted
<1>3. QueueShape'
  BY <1>1 DEF HostResultKnown
<1>4. OneController' /\ QuarantineIdle' /\ LeaseNeedsAttempt'
  BY <1>1 DEF OneController, LeaseHolders, QuarantineIdle, LeaseNeedsAttempt
<1>5. AbsentUntouched'
  BY <1>1, <1>2 DEF AbsentUntouched, Members
<1>6. AheadUnstarted'
  BY <1>1, <1>2 DEF AheadUnstarted, Members
<1>7. PickedUnstarted'
  BY <1>1, <1>2 DEF PickedUnstarted, Members
<1>8. QED
  BY <1>3, <1>4, <1>5, <1>6, <1>7

LEMMA StepQueueInv == QueueInv /\ [Next]_vars => QueueInv'
<1> SUFFICES ASSUME QueueInv, [Next]_vars PROVE QueueInv'
  OBVIOUS
<1>1. CASE Next
  BY <1>1, StepKinds, CalmKeepsInv, PickKeepsInv, StartKeepsInv,
     PrepareKeepsInv DEF QueueInv
<1>2. CASE UNCHANGED vars
  BY <1>2 DEF vars, attemptVars, batchVars, hostVars, workerVars, QueueInv,
     QueueShape, Shape, HostResultKnown, OneController, LeaseHolders,
     QuarantineIdle, LeaseNeedsAttempt, AbsentUntouched, AheadUnstarted,
     PickedUnstarted, Members
<1>3. QED
  BY <1>1, <1>2

LEMMA QueueInvHolds == Spec => []QueueInv
BY InitQueueInv, StepQueueInv, PTL DEF Spec

-----------------------------------------------------------------------------
\* The desktop has one controller, for every set of batches and runs and
\* every number of crashes: workers, Host callbacks, cancellations, resumes
\* and startups never leave two attempts with an active lease.
THEOREM ExclusiveController == Spec => []OneController
<1>1. QueueInv => OneController
  BY DEF QueueInv
<1>2. QED
  BY <1>1, QueueInvHolds, PTL

\* A quarantined desktop has no controller, for all constants: input recovery
\* quarantines it in the transaction that ends the last lease, and nothing is
\* prepared before the quarantine is released.
THEOREM QuarantineHasNoController == Spec => []QuarantineIdle
<1>1. QueueInv => QuarantineIdle
  BY DEF QueueInv
<1>2. QED
  BY <1>1, QueueInvHolds, PTL

\* Both at once: a quarantined desktop stays out of every worker's hands and a
\* free one is in the hands of at most one.
THEOREM DesktopIsKept == Spec => []DesktopKept
<1>1. QueueInv => DesktopKept
  BY DEF QueueInv, DesktopKept
<1>2. QED
  BY <1>1, QueueInvHolds, PTL

\* Every step of the queue grants the lease of one attempt that never had
\* one, ends the lease of the only holder, or leaves the leases alone.
LEMMA StepRefines == QueueInv /\ [Next]_vars => [Desktop!Next]_lease
<1> SUFFICES ASSUME QueueInv, [Next]_vars PROVE [Desktop!Next]_lease
  OBVIOUS
<1> USE DEF QueueInv, QueueShape, Shape
<1>1. CASE Calm
  <2>1. CASE \A r \in Runs : lease'[r] = lease[r]
    BY <1>1, <2>1 DEF Calm, CalmLeases
  <2>2. ASSUME NEW r \in Runs, lease'[r] # lease[r] PROVE Desktop!End(r)
    <3>1. lease[r] = "active" /\ lease'[r] = "ended"
      BY <1>1, <2>2 DEF Calm, CalmLeases
    <3>2. \A s \in Runs : s # r => lease'[s] = lease[s]
      BY <1>1, <3>1 DEF Calm, CalmLeases, OneController, LeaseHolders
    <3>3. QED
      BY <1>1, <3>1, <3>2 DEF Calm, CalmLeases, Desktop!End
  <2>3. QED
    BY <2>1, <2>2 DEF Desktop!Next
<1>2. ASSUME NEW b \in Batches, Prepare(b) PROVE Desktop!Next
  <2>1. cur[b] \in Runs /\ lease[cur[b]] = "none"
    BY <1>2 DEF Prepare, PickedUnstarted, LeaseNeedsAttempt, Members
  <2>2. Desktop!Grant(cur[b])
    BY <1>2, <2>1 DEF Prepare, DesktopFree, LeaseHolders, Desktop!Grant
  <2>3. QED
    BY <2>1, <2>2 DEF Desktop!Next
<1>3. ASSUME NEW b \in Batches, CreateBatch(b) \/ ResumeBatch(b) \/ Pick(b)
      PROVE  UNCHANGED lease
  BY <1>3 DEF CreateBatch, ResumeBatch, Pick, attemptVars
<1>4. CASE UNCHANGED vars
  BY <1>4 DEF vars, attemptVars
<1>5. QED
  BY <1>1, <1>2, <1>3, <1>4, StepKinds

\* The queue implements the desktop lease: no lease is granted while another
\* is active, none is granted twice, and one that ended stays ended.
THEOREM QueueRefinesDesktop == Spec => ImplementsDesktopLease
<1>1. Init => Desktop!Init
  BY DEF Init, Desktop!Init
<1>2. QED
  BY <1>1, StepRefines, QueueInvHolds, PTL
     DEF Spec, ImplementsDesktopLease, Desktop!Spec

-----------------------------------------------------------------------------
(* The rows of the queue: who writes them, their types, and what they keep. *)
(* The lemmas called ...Writers name, for each group of variables, the      *)
(* actions that may change it; every other step leaves the group alone.     *)

-----------------------------------------------------------------------------
(* The writers of each group of variables.                                 *)

LEMMA AttemptWriters ==
    ASSUME Next
    PROVE  \/ UNCHANGED attemptVars
           \/ \E b \in Batches : \/ Prepare(b) \/ Claim(b) \/ Mark(b)
                                 \/ Launch(b) \/ LauncherFails(b)
                                 \/ Abort(b) \/ AbortLease(b)
                                 \/ SpawnFails(b) \/ Record(b) \/ Timeout(b)
                                 \/ Recover(b) \/ Park(b) \/ DeliverTry(b)
                                 \/ CancelBatch(b) \/ RecoverBatch(b)
           \/ \E r \in Runs : \/ CancelRun(r) \/ DeliverRunCancel(r)
           \/ HumanEvent \/ FinishCommit \/ FinishFail \/ StartRevoke
<1> USE DEF attemptVars
<1>1. ASSUME NEW b \in Batches, Worker(b)
      PROVE  \/ UNCHANGED attemptVars \/ Prepare(b) \/ Claim(b) \/ Mark(b)
             \/ Launch(b) \/ LauncherFails(b) \/ Abort(b) \/ AbortLease(b)
             \/ SpawnFails(b) \/ Record(b) \/ Timeout(b) \/ Recover(b)
             \/ Park(b)
  BY <1>1 DEF Worker, WorkerStart, Begin, LoopEnds, SkipQuarantined, Pick,
     Dispatch, PrepareFails, FailUnstarted, MarkRun, AbortRun, AbortMember,
     TakeHandoff, Spawn, Reread, SetRun, Collect, GiveUp, FenceUnknown,
     RefuseOwner, AfterRecovery, StopAtGate, Stop, NextMember,
     FinishCancelled, Finish, Conclude, AcknowledgeSeal, FailRun, Fence,
     FenceFromWorker, SealFromWorker, WriteRunning, Goto, Retire,
     KeepRunFlags, KeepCancel, KeepFixed, KeepRest, KeepBatches, KeepOwner,
     memberVars, runVars, batchVars, cancelVars, hostVars, workerVars
<1>2. ASSUME NEW b \in Batches, Delivery(b)
      PROVE  \/ UNCHANGED attemptVars \/ DeliverTry(b)
  BY <1>2 DEF Delivery, DeliverSettle, Goto, Retire, KeepRunFlags,
     KeepCancel, KeepFixed, KeepRest, KeepBatches, KeepOwner, memberVars,
     runVars, batchVars, cancelVars, hostVars, workerVars
<1>3. ASSUME NEW b \in Batches, Command(b)
      PROVE  \/ UNCHANGED attemptVars \/ CancelBatch(b)
  BY <1>3 DEF Command, CreateBatch, CancelIdleBatch, Decide, Resolve,
     ResolveCancelled, ResolveOpen, Dismiss, ResumeBatch, ReviewSeal,
     AcknowledgeSeal, Cancellable, Resolved, ResolvedWith, StartWorker,
     Goto, Retire, KeepRunFlags, KeepCancel, KeepFixed, KeepRest,
     KeepBatches, KeepOwner, memberVars, runVars, batchVars, cancelVars,
     hostVars, workerVars
<1>4. ASSUME NEW r \in Runs, RunCommand(r)
      PROVE  \/ UNCHANGED attemptVars \/ CancelRun(r) \/ DeliverRunCancel(r)
  BY <1>4 DEF RunCommand, WithdrawRun, Goto, Retire, KeepRunFlags,
     KeepCancel, KeepFixed, KeepRest, KeepBatches, KeepOwner, memberVars,
     runVars, batchVars, cancelVars, hostVars, workerVars
<1>5. ASSUME Host
      PROVE  \/ UNCHANGED attemptVars \/ HumanEvent \/ FinishCommit
             \/ FinishFail
  BY <1>5 DEF Host, HostExit, HostLost, FinishLost, Adjudicate, HandOff,
     Goto, Retire, KeepRunFlags, KeepCancel, KeepFixed, KeepRest,
     KeepBatches, KeepOwner, memberVars, runVars, batchVars, cancelVars,
     hostVars, workerVars
<1>6. QED
  BY <1>1, <1>2, <1>3, <1>4, <1>5 DEF Next, Serve, Seal, Restart, ReleaseQuarantine, Crash, StartDone, SealCommit

LEMMA MemberWriters ==
    ASSUME Next
    PROVE  \/ UNCHANGED memberVars
           \/ \E b \in Batches : \/ WorkerStart(b) \/ SkipQuarantined(b)
                                 \/ Pick(b) \/ Prepare(b) \/ PrepareFails(b)
                                 \/ Launch(b) \/ LauncherFails(b)
                                 \/ AbortMember(b) \/ SpawnFails(b)
                                 \/ Recover(b) \/ FenceUnknown(b) \/ Park(b)
                                 \/ FinishCancelled(b) \/ CancelIdleBatch(b)
                                 \/ Resolve(b) \/ ResolveCancelled(b)
                                 \/ RecoverBatch(b)
           \/ FinishCommit \/ FinishFail
<1> USE DEF memberVars
<1>1. ASSUME NEW b \in Batches, Worker(b)
      PROVE  \/ UNCHANGED memberVars \/ WorkerStart(b) \/ SkipQuarantined(b)
             \/ Pick(b) \/ Prepare(b) \/ PrepareFails(b) \/ Launch(b)
             \/ LauncherFails(b) \/ AbortMember(b) \/ SpawnFails(b)
             \/ Recover(b) \/ FenceUnknown(b) \/ Park(b)
             \/ FinishCancelled(b)
  BY <1>1 DEF Worker, Begin, LoopEnds, Dispatch, FailUnstarted, Claim, Mark,
     MarkRun, Abort, AbortRun, AbortLease, TakeHandoff, Spawn, Record,
     Reread, SetRun, Collect, Timeout, GiveUp, RefuseOwner, AfterRecovery,
     StopAtGate, Stop, NextMember, Finish, Conclude, Asked, FailRun,
     WaitExpired, WriteRunning, Goto, Retire, KeepRunFlags, KeepCancel,
     KeepFixed, KeepRest, KeepBatches, KeepOwner, attemptVars, runVars,
     batchVars, cancelVars, hostVars, workerVars
<1>2. ASSUME NEW b \in Batches, Delivery(b)
      PROVE  \/ UNCHANGED memberVars
  BY <1>2 DEF Delivery, DeliverTry, DeliverSettle, TriesLeft, Goto, Retire,
     KeepRunFlags, KeepCancel, KeepFixed, KeepRest, KeepBatches, KeepOwner,
     attemptVars, runVars, batchVars, cancelVars, hostVars, workerVars
<1>3. ASSUME NEW b \in Batches, Command(b)
      PROVE  \/ UNCHANGED memberVars \/ CancelIdleBatch(b) \/ Resolve(b)
             \/ ResolveCancelled(b)
  BY <1>3 DEF Command, CreateBatch, CancelBatch, Decide, ResolveOpen,
     Dismiss, ResumeBatch, ReviewSeal, Cancellable, Resolved, ResolvedWith,
     StartWorker, Goto, Retire, KeepRunFlags, KeepCancel, KeepFixed,
     KeepRest, KeepBatches, KeepOwner, attemptVars, runVars, batchVars,
     cancelVars, hostVars, workerVars
<1>4. ASSUME NEW r \in Runs, RunCommand(r)
      PROVE  \/ UNCHANGED memberVars
  BY <1>4 DEF RunCommand, CancelRun, WithdrawRun, DeliverRunCancel, Goto,
     Retire, KeepRunFlags, KeepCancel, KeepFixed, KeepRest, KeepBatches,
     KeepOwner, attemptVars, runVars, batchVars, cancelVars, hostVars,
     workerVars
<1>5. ASSUME Host
      PROVE  \/ UNCHANGED memberVars \/ FinishCommit \/ FinishFail
  BY <1>5 DEF Host, HostExit, HostLost, HumanEvent, FinishLost, Adjudicate,
     HandOff, Goto, Retire, KeepRunFlags, KeepCancel, KeepFixed, KeepRest,
     KeepBatches, KeepOwner, attemptVars, runVars, batchVars, cancelVars,
     hostVars, workerVars
<1>6. QED
  BY <1>1, <1>2, <1>3, <1>4, <1>5 DEF Next, Serve, Seal, Restart, ReleaseQuarantine, Crash, StartRevoke, StartDone, SealCommit

LEMMA RunWriters ==
    ASSUME Next
    PROVE  \/ UNCHANGED runVars
           \/ \E b \in Batches : \/ WorkerStart(b) \/ SkipQuarantined(b)
                                 \/ Pick(b) \/ FailUnstarted(b) \/ Mark(b)
                                 \/ MarkRun(b) \/ Launch(b)
                                 \/ LauncherFails(b) \/ AbortRun(b)
                                 \/ SpawnFails(b) \/ SetRun(b) \/ Recover(b)
                                 \/ FenceUnknown(b) \/ Park(b)
                                 \/ FinishCancelled(b) \/ DeliverTry(b)
                                 \/ CancelBatch(b) \/ CancelIdleBatch(b)
                                 \/ ResolveCancelled(b) \/ ResumeBatch(b)
                                 \/ RecoverBatch(b)
           \/ \E r \in Runs : \/ CancelRun(r) \/ WithdrawRun(r)
                              \/ DeliverRunCancel(r)
           \/ HumanEvent \/ FinishCommit \/ FinishFail \/ Adjudicate
           \/ Crash \/ StartRevoke
<1> USE DEF runVars
<1>1. ASSUME NEW b \in Batches, Worker(b)
      PROVE  \/ UNCHANGED runVars \/ WorkerStart(b) \/ SkipQuarantined(b)
             \/ Pick(b) \/ FailUnstarted(b) \/ Mark(b) \/ MarkRun(b)
             \/ Launch(b) \/ LauncherFails(b) \/ AbortRun(b)
             \/ SpawnFails(b) \/ SetRun(b) \/ Recover(b) \/ FenceUnknown(b)
             \/ Park(b) \/ FinishCancelled(b)
  BY <1>1 DEF Worker, Begin, LoopEnds, Dispatch, Prepare, PrepareFails,
     Claim, Abort, AbortLease, AbortMember, TakeHandoff, Spawn, Record,
     Reread, Collect, Timeout, GiveUp, RefuseOwner, AfterRecovery,
     StopAtGate, Stop, NextMember, Finish, Conclude, Asked, WaitExpired,
     WriteRunning, Goto, Retire, KeepRunFlags, KeepCancel, KeepFixed,
     KeepRest, KeepBatches, KeepOwner, attemptVars, memberVars, batchVars,
     cancelVars, hostVars, workerVars
<1>2. ASSUME NEW b \in Batches, Delivery(b)
      PROVE  \/ UNCHANGED runVars \/ DeliverTry(b)
  BY <1>2 DEF Delivery, DeliverSettle, Goto, Retire, KeepRunFlags,
     KeepCancel, KeepFixed, KeepRest, KeepBatches, KeepOwner, attemptVars,
     memberVars, batchVars, cancelVars, hostVars, workerVars
<1>3. ASSUME NEW b \in Batches, Command(b)
      PROVE  \/ UNCHANGED runVars \/ CancelBatch(b) \/ CancelIdleBatch(b)
             \/ ResolveCancelled(b) \/ ResumeBatch(b)
  BY <1>3 DEF Command, CreateBatch, Decide, Resolve, ResolveOpen, Dismiss,
     ReviewSeal, Resolved, ResolvedWith, StartWorker, Goto, Retire,
     KeepRunFlags, KeepCancel, KeepFixed, KeepRest, KeepBatches, KeepOwner,
     attemptVars, memberVars, batchVars, cancelVars, hostVars, workerVars
<1>4. ASSUME NEW r \in Runs, RunCommand(r)
      PROVE  \/ UNCHANGED runVars \/ CancelRun(r) \/ WithdrawRun(r)
             \/ DeliverRunCancel(r)
  BY <1>4 DEF RunCommand, Goto, Retire, KeepRunFlags, KeepCancel, KeepFixed,
     KeepRest, KeepBatches, KeepOwner, attemptVars, memberVars, batchVars,
     cancelVars, hostVars, workerVars
<1>5. ASSUME Host
      PROVE  \/ UNCHANGED runVars \/ HumanEvent \/ FinishCommit
             \/ FinishFail \/ Adjudicate
  BY <1>5 DEF Host, HostExit, HostLost, FinishLost, HandOff, Goto, Retire,
     KeepRunFlags, KeepCancel, KeepFixed, KeepRest, KeepBatches, KeepOwner,
     attemptVars, memberVars, batchVars, cancelVars, hostVars, workerVars
<1>6. QED
  BY <1>1, <1>2, <1>3, <1>4, <1>5 DEF Next, Serve, Seal, Restart, ReleaseQuarantine, StartDone, SealCommit

LEMMA BatchWriters ==
    ASSUME Next
    PROVE  \/ UNCHANGED batchVars
           \/ \E b \in Batches : \/ Begin(b) \/ Pick(b) \/ Dispatch(b)
                                 \/ FenceUnknown(b) \/ Stop(b)
                                 \/ FinishCancelled(b) \/ Conclude(b)
                                 \/ DeliverSettle(b) \/ CreateBatch(b)
                                 \/ CancelBatch(b) \/ CancelIdleBatch(b)
                                 \/ Decide(b) \/ Resolve(b)
                                 \/ ResolveCancelled(b) \/ ResolveOpen(b)
                                 \/ Dismiss(b) \/ ResumeBatch(b)
                                 \/ ReviewSeal(b) \/ SealCommit(b)
                                 \/ RecoverBatch(b)
           \/ Crash
<1> USE DEF batchVars
<1>1. ASSUME NEW b \in Batches, Worker(b)
      PROVE  \/ UNCHANGED batchVars \/ Begin(b) \/ Pick(b) \/ Dispatch(b)
             \/ FenceUnknown(b) \/ Stop(b) \/ FinishCancelled(b)
             \/ Conclude(b)
  BY <1>1 DEF Worker, WorkerStart, LoopEnds, SkipQuarantined, Prepare,
     PrepareFails, FailUnstarted, Claim, Mark, MarkRun, Launch,
     LauncherFails, Abort, AbortRun, AbortLease, AbortMember, TakeHandoff,
     Spawn, SpawnFails, Record, Reread, SetRun, Collect, Timeout, Recover,
     GiveUp, RefuseOwner, AfterRecovery, Park, StopAtGate, NextMember,
     Finish, AcknowledgeSeal, Asked, Authorised, FailRun, FailStart,
     Recoverable, SealFromWorker, WaitExpired, Goto, Retire, KeepRunFlags,
     KeepCancel, KeepFixed, KeepRest, KeepBatches, KeepOwner, attemptVars,
     memberVars, runVars, cancelVars, hostVars, workerVars
<1>2. ASSUME NEW b \in Batches, Delivery(b)
      PROVE  \/ UNCHANGED batchVars \/ DeliverSettle(b)
  BY <1>2 DEF Delivery, DeliverTry, TriesLeft, Goto, Retire, KeepRunFlags,
     KeepCancel, KeepFixed, KeepRest, KeepBatches, KeepOwner, attemptVars,
     memberVars, runVars, cancelVars, hostVars, workerVars
<1>3. ASSUME NEW b \in Batches, Command(b)
      PROVE  \/ UNCHANGED batchVars \/ CreateBatch(b) \/ CancelBatch(b)
             \/ CancelIdleBatch(b) \/ Decide(b) \/ Resolve(b)
             \/ ResolveCancelled(b) \/ ResolveOpen(b) \/ Dismiss(b)
             \/ ResumeBatch(b) \/ ReviewSeal(b)
  BY <1>3 DEF Command, Goto, Retire, KeepRunFlags, KeepCancel, KeepFixed,
     KeepRest, KeepBatches, KeepOwner, attemptVars, memberVars, runVars,
     cancelVars, hostVars, workerVars
<1>4. ASSUME NEW r \in Runs, RunCommand(r)
      PROVE  \/ UNCHANGED batchVars
  BY <1>4 DEF RunCommand, CancelRun, WithdrawRun, DeliverRunCancel, Goto,
     Retire, KeepRunFlags, KeepCancel, KeepFixed, KeepRest, KeepBatches,
     KeepOwner, attemptVars, memberVars, runVars, cancelVars, hostVars,
     workerVars
<1>5. ASSUME Host
      PROVE  \/ UNCHANGED batchVars
  BY <1>5 DEF Host, HostExit, HostLost, HumanEvent, FinishCommit,
     FinishFail, FinishLost, Adjudicate, HandOff, FinalState, Finishing,
     RunStateOf, Goto, Retire, KeepRunFlags, KeepCancel, KeepFixed,
     KeepRest, KeepBatches, KeepOwner, attemptVars, memberVars, runVars,
     cancelVars, hostVars, workerVars
<1>6. QED
  BY <1>1, <1>2, <1>3, <1>4, <1>5 DEF Next, Serve, Seal, Restart, ReleaseQuarantine, StartRevoke, StartDone

LEMMA CancelWriters ==
    ASSUME Next
    PROVE  \/ UNCHANGED cancelVars
           \/ \E b \in Batches : \/ WorkerStart(b) \/ Pick(b)
                                 \/ FenceUnknown(b) \/ FinishCancelled(b)
                                 \/ DeliverTry(b) \/ DeliverSettle(b)
                                 \/ CancelBatch(b) \/ CancelIdleBatch(b)
                                 \/ ResolveCancelled(b) \/ SealCommit(b)
                                 \/ RecoverBatch(b)
           \/ Crash
<1> USE DEF cancelVars
<1>1. ASSUME NEW b \in Batches, Worker(b)
      PROVE  \/ UNCHANGED cancelVars \/ WorkerStart(b) \/ Pick(b)
             \/ FenceUnknown(b) \/ FinishCancelled(b)
  BY <1>1 DEF Worker, Begin, LoopEnds, SkipQuarantined, Dispatch, Prepare,
     PrepareFails, FailUnstarted, Claim, Mark, MarkRun, Launch,
     LauncherFails, Abort, AbortRun, AbortLease, AbortMember, TakeHandoff,
     Spawn, SpawnFails, Record, Reread, SetRun, Collect, Timeout, Recover,
     GiveUp, RefuseOwner, AfterRecovery, Park, StopAtGate, Stop, NextMember,
     Finish, Conclude, Asked, Authorised, FailRun, FailStart, Recoverable,
     WaitExpired, WriteRunning, Goto, Retire, KeepRunFlags, KeepCancel,
     KeepFixed, KeepRest, KeepBatches, KeepOwner, attemptVars, memberVars,
     runVars, batchVars, hostVars, workerVars
<1>2. ASSUME NEW b \in Batches, Delivery(b)
      PROVE  \/ UNCHANGED cancelVars \/ DeliverTry(b) \/ DeliverSettle(b)
  BY <1>2 DEF Delivery, Goto, Retire, KeepRunFlags, KeepCancel, KeepFixed,
     KeepRest, KeepBatches, KeepOwner, attemptVars, memberVars, runVars,
     batchVars, hostVars, workerVars
<1>3. ASSUME NEW b \in Batches, Command(b)
      PROVE  \/ UNCHANGED cancelVars \/ CancelBatch(b) \/ CancelIdleBatch(b)
             \/ ResolveCancelled(b)
  BY <1>3 DEF Command, CreateBatch, Decide, Resolve, ResolveOpen, Dismiss,
     ResumeBatch, ReviewSeal, Resolved, ResolvedWith, StartWorker, Goto,
     Retire, KeepRunFlags, KeepCancel, KeepFixed, KeepRest, KeepBatches,
     KeepOwner, attemptVars, memberVars, runVars, batchVars, hostVars,
     workerVars
<1>4. ASSUME NEW r \in Runs, RunCommand(r)
      PROVE  \/ UNCHANGED cancelVars
  BY <1>4 DEF RunCommand, CancelRun, WithdrawRun, DeliverRunCancel, Goto,
     Retire, KeepRunFlags, KeepCancel, KeepFixed, KeepRest, KeepBatches,
     KeepOwner, attemptVars, memberVars, runVars, batchVars, hostVars,
     workerVars
<1>5. ASSUME Host
      PROVE  \/ UNCHANGED cancelVars
  BY <1>5 DEF Host, HostExit, HostLost, HumanEvent, FinishCommit,
     FinishFail, FinishLost, Adjudicate, HandOff, FinalState, Finishing,
     RunStateOf, Goto, Retire, KeepRunFlags, KeepCancel, KeepFixed,
     KeepRest, KeepBatches, KeepOwner, attemptVars, memberVars, runVars,
     batchVars, hostVars, workerVars
<1>6. QED
  BY <1>1, <1>2, <1>3, <1>4, <1>5 DEF Next, Serve, Seal, Restart, ReleaseQuarantine, StartRevoke, StartDone

LEMMA HostWriters ==
    ASSUME Next
    PROVE  \/ UNCHANGED hostVars
           \/ \E b \in Batches : \/ Spawn(b) \/ Timeout(b) \/ DeliverTry(b)
           \/ \E r \in Runs : \/ DeliverRunCancel(r)
           \/ HostExit \/ HostLost \/ FinishCommit \/ FinishFail
           \/ FinishLost \/ HandOff \/ ReleaseQuarantine \/ Crash
<1> USE DEF hostVars
<1>1. ASSUME NEW b \in Batches, Worker(b)
      PROVE  \/ UNCHANGED hostVars \/ Spawn(b) \/ Timeout(b)
  BY <1>1 DEF Worker, WorkerStart, Begin, LoopEnds, SkipQuarantined, Pick,
     Dispatch, Prepare, PrepareFails, FailUnstarted, Claim, Mark, MarkRun,
     Launch, LauncherFails, Abort, AbortRun, AbortLease, AbortMember,
     TakeHandoff, SpawnFails, Record, Reread, SetRun, Collect, Recover,
     GiveUp, FenceUnknown, RefuseOwner, AfterRecovery, Park, StopAtGate,
     Stop, NextMember, FinishCancelled, Finish, Conclude, AcknowledgeSeal,
     Authorised, FailRun, FailStart, Fence, FenceFromWorker, Recoverable,
     SealFromWorker, WriteRunning, Goto, Retire, KeepRunFlags, KeepCancel,
     KeepFixed, KeepRest, KeepBatches, KeepOwner, attemptVars, memberVars,
     runVars, batchVars, cancelVars, workerVars
<1>2. ASSUME NEW b \in Batches, Delivery(b)
      PROVE  \/ UNCHANGED hostVars \/ DeliverTry(b)
  BY <1>2 DEF Delivery, DeliverSettle, Goto, Retire, KeepRunFlags,
     KeepCancel, KeepFixed, KeepRest, KeepBatches, KeepOwner, attemptVars,
     memberVars, runVars, batchVars, cancelVars, workerVars
<1>3. ASSUME NEW b \in Batches, Command(b)
      PROVE  \/ UNCHANGED hostVars
  BY <1>3 DEF Command, CreateBatch, CancelBatch, CancelIdleBatch, Decide,
     Resolve, ResolveCancelled, ResolveOpen, Dismiss, ResumeBatch,
     ReviewSeal, AcknowledgeSeal, Cancellable, Resolved, ResolvedWith,
     StartWorker, Goto, Retire, KeepRunFlags, KeepCancel, KeepFixed,
     KeepRest, KeepBatches, KeepOwner, attemptVars, memberVars, runVars,
     batchVars, cancelVars, workerVars
<1>4. ASSUME NEW r \in Runs, RunCommand(r)
      PROVE  \/ UNCHANGED hostVars \/ DeliverRunCancel(r)
  BY <1>4 DEF RunCommand, CancelRun, WithdrawRun, Goto, Retire,
     KeepRunFlags, KeepCancel, KeepFixed, KeepRest, KeepBatches, KeepOwner,
     attemptVars, memberVars, runVars, batchVars, cancelVars, workerVars
<1>5. ASSUME Host
      PROVE  \/ UNCHANGED hostVars \/ HostExit \/ HostLost \/ FinishCommit
             \/ FinishFail \/ FinishLost \/ HandOff
  BY <1>5 DEF Host, HumanEvent, Adjudicate, Goto, Retire, KeepRunFlags,
     KeepCancel, KeepFixed, KeepRest, KeepBatches, KeepOwner, attemptVars,
     memberVars, runVars, batchVars, cancelVars, workerVars
<1>6. QED
  BY <1>1, <1>2, <1>3, <1>4, <1>5 DEF Next, Serve, Seal, Restart, StartRevoke, StartDone, SealCommit, RecoverBatch

LEMMA WorkerWriters ==
    ASSUME Next
    PROVE  \/ UNCHANGED workerVars
           \/ \E b \in Batches : \/ WorkerStart(b) \/ Begin(b)
                                 \/ LoopEnds(b) \/ SkipQuarantined(b)
                                 \/ Pick(b) \/ Dispatch(b) \/ Prepare(b)
                                 \/ PrepareFails(b) \/ FailUnstarted(b)
                                 \/ Claim(b) \/ Mark(b) \/ MarkRun(b)
                                 \/ Launch(b) \/ LauncherFails(b)
                                 \/ Abort(b) \/ AbortRun(b) \/ AbortLease(b)
                                 \/ AbortMember(b) \/ TakeHandoff(b)
                                 \/ Spawn(b) \/ SpawnFails(b) \/ Record(b)
                                 \/ Reread(b) \/ SetRun(b) \/ Collect(b)
                                 \/ Timeout(b) \/ Recover(b) \/ GiveUp(b)
                                 \/ FenceUnknown(b) \/ RefuseOwner(b)
                                 \/ AfterRecovery(b) \/ Park(b)
                                 \/ StopAtGate(b) \/ Stop(b)
                                 \/ NextMember(b) \/ FinishCancelled(b)
                                 \/ Finish(b) \/ Conclude(b)
                                 \/ CreateBatch(b) \/ ResumeBatch(b)
           \/ Crash
<1> USE DEF workerVars
<1>1. ASSUME NEW b \in Batches, Worker(b)
      PROVE  \/ UNCHANGED workerVars \/ WorkerStart(b) \/ Begin(b)
             \/ LoopEnds(b) \/ SkipQuarantined(b) \/ Pick(b) \/ Dispatch(b)
             \/ Prepare(b) \/ PrepareFails(b) \/ FailUnstarted(b)
             \/ Claim(b) \/ Mark(b) \/ MarkRun(b) \/ Launch(b)
             \/ LauncherFails(b) \/ Abort(b) \/ AbortRun(b) \/ AbortLease(b)
             \/ AbortMember(b) \/ TakeHandoff(b) \/ Spawn(b)
             \/ SpawnFails(b) \/ Record(b) \/ Reread(b) \/ SetRun(b)
             \/ Collect(b) \/ Timeout(b) \/ Recover(b) \/ GiveUp(b)
             \/ FenceUnknown(b) \/ RefuseOwner(b) \/ AfterRecovery(b)
             \/ Park(b) \/ StopAtGate(b) \/ Stop(b) \/ NextMember(b)
             \/ FinishCancelled(b) \/ Finish(b) \/ Conclude(b)
  BY <1>1 DEF Worker, Goto, Retire, KeepRunFlags, KeepCancel, KeepFixed,
     KeepRest, KeepBatches, KeepOwner, attemptVars, memberVars, runVars,
     batchVars, cancelVars, hostVars
<1>2. ASSUME NEW b \in Batches, Delivery(b)
      PROVE  \/ UNCHANGED workerVars
  BY <1>2 DEF Delivery, DeliverTry, DeliverSettle, TriesLeft, Goto, Retire,
     KeepRunFlags, KeepCancel, KeepFixed, KeepRest, KeepBatches, KeepOwner,
     attemptVars, memberVars, runVars, batchVars, cancelVars, hostVars
<1>3. ASSUME NEW b \in Batches, Command(b)
      PROVE  \/ UNCHANGED workerVars \/ CreateBatch(b) \/ ResumeBatch(b)
  BY <1>3 DEF Command, CancelBatch, CancelIdleBatch, Decide, Resolve,
     ResolveCancelled, ResolveOpen, Dismiss, ReviewSeal, AcknowledgeSeal,
     Cancellable, Resolved, ResolvedWith, Goto, Retire, KeepRunFlags,
     KeepCancel, KeepFixed, KeepRest, KeepBatches, KeepOwner, attemptVars,
     memberVars, runVars, batchVars, cancelVars, hostVars
<1>4. ASSUME NEW r \in Runs, RunCommand(r)
      PROVE  \/ UNCHANGED workerVars
  BY <1>4 DEF RunCommand, CancelRun, WithdrawRun, DeliverRunCancel, Goto,
     Retire, KeepRunFlags, KeepCancel, KeepFixed, KeepRest, KeepBatches,
     KeepOwner, attemptVars, memberVars, runVars, batchVars, cancelVars,
     hostVars
<1>5. ASSUME Host
      PROVE  \/ UNCHANGED workerVars
  BY <1>5 DEF Host, HostExit, HostLost, HumanEvent, FinishCommit,
     FinishFail, FinishLost, Adjudicate, HandOff, FinalState, Finishing,
     RunStateOf, Goto, Retire, KeepRunFlags, KeepCancel, KeepFixed,
     KeepRest, KeepBatches, KeepOwner, attemptVars, memberVars, runVars,
     batchVars, cancelVars, hostVars
<1>6. QED
  BY <1>1, <1>2, <1>3, <1>4, <1>5 DEF Next, Serve, Seal, Restart, ReleaseQuarantine, StartRevoke, StartDone, SealCommit, RecoverBatch

LEMMA QuarantineWriters ==
    ASSUME Next
    PROVE  \/ UNCHANGED quarantine
           \/ \E b \in Batches : \/ Recover(b)
           \/ ReleaseQuarantine \/ Crash
<1>1. ASSUME NEW b \in Batches, Worker(b)
      PROVE  \/ UNCHANGED quarantine \/ Recover(b)
  BY <1>1 DEF Worker, WorkerStart, Begin, LoopEnds, SkipQuarantined, Pick,
     Dispatch, Prepare, PrepareFails, FailUnstarted, Claim, Mark, MarkRun,
     Launch, LauncherFails, Abort, AbortRun, AbortLease, AbortMember,
     TakeHandoff, Spawn, SpawnFails, Record, Reread, SetRun, Collect,
     Timeout, GiveUp, FenceUnknown, RefuseOwner, AfterRecovery, Park,
     StopAtGate, Stop, NextMember, FinishCancelled, Finish, Conclude,
     AcknowledgeSeal, Asked, FailRun, FailStart, Fence, FenceFromWorker,
     SealFromWorker, WaitExpired, WriteRunning, Goto, Retire, KeepRunFlags,
     KeepCancel, KeepFixed, KeepRest, KeepBatches, KeepOwner, attemptVars,
     memberVars, runVars, batchVars, cancelVars, hostVars, workerVars
<1>2. ASSUME NEW b \in Batches, Delivery(b)
      PROVE  \/ UNCHANGED quarantine
  BY <1>2 DEF Delivery, DeliverTry, DeliverSettle, TriesLeft, Goto, Retire,
     KeepRunFlags, KeepCancel, KeepFixed, KeepRest, KeepBatches, KeepOwner,
     attemptVars, memberVars, runVars, batchVars, cancelVars, hostVars,
     workerVars
<1>3. ASSUME NEW b \in Batches, Command(b)
      PROVE  \/ UNCHANGED quarantine
  BY <1>3 DEF Command, CreateBatch, CancelBatch, CancelIdleBatch, Decide,
     Resolve, ResolveCancelled, ResolveOpen, Dismiss, ResumeBatch,
     ReviewSeal, AcknowledgeSeal, Cancellable, Resolved, ResolvedWith,
     StartWorker, Goto, Retire, KeepRunFlags, KeepCancel, KeepFixed,
     KeepRest, KeepBatches, KeepOwner, attemptVars, memberVars, runVars,
     batchVars, cancelVars, hostVars, workerVars
<1>4. ASSUME NEW r \in Runs, RunCommand(r)
      PROVE  \/ UNCHANGED quarantine
  BY <1>4 DEF RunCommand, CancelRun, WithdrawRun, DeliverRunCancel, Goto,
     Retire, KeepRunFlags, KeepCancel, KeepFixed, KeepRest, KeepBatches,
     KeepOwner, attemptVars, memberVars, runVars, batchVars, cancelVars,
     hostVars, workerVars
<1>5. ASSUME Host
      PROVE  \/ UNCHANGED quarantine
  BY <1>5 DEF Host, HostExit, HostLost, HumanEvent, FinishCommit,
     FinishFail, FinishLost, Adjudicate, HandOff, FinalState, Finishing,
     RunStateOf, Goto, Retire, KeepRunFlags, KeepCancel, KeepFixed,
     KeepRest, KeepBatches, KeepOwner, attemptVars, memberVars, runVars,
     batchVars, cancelVars, hostVars, workerVars
<1>6. QED
  BY <1>1, <1>2, <1>3, <1>4, <1>5 DEF Next, Serve, Seal, Restart, StartRevoke, StartDone, SealCommit, RecoverBatch

-----------------------------------------------------------------------------
(* TypeOK, group by group.                                                 *)

AttemptTypes ==
    /\ attempt \in [Runs -> {"none"} \cup Live \cup Ended]
    /\ launch \in [Runs -> {"none", "pre", "host"}]
    /\ lease \in [Runs -> {"none", "active", "ended"}]
    /\ dispatch \in [Runs -> {"none", "reserved", "claimed"}]

MemberTypes ==
    /\ member \in [Runs -> MemberStates]
    /\ outcome \in [Runs -> Outcomes]

RunTypes ==
    /\ run \in [Runs -> RunStates]
    /\ parked \subseteq Runs /\ recovered \subseteq Runs
    /\ humanGate \subseteq Runs
    /\ runCancel \in [Runs ->
          {"none", "withdrawn", "accepted", "delivered", "failed"}]

BatchTypes ==
    /\ batch \in [Batches -> BatchStates]
    /\ seal \in [Batches -> {"open", "cancelled", "reviewed"}]
    /\ recovery \in [Batches -> RecoveryStates]
    /\ workItem \in [Batches -> BOOLEAN]
    /\ decided \in [Batches -> SUBSET {"accepted", "rejected"}]
    /\ resolving \in [Batches -> SUBSET {"cancelled", "uncancelled"}]

CancelTypes ==
    /\ cancel \in [Batches -> {"none", "sealed"} \cup ActiveCancel]
    /\ tries \in [Batches -> 0 .. MaxDeliveries + 1]
    /\ undelivered \in [Batches -> SUBSET Runs]
    /\ sealing \subseteq Batches

HostTypes ==
    /\ hostOwner \in Owners
    /\ hostPhase \in HostPhases
    /\ signalled \in BOOLEAN
    /\ hostResult \in HostResults \cup {"none"}
    /\ reported \subseteq Runs

WorkerTypes ==
    /\ pc \in [Batches -> Places]
    /\ cur \in [Batches -> Owners]
    /\ todo \in [Batches -> SUBSET Runs]
    /\ intent \in [Batches -> {"none", "running", "cancelling", "cancelled",
                               "human_required"}]
    /\ resumed \subseteq Batches

Aborting == {"abort_run", "abort_lease", "abort_member"}

\* What a worker has decided to write is a state that may be written.
IntentKnown ==
    \A b \in Batches :
        /\ pc[b] = "setrun" => intent[b] \in {"running", "cancelling"}
        /\ pc[b] \in Aborting => intent[b] \in {"cancelled", "human_required"}

\* A batch that startup has yet to recover is not being sealed.
RecoverOpen ==
    /\ mgr = "revoke" => sealing = {}
    /\ mgr = "recover" => \A b \in unrecovered : Open(b) /\ b \notin sealing

Free == {"idle", "start", "begin", "pick", "finish", "conclude"}

\* The worker is busy with a member of its batch that is off its list.
CurKnown ==
    \A b \in Batches :
        /\ pc[b] \in Free <=> cur[b] = Nobody
        /\ cur[b] # Nobody => cur[b] \in Members(b) \ todo[b]

\* The Host is idle exactly when it owns no attempt.
HostKnown == hostPhase = "idle" <=> hostOwner = Nobody

TypeInv ==
    /\ AttemptTypes /\ MemberTypes /\ RunTypes /\ BatchTypes /\ CancelTypes
    /\ HostTypes /\ WorkerTypes
    /\ quarantine \in {"none", "held", "drainable"}
    /\ mgr \in {"up", "revoke", "recover", "failed"}
    /\ unrecovered \subseteq Batches /\ restarts \in 0 .. MaxRestarts
    /\ IntentKnown /\ RecoverOpen /\ CurKnown /\ HostKnown

\* A worker that is not between two members is busy with a run.
LEMMA CurIsRun ==
    ASSUME TypeInv, NEW b \in Batches, pc[b] \notin Free
    PROVE  cur[b] \in Runs /\ cur[b] \in Members(b) /\ BatchOf[cur[b]] = b
BY DEF TypeInv, CurKnown, Members

\* A busy Host owns the attempt of a run.
LEMMA OwnerIsRun ==
    ASSUME TypeInv, hostPhase # "idle"
    PROVE  hostOwner \in Runs
BY DEF TypeInv, HostKnown, HostTypes, Owners

\* The result a failed start or a callback is recorded with ends the attempt.
LEMMA ControlEnds ==
    ASSUME NEW r
    PROVE  Control(r) \in {"none", "cancelled", "human_required"}
BY DEF Control

LEMMA FinalEnds ==
    ASSUME QueueInv, hostPhase = "reporting"
    PROVE  /\ hostResult \in Ended
           /\ FinalState(hostOwner, hostResult) \in Ended
<1>1. hostResult \in Ended
  BY ResultsAssumption DEF QueueInv, QueueShape, HostResultKnown, Ended
<1>2. QED
  BY <1>1, ControlEnds DEF FinalState, Ended

LEMMA ClosedTypes ==
    ASSUME TypeInv, NEW b
    PROVE  /\ ClosedAttempt(b) \in [Runs -> {"none"} \cup Live \cup Ended]
           /\ ClosedMember(b) \in [Runs -> MemberStates]
           /\ ClosedOutcome(b) \in [Runs -> Outcomes]
           /\ ClosedRun(b) \in [Runs -> RunStates]
BY DEF TypeInv, AttemptTypes, MemberTypes, RunTypes, ClosedAttempt,
       ClosedMember, ClosedOutcome, ClosedRun, ClosedAs, Ended, MemberStates,
       Outcomes, RunStates

\* Startup seals a batch only when nothing of it still counts as active.
LEMMA ClosedSealable ==
    ASSUME TypeInv, NEW b \in Batches, mgr = "recover", b \in unrecovered,
           SealsAtStartup(b)
    PROVE  \A r \in Members(b) :
               ClosedMember(b)[r] = "active" => attempt[r] \notin Live
<1> SUFFICES ASSUME NEW r \in Members(b), ClosedMember(b)[r] = "active",
                    attempt[r] \in Live
             PROVE  FALSE
  OBVIOUS
<1>1. r \in PreAdapter(b)
  BY DEF SealsAtStartup, StillLive, LiveIn
<1>2. r \in ClosedNow(b)
  BY <1>1 DEF ClosedMember, ClosedNow, Terminalizable, SealsAtStartup,
     TypeInv, RecoverOpen, Members
<1>3. QED
  BY <1>2 DEF ClosedMember, Members

LEMMA TerminalizeTypes ==
    ASSUME TypeInv, NEW r, NEW result \in Outcomes, Terminalize(r, result)
    PROVE  MemberTypes'
BY DEF TypeInv, MemberTypes, Terminalize, MemberStates

LEMMA FailStartTypes ==
    ASSUME TypeInv, NEW b, FailStart(b)
    PROVE  MemberTypes'
BY TerminalizeTypes DEF FailStart, Control, Outcomes, Ended

LEMMA SealTypes ==
    ASSUME TypeInv, NEW b, NEW m \in [Runs -> MemberStates],
           NEW o \in [Runs -> Outcomes], NEW s \in [Runs -> RunStates],
           AcknowledgeSeal(b, m, o, s),
           \A r \in Members(b) : m[r] = "active" => attempt[r] \notin Live
    PROVE  MemberTypes' /\ run' \in [Runs -> RunStates]
<1>1. \A r \in Members(b) :
          m[r] = "active" /\ attempt[r] # "none" => attempt[r] \in Outcomes
  BY DEF TypeInv, AttemptTypes, Outcomes, Members
<1>2. "terminal" \in MemberStates /\ "cancelled" \in MemberStates
      /\ "cancelled" \in Outcomes
  BY DEF MemberStates, Outcomes, Ended
<1> DEFINE ran == {r \in Members(b) : m[r] = "active" /\ attempt[r] # "none"}
           never == {r \in Members(b) \ ran :
                       m[r] \notin {"terminal", "cancelled"}}
<1>4. /\ member' = [r \in Runs |-> IF r \in ran THEN "terminal"
                                    ELSE IF r \in never THEN "cancelled"
                                    ELSE m[r]]
      /\ outcome' = [r \in Runs |-> IF r \in ran THEN attempt[r]
                                     ELSE IF r \in never THEN "cancelled"
                                     ELSE o[r]]
  BY DEF AcknowledgeSeal
<1>5. \A r \in ran : attempt[r] \in Outcomes
  BY <1>1
<1> HIDE DEF ran, never
<1>6. MemberTypes'
  BY <1>2, <1>4, <1>5 DEF MemberTypes
<1>3. run' \in [Runs -> RunStates]
  BY DEF AcknowledgeSeal, RunStates
<1>7. QED
  BY <1>3, <1>6

LEMMA AttemptTyped ==
    ASSUME TypeInv, QueueInv, Next
    PROVE  AttemptTypes'
<1> USE DEF AttemptTypes, TypeInv, attemptVars, Live, Ended
<1>1. CASE UNCHANGED attemptVars
  BY <1>1 DEF attemptVars
<1>2. ASSUME NEW b \in Batches, Prepare(b) PROVE AttemptTypes'
  BY <1>2 DEF Prepare
<1>3. ASSUME NEW b \in Batches, Claim(b) PROVE AttemptTypes'
  BY <1>3 DEF Claim
<1>4. ASSUME NEW b \in Batches, Mark(b) PROVE AttemptTypes'
  BY <1>4 DEF Mark
<1>5. ASSUME NEW b \in Batches, Launch(b) PROVE AttemptTypes'
  BY <1>5 DEF Launch, attemptVars, FailStart, EndLeases, Control
<1>6. ASSUME NEW b \in Batches, LauncherFails(b) PROVE AttemptTypes'
  BY <1>6 DEF LauncherFails, FailStart, EndLeases, Control
<1>7. ASSUME NEW b \in Batches, Abort(b) PROVE AttemptTypes'
  <2>1. PICK end \in {"cancelled", "human_required"} :
          attempt' = IF attempt[cur[b]] \in Live
                     THEN [attempt EXCEPT ![cur[b]] = end] ELSE attempt
    BY <1>7 DEF Abort
  <2>2. UNCHANGED <<launch, lease, dispatch>>
    BY <1>7 DEF Abort
  <2>3. QED
    BY <2>1, <2>2
<1>8. ASSUME NEW b \in Batches, AbortLease(b) PROVE AttemptTypes'
  BY <1>8 DEF AbortLease, EndLeases
<1>9. ASSUME NEW b \in Batches, SpawnFails(b) PROVE AttemptTypes'
  BY <1>9 DEF SpawnFails, FailStart, EndLeases, Control
<1>10. ASSUME NEW b \in Batches, Record(b) PROVE AttemptTypes'
  BY <1>10 DEF Record
<1>11. ASSUME NEW b \in Batches, Timeout(b) PROVE AttemptTypes'
  BY <1>11 DEF Timeout, Asked
<1>12. ASSUME NEW b \in Batches, Recover(b) PROVE AttemptTypes'
  BY <1>12 DEF Recover, EndLeases
<1>13. ASSUME NEW b \in Batches, Park(b) PROVE AttemptTypes'
  BY <1>13 DEF Park, EndLeases
<1>14. ASSUME NEW b \in Batches, DeliverTry(b) PROVE AttemptTypes'
  BY <1>14 DEF DeliverTry, KeepRest, KeepRest
<1>15. ASSUME NEW b \in Batches, CancelBatch(b) PROVE AttemptTypes'
  BY <1>15 DEF CancelBatch, KeepRest, KeepRest
<1>16. ASSUME NEW r \in Runs, CancelRun(r) PROVE AttemptTypes'
  BY <1>16 DEF CancelRun, EndLeases, KeepRest, KeepRest
<1>17. ASSUME NEW r \in Runs, DeliverRunCancel(r) PROVE AttemptTypes'
  BY <1>17 DEF DeliverRunCancel, KeepRest, KeepRest
<1>18. CASE HumanEvent
  BY <1>18 DEF HumanEvent, EndLeases
<1>19. CASE FinishCommit
  BY <1>19, FinalEnds DEF FinishCommit, EndLeases
<1>20. CASE FinishFail
  BY <1>20 DEF FinishFail, EndLeases
<1>21. CASE StartRevoke
  BY <1>21 DEF StartRevoke, EndLeases
<1>22. ASSUME NEW b \in Batches, RecoverBatch(b) PROVE AttemptTypes'
  BY <1>22 DEF RecoverBatch, CloseLaunches, EndLeases, ClosedAttempt,
     ClosedAs
<1>23. QED
  BY <1>1, <1>2, <1>3, <1>4, <1>5, <1>6, <1>7, <1>8, <1>9, <1>10, <1>11,
     <1>12, <1>13, <1>14, <1>15, <1>16, <1>17, <1>18, <1>19, <1>20, <1>21,
     <1>22, AttemptWriters

LEMMA MemberTyped ==
    ASSUME TypeInv, QueueInv, Next
    PROVE  MemberTypes'
<1> USE DEF MemberTypes, TypeInv, memberVars, Live, Ended, MemberStates,
            Outcomes
<1>1. CASE UNCHANGED memberVars
  BY <1>1 DEF memberVars
<1>2. ASSUME NEW b \in Batches, WorkerStart(b) PROVE MemberTypes'
  <2>1. CASE LiveIn(b) = {} /\ SealFromWorker(b)
    BY <2>1, SealTypes DEF SealFromWorker, LiveIn, RunTypes
  <2>2. CASE UNCHANGED memberVars
    BY <2>2
  <2>3. QED
    BY <1>2, <2>1, <2>2 DEF WorkerStart
<1>3. ASSUME NEW b \in Batches, SkipQuarantined(b) PROVE MemberTypes'
  BY <1>3 DEF SkipQuarantined, memberVars
<1>4. ASSUME NEW b \in Batches, Pick(b) PROVE MemberTypes'
  BY <1>4 DEF Pick, Fence
<1>5. ASSUME NEW b \in Batches, Prepare(b) PROVE MemberTypes'
  BY <1>5 DEF Prepare
<1>6. ASSUME NEW b \in Batches, PrepareFails(b) PROVE MemberTypes'
  BY <1>6 DEF PrepareFails, memberVars
<1>7. ASSUME NEW b \in Batches, Launch(b) PROVE MemberTypes'
  BY <1>7, FailStartTypes DEF Launch, LauncherFails, SpawnFails, memberVars
<1>8. ASSUME NEW b \in Batches, LauncherFails(b) PROVE MemberTypes'
  BY <1>8, FailStartTypes DEF Launch, LauncherFails, SpawnFails, memberVars
<1>9. ASSUME NEW b \in Batches, AbortMember(b) PROVE MemberTypes'
  <2>1. intent[b] \in Outcomes
    BY <1>9 DEF AbortMember, IntentKnown, Aborting
  <2>2. QED
    BY <1>9, <2>1, TerminalizeTypes DEF AbortMember
<1>10. ASSUME NEW b \in Batches, SpawnFails(b) PROVE MemberTypes'
  BY <1>10, FailStartTypes DEF Launch, LauncherFails, SpawnFails, memberVars
<1>11. ASSUME NEW b \in Batches, Recover(b) PROVE MemberTypes'
  BY <1>11 DEF Recover
<1>12. ASSUME NEW b \in Batches, FenceUnknown(b) PROVE MemberTypes'
  BY <1>12 DEF FenceUnknown, FenceFromWorker, Fence
<1>13. ASSUME NEW b \in Batches, Park(b) PROVE MemberTypes'
  BY <1>13 DEF Park
<1>14. ASSUME NEW b \in Batches, FinishCancelled(b) PROVE MemberTypes'
  <2>1. CASE LiveIn(b) = {} /\ SealFromWorker(b)
    BY <2>1, SealTypes DEF SealFromWorker, LiveIn, RunTypes
  <2>2. CASE FenceFromWorker(b, LiveIn(b))
    BY <2>2 DEF FenceFromWorker, Fence
  <2>3. QED
    BY <1>14, <2>1, <2>2 DEF FinishCancelled
<1>15. ASSUME NEW b \in Batches, CancelIdleBatch(b) PROVE MemberTypes'
  BY <1>15, SealTypes DEF CancelIdleBatch, LiveIn, RunTypes
<1>16. ASSUME NEW b \in Batches, Resolve(b) PROVE MemberTypes'
  <2>1. \A r \in Reconciled(b) : attempt[r] = "none" \/ attempt[r] \in Outcomes
    BY DEF Reconciled, Members, AttemptTypes
  <2>2. QED
    BY <1>16, <2>1 DEF Resolve, Reconciled, Members
<1>17. ASSUME NEW b \in Batches, ResolveCancelled(b) PROVE MemberTypes'
  <2>1. CASE LiveIn(b) = {} /\ AcknowledgeSeal(b, member, outcome, run)
    BY <2>1, SealTypes DEF LiveIn, RunTypes
  <2>2. CASE UNCHANGED memberVars
    BY <2>2
  <2>3. QED
    BY <1>17, <2>1, <2>2 DEF ResolveCancelled
<1>18. CASE FinishCommit
  BY <1>18, FinalEnds, TerminalizeTypes DEF FinishCommit
<1>19. CASE FinishFail
  BY <1>19 DEF FinishFail, Terminalize
<1>20. ASSUME NEW b \in Batches, RecoverBatch(b) PROVE MemberTypes'
  <2>1. CASE SealsAtStartup(b)
    BY <1>20, <2>1, SealTypes, ClosedTypes, ClosedSealable DEF RecoverBatch
  <2>2. CASE UNCHANGED memberVars
    BY <2>2
  <2>3. CASE member' = ClosedMember(b) /\ outcome' = ClosedOutcome(b)
    BY <2>3, ClosedTypes
  <2>4. CASE AwaitReconciliation(b)
    BY <2>4, ClosedTypes DEF AwaitReconciliation
  <2>5. QED
    BY <1>20, <2>1, <2>3, <2>4 DEF RecoverBatch
<1>21. QED
  BY <1>1, <1>2, <1>3, <1>4, <1>5, <1>6, <1>7, <1>8, <1>9, <1>10, <1>11,
     <1>12, <1>13, <1>14, <1>15, <1>16, <1>17, <1>18, <1>19, <1>20,
     MemberWriters

LEMMA RunTyped ==
    ASSUME TypeInv, QueueInv, Next
    PROVE  RunTypes'
<1> USE DEF RunTypes, TypeInv, runVars, Live, Ended, RunStates
<1>1. CASE UNCHANGED runVars
  BY <1>1 DEF runVars
<1>2. ASSUME NEW b \in Batches, WorkerStart(b) PROVE RunTypes'
  BY <1>2 DEF WorkerStart, KeepRunFlags, SealFromWorker, AcknowledgeSeal
<1>3. ASSUME NEW b \in Batches, SkipQuarantined(b) PROVE RunTypes'
  BY <1>3 DEF SkipQuarantined, KeepRunFlags
<1>4. ASSUME NEW b \in Batches, Pick(b) PROVE RunTypes'
  BY <1>4 DEF Pick, KeepRunFlags, Fence
<1>5. ASSUME NEW b \in Batches, FailUnstarted(b) PROVE RunTypes'
  BY <1>5 DEF FailUnstarted, FailRun, KeepRunFlags
<1>6. ASSUME NEW b \in Batches, Mark(b) PROVE RunTypes'
  BY <1>6 DEF Mark, FailRun, KeepRunFlags
<1>7. ASSUME NEW b \in Batches, MarkRun(b) PROVE RunTypes'
  BY <1>7 DEF MarkRun, KeepRunFlags
<1>8. ASSUME NEW b \in Batches, Launch(b) PROVE RunTypes'
  BY <1>8, ControlEnds DEF Launch, FailStart, KeepRunFlags
<1>9. ASSUME NEW b \in Batches, LauncherFails(b) PROVE RunTypes'
  BY <1>9, ControlEnds DEF LauncherFails, FailStart, KeepRunFlags
<1>10. ASSUME NEW b \in Batches, AbortRun(b) PROVE RunTypes'
  BY <1>10 DEF AbortRun, KeepRunFlags, IntentKnown, Aborting
<1>11. ASSUME NEW b \in Batches, SpawnFails(b) PROVE RunTypes'
  BY <1>11, ControlEnds DEF SpawnFails, FailStart, KeepRunFlags
<1>12. ASSUME NEW b \in Batches, SetRun(b) PROVE RunTypes'
  BY <1>12 DEF SetRun, KeepRunFlags, IntentKnown
<1>13. ASSUME NEW b \in Batches, Recover(b) PROVE RunTypes'
  BY <1>13, CurIsRun DEF Recover, Free
<1>14. ASSUME NEW b \in Batches, FenceUnknown(b) PROVE RunTypes'
  BY <1>14 DEF FenceUnknown, FenceFromWorker, KeepRunFlags, Fence
<1>15. ASSUME NEW b \in Batches, Park(b) PROVE RunTypes'
  BY <1>15, CurIsRun DEF Park, Free
<1>16. ASSUME NEW b \in Batches, FinishCancelled(b) PROVE RunTypes'
  BY <1>16 DEF FinishCancelled, KeepRunFlags, SealFromWorker,
     FenceFromWorker, AcknowledgeSeal, Fence
<1>17. ASSUME NEW b \in Batches, DeliverTry(b) PROVE RunTypes'
  BY <1>17 DEF DeliverTry, KeepRest
<1>18. ASSUME NEW b \in Batches, CancelBatch(b) PROVE RunTypes'
  BY <1>18 DEF CancelBatch, KeepRest
<1>19. ASSUME NEW b \in Batches, CancelIdleBatch(b) PROVE RunTypes'
  BY <1>19 DEF CancelIdleBatch, AcknowledgeSeal, KeepRest
<1>20. ASSUME NEW b \in Batches, ResolveCancelled(b) PROVE RunTypes'
  BY <1>20 DEF ResolveCancelled, ResolvedWith, AcknowledgeSeal, KeepRest
<1>21. ASSUME NEW b \in Batches, ResumeBatch(b) PROVE RunTypes'
  BY <1>21 DEF ResumeBatch, KeepRest
<1>22. ASSUME NEW r \in Runs, CancelRun(r) PROVE RunTypes'
  BY <1>22 DEF CancelRun, KeepRest
<1>23. ASSUME NEW r \in Runs, WithdrawRun(r) PROVE RunTypes'
  BY <1>23 DEF WithdrawRun, KeepRest
<1>24. ASSUME NEW r \in Runs, DeliverRunCancel(r) PROVE RunTypes'
  BY <1>24 DEF DeliverRunCancel, KeepRest
<1>25. CASE HumanEvent
  BY <1>25, OwnerIsRun DEF HumanEvent
<1>26. CASE FinishCommit
  BY <1>26, FinalEnds DEF FinishCommit, RunStateOf
<1>27. CASE FinishFail
  BY <1>27 DEF FinishFail
<1>28. CASE Adjudicate
  BY <1>28 DEF Adjudicate
<1>29. CASE Crash
  BY <1>29 DEF Crash
<1>30. CASE StartRevoke
  BY <1>30 DEF StartRevoke
<1>31. ASSUME NEW b \in Batches, RecoverBatch(b) PROVE RunTypes'
  <2>1. CASE SealsAtStartup(b)
    BY <1>31, <2>1, SealTypes, ClosedTypes, ClosedSealable DEF RecoverBatch
  <2>2. CASE ~SealsAtStartup(b)
    BY <1>31, <2>2, ClosedTypes DEF RecoverBatch, AwaitReconciliation
  <2>3. QED
    BY <2>1, <2>2
<1>32. QED
  BY <1>1, <1>2, <1>3, <1>4, <1>5, <1>6, <1>7, <1>8, <1>9, <1>10, <1>11,
     <1>12, <1>13, <1>14, <1>15, <1>16, <1>17, <1>18, <1>19, <1>20, <1>21,
     <1>22, <1>23, <1>24, <1>25, <1>26, <1>27, <1>28, <1>29, <1>30, <1>31,
     RunWriters

LEMMA BatchTyped ==
    ASSUME TypeInv, QueueInv, Next
    PROVE  BatchTypes'
<1> USE DEF BatchTypes, TypeInv, batchVars, BatchStates, RecoveryStates
<1>1. CASE UNCHANGED batchVars
  BY <1>1 DEF batchVars, decisionVars
<1>2. ASSUME NEW b \in Batches, Begin(b) PROVE BatchTypes'
  BY <1>2 DEF Begin, WriteRunning, decisionVars
<1>3. ASSUME NEW b \in Batches, Pick(b) PROVE BatchTypes'
  BY <1>3 DEF Pick, KeepFixed, Fence, decisionVars
<1>4. ASSUME NEW b \in Batches, Dispatch(b) PROVE BatchTypes'
  BY <1>4 DEF Dispatch, WriteRunning, decisionVars
<1>5. ASSUME NEW b \in Batches, FenceUnknown(b) PROVE BatchTypes'
  BY <1>5 DEF FenceUnknown, FenceFromWorker, KeepFixed, Fence, decisionVars
<1>6. ASSUME NEW b \in Batches, Stop(b) PROVE BatchTypes'
  BY <1>6 DEF Stop, decisionVars
<1>7. ASSUME NEW b \in Batches, FinishCancelled(b) PROVE BatchTypes'
  BY <1>7 DEF FinishCancelled, KeepFixed, SealFromWorker, FenceFromWorker,
     decisionVars, Fence
<1>8. ASSUME NEW b \in Batches, Conclude(b) PROVE BatchTypes'
  BY <1>8 DEF Conclude, decisionVars
<1>9. ASSUME NEW b \in Batches, DeliverSettle(b) PROVE BatchTypes'
  BY <1>9 DEF DeliverSettle, decisionVars
<1>10. ASSUME NEW b \in Batches, CreateBatch(b) PROVE BatchTypes'
  BY <1>10 DEF CreateBatch, decisionVars
<1>11. ASSUME NEW b \in Batches, CancelBatch(b) PROVE BatchTypes'
  BY <1>11 DEF CancelBatch, decisionVars
<1>12. ASSUME NEW b \in Batches, CancelIdleBatch(b) PROVE BatchTypes'
  BY <1>12 DEF CancelIdleBatch, decisionVars
<1>13. ASSUME NEW b \in Batches, Decide(b) PROVE BatchTypes'
  BY <1>13 DEF Decide
<1>14. ASSUME NEW b \in Batches, Resolve(b) PROVE BatchTypes'
  BY <1>14 DEF Resolve, Resolved
<1>15. ASSUME NEW b \in Batches, ResolveCancelled(b) PROVE BatchTypes'
  BY <1>15 DEF ResolveCancelled, ResolvedWith
<1>16. ASSUME NEW b \in Batches, ResolveOpen(b) PROVE BatchTypes'
  BY <1>16 DEF ResolveOpen, ResolvedWith
<1>17. ASSUME NEW b \in Batches, Dismiss(b) PROVE BatchTypes'
  BY <1>17 DEF Dismiss, Resolved
<1>18. ASSUME NEW b \in Batches, ResumeBatch(b) PROVE BatchTypes'
  BY <1>18 DEF ResumeBatch, decisionVars
<1>19. ASSUME NEW b \in Batches, ReviewSeal(b) PROVE BatchTypes'
  BY <1>19 DEF ReviewSeal, decisionVars
<1>20. ASSUME NEW b \in Batches, SealCommit(b) PROVE BatchTypes'
  BY <1>20 DEF SealCommit, decisionVars
<1>21. CASE Crash
  BY <1>21 DEF Crash
<1>22. ASSUME NEW b \in Batches, RecoverBatch(b) PROVE BatchTypes'
  BY <1>22 DEF RecoverBatch, decisionVars, AwaitReconciliation
<1>23. QED
  BY <1>1, <1>2, <1>3, <1>4, <1>5, <1>6, <1>7, <1>8, <1>9, <1>10, <1>11,
     <1>12, <1>13, <1>14, <1>15, <1>16, <1>17, <1>18, <1>19, <1>20, <1>21,
     <1>22, BatchWriters

LEMMA CancelTyped ==
    ASSUME TypeInv, QueueInv, Next
    PROVE  CancelTypes'
<1> USE DEF CancelTypes, TypeInv, cancelVars, ActiveCancel
<1>1. CASE UNCHANGED cancelVars
  BY <1>1 DEF cancelVars
<1>2. ASSUME NEW b \in Batches, WorkerStart(b) PROVE CancelTypes'
  BY <1>2 DEF WorkerStart, KeepCancel, SealFromWorker
<1>3. ASSUME NEW b \in Batches, Pick(b) PROVE CancelTypes'
  BY <1>3 DEF Pick, KeepCancel, Fence
<1>4. ASSUME NEW b \in Batches, FenceUnknown(b) PROVE CancelTypes'
  BY <1>4 DEF FenceUnknown, FenceFromWorker, KeepCancel, Fence
<1>5. ASSUME NEW b \in Batches, FinishCancelled(b) PROVE CancelTypes'
  BY <1>5 DEF FinishCancelled, KeepCancel, SealFromWorker, FenceFromWorker,
     Fence
<1>6. ASSUME NEW b \in Batches, DeliverTry(b) PROVE CancelTypes'
  <2>1. tries' \in [Batches -> 0 .. MaxDeliveries + 1]
    BY <1>6, BoundsAssumption DEF DeliverTry, TriesLeft
  <2>2. undelivered' \in [Batches -> SUBSET Runs]
    BY <1>6 DEF DeliverTry
  <2>3. QED
    BY <1>6, <2>1, <2>2 DEF DeliverTry
<1>7. ASSUME NEW b \in Batches, DeliverSettle(b) PROVE CancelTypes'
  BY <1>7, BoundsAssumption DEF DeliverSettle
<1>8. ASSUME NEW b \in Batches, CancelBatch(b) PROVE CancelTypes'
  BY <1>8, BoundsAssumption DEF CancelBatch, LiveIn, Members
<1>9. ASSUME NEW b \in Batches, CancelIdleBatch(b) PROVE CancelTypes'
  BY <1>9 DEF CancelIdleBatch
<1>10. ASSUME NEW b \in Batches, ResolveCancelled(b) PROVE CancelTypes'
  BY <1>10 DEF ResolveCancelled, ResolvedWith
<1>11. ASSUME NEW b \in Batches, SealCommit(b) PROVE CancelTypes'
  BY <1>11 DEF SealCommit
<1>12. CASE Crash
  BY <1>12, BoundsAssumption DEF Crash
<1>13. ASSUME NEW b \in Batches, RecoverBatch(b) PROVE CancelTypes'
  BY <1>13 DEF RecoverBatch, AwaitReconciliation
<1>14. QED
  BY <1>1, <1>2, <1>3, <1>4, <1>5, <1>6, <1>7, <1>8, <1>9, <1>10, <1>11,
     <1>12, <1>13, CancelWriters

LEMMA HostTyped ==
    ASSUME TypeInv, QueueInv, Next
    PROVE  HostTypes'
<1> USE DEF HostTypes, TypeInv, hostVars, HostPhases, Owners
<1>1. CASE UNCHANGED hostVars
  BY <1>1 DEF hostVars
<1>2. ASSUME NEW b \in Batches, Spawn(b) PROVE HostTypes'
  BY <1>2, CurIsRun DEF Spawn, Free
<1>3. ASSUME NEW b \in Batches, Timeout(b) PROVE HostTypes'
  BY <1>3 DEF Timeout
<1>4. ASSUME NEW b \in Batches, DeliverTry(b) PROVE HostTypes'
  BY <1>4 DEF DeliverTry
<1>5. ASSUME NEW r \in Runs, DeliverRunCancel(r) PROVE HostTypes'
  BY <1>5 DEF DeliverRunCancel
<1>6. CASE HostExit
  BY <1>6 DEF HostExit
<1>7. CASE HostLost
  BY <1>7 DEF HostLost, KeepOwner
<1>8. CASE FinishCommit
  BY <1>8 DEF FinishCommit, KeepOwner
<1>9. CASE FinishFail
  BY <1>9 DEF FinishFail, KeepOwner
<1>10. CASE FinishLost
  BY <1>10 DEF FinishLost, KeepOwner
<1>11. CASE HandOff
  BY <1>11, OwnerIsRun DEF HandOff
<1>12. CASE ReleaseQuarantine
  BY <1>12 DEF ReleaseQuarantine
<1>13. CASE Crash
  BY <1>13 DEF Crash
<1>14. QED
  BY <1>1, <1>2, <1>3, <1>4, <1>5, <1>6, <1>7, <1>8, <1>9, <1>10, <1>11,
     <1>12, <1>13, HostWriters

LEMMA WorkerTyped ==
    ASSUME TypeInv, QueueInv, Next
    PROVE  WorkerTypes'
<1> USE DEF WorkerTypes, TypeInv, workerVars, Places, Owners
<1>1. CASE UNCHANGED workerVars
  BY <1>1 DEF workerVars
<1>2. ASSUME NEW b \in Batches, WorkerStart(b) PROVE WorkerTypes'
  BY <1>2 DEF WorkerStart, Retire, Goto
<1>3. ASSUME NEW b \in Batches, Begin(b) PROVE WorkerTypes'
  BY <1>3 DEF Begin, WriteRunning, Goto, Retire
<1>4. ASSUME NEW b \in Batches, LoopEnds(b) PROVE WorkerTypes'
  BY <1>4 DEF LoopEnds, Goto
<1>5. ASSUME NEW b \in Batches, SkipQuarantined(b) PROVE WorkerTypes'
  BY <1>5 DEF SkipQuarantined, Retire
<1>6. ASSUME NEW b \in Batches, Pick(b) PROVE WorkerTypes'
  <2>1. CASE Retire(b)
    BY <1>6, <2>1 DEF Pick, Retire
  <2>2. CASE ~Retire(b)
    <3>1. First(b) \in Runs
      BY <1>6, FirstIsAhead DEF Pick
    <3>2. QED
      BY <1>6, <2>2, <3>1 DEF Pick
  <2>3. QED
    BY <2>1, <2>2
<1>7. ASSUME NEW b \in Batches, Dispatch(b) PROVE WorkerTypes'
  BY <1>7 DEF Dispatch, WriteRunning, Goto, Retire
<1>8. ASSUME NEW b \in Batches, Prepare(b) PROVE WorkerTypes'
  BY <1>8 DEF Prepare, Goto
<1>9. ASSUME NEW b \in Batches, PrepareFails(b) PROVE WorkerTypes'
  BY <1>9 DEF PrepareFails, Goto
<1>10. ASSUME NEW b \in Batches, FailUnstarted(b) PROVE WorkerTypes'
  BY <1>10 DEF FailUnstarted, Goto
<1>11. ASSUME NEW b \in Batches, Claim(b) PROVE WorkerTypes'
  BY <1>11 DEF Claim, Goto
<1>12. ASSUME NEW b \in Batches, Mark(b) PROVE WorkerTypes'
  BY <1>12 DEF Mark, Goto
<1>13. ASSUME NEW b \in Batches, MarkRun(b) PROVE WorkerTypes'
  BY <1>13 DEF MarkRun, Goto
<1>14. ASSUME NEW b \in Batches, Launch(b) PROVE WorkerTypes'
  BY <1>14 DEF Launch, Goto, FailStart
<1>15. ASSUME NEW b \in Batches, LauncherFails(b) PROVE WorkerTypes'
  BY <1>15 DEF LauncherFails, FailStart, Goto
<1>16. ASSUME NEW b \in Batches, Abort(b) PROVE WorkerTypes'
  BY <1>16 DEF Abort
<1>17. ASSUME NEW b \in Batches, AbortRun(b) PROVE WorkerTypes'
  BY <1>17 DEF AbortRun, Goto
<1>18. ASSUME NEW b \in Batches, AbortLease(b) PROVE WorkerTypes'
  BY <1>18 DEF AbortLease, Goto
<1>19. ASSUME NEW b \in Batches, AbortMember(b) PROVE WorkerTypes'
  BY <1>19 DEF AbortMember
<1>20. ASSUME NEW b \in Batches, TakeHandoff(b) PROVE WorkerTypes'
  BY <1>20 DEF TakeHandoff, Goto
<1>21. ASSUME NEW b \in Batches, Spawn(b) PROVE WorkerTypes'
  BY <1>21 DEF Spawn, Goto
<1>22. ASSUME NEW b \in Batches, SpawnFails(b) PROVE WorkerTypes'
  BY <1>22 DEF SpawnFails, FailStart, Goto
<1>23. ASSUME NEW b \in Batches, Record(b) PROVE WorkerTypes'
  BY <1>23 DEF Record, Goto
<1>24. ASSUME NEW b \in Batches, Reread(b) PROVE WorkerTypes'
  BY <1>24 DEF Reread
<1>25. ASSUME NEW b \in Batches, SetRun(b) PROVE WorkerTypes'
  BY <1>25 DEF SetRun
<1>26. ASSUME NEW b \in Batches, Collect(b) PROVE WorkerTypes'
  BY <1>26 DEF Collect, Goto
<1>27. ASSUME NEW b \in Batches, Timeout(b) PROVE WorkerTypes'
  BY <1>27 DEF Timeout, Goto
<1>28. ASSUME NEW b \in Batches, Recover(b) PROVE WorkerTypes'
  BY <1>28 DEF Recover, Goto
<1>29. ASSUME NEW b \in Batches, GiveUp(b) PROVE WorkerTypes'
  BY <1>29 DEF GiveUp, Goto
<1>30. ASSUME NEW b \in Batches, FenceUnknown(b) PROVE WorkerTypes'
  BY <1>30 DEF FenceUnknown, Retire
<1>31. ASSUME NEW b \in Batches, RefuseOwner(b) PROVE WorkerTypes'
  BY <1>31 DEF RefuseOwner, Retire
<1>32. ASSUME NEW b \in Batches, AfterRecovery(b) PROVE WorkerTypes'
  BY <1>32 DEF AfterRecovery
<1>33. ASSUME NEW b \in Batches, Park(b) PROVE WorkerTypes'
  BY <1>33 DEF Park
<1>34. ASSUME NEW b \in Batches, StopAtGate(b) PROVE WorkerTypes'
  BY <1>34 DEF StopAtGate, Goto
<1>35. ASSUME NEW b \in Batches, Stop(b) PROVE WorkerTypes'
  BY <1>35 DEF Stop, Retire
<1>36. ASSUME NEW b \in Batches, NextMember(b) PROVE WorkerTypes'
  BY <1>36 DEF NextMember
<1>37. ASSUME NEW b \in Batches, FinishCancelled(b) PROVE WorkerTypes'
  BY <1>37 DEF FinishCancelled, Retire
<1>38. ASSUME NEW b \in Batches, Finish(b) PROVE WorkerTypes'
  BY <1>38 DEF Finish, Goto
<1>39. ASSUME NEW b \in Batches, Conclude(b) PROVE WorkerTypes'
  BY <1>39 DEF Conclude, Retire
<1>40. ASSUME NEW b \in Batches, CreateBatch(b) PROVE WorkerTypes'
  BY <1>40 DEF CreateBatch, StartWorker, Members
<1>41. ASSUME NEW b \in Batches, ResumeBatch(b) PROVE WorkerTypes'
  BY <1>41 DEF ResumeBatch, StartWorker, Members
<1>42. CASE Crash
  BY <1>42 DEF Crash
<1>43. QED
  BY <1>1, <1>2, <1>3, <1>4, <1>5, <1>6, <1>7, <1>8, <1>9, <1>10, <1>11,
     <1>12, <1>13, <1>14, <1>15, <1>16, <1>17, <1>18, <1>19, <1>20, <1>21,
     <1>22, <1>23, <1>24, <1>25, <1>26, <1>27, <1>28, <1>29, <1>30, <1>31,
     <1>32, <1>33, <1>34, <1>35, <1>36, <1>37, <1>38, <1>39, <1>40, <1>41,
     <1>42, WorkerWriters

-----------------------------------------------------------------------------
(* How a worker moves from place to place.                                 *)

Stays(b) ==
    pc'[b] = pc[b] /\ cur'[b] = cur[b] /\ intent'[b] = intent[b]
             /\ todo'[b] \subseteq todo[b]

\* The thread is gone.
Retired(b) ==
    pc'[b] = "idle" /\ cur'[b] = Nobody /\ intent'[b] = "none"
                    /\ todo'[b] = {}

\* The thread is between two members of its list, having left the last one.
Between(b) ==
    /\ pc'[b] \in Free \ {"idle"} /\ cur'[b] = Nobody
    /\ pc[b] # "idle" /\ intent'[b] = intent[b] /\ todo'[b] = todo[b]
    /\ pc[b] \notin Free => AfterRecovery(b) \/ Park(b) \/ NextMember(b)

\* The thread takes the next run of its list.
Takes(b) ==
    /\ pc[b] = "pick" /\ pc'[b] = "dispatch" /\ intent'[b] = intent[b]
    /\ todo[b] # {} /\ cur'[b] = First(b) /\ todo'[b] = todo[b] \ {First(b)}
    /\ Open(b) /\ ~CancelActive(b)

\* The thread is done with the run, whatever became of it.
ReachesGate(b) ==
    \/ pc[b] = "prepare" /\ PrepareFails(b)
    \/ pc[b] = "failrun" /\ FailUnstarted(b)
    \/ pc[b] = "claim" /\ Claim(b)
    \/ pc[b] = "mark" /\ Mark(b)
    \/ pc[b] = "launch" /\ Launch(b)
    \/ pc[b] = "start_host" /\ LauncherFails(b)
    \/ pc[b] = "handoff" /\ SpawnFails(b)
    \/ pc[b] = "abort_member" /\ AbortMember(b)
    \/ pc[b] \in {"wait", "grace"} /\ Collect(b)
    \/ pc[b] = "grace" /\ GiveUp(b)

\* The thread goes on with its run; each place is reached by few actions.
GoesOn(b) ==
    /\ pc[b] \notin Free /\ cur'[b] = cur[b] /\ todo'[b] = todo[b]
    /\ \/ pc[b] = "dispatch" /\ pc'[b] = "prepare" /\ Dispatch(b)
       \/ pc[b] = "prepare" /\ pc'[b] = "failrun" /\ PrepareFails(b)
       \/ pc[b] = "prepare" /\ pc'[b] = "claim" /\ Prepare(b)
       \/ pc[b] = "claim" /\ pc'[b] = "mark" /\ Claim(b)
       \/ pc[b] = "mark" /\ pc'[b] = "markrun" /\ Mark(b)
       \/ pc[b] = "markrun" /\ pc'[b] = "launch" /\ MarkRun(b)
       \/ pc[b] = "launch" /\ pc'[b] = "launchrun" /\ Launch(b)
       \/ pc[b] = "launchrun" /\ pc'[b] = "start_host" /\ MarkRun(b)
       \/ pc[b] = "start_host" /\ pc'[b] = "abort_run" /\ Abort(b)
       \/ pc[b] = "abort_run" /\ pc'[b] = "abort_lease" /\ AbortRun(b)
       \/ pc[b] = "abort_lease" /\ pc'[b] = "abort_member" /\ AbortLease(b)
       \/ pc[b] = "start_host" /\ pc'[b] = "handoff" /\ TakeHandoff(b)
       \/ pc[b] = "handoff" /\ pc'[b] \in {"record", "preserve"} /\ Spawn(b)
       \/ pc[b] = "record" /\ pc'[b] = "reread" /\ Record(b)
       \/ pc[b] = "reread" /\ pc'[b] \in {"setrun", "wait"} /\ Reread(b)
       \/ pc[b] = "setrun" /\ pc'[b] = "wait" /\ SetRun(b)
       \/ pc[b] = "wait" /\ pc'[b] = "grace" /\ Timeout(b)
       \/ pc[b] \in {"grace", "preserve"} /\ pc'[b] = "drain" /\ Recover(b)
       \/ pc[b] = "grace" /\ pc'[b] = "fence" /\ GiveUp(b)
       \/ pc[b] = "gate" /\ pc'[b] = "stop" /\ StopAtGate(b)
       \/ pc'[b] = "gate" /\ ReachesGate(b)

Moves(b) ==
    \/ Stays(b) \/ Retired(b) \/ Between(b) \/ Takes(b) \/ GoesOn(b)
    \/ CreateBatch(b) \/ ResumeBatch(b)

\* Every worker, at every step, moves in one of these ways.
LEMMA WorkerMoves ==
    ASSUME TypeInv, NEW b \in Batches, Next
    PROVE  Moves(b)
<1> USE DEF Moves, Stays, WorkerTypes, TypeInv
<1>1. ASSUME UNCHANGED <<pc, cur, todo, intent>> PROVE Moves(b)
  BY <1>1
<1>2. ASSUME NEW c \in Batches, WorkerStart(c) PROVE Moves(b)
  BY <1>2 DEF WorkerStart, Retire, Goto, Between, Free, Retired, CurKnown
<1>3. ASSUME NEW c \in Batches, Begin(c) PROVE Moves(b)
  BY <1>3 DEF Begin, WriteRunning, Goto, Retire, Between, Free, Retired,
     CurKnown
<1>4. ASSUME NEW c \in Batches, LoopEnds(c) PROVE Moves(b)
  BY <1>4 DEF LoopEnds, Goto, Between, Free, CurKnown
<1>5. ASSUME NEW c \in Batches, SkipQuarantined(c) PROVE Moves(b)
  BY <1>5 DEF SkipQuarantined, Retire, Retired
<1>6. ASSUME NEW c \in Batches, Pick(c) PROVE Moves(b)
  BY <1>6 DEF Pick, Retire, Retired, Takes
<1>7. ASSUME NEW c \in Batches, Dispatch(c) PROVE Moves(b)
  BY <1>7 DEF Dispatch, WriteRunning, Goto, Retire, GoesOn, ReachesGate,
     Free, Retired
<1>8. ASSUME NEW c \in Batches, Prepare(c) PROVE Moves(b)
  BY <1>8 DEF Prepare, Goto, GoesOn, ReachesGate, Free
<1>9. ASSUME NEW c \in Batches, PrepareFails(c) PROVE Moves(b)
  BY <1>9 DEF PrepareFails, Goto, GoesOn, ReachesGate, Free
<1>10. ASSUME NEW c \in Batches, FailUnstarted(c) PROVE Moves(b)
  BY <1>10 DEF FailUnstarted, Goto, GoesOn, ReachesGate, Free
<1>11. ASSUME NEW c \in Batches, Claim(c) PROVE Moves(b)
  BY <1>11 DEF Claim, Goto, GoesOn, ReachesGate, Free
<1>12. ASSUME NEW c \in Batches, Mark(c) PROVE Moves(b)
  BY <1>12 DEF Mark, Goto, GoesOn, ReachesGate, Free
<1>13. ASSUME NEW c \in Batches, MarkRun(c) PROVE Moves(b)
  BY <1>13 DEF MarkRun, Goto, GoesOn, ReachesGate, Free
<1>14. ASSUME NEW c \in Batches, Launch(c) PROVE Moves(b)
  BY <1>14 DEF Launch, Goto, FailStart, GoesOn, ReachesGate, Free
<1>15. ASSUME NEW c \in Batches, LauncherFails(c) PROVE Moves(b)
  BY <1>15 DEF LauncherFails, FailStart, Goto, GoesOn, ReachesGate, Free
<1>16. ASSUME NEW c \in Batches, Abort(c) PROVE Moves(b)
  BY <1>16 DEF Abort, GoesOn, ReachesGate, Free
<1>17. ASSUME NEW c \in Batches, AbortRun(c) PROVE Moves(b)
  BY <1>17 DEF AbortRun, Goto, GoesOn, ReachesGate, Free
<1>18. ASSUME NEW c \in Batches, AbortLease(c) PROVE Moves(b)
  BY <1>18 DEF AbortLease, Goto, GoesOn, ReachesGate, Free
<1>19. ASSUME NEW c \in Batches, AbortMember(c) PROVE Moves(b)
  BY <1>19 DEF AbortMember, GoesOn, ReachesGate, Free
<1>20. ASSUME NEW c \in Batches, TakeHandoff(c) PROVE Moves(b)
  BY <1>20 DEF TakeHandoff, Goto, GoesOn, ReachesGate, Free
<1>21. ASSUME NEW c \in Batches, Spawn(c) PROVE Moves(b)
  BY <1>21 DEF Spawn, Goto, GoesOn, ReachesGate, Free
<1>22. ASSUME NEW c \in Batches, SpawnFails(c) PROVE Moves(b)
  BY <1>22 DEF SpawnFails, FailStart, Goto, GoesOn, ReachesGate, Free
<1>23. ASSUME NEW c \in Batches, Record(c) PROVE Moves(b)
  BY <1>23 DEF Record, Goto, GoesOn, ReachesGate, Free
<1>24. ASSUME NEW c \in Batches, Reread(c) PROVE Moves(b)
  BY <1>24 DEF Reread, GoesOn, ReachesGate, Free
<1>25. ASSUME NEW c \in Batches, SetRun(c) PROVE Moves(b)
  BY <1>25 DEF SetRun, GoesOn, ReachesGate, Free
<1>26. ASSUME NEW c \in Batches, Collect(c) PROVE Moves(b)
  BY <1>26 DEF Collect, Goto, GoesOn, ReachesGate, Free
<1>27. ASSUME NEW c \in Batches, Timeout(c) PROVE Moves(b)
  BY <1>27 DEF Timeout, Goto, GoesOn, ReachesGate, Free, WaitExpired
<1>28. ASSUME NEW c \in Batches, Recover(c) PROVE Moves(b)
  BY <1>28 DEF Recover, Goto, GoesOn, ReachesGate, Free
<1>29. ASSUME NEW c \in Batches, GiveUp(c) PROVE Moves(b)
  BY <1>29 DEF GiveUp, Goto, GoesOn, ReachesGate, Free
<1>30. ASSUME NEW c \in Batches, FenceUnknown(c) PROVE Moves(b)
  BY <1>30 DEF FenceUnknown, Retire, Retired
<1>31. ASSUME NEW c \in Batches, RefuseOwner(c) PROVE Moves(b)
  BY <1>31 DEF RefuseOwner, Retire, Retired
<1>32. ASSUME NEW c \in Batches, AfterRecovery(c) PROVE Moves(b)
  BY <1>32 DEF AfterRecovery, Between, Free
<1>33. ASSUME NEW c \in Batches, Park(c) PROVE Moves(b)
  BY <1>33 DEF Park, Between, Free
<1>34. ASSUME NEW c \in Batches, StopAtGate(c) PROVE Moves(b)
  BY <1>34 DEF StopAtGate, Goto, GoesOn, ReachesGate, Free
<1>35. ASSUME NEW c \in Batches, Stop(c) PROVE Moves(b)
  BY <1>35 DEF Stop, Retire, Retired
<1>36. ASSUME NEW c \in Batches, NextMember(c) PROVE Moves(b)
  BY <1>36 DEF NextMember, Between, Free
<1>37. ASSUME NEW c \in Batches, FinishCancelled(c) PROVE Moves(b)
  BY <1>37 DEF FinishCancelled, Retire, Retired
<1>38. ASSUME NEW c \in Batches, Finish(c) PROVE Moves(b)
  BY <1>38 DEF Finish, Goto, Between, Free, CurKnown
<1>39. ASSUME NEW c \in Batches, Conclude(c) PROVE Moves(b)
  BY <1>39 DEF Conclude, Retire, Retired
<1>40. ASSUME NEW c \in Batches, CreateBatch(c) PROVE Moves(b)
  BY <1>40 DEF CreateBatch, StartWorker, Stays
<1>41. ASSUME NEW c \in Batches, ResumeBatch(c) PROVE Moves(b)
  BY <1>41 DEF ResumeBatch, StartWorker, Stays
<1>42. CASE Crash
  BY <1>42 DEF Crash, Retired
<1>43. QED
  BY <1>1, <1>2, <1>3, <1>4, <1>5, <1>6, <1>7, <1>8, <1>9, <1>10, <1>11,
     <1>12, <1>13, <1>14, <1>15, <1>16, <1>17, <1>18, <1>19, <1>20, <1>21,
     <1>22, <1>23, <1>24, <1>25, <1>26, <1>27, <1>28, <1>29, <1>30, <1>31,
     <1>32, <1>33, <1>34, <1>35, <1>36, <1>37, <1>38, <1>39, <1>40, <1>41,
     <1>42, WorkerWriters
     DEF workerVars

-----------------------------------------------------------------------------
(* The facts that relate the groups, and the theorem.                      *)

LEMMA CurKept ==
    ASSUME TypeInv, QueueInv, Next
    PROVE  CurKnown'
<1> SUFFICES ASSUME NEW b \in Batches
             PROVE  /\ pc'[b] \in Free <=> cur'[b] = Nobody
                    /\ cur'[b] # Nobody => cur'[b] \in Members(b) \ todo'[b]
  BY DEF CurKnown, Members
<1> USE DEF TypeInv, CurKnown, Free
<1>1. CASE Stays(b) \/ Retired(b) \/ Between(b) \/ GoesOn(b)
  BY <1>1 DEF Stays, Retired, Between, GoesOn
<1>2. CASE Takes(b)
  <2>1. First(b) \in todo[b] /\ todo[b] \subseteq Members(b)
    BY <1>2, FirstIsAhead DEF Takes, QueueInv, AheadUnstarted, Members
  <2>2. Nobody \notin Members(b)
    BY RunsAssumption DEF Nobody, Members
  <2>3. QED
    BY <1>2, <2>1, <2>2 DEF Takes
<1>3. CASE CreateBatch(b) \/ ResumeBatch(b)
  <2>1. pc[b] = "idle" /\ cur' = cur /\ pc' = [pc EXCEPT ![b] = "start"]
    BY <1>3 DEF CreateBatch, ResumeBatch, StartWorker, QueueInv,
       AbsentUntouched
  <2>2. QED
    BY <2>1 DEF WorkerTypes
<1>4. QED
  BY <1>1, <1>2, <1>3, WorkerMoves DEF Moves

LEMMA IntentKept ==
    ASSUME TypeInv, QueueInv, Next
    PROVE  IntentKnown'
<1> SUFFICES ASSUME NEW b \in Batches
             PROVE  /\ pc'[b] = "setrun" => intent'[b] \in {"running", "cancelling"}
                    /\ pc'[b] \in Aborting =>
                          intent'[b] \in {"cancelled", "human_required"}
  BY DEF IntentKnown
<1> USE DEF TypeInv, IntentKnown, Aborting, WorkerTypes
<1>1. CASE Stays(b) \/ Retired(b) \/ Between(b) \/ Takes(b)
  BY <1>1 DEF Stays, Retired, Between, Takes, Free
<1>2. CASE GoesOn(b)
  <2>1. CASE Reread(b) /\ pc'[b] = "setrun"
    BY <2>1 DEF Reread, Live
  <2>2. CASE Abort(b)
    BY <2>2 DEF Abort
  <2>3. CASE AbortRun(b)
    BY <2>3 DEF AbortRun, Goto
  <2>4. CASE AbortLease(b)
    BY <2>4 DEF AbortLease, Goto
  <2>5. QED
    BY <1>2, <2>1, <2>2, <2>3, <2>4 DEF GoesOn
<1>3. CASE CreateBatch(b) \/ ResumeBatch(b)
  BY <1>3 DEF CreateBatch, ResumeBatch, StartWorker
<1>4. QED
  BY <1>1, <1>2, <1>3, WorkerMoves DEF Moves

\* How the process serves, restarts and recovers.
LEMMA ManagerSteps ==
    ASSUME Next
    PROVE  \/ mgr = "up" /\ UNCHANGED managerVars
           \/ Seal \/ Restart
BY DEF Next, Serve

LEMMA ManagerKept ==
    ASSUME TypeInv, Next
    PROVE  /\ mgr' \in {"up", "revoke", "recover", "failed"}
           /\ unrecovered' \subseteq Batches /\ restarts' \in 0 .. MaxRestarts
           /\ RecoverOpen'
<1> USE DEF TypeInv, RecoverOpen, managerVars, CancelTypes, BatchTypes
<1>1. CASE mgr = "up" /\ UNCHANGED managerVars
  BY <1>1
<1>2. CASE Seal
  BY <1>2 DEF Seal, SealCommit, Open
<1>3. CASE Crash
  BY <1>3, BoundsAssumption DEF Crash
<1>4. CASE StartRevoke
  BY <1>4 DEF StartRevoke, batchVars, cancelVars, Open
<1>5. ASSUME NEW b \in Batches, RecoverBatch(b)
      PROVE  /\ mgr' \in {"up", "revoke", "recover", "failed"}
             /\ unrecovered' \subseteq Batches
             /\ restarts' \in 0 .. MaxRestarts
             /\ RecoverOpen'
  BY <1>5 DEF RecoverBatch, AwaitReconciliation, Open
<1>6. CASE StartDone
  BY <1>6 DEF StartDone
<1>7. QED
  BY <1>1, <1>2, <1>3, <1>4, <1>5, <1>6, ManagerSteps DEF Restart

LEMMA QuarantineKept ==
    ASSUME TypeInv, Next
    PROVE  quarantine' \in {"none", "held", "drainable"}
<1> USE DEF TypeInv
<1>1. CASE UNCHANGED quarantine
  BY <1>1
<1>2. ASSUME NEW b \in Batches, Recover(b) PROVE quarantine' \in {"none", "held", "drainable"}
  BY <1>2 DEF Recover
<1>3. CASE ReleaseQuarantine
  BY <1>3 DEF ReleaseQuarantine
<1>4. CASE Crash
  BY <1>4 DEF Crash
<1>5. QED
  BY <1>1, <1>2, <1>3, <1>4, QuarantineWriters
LEMMA HostKept ==
    ASSUME TypeInv, QueueInv, Next
    PROVE  HostKnown'
<1> USE DEF HostKnown, TypeInv
<1>1. ASSUME UNCHANGED <<hostOwner, hostPhase>> PROVE HostKnown'
  BY <1>1
<1>2. ASSUME NEW b \in Batches, Spawn(b) PROVE HostKnown'
  BY <1>2, CurIsRun, RunsAssumption DEF Spawn, Free, Nobody
<1>3. CASE HostExit
  BY <1>3 DEF HostExit
<1>4. CASE HostLost
  BY <1>4 DEF HostLost, KeepOwner
<1>5. CASE FinishCommit
  BY <1>5 DEF FinishCommit, KeepOwner
<1>6. CASE FinishFail
  BY <1>6 DEF FinishFail, KeepOwner
<1>7. CASE FinishLost
  BY <1>7 DEF FinishLost, KeepOwner
<1>8. CASE HandOff
  BY <1>8 DEF HandOff, Nobody
<1>9. CASE ReleaseQuarantine
  BY <1>9 DEF ReleaseQuarantine, Nobody
<1>10. CASE Crash
  BY <1>10 DEF Crash, Nobody
<1>11. ASSUME NEW b \in Batches, 
           \/ Timeout(b) \/ DeliverTry(b)
     PROVE  UNCHANGED <<hostOwner, hostPhase>>
  BY <1>11 DEF Timeout, DeliverTry
<1>12. ASSUME NEW r \in Runs, 
           \/ DeliverRunCancel(r)
     PROVE  UNCHANGED <<hostOwner, hostPhase>>
  BY <1>12 DEF DeliverRunCancel
<1>13. QED
  BY <1>1, <1>2, <1>3, <1>4, <1>5, <1>6, <1>7, <1>8, <1>9, <1>10, <1>11,
     <1>12, HostWriters
     DEF hostVars

LEMMA TypeInvInit == Init => TypeInv
<1> SUFFICES ASSUME Init PROVE TypeInv
  OBVIOUS
<1>1. AttemptTypes /\ MemberTypes /\ RunTypes
  BY DEF Init, AttemptTypes, MemberTypes, RunTypes, MemberStates, Outcomes,
         RunStates
<1>2. BatchTypes /\ CancelTypes
  BY BoundsAssumption
     DEF Init, BatchTypes, CancelTypes, BatchStates, RecoveryStates
<1>3. HostTypes /\ WorkerTypes
  BY DEF Init, HostTypes, WorkerTypes, HostPhases, Owners, Places
<1>4. IntentKnown /\ RecoverOpen /\ CurKnown /\ HostKnown
  BY DEF Init, IntentKnown, RecoverOpen, CurKnown, HostKnown, Aborting, Free
<1>5. QED
  BY <1>1, <1>2, <1>3, <1>4, BoundsAssumption DEF Init, TypeInv

LEMMA TypeInvStep == TypeInv /\ QueueInv /\ [Next]_vars => TypeInv'
<1> SUFFICES ASSUME TypeInv, QueueInv, [Next]_vars PROVE TypeInv'
  OBVIOUS
<1>1. CASE Next
  <2>1. AttemptTypes' /\ MemberTypes' /\ RunTypes' /\ BatchTypes'
    BY <1>1, AttemptTyped, MemberTyped, RunTyped, BatchTyped
  <2>2. CancelTypes' /\ HostTypes' /\ WorkerTypes'
    BY <1>1, CancelTyped, HostTyped, WorkerTyped
  <2>3. IntentKnown' /\ CurKnown' /\ HostKnown'
    BY <1>1, IntentKept, CurKept, HostKept
  <2>4. QED
    BY <1>1, <2>1, <2>2, <2>3, ManagerKept, QuarantineKept DEF TypeInv
<1>2. CASE UNCHANGED vars
  <2>1. /\ UNCHANGED <<attemptVars, memberVars, runVars, batchVars>>
        /\ UNCHANGED <<cancelVars, quarantine, hostVars>>
        /\ UNCHANGED <<workerVars, managerVars>>
    BY <1>2 DEF vars
  <2>2. AttemptTypes' /\ MemberTypes' /\ RunTypes'
    BY <2>1 DEF TypeInv, AttemptTypes, MemberTypes, RunTypes, attemptVars,
       memberVars, runVars
  <2>3. BatchTypes' /\ CancelTypes' /\ RecoverOpen'
    BY <2>1 DEF TypeInv, BatchTypes, CancelTypes, RecoverOpen, batchVars,
       decisionVars, cancelVars, managerVars, Open
  <2>4. HostTypes' /\ WorkerTypes' /\ HostKnown'
    BY <2>1 DEF TypeInv, HostTypes, WorkerTypes, HostKnown, hostVars,
       workerVars
  <2>5. IntentKnown' /\ CurKnown'
    BY <2>1 DEF TypeInv, IntentKnown, CurKnown, workerVars, Members
  <2>6. QED
    BY <2>1, <2>2, <2>3, <2>4, <2>5 DEF TypeInv, managerVars
<1>3. QED
  BY <1>1, <1>2

LEMMA TypeInvHolds == Spec => [](TypeInv /\ QueueInv)
BY TypeInvInit, TypeInvStep, InitQueueInv, StepQueueInv, PTL DEF Spec

\* Every variable of the batch queue keeps its type, for all constants: no
\* interleaving of workers, callbacks, commands, crashes and startups writes a
\* state the rows do not have, such as an outcome that ends no attempt.
THEOREM QueueTypeCorrect == Spec => []TypeOK
<1>1. TypeInv => TypeOK
  BY DEF TypeInv, TypeOK, AttemptTypes, MemberTypes, RunTypes, BatchTypes,
         CancelTypes, HostTypes, WorkerTypes
<1>2. QED
  BY <1>1, TypeInvHolds, PTL

-----------------------------------------------------------------------------
(* What the rows keep.                                                     *)

Closed == {"terminal", "cancelled"}

\* The shape of the rows, for proofs about their contents.
RowTypes ==
    /\ attempt \in [Runs -> {"none"} \cup Live \cup Ended]
    /\ lease \in [Runs -> {"none", "active", "ended"}]
    /\ member \in [Runs -> MemberStates]
    /\ DOMAIN outcome = Runs /\ DOMAIN run = Runs
    /\ DOMAIN launch = Runs /\ DOMAIN dispatch = Runs

LEMMA RowsTyped == TypeInv => RowTypes
BY DEF TypeInv, AttemptTypes, MemberTypes, RunTypes, RowTypes

-----------------------------------------------------------------------------
(* Attempts start once, in Prepare, and never leave their end.             *)

AttemptStep(r) ==
    \/ attempt'[r] = attempt[r]
    \/ attempt[r] = "none" /\ attempt'[r] = "starting"
         /\ cur[BatchOf[r]] = r /\ Prepare(BatchOf[r])
    \/ attempt[r] \in Live
         /\ attempt'[r] \in (Live \ {"starting"}) \cup Ended

LEMMA AttemptSteps ==
    ASSUME TypeInv, QueueInv, NEW r \in Runs, Next
    PROVE  AttemptStep(r)
<1> USE DEF AttemptStep, RowTypes
<1>1. ASSUME UNCHANGED <<attempt>> PROVE AttemptStep(r)
  BY <1>1
<1>2. ASSUME NEW b \in Batches, Prepare(b) PROVE AttemptStep(r)
  <2>1. cur[b] \in Members(b) /\ attempt[cur[b]] = "none"
    BY <1>2 DEF Prepare, QueueInv, PickedUnstarted
  <2>2. attempt' = [attempt EXCEPT ![cur[b]] = "starting"]
    BY <1>2 DEF Prepare
  <2>3. QED
    BY <1>2, <2>1, <2>2 DEF Members
<1>3. ASSUME NEW b \in Batches, Mark(b) PROVE AttemptStep(r)
  BY <1>3, RowsTyped DEF Mark, Live, Ended
<1>4. ASSUME NEW b \in Batches, Launch(b) PROVE AttemptStep(r)
  BY <1>4, RowsTyped, ControlEnds DEF Launch, attemptVars, FailStart, Live,
     Ended
<1>5. ASSUME NEW b \in Batches, LauncherFails(b) PROVE AttemptStep(r)
  BY <1>5, RowsTyped, ControlEnds DEF LauncherFails, FailStart, Live, Ended
<1>6. ASSUME NEW b \in Batches, Abort(b) PROVE AttemptStep(r)
  <2>1. PICK end \in {"cancelled", "human_required"} :
          attempt' = IF attempt[cur[b]] \in Live
                     THEN [attempt EXCEPT ![cur[b]] = end] ELSE attempt
    BY <1>6 DEF Abort
  <2>2. QED
    BY <2>1 DEF Ended
<1>7. ASSUME NEW b \in Batches, SpawnFails(b) PROVE AttemptStep(r)
  BY <1>7, RowsTyped, ControlEnds DEF SpawnFails, FailStart, Live, Ended
<1>8. ASSUME NEW b \in Batches, Timeout(b) PROVE AttemptStep(r)
  BY <1>8, RowsTyped DEF Timeout, Live, Ended, Asked
<1>9. ASSUME NEW b \in Batches, Recover(b) PROVE AttemptStep(r)
  BY <1>9, RowsTyped DEF Recover, Live, Ended, Recoverable, Authorised
<1>10. ASSUME NEW b \in Batches, DeliverTry(b) PROVE AttemptStep(r)
  BY <1>10, RowsTyped DEF DeliverTry, Live, Ended
<1>11. ASSUME NEW b \in Batches, CancelBatch(b) PROVE AttemptStep(r)
  BY <1>11, RowsTyped DEF CancelBatch, Live, Ended, LiveIn, Members
<1>12. ASSUME NEW s \in Runs, CancelRun(s) PROVE AttemptStep(r)
  BY <1>12, RowsTyped DEF CancelRun, Live, Ended
<1>13. ASSUME NEW s \in Runs, DeliverRunCancel(s) PROVE AttemptStep(r)
  BY <1>13, RowsTyped DEF DeliverRunCancel, Live, Ended
<1>14. CASE FinishCommit
  BY <1>14, RowsTyped, FinalEnds DEF FinishCommit, Live, Ended, Finishing
<1>15. CASE FinishFail
  BY <1>15, RowsTyped DEF FinishFail, Live, Ended
<1>16. CASE StartRevoke
  BY <1>16, RowsTyped DEF StartRevoke, Live, Ended
<1>17. ASSUME NEW b \in Batches, RecoverBatch(b) PROVE AttemptStep(r)
  BY <1>17, RowsTyped DEF RecoverBatch, CloseLaunches, Live, Ended,
     CloseLaunches, ClosedAttempt, ClosedAs, PreAdapter, LiveIn, Members
<1>18. ASSUME NEW b \in Batches, 
           \/ Claim(b) \/ AbortLease(b) \/ Record(b) \/ Park(b)
     PROVE  UNCHANGED <<attempt>>
  BY <1>18 DEF Claim, AbortLease, Record, Park
<1>19. ASSUME \/ HumanEvent
     PROVE  UNCHANGED <<attempt>>
  BY <1>19 DEF HumanEvent
<1>20. QED
  BY <1>1, <1>2, <1>3, <1>4, <1>5, <1>6, <1>7, <1>8, <1>9, <1>10, <1>11,
     <1>12, <1>13, <1>14, <1>15, <1>16, <1>17, <1>18, <1>19, AttemptWriters
     DEF attemptVars

-----------------------------------------------------------------------------
(* Where a worker and the Host are.                                        *)

\* A process that does not serve runs no worker and no Host.
DownIdle ==
    mgr # "up" => hostPhase = "idle" /\ \A b \in Batches : pc[b] = "idle"

LEMMA DownIdleKept ==
    ASSUME TypeInv, DownIdle, Next
    PROVE  DownIdle'
<1> USE DEF DownIdle, managerVars, hostVars, workerVars
<1>1. CASE mgr = "up" /\ UNCHANGED managerVars
  BY <1>1
<1>2. CASE Seal
  BY <1>2 DEF Seal, SealCommit
<1>3. CASE Crash
  BY <1>3 DEF Crash
<1>4. CASE StartRevoke
  BY <1>4 DEF StartRevoke
<1>5. ASSUME NEW b \in Batches, RecoverBatch(b) PROVE DownIdle'
  BY <1>5 DEF RecoverBatch
<1>6. CASE StartDone
  BY <1>6 DEF StartDone
<1>7. QED
  BY <1>1, <1>2, <1>3, <1>4, <1>5, <1>6, ManagerSteps DEF Restart

\* Places at which the run of the worker may have no attempt.
Unattempted == Free \cup {"dispatch", "prepare", "failrun", "gate", "stop"}

\* The run a worker executes has an attempt, and the one it has aborted or
\* given up has ended.
CurAttempted ==
    \A b \in Batches :
        /\ pc[b] \notin Unattempted => attempt[cur[b]] # "none"
        /\ pc[b] \in Aborting \cup {"drain"} => attempt[cur[b]] \notin Live

LEMMA CurAttemptedKept ==
    ASSUME TypeInv, QueueInv, CurAttempted, Next
    PROVE  CurAttempted'
<1> SUFFICES ASSUME NEW b \in Batches
             PROVE  /\ pc'[b] \notin Unattempted => attempt'[cur'[b]] # "none"
                    /\ pc'[b] \in Aborting \cup {"drain"} =>
                          attempt'[cur'[b]] \notin Live
  BY DEF CurAttempted
<1>1. CASE Retired(b) \/ Between(b) \/ Takes(b) \/ CreateBatch(b) \/ ResumeBatch(b)
  <2>1. CASE CreateBatch(b) \/ ResumeBatch(b)
    BY <2>1 DEF CreateBatch, ResumeBatch, StartWorker, TypeInv, WorkerTypes,
       Unattempted, Free, Aborting
  <2>2. QED
    BY <1>1, <2>1 DEF Retired, Between, Takes, Unattempted, Free, Aborting
<1>2. CASE (Stays(b) \/ GoesOn(b)) /\ pc[b] \notin Free
  <2>1. cur'[b] = cur[b] /\ cur[b] \in Runs /\ BatchOf[cur[b]] = b
    BY <1>2, CurIsRun DEF Stays, GoesOn
  <2>2. AttemptStep(cur[b])
    BY <2>1, AttemptSteps
  <2>3. Prepare(b) => pc[b] = "prepare" /\ pc'[b] = "claim"
    BY DEF Prepare, Goto, TypeInv, WorkerTypes
  <2>4. attempt'[cur[b]] = "none" => attempt[cur[b]] = "none"
    BY <2>2 DEF AttemptStep, Live, Ended
  <2>5. attempt'[cur[b]] \in Live => attempt[cur[b]] \in Live \/ Prepare(b)
    BY <2>1, <2>2 DEF AttemptStep
  <2>6. CASE Stays(b)
    BY <2>1, <2>3, <2>4, <2>5, <2>6 DEF Stays, CurAttempted, Aborting
  <2>7. CASE GoesOn(b)
    <3>1. CASE Prepare(b)
      BY <2>1, <2>3, <3>1
         DEF Prepare, TypeInv, AttemptTypes, Unattempted, Aborting
    <3>2. CASE Abort(b) /\ pc'[b] = "abort_run"
      <4>1. PICK end \in {"cancelled", "human_required"} :
              attempt' = IF attempt[cur[b]] \in Live
                         THEN [attempt EXCEPT ![cur[b]] = end] ELSE attempt
        BY <3>2 DEF Abort
      <4>2. attempt'[cur[b]] \notin Live
        BY <2>1, <4>1 DEF TypeInv, AttemptTypes, Live
      <4>3. pc[b] = "start_host"
        BY <3>2 DEF Abort
      <4>4. QED
        BY <2>1, <2>4, <3>2, <4>2, <4>3
           DEF CurAttempted, Unattempted, Free, Aborting
    <3>3. CASE Recover(b) /\ pc'[b] = "drain"
      BY <2>1, <2>4, <3>3 DEF Recover, TypeInv, AttemptTypes, CurAttempted,
         Unattempted, Free, Aborting, Live
    <3>4. CASE ~Prepare(b) /\ pc'[b] \notin {"abort_run", "drain"}
      <4>1. pc'[b] \notin Unattempted => pc[b] \notin Unattempted
        BY <2>7, <3>4 DEF GoesOn, Unattempted, Free
      <4>2. pc'[b] \in Aborting \cup {"drain"} => pc[b] \in Aborting
        BY <2>7, <3>4 DEF GoesOn, Aborting
      <4>3. QED
        BY <2>1, <2>4, <2>5, <3>4, <4>1, <4>2 DEF CurAttempted
    <3>5. QED
      BY <2>7, <3>1, <3>2, <3>3, <3>4 DEF GoesOn
  <2>8. QED
    BY <1>2, <2>6, <2>7
<1>3. CASE Stays(b) /\ pc[b] \in Free
  BY <1>3 DEF Stays, Unattempted, Free, Aborting
<1>4. QED
  BY <1>1, <1>2, <1>3, WorkerMoves DEF Moves, GoesOn

\* The attempt the Host owns exists.
HostAttempted == hostOwner # Nobody => attempt[hostOwner] # "none"

LEMMA HostAttemptedKept ==
    ASSUME TypeInv, QueueInv, HostAttempted, CurAttempted, Next
    PROVE  HostAttempted'
<1>1. \A r \in Runs : attempt[r] # "none" => attempt'[r] # "none"
  BY AttemptSteps DEF AttemptStep, Live, Ended
<1>2. \/ hostOwner' = Nobody \/ hostOwner' = hostOwner
      \/ \E b \in Batches : Spawn(b)
  <2>1. ASSUME NEW b \in Batches, Timeout(b) \/ DeliverTry(b)
        PROVE  hostOwner' = hostOwner
    BY <2>1 DEF Timeout, DeliverTry
  <2>2. ASSUME NEW r \in Runs, DeliverRunCancel(r) PROVE hostOwner' = hostOwner
    BY <2>2 DEF DeliverRunCancel
  <2>3. CASE HostExit \/ HostLost \/ FinishCommit \/ FinishFail \/ FinishLost
    BY <2>3 DEF HostExit, HostLost, FinishCommit, FinishFail, FinishLost,
       KeepOwner
  <2>4. CASE HandOff \/ ReleaseQuarantine \/ Crash
    BY <2>4 DEF HandOff, ReleaseQuarantine, Crash
  <2>5. QED
    BY <2>1, <2>2, <2>3, <2>4, HostWriters DEF hostVars
<1>3. ASSUME NEW b \in Batches, Spawn(b) PROVE HostAttempted'
  <2>1. hostOwner' = cur[b] /\ pc[b] \notin Unattempted
    BY <1>3 DEF Spawn, Unattempted, Free
  <2>2. cur[b] \in Runs /\ attempt[cur[b]] # "none"
    BY <2>1, CurIsRun DEF CurAttempted, Unattempted
  <2>3. QED
    BY <1>1, <2>1, <2>2 DEF HostAttempted
<1>4. QED
  BY <1>1, <1>2, <1>3 DEF HostAttempted, TypeInv, HostTypes, Owners

-----------------------------------------------------------------------------
(* What a worker has still to start.                                       *)

\* The list of a worker ends with it.
IdleEmpty == \A b \in Batches : pc[b] = "idle" => todo[b] = {}

LEMMA IdleEmptyKept ==
    ASSUME TypeInv, QueueInv, IdleEmpty, Next
    PROVE  IdleEmpty'
<1> SUFFICES ASSUME NEW b \in Batches, pc'[b] = "idle" PROVE todo'[b] = {}
  BY DEF IdleEmpty
<1>1. CASE CreateBatch(b) \/ ResumeBatch(b)
  BY <1>1 DEF CreateBatch, ResumeBatch, StartWorker, TypeInv, WorkerTypes
<1>2. QED
  BY <1>1, WorkerMoves DEF Moves, Stays, Retired, Between, Takes, GoesOn,
     ReachesGate, IdleEmpty, TypeInv, WorkerTypes

\* Runs the worker may still start: its list, and the one it has picked.
Ahead(b) == todo[b] \cup {r \in {cur[b]} : pc[b] \in {"dispatch", "prepare"}}

LEMMA AheadUntouched ==
    ASSUME TypeInv, QueueInv, NEW b \in Batches, NEW r \in Ahead(b)
    PROVE  r \in Runs /\ BatchOf[r] = b /\ attempt[r] = "none"
BY DEF QueueInv, AheadUnstarted, PickedUnstarted, Ahead, Members

\* Only the start of a worker puts runs on its list.
LEMMA AheadShrinks ==
    ASSUME TypeInv, QueueInv, NEW b \in Batches, Next,
           ~CreateBatch(b), ~ResumeBatch(b)
    PROVE  Ahead(b)' \subseteq Ahead(b)
<1>1. CASE Takes(b)
  BY <1>1, FirstIsAhead DEF Takes, Ahead, QueueInv, AheadUnstarted, Members
<1>2. CASE Stays(b) \/ Retired(b) \/ Between(b) \/ GoesOn(b)
  BY <1>2 DEF Stays, Retired, Between, GoesOn, Ahead, Free
<1>3. QED
  BY <1>1, <1>2, WorkerMoves DEF Moves

\* A run that may still be started is queued, or cancelled with its
\* membership, in which case Prepare refuses it.
Startable(r) ==
    /\ run[r] \in {"queued", "cancelled"}
    /\ member[r] \in {"queued", "resume_pending", "cancelled"}
    /\ member[r] = "cancelled" => run[r] = "cancelled"

AheadStartable == \A b \in Batches : \A r \in Ahead(b) : Startable(r)

LEMMA StartableKept ==
    ASSUME TypeInv, QueueInv, HostAttempted, DownIdle, IdleEmpty,
           NEW k \in Batches, NEW q \in Ahead(k), q \in Ahead(k)', Startable(q), Next
    PROVE  Startable(q)'
<1>0. q \in Runs /\ BatchOf[q] = k /\ attempt[q] = "none"
  BY AheadUntouched
<1> USE DEF Startable, RowTypes, Ahead, Members, LiveIn, Live, TypeInv,
            CurKnown, Free, WorkerTypes, Retire, Goto
<1>1. ASSUME UNCHANGED <<run, member>> PROVE Startable(q)'
  BY <1>1
<1>2. ASSUME NEW b \in Batches, WorkerStart(b) PROVE Startable(q)'
  BY <1>2, <1>0, RowsTyped DEF WorkerStart, memberVars, SealFromWorker,
     AcknowledgeSeal, Retire
<1>3. ASSUME NEW b \in Batches, SkipQuarantined(b) PROVE Startable(q)'
  <2>1. First(b) \in Members(b)
    BY <1>3, FirstIsAhead DEF SkipQuarantined, QueueInv, AheadUnstarted
  <2>2. CASE Retire(b)
    BY <1>3, <2>2, <1>0 DEF SkipQuarantined, memberVars
  <2>3. CASE ~Retire(b)
    <3>1. run' = [run EXCEPT ![First(b)] = "review_required"]
          /\ member' = [member EXCEPT ![First(b)] = "terminal"]
          /\ todo' = [todo EXCEPT ![b] = @ \ {First(b)}] /\ UNCHANGED <<pc, cur>>
          /\ pc[b] = "pick"
      BY <1>3, <2>3 DEF SkipQuarantined
    <3>2. q # First(b)
      BY <3>1, <2>1, <1>0
    <3>3. QED
      BY <3>1, <3>2, <1>0, RowsTyped
  <2>4. QED
    BY <2>2, <2>3
<1>4. ASSUME NEW b \in Batches, Pick(b) PROVE Startable(q)'
  BY <1>4, <1>0, RowsTyped DEF Pick, Fence, Retire
<1>5. ASSUME NEW b \in Batches, Prepare(b) PROVE Startable(q)'
  BY <1>5, <1>0, RowsTyped DEF Prepare, runVars
<1>6. ASSUME NEW b \in Batches, PrepareFails(b) PROVE Startable(q)'
  BY <1>6, <1>0, RowsTyped DEF PrepareFails, memberVars, runVars
<1>7. ASSUME NEW b \in Batches, FailUnstarted(b) PROVE Startable(q)'
  BY <1>7, <1>0, RowsTyped DEF FailUnstarted, FailRun, memberVars
<1>8. ASSUME NEW b \in Batches, Mark(b) PROVE Startable(q)'
  BY <1>8, <1>0, RowsTyped DEF Mark, FailRun, memberVars
<1>9. ASSUME NEW b \in Batches, MarkRun(b) PROVE Startable(q)'
  BY <1>9, <1>0, RowsTyped DEF MarkRun, memberVars
<1>10. ASSUME NEW b \in Batches, Launch(b) PROVE Startable(q)'
  BY <1>10, <1>0, RowsTyped DEF Launch, memberVars, runVars, FailStart,
     Terminalize
<1>11. ASSUME NEW b \in Batches, LauncherFails(b) PROVE Startable(q)'
  BY <1>11, <1>0, RowsTyped DEF LauncherFails, FailStart, Terminalize
<1>12. ASSUME NEW b \in Batches, AbortRun(b) PROVE Startable(q)'
  BY <1>12, <1>0, RowsTyped DEF AbortRun, memberVars
<1>13. ASSUME NEW b \in Batches, AbortMember(b) PROVE Startable(q)'
  BY <1>13, <1>0, RowsTyped DEF AbortMember, Terminalize, runVars
<1>14. ASSUME NEW b \in Batches, SpawnFails(b) PROVE Startable(q)'
  BY <1>14, <1>0, RowsTyped DEF SpawnFails, FailStart, Terminalize
<1>15. ASSUME NEW b \in Batches, SetRun(b) PROVE Startable(q)'
  BY <1>15, <1>0, RowsTyped DEF SetRun, memberVars
<1>16. ASSUME NEW b \in Batches, Recover(b) PROVE Startable(q)'
  BY <1>16, <1>0, RowsTyped DEF Recover
<1>17. ASSUME NEW b \in Batches, FenceUnknown(b) PROVE Startable(q)'
  BY <1>17, <1>0, RowsTyped DEF FenceUnknown, FenceFromWorker, Fence, Retire
<1>18. ASSUME NEW b \in Batches, Park(b) PROVE Startable(q)'
  BY <1>18, <1>0, RowsTyped DEF Park
<1>19. ASSUME NEW b \in Batches, FinishCancelled(b) PROVE Startable(q)'
  BY <1>19, <1>0, RowsTyped DEF FinishCancelled, SealFromWorker,
     FenceFromWorker, AcknowledgeSeal, Fence, Retire
<1>20. ASSUME NEW b \in Batches, DeliverTry(b) PROVE Startable(q)'
  BY <1>20, <1>0, RowsTyped DEF DeliverTry, memberVars
<1>21. ASSUME NEW b \in Batches, CancelBatch(b) PROVE Startable(q)'
  BY <1>21, <1>0, RowsTyped DEF CancelBatch, memberVars
<1>22. ASSUME NEW b \in Batches, CancelIdleBatch(b) PROVE Startable(q)'
  BY <1>22, <1>0, RowsTyped DEF CancelIdleBatch, AcknowledgeSeal
<1>23. ASSUME NEW b \in Batches, Resolve(b) PROVE Startable(q)'
  BY <1>23, <1>0, RowsTyped DEF Resolve, memberVars, runVars
<1>24. ASSUME NEW b \in Batches, ResolveCancelled(b) PROVE Startable(q)'
  BY <1>24, <1>0, RowsTyped DEF ResolveCancelled, memberVars,
     AcknowledgeSeal
<1>25. ASSUME NEW b \in Batches, ResumeBatch(b) PROVE Startable(q)'
  BY <1>25, <1>0, RowsTyped DEF ResumeBatch, memberVars
<1>26. ASSUME NEW r \in Runs, CancelRun(r) PROVE Startable(q)'
  BY <1>26, <1>0, RowsTyped DEF CancelRun, memberVars
<1>27. ASSUME NEW r \in Runs, WithdrawRun(r) PROVE Startable(q)'
  BY <1>27, <1>0, RowsTyped DEF WithdrawRun, memberVars
<1>28. CASE FinishCommit
  <2>1. q # hostOwner
    BY <1>28, <1>0 DEF FinishCommit, HostAttempted, HostKnown
  <2>2. QED
    BY <1>28, <1>0, <2>1, RowsTyped DEF FinishCommit, Terminalize
<1>29. CASE FinishFail
  <2>1. q # hostOwner
    BY <1>29, <1>0 DEF FinishFail, HostAttempted, HostKnown
  <2>2. QED
    BY <1>29, <1>0, <2>1, RowsTyped DEF FinishFail, Terminalize
<1>30. CASE Adjudicate
  BY <1>30, <1>0, RowsTyped DEF Adjudicate, memberVars
<1>31. CASE StartRevoke
  BY <1>31, <1>0, RowsTyped DEF StartRevoke, memberVars
<1>32. ASSUME NEW b \in Batches, RecoverBatch(b) PROVE Startable(q)'
  BY <1>32 DEF RecoverBatch, DownIdle, IdleEmpty
<1>33. ASSUME NEW r \in Runs, 
           \/ DeliverRunCancel(r)
     PROVE  UNCHANGED <<run, member>>
  BY <1>33 DEF DeliverRunCancel, memberVars
<1>34. ASSUME \/ HumanEvent \/ Crash
     PROVE  UNCHANGED <<run, member>>
  BY <1>34 DEF HumanEvent, memberVars, Crash
<1>35. QED
  BY <1>1, <1>2, <1>3, <1>4, <1>5, <1>6, <1>7, <1>8, <1>9, <1>10, <1>11,
     <1>12, <1>13, <1>14, <1>15, <1>16, <1>17, <1>18, <1>19, <1>20, <1>21,
     <1>22, <1>23, <1>24, <1>25, <1>26, <1>27, <1>28, <1>29, <1>30, <1>31,
     <1>32, <1>33, <1>34, RunWriters, MemberWriters
     DEF runVars, memberVars

\* Nothing was written about a batch that was not created yet.
AbsentClean ==
    \A b \in Batches : batch[b] = "absent" =>
        /\ Open(b) /\ cancel[b] = "none" /\ recovery[b] = "none"
        /\ ~workItem[b] /\ decided[b] = {} /\ resolving[b] = {}
        /\ b \notin sealing

\* Nor about its runs.
AbsentFresh ==
    \A b \in Batches : batch[b] = "absent" =>
        \A r \in Members(b) : run[r] = "queued" /\ member[r] = "queued"

\* A batch to recover was created.
RecoverCreated == \A b \in unrecovered : batch[b] # "absent"

LEMMA CreatedOnce ==
    ASSUME TypeInv, QueueInv, Next, NEW b \in Batches, batch'[b] = "absent"
    PROVE  batch[b] = "absent"
<1>1. CASE Calm
  BY <1>1 DEF Calm, CalmBatches
<1>2. ASSUME NEW c \in Batches, CreateBatch(c) \/ ResumeBatch(c)
      PROVE  batch[b] = "absent"
  BY <1>2 DEF CreateBatch, ResumeBatch, TypeInv, BatchTypes
<1>3. ASSUME NEW c \in Batches, Pick(c) \/ Prepare(c)
      PROVE  batch[b] = "absent"
  BY <1>3 DEF Pick, Prepare, Fence, batchVars, TypeInv, BatchTypes
<1>4. QED
  BY <1>1, <1>2, <1>3, StepKinds DEF QueueInv

LEMMA RecoverCreatedKept ==
    ASSUME TypeInv, QueueInv, RecoverCreated, Next
    PROVE  RecoverCreated'
<1> USE DEF RecoverCreated, TypeInv
<1>1. unrecovered' \subseteq unrecovered \/ StartRevoke
  <2>1. CASE Seal
    BY <2>1 DEF Seal, managerVars
  <2>2. CASE Crash \/ StartDone
    BY <2>2 DEF Crash, StartDone
  <2>3. ASSUME NEW b \in Batches, RecoverBatch(b)
        PROVE  unrecovered' \subseteq unrecovered
    BY <2>3 DEF RecoverBatch, AwaitReconciliation
  <2>4. QED
    BY <2>1, <2>2, <2>3, ManagerSteps DEF Restart, managerVars
<1>2. CASE StartRevoke
  BY <1>2, CreatedOnce DEF StartRevoke
<1>3. CASE unrecovered' \subseteq unrecovered
  BY <1>3, CreatedOnce
<1>4. QED
  BY <1>1, <1>2, <1>3

LEMMA AheadStartableKept ==
    ASSUME TypeInv, QueueInv, HostAttempted, DownIdle, IdleEmpty,
           AheadStartable, AbsentUntouched, AbsentFresh, Next
    PROVE  AheadStartable'
<1> SUFFICES ASSUME NEW b \in Batches, NEW r \in Ahead(b)' PROVE Startable(r)'
  BY DEF AheadStartable
<1>1. CASE ~CreateBatch(b) /\ ~ResumeBatch(b)
  BY <1>1, AheadShrinks, StartableKept DEF AheadStartable
<1>2. CASE CreateBatch(b)
  <2>1. r \in Members(b) /\ batch[b] = "absent" /\ UNCHANGED <<run, member>>
    BY <1>2 DEF CreateBatch, StartWorker, Ahead, TypeInv, WorkerTypes,
       runVars, memberVars
  <2>2. QED
    BY <2>1 DEF AbsentFresh, Startable
<1>3. CASE ResumeBatch(b)
  <2>1. /\ r \in Members(b) /\ member[r] \in {"queued", "resume_pending"}
        /\ run'[r] = "queued" /\ member' = member
    BY <1>3 DEF ResumeBatch, StartWorker, Ahead, TypeInv, WorkerTypes,
       memberVars, Members
  <2>2. QED
    BY <2>1 DEF Startable
<1>4. QED
  BY <1>1, <1>2, <1>3

LEMMA AbsentCleanKept ==
    ASSUME TypeInv, QueueInv, AbsentClean, RecoverCreated, Next
    PROVE  AbsentClean'
<1> USE DEF AbsentClean, QueueInv, AbsentUntouched, TypeInv, BatchTypes,
            CancelTypes, Open
<1>1. ASSUME UNCHANGED <<batch, seal, recovery, workItem, decided, resolving, cancel, sealing>> PROVE AbsentClean'
  BY <1>1
<1>2. ASSUME NEW b \in Batches, WorkerStart(b) PROVE AbsentClean'
  BY <1>2 DEF WorkerStart, KeepFixed, SealFromWorker, decisionVars
<1>3. ASSUME NEW b \in Batches, Begin(b) PROVE AbsentClean'
  BY <1>3 DEF Begin, WriteRunning, decisionVars, cancelVars
<1>4. ASSUME NEW b \in Batches, Pick(b) PROVE AbsentClean'
  BY <1>4 DEF Pick, KeepFixed, Fence, decisionVars
<1>5. ASSUME NEW b \in Batches, Dispatch(b) PROVE AbsentClean'
  BY <1>5 DEF Dispatch, WriteRunning, decisionVars, cancelVars
<1>6. ASSUME NEW b \in Batches, FenceUnknown(b) PROVE AbsentClean'
  BY <1>6 DEF FenceUnknown, FenceFromWorker, KeepFixed, Fence, decisionVars
<1>7. ASSUME NEW b \in Batches, Stop(b) PROVE AbsentClean'
  BY <1>7 DEF Stop, decisionVars, cancelVars
<1>8. ASSUME NEW b \in Batches, FinishCancelled(b) PROVE AbsentClean'
  BY <1>8 DEF FinishCancelled, KeepFixed, SealFromWorker, FenceFromWorker,
     decisionVars, Fence
<1>9. ASSUME NEW b \in Batches, Conclude(b) PROVE AbsentClean'
  BY <1>9 DEF Conclude, decisionVars, cancelVars
<1>10. ASSUME NEW b \in Batches, DeliverSettle(b) PROVE AbsentClean'
  BY <1>10 DEF DeliverSettle, decisionVars
<1>11. ASSUME NEW b \in Batches, CreateBatch(b) PROVE AbsentClean'
  BY <1>11 DEF CreateBatch, decisionVars, cancelVars
<1>12. ASSUME NEW b \in Batches, CancelBatch(b) PROVE AbsentClean'
  BY <1>12 DEF CancelBatch, decisionVars
<1>13. ASSUME NEW b \in Batches, CancelIdleBatch(b) PROVE AbsentClean'
  BY <1>13 DEF CancelIdleBatch, decisionVars, Cancellable
<1>14. ASSUME NEW b \in Batches, Decide(b) PROVE AbsentClean'
  BY <1>14 DEF Decide, cancelVars
<1>15. ASSUME NEW b \in Batches, Resolve(b) PROVE AbsentClean'
  BY <1>15 DEF Resolve, Resolved, cancelVars
<1>16. ASSUME NEW b \in Batches, ResolveCancelled(b) PROVE AbsentClean'
  BY <1>16 DEF ResolveCancelled, ResolvedWith
<1>17. ASSUME NEW b \in Batches, ResolveOpen(b) PROVE AbsentClean'
  BY <1>17 DEF ResolveOpen, ResolvedWith
<1>18. ASSUME NEW b \in Batches, Dismiss(b) PROVE AbsentClean'
  BY <1>18 DEF Dismiss, Resolved, cancelVars
<1>19. ASSUME NEW b \in Batches, ResumeBatch(b) PROVE AbsentClean'
  BY <1>19 DEF ResumeBatch, decisionVars, cancelVars
<1>20. ASSUME NEW b \in Batches, ReviewSeal(b) PROVE AbsentClean'
  BY <1>20 DEF ReviewSeal, decisionVars, cancelVars
<1>21. ASSUME NEW b \in Batches, SealCommit(b) PROVE AbsentClean'
  BY <1>21 DEF SealCommit, decisionVars
<1>22. CASE Crash
  BY <1>22 DEF Crash
<1>23. ASSUME NEW b \in Batches, RecoverBatch(b) PROVE AbsentClean'
  BY <1>23 DEF RecoverBatch, decisionVars, AwaitReconciliation,
     RecoverCreated
<1>24. ASSUME NEW b \in Batches, 
           \/ DeliverTry(b)
     PROVE  UNCHANGED <<batch, seal, recovery, workItem, decided, resolving, cancel, sealing>>
  BY <1>24 DEF DeliverTry, batchVars, decisionVars
<1>25. QED
  BY <1>1, <1>2, <1>3, <1>4, <1>5, <1>6, <1>7, <1>8, <1>9, <1>10, <1>11,
     <1>12, <1>13, <1>14, <1>15, <1>16, <1>17, <1>18, <1>19, <1>20, <1>21,
     <1>22, <1>23, <1>24, BatchWriters, CancelWriters
     DEF batchVars, cancelVars, decisionVars

\* Nothing has happened to the run.
FreshRow(r) == run[r] = "queued" /\ member[r] = "queued"

LEMMA FreshRowKept ==
    ASSUME TypeInv, QueueInv, HostAttempted, IdleEmpty, AbsentClean,
           RecoverCreated, NEW k \in Batches, batch[k] = "absent",
           NEW q \in Members(k), FreshRow(q), Next
    PROVE  FreshRow(q)'
<1>0. /\ q \in Runs /\ BatchOf[q] = k /\ attempt[q] = "none" /\ pc[k] = "idle"
      /\ \A c \in Batches : cur[c] # q /\ q \notin todo[c]
      /\ resolving[k] = {} /\ decided[k] = {} /\ Open(k)
  BY RunsAssumption DEF QueueInv, AbsentUntouched, AheadUnstarted, AbsentClean,
     IdleEmpty, TypeInv, CurKnown, Members, Free, Nobody
<1> USE DEF FreshRow, Members, LiveIn, Live, RowTypes
<1>1. ASSUME UNCHANGED <<run, member>> PROVE FreshRow(q)'
  BY <1>1
<1>2. ASSUME NEW b \in Batches, WorkerStart(b) PROVE FreshRow(q)'
  BY <1>2, <1>0, RowsTyped DEF WorkerStart, memberVars, SealFromWorker,
     AcknowledgeSeal
<1>3. ASSUME NEW b \in Batches, SkipQuarantined(b) PROVE FreshRow(q)'
  <2>1. b # k
    BY <1>3, <1>0 DEF SkipQuarantined
  <2>2. First(b) # q
    BY <1>3, <1>0, FirstIsAhead DEF SkipQuarantined, QueueInv, AheadUnstarted, Members
  <2>3. QED
    BY <1>3, <1>0, <2>2, RowsTyped DEF SkipQuarantined, memberVars
<1>4. ASSUME NEW b \in Batches, Pick(b) PROVE FreshRow(q)'
  BY <1>4, <1>0, RowsTyped DEF Pick, Fence, Retire
<1>5. ASSUME NEW b \in Batches, Prepare(b) PROVE FreshRow(q)'
  BY <1>5, <1>0, RowsTyped DEF Prepare, runVars
<1>6. ASSUME NEW b \in Batches, PrepareFails(b) PROVE FreshRow(q)'
  BY <1>6, <1>0, RowsTyped DEF PrepareFails, memberVars, runVars
<1>7. ASSUME NEW b \in Batches, FailUnstarted(b) PROVE FreshRow(q)'
  BY <1>7, <1>0, RowsTyped DEF FailUnstarted, FailRun, memberVars
<1>8. ASSUME NEW b \in Batches, Mark(b) PROVE FreshRow(q)'
  BY <1>8, <1>0, RowsTyped DEF Mark, FailRun, memberVars
<1>9. ASSUME NEW b \in Batches, MarkRun(b) PROVE FreshRow(q)'
  BY <1>9, <1>0, RowsTyped DEF MarkRun, memberVars
<1>10. ASSUME NEW b \in Batches, Launch(b) PROVE FreshRow(q)'
  BY <1>10, <1>0, RowsTyped DEF Launch, memberVars, runVars, FailStart,
     Terminalize
<1>11. ASSUME NEW b \in Batches, LauncherFails(b) PROVE FreshRow(q)'
  BY <1>11, <1>0, RowsTyped DEF LauncherFails, FailStart, Terminalize
<1>12. ASSUME NEW b \in Batches, AbortRun(b) PROVE FreshRow(q)'
  BY <1>12, <1>0, RowsTyped DEF AbortRun, memberVars
<1>13. ASSUME NEW b \in Batches, AbortMember(b) PROVE FreshRow(q)'
  BY <1>13, <1>0, RowsTyped DEF AbortMember, Terminalize, runVars
<1>14. ASSUME NEW b \in Batches, SpawnFails(b) PROVE FreshRow(q)'
  BY <1>14, <1>0, RowsTyped DEF SpawnFails, FailStart, Terminalize
<1>15. ASSUME NEW b \in Batches, SetRun(b) PROVE FreshRow(q)'
  BY <1>15, <1>0, RowsTyped DEF SetRun, memberVars
<1>16. ASSUME NEW b \in Batches, Recover(b) PROVE FreshRow(q)'
  BY <1>16, <1>0, RowsTyped DEF Recover
<1>17. ASSUME NEW b \in Batches, FenceUnknown(b) PROVE FreshRow(q)'
  BY <1>17, <1>0, RowsTyped DEF FenceUnknown, FenceFromWorker, Fence, Retire
<1>18. ASSUME NEW b \in Batches, Park(b) PROVE FreshRow(q)'
  BY <1>18, <1>0, RowsTyped DEF Park
<1>19. ASSUME NEW b \in Batches, FinishCancelled(b) PROVE FreshRow(q)'
  BY <1>19, <1>0, RowsTyped DEF FinishCancelled, SealFromWorker,
     FenceFromWorker, AcknowledgeSeal, Fence
<1>20. ASSUME NEW b \in Batches, DeliverTry(b) PROVE FreshRow(q)'
  BY <1>20, <1>0, RowsTyped DEF DeliverTry, memberVars
<1>21. ASSUME NEW b \in Batches, CancelBatch(b) PROVE FreshRow(q)'
  BY <1>21, <1>0, RowsTyped DEF CancelBatch, memberVars, Cancellable
<1>22. ASSUME NEW b \in Batches, CancelIdleBatch(b) PROVE FreshRow(q)'
  BY <1>22, <1>0, RowsTyped DEF CancelIdleBatch, AcknowledgeSeal,
     Cancellable
<1>23. ASSUME NEW b \in Batches, Resolve(b) PROVE FreshRow(q)'
  BY <1>23, <1>0, RowsTyped DEF Resolve, memberVars, runVars, Resolved,
     Reconciled
<1>24. ASSUME NEW b \in Batches, ResolveCancelled(b) PROVE FreshRow(q)'
  BY <1>24, <1>0, RowsTyped DEF ResolveCancelled, memberVars,
     AcknowledgeSeal, ResolvedWith
<1>25. ASSUME NEW b \in Batches, ResumeBatch(b) PROVE FreshRow(q)'
  BY <1>25, <1>0, RowsTyped DEF ResumeBatch, memberVars
<1>26. ASSUME NEW r \in Runs, CancelRun(r) PROVE FreshRow(q)'
  BY <1>26, <1>0, RowsTyped DEF CancelRun, memberVars
<1>27. ASSUME NEW r \in Runs, WithdrawRun(r) PROVE FreshRow(q)'
  BY <1>27, <1>0, RowsTyped DEF WithdrawRun, memberVars
<1>28. CASE FinishCommit
  <2>1. q # hostOwner
    BY <1>28, <1>0 DEF FinishCommit, HostAttempted, HostKnown, TypeInv
  <2>2. QED
    BY <1>28, <1>0, <2>1, RowsTyped DEF FinishCommit, Terminalize
<1>29. CASE FinishFail
  <2>1. q # hostOwner
    BY <1>29, <1>0 DEF FinishFail, HostAttempted, HostKnown, TypeInv
  <2>2. QED
    BY <1>29, <1>0, <2>1, RowsTyped DEF FinishFail, Terminalize
<1>30. CASE Adjudicate
  <2>1. q # hostOwner
    BY <1>30, <1>0 DEF Adjudicate, HostAttempted, HostKnown, TypeInv
  <2>2. QED
    BY <1>30, <1>0, <2>1, RowsTyped DEF Adjudicate, memberVars
<1>31. CASE StartRevoke
  BY <1>31, <1>0, RowsTyped DEF StartRevoke, memberVars
<1>32. ASSUME NEW b \in Batches, RecoverBatch(b) PROVE FreshRow(q)'
  <2>1. b # k
    BY <1>32 DEF RecoverBatch, RecoverCreated
  <2>2. \/ AcknowledgeSeal(b, ClosedMember(b), ClosedOutcome(b), ClosedRun(b))
        \/ member' = ClosedMember(b) /\ run' = ClosedRun(b)
        \/ AwaitReconciliation(b)
    BY <1>32 DEF RecoverBatch
  <2>3. ClosedMember(b)[q] = member[q] /\ ClosedRun(b)[q] = run[q]
    BY <2>1, <1>0 DEF ClosedMember, ClosedRun, ClosedNow, PreAdapter
  <2>4. QED
    BY <2>1, <2>2, <2>3, <1>0 DEF AcknowledgeSeal, AwaitReconciliation,
       Interrupted
<1>33. ASSUME NEW r \in Runs, 
           \/ DeliverRunCancel(r)
     PROVE  UNCHANGED <<run, member>>
  BY <1>33 DEF DeliverRunCancel, memberVars
<1>34. ASSUME \/ HumanEvent \/ Crash
     PROVE  UNCHANGED <<run, member>>
  BY <1>34 DEF HumanEvent, memberVars, Crash
<1>35. QED
  BY <1>1, <1>2, <1>3, <1>4, <1>5, <1>6, <1>7, <1>8, <1>9, <1>10, <1>11,
     <1>12, <1>13, <1>14, <1>15, <1>16, <1>17, <1>18, <1>19, <1>20, <1>21,
     <1>22, <1>23, <1>24, <1>25, <1>26, <1>27, <1>28, <1>29, <1>30, <1>31,
     <1>32, <1>33, <1>34, RunWriters, MemberWriters
     DEF runVars, memberVars

LEMMA AbsentFreshKept ==
    ASSUME TypeInv, QueueInv, HostAttempted, IdleEmpty, AbsentClean,
           AbsentFresh, RecoverCreated, Next
    PROVE  AbsentFresh'
<1> SUFFICES ASSUME NEW b \in Batches, batch'[b] = "absent", NEW r \in Members(b)
             PROVE  run'[r] = "queued" /\ member'[r] = "queued"
  BY DEF AbsentFresh, Members
<1>1. batch[b] = "absent"
  BY CreatedOnce
<1>2. QED
  BY <1>1, FreshRowKept DEF AbsentFresh, FreshRow

-----------------------------------------------------------------------------
(* Closed memberships, live attempts and sealed batches.                   *)

\* A membership that is closed stays as it is.
LEMMA ClosedStays ==
    ASSUME TypeInv, NEW s \in Runs, member[s] \in Closed, Next
    PROVE  member'[s] = member[s]
<1> USE DEF Closed, RowTypes
<1>1. ASSUME UNCHANGED <<member>> PROVE member'[s] = member[s]
  BY <1>1
<1>2. ASSUME NEW b \in Batches, WorkerStart(b) PROVE member'[s] = member[s]
  BY <1>2, RowsTyped DEF WorkerStart, memberVars, SealFromWorker,
     AcknowledgeSeal
<1>3. ASSUME NEW b \in Batches, SkipQuarantined(b) PROVE member'[s] = member[s]
  BY <1>3, RowsTyped DEF SkipQuarantined, memberVars
<1>4. ASSUME NEW b \in Batches, Pick(b) PROVE member'[s] = member[s]
  BY <1>4, RowsTyped DEF Pick, Fence
<1>5. ASSUME NEW b \in Batches, Prepare(b) PROVE member'[s] = member[s]
  BY <1>5, RowsTyped DEF Prepare
<1>6. ASSUME NEW b \in Batches, PrepareFails(b) PROVE member'[s] = member[s]
  BY <1>6, RowsTyped DEF PrepareFails, memberVars
<1>7. ASSUME NEW b \in Batches, Launch(b) PROVE member'[s] = member[s]
  BY <1>7, RowsTyped DEF Launch, memberVars, FailStart, Terminalize,
     Terminalize, Terminalizable
<1>8. ASSUME NEW b \in Batches, LauncherFails(b) PROVE member'[s] = member[s]
  BY <1>8, RowsTyped DEF LauncherFails, FailStart, Terminalize, Terminalize,
     Terminalizable
<1>9. ASSUME NEW b \in Batches, AbortMember(b) PROVE member'[s] = member[s]
  BY <1>9, RowsTyped DEF AbortMember, Terminalize, Terminalize,
     Terminalizable
<1>10. ASSUME NEW b \in Batches, SpawnFails(b) PROVE member'[s] = member[s]
  BY <1>10, RowsTyped DEF SpawnFails, FailStart, Terminalize, Terminalize,
     Terminalizable
<1>11. ASSUME NEW b \in Batches, Recover(b) PROVE member'[s] = member[s]
  BY <1>11, RowsTyped DEF Recover, Recoverable, Authorised
<1>12. ASSUME NEW b \in Batches, FenceUnknown(b) PROVE member'[s] = member[s]
  BY <1>12, RowsTyped DEF FenceUnknown, FenceFromWorker, Fence
<1>13. ASSUME NEW b \in Batches, Park(b) PROVE member'[s] = member[s]
  BY <1>13, RowsTyped DEF Park, Parkable
<1>14. ASSUME NEW b \in Batches, FinishCancelled(b) PROVE member'[s] = member[s]
  BY <1>14, RowsTyped DEF FinishCancelled, SealFromWorker, FenceFromWorker,
     AcknowledgeSeal, Fence
<1>15. ASSUME NEW b \in Batches, CancelIdleBatch(b) PROVE member'[s] = member[s]
  BY <1>15, RowsTyped DEF CancelIdleBatch, AcknowledgeSeal
<1>16. ASSUME NEW b \in Batches, Resolve(b) PROVE member'[s] = member[s]
  BY <1>16, RowsTyped DEF Resolve, memberVars, Resolved, Reconciled
<1>17. ASSUME NEW b \in Batches, ResolveCancelled(b) PROVE member'[s] = member[s]
  BY <1>17, RowsTyped DEF ResolveCancelled, memberVars, AcknowledgeSeal
<1>18. CASE FinishCommit
  BY <1>18, RowsTyped DEF FinishCommit, Terminalize, Terminalize,
     Terminalizable
<1>19. CASE FinishFail
  BY <1>19, RowsTyped DEF FinishFail, Terminalize, Terminalize,
     Terminalizable
<1>20. ASSUME NEW b \in Batches, RecoverBatch(b) PROVE member'[s] = member[s]
  <2>1. \/ AcknowledgeSeal(b, ClosedMember(b), ClosedOutcome(b), ClosedRun(b))
        \/ member' = ClosedMember(b)
        \/ AwaitReconciliation(b)
    BY <1>20 DEF RecoverBatch
  <2>2. ClosedMember(b)[s] = member[s]
    BY DEF ClosedMember, ClosedNow, Terminalizable
  <2>3. QED
    BY <2>1, <2>2 DEF AcknowledgeSeal, AwaitReconciliation, Interrupted
<1>21. QED
  BY <1>1, <1>2, <1>3, <1>4, <1>5, <1>6, <1>7, <1>8, <1>9, <1>10, <1>11,
     <1>12, <1>13, <1>14, <1>15, <1>16, <1>17, <1>18, <1>19, <1>20,
     MemberWriters
     DEF memberVars

\* An attempt that may still run belongs to an active or a fenced membership.
LiveMember ==
    \A r \in Runs :
        attempt[r] \in Live => member[r] \in {"active", "reconciliation_required"}

\* What the proofs below assume of the state.
RowInv1 ==
    /\ TypeInv /\ QueueInv /\ DownIdle /\ CurAttempted /\ HostAttempted
    /\ IdleEmpty /\ AheadStartable /\ AbsentClean /\ AbsentFresh
    /\ RecoverCreated

LEMMA LiveMemberKept ==
    ASSUME RowInv1, LiveMember, SealIsQuiescent, Next
    PROVE  LiveMember'
<1> USE DEF LiveMember, RowInv1, RowTypes, Live, Ended
<1>1. ASSUME UNCHANGED <<attempt, member>> PROVE LiveMember'
  BY <1>1
<1>2. ASSUME NEW b \in Batches, WorkerStart(b) PROVE LiveMember'
  BY <1>2, RowsTyped DEF WorkerStart, attemptVars, memberVars,
     SealFromWorker, AcknowledgeSeal, LiveIn, Members
<1>3. ASSUME NEW b \in Batches, SkipQuarantined(b) PROVE LiveMember'
  BY <1>3, RowsTyped DEF SkipQuarantined, memberVars, attemptVars
<1>4. ASSUME NEW b \in Batches, Pick(b) PROVE LiveMember'
  BY <1>4, RowsTyped DEF Pick, attemptVars, Fence, LiveIn, Members
<1>5. ASSUME NEW b \in Batches, Prepare(b) PROVE LiveMember'
  <2>1. cur[b] \in Ahead(b) /\ cur[b] \in Members(b)
    BY <1>5 DEF Prepare, Ahead, QueueInv, PickedUnstarted
  <2>2. run[cur[b]] # "cancelled" /\ Startable(cur[b])
    BY <1>5, <2>1 DEF Prepare, AheadStartable
  <2>3. member[cur[b]] \in {"queued", "resume_pending"} /\ Open(b)
    BY <2>1, <2>2 DEF Startable, SealIsQuiescent, Settled
  <2>4. /\ attempt' = [attempt EXCEPT ![cur[b]] = "starting"]
        /\ member' = [member EXCEPT ![cur[b]] = "active"]
    BY <1>5, <2>3 DEF Prepare
  <2>5. QED
    BY <2>4, RowsTyped
<1>6. ASSUME NEW b \in Batches, PrepareFails(b) PROVE LiveMember'
  BY <1>6, RowsTyped DEF PrepareFails, memberVars, attemptVars, LiveIn,
     Members
<1>7. ASSUME NEW b \in Batches, Mark(b) PROVE LiveMember'
  BY <1>7, RowsTyped DEF Mark, memberVars, LiveIn, Members
<1>8. ASSUME NEW b \in Batches, Launch(b) PROVE LiveMember'
  <2>1. cur[b] \in Runs
    BY <1>8, CurIsRun DEF Launch, Free
  <2>2. CASE FailStart(b)
    BY <2>1, <2>2, RowsTyped, ControlEnds DEF FailStart, Terminalize
  <2>3. QED
    BY <1>8, <2>2 DEF Launch, attemptVars, memberVars
<1>9. ASSUME NEW b \in Batches, LauncherFails(b) PROVE LiveMember'
  <2>1. cur[b] \in Runs
    BY <1>9, CurIsRun DEF LauncherFails, Free
  <2>2. CASE FailStart(b)
    BY <2>1, <2>2, RowsTyped, ControlEnds DEF FailStart, Terminalize
  <2>3. QED
    BY <1>9, <2>2 DEF LauncherFails
<1>10. ASSUME NEW b \in Batches, Abort(b) PROVE LiveMember'
  <2>1. PICK end \in {"cancelled", "human_required"} :
          attempt' = IF attempt[cur[b]] \in Live
                     THEN [attempt EXCEPT ![cur[b]] = end] ELSE attempt
    BY <1>10 DEF Abort
  <2>2. QED
    BY <1>10, <2>1, RowsTyped DEF Abort, memberVars
<1>11. ASSUME NEW b \in Batches, AbortMember(b) PROVE LiveMember'
  <2>1. attempt[cur[b]] \notin Live
    BY <1>11 DEF AbortMember, CurAttempted, Aborting
  <2>2. QED
    BY <1>11, <2>1, RowsTyped DEF AbortMember, Terminalize, attemptVars
<1>12. ASSUME NEW b \in Batches, SpawnFails(b) PROVE LiveMember'
  <2>1. cur[b] \in Runs
    BY <1>12, CurIsRun DEF SpawnFails, Free
  <2>2. CASE FailStart(b)
    BY <2>1, <2>2, RowsTyped, ControlEnds DEF FailStart, Terminalize
  <2>3. QED
    BY <1>12, <2>2 DEF SpawnFails
<1>13. ASSUME NEW b \in Batches, Timeout(b) PROVE LiveMember'
  BY <1>13, RowsTyped DEF Timeout, memberVars, LiveIn, Members, Asked
<1>14. ASSUME NEW b \in Batches, Recover(b) PROVE LiveMember'
  BY <1>14, RowsTyped DEF Recover, LiveIn, Members, Recoverable, Authorised
<1>15. ASSUME NEW b \in Batches, FenceUnknown(b) PROVE LiveMember'
  BY <1>15, RowsTyped DEF FenceUnknown, FenceFromWorker, attemptVars, Fence,
     LiveIn, Members
<1>16. ASSUME NEW b \in Batches, Park(b) PROVE LiveMember'
  BY <1>16, RowsTyped DEF Park, LiveIn, Members, Parkable
<1>17. ASSUME NEW b \in Batches, FinishCancelled(b) PROVE LiveMember'
  BY <1>17, RowsTyped DEF FinishCancelled, attemptVars, SealFromWorker,
     FenceFromWorker, AcknowledgeSeal, Fence, LiveIn, Members
<1>18. ASSUME NEW b \in Batches, DeliverTry(b) PROVE LiveMember'
  BY <1>18, RowsTyped DEF DeliverTry, memberVars, LiveIn, Members
<1>19. ASSUME NEW b \in Batches, CancelBatch(b) PROVE LiveMember'
  BY <1>19, RowsTyped DEF CancelBatch, memberVars, LiveIn, Members
<1>20. ASSUME NEW b \in Batches, CancelIdleBatch(b) PROVE LiveMember'
  BY <1>20, RowsTyped DEF CancelIdleBatch, AcknowledgeSeal, LiveIn, Members,
     Cancellable
<1>21. ASSUME NEW b \in Batches, Resolve(b) PROVE LiveMember'
  BY <1>21, RowsTyped DEF Resolve, memberVars, attemptVars, LiveIn, Members,
     Resolved, Reconciled
<1>22. ASSUME NEW b \in Batches, ResolveCancelled(b) PROVE LiveMember'
  BY <1>22, RowsTyped DEF ResolveCancelled, ResolvedWith, memberVars,
     AcknowledgeSeal, LiveIn, Members
<1>23. ASSUME NEW r \in Runs, CancelRun(r) PROVE LiveMember'
  BY <1>23, RowsTyped DEF CancelRun, memberVars, LiveIn, Members
<1>24. ASSUME NEW r \in Runs, DeliverRunCancel(r) PROVE LiveMember'
  BY <1>24, RowsTyped DEF DeliverRunCancel, memberVars, LiveIn, Members
<1>25. CASE FinishCommit
  <2>1. FinalState(hostOwner, hostResult) \in Ended
    BY <1>25, FinalEnds DEF FinishCommit
  <2>2. QED
    BY <1>25, <2>1, RowsTyped DEF FinishCommit, Terminalize
<1>26. CASE FinishFail
  BY <1>26, RowsTyped DEF FinishFail, Terminalize, LiveIn, Members,
     Terminalize
<1>27. CASE StartRevoke
  BY <1>27, RowsTyped DEF StartRevoke, memberVars, LiveIn, Members
<1>28. ASSUME NEW b \in Batches, RecoverBatch(b) PROVE LiveMember'
  <2>1. \A r \in Runs : ClosedAttempt(b)[r] \in Live =>
            attempt[r] \in Live /\ r \notin PreAdapter(b)
    BY DEF ClosedAttempt, ClosedAs
  <2>2. \A r \in Runs : r \notin PreAdapter(b) => ClosedMember(b)[r] = member[r]
    BY DEF ClosedMember, ClosedNow
  <2>3. attempt' = ClosedAttempt(b)
    BY <1>28 DEF RecoverBatch, CloseLaunches
  <2>4. CASE member' = ClosedMember(b)
    BY <2>1, <2>2, <2>3, <2>4
  <2>5. CASE AwaitReconciliation(b)
    BY <2>1, <2>3, <2>5 DEF AwaitReconciliation
  <2>6. CASE SealsAtStartup(b) /\ AcknowledgeSeal(b, ClosedMember(b),
                                     ClosedOutcome(b), ClosedRun(b))
    <3>1. \A r \in Members(b) : attempt'[r] \notin Live
      BY <2>1, <2>3, <2>6 DEF SealsAtStartup, StillLive, LiveIn, Members
    <3>2. \A r \in Runs \ Members(b) : member'[r] = member[r]
      BY <2>2, <2>6 DEF AcknowledgeSeal, PreAdapter, LiveIn
    <3>3. QED
      BY <2>1, <2>3, <3>1, <3>2
  <2>7. QED
    BY <1>28, <2>4, <2>5, <2>6 DEF RecoverBatch
<1>29. ASSUME NEW b \in Batches, 
           \/ Claim(b) \/ AbortLease(b) \/ Record(b)
     PROVE  UNCHANGED <<attempt, member>>
  BY <1>29 DEF Claim, memberVars, AbortLease, Record
<1>30. ASSUME \/ HumanEvent
     PROVE  UNCHANGED <<attempt, member>>
  BY <1>30 DEF HumanEvent, memberVars
<1>31. QED
  BY <1>1, <1>2, <1>3, <1>4, <1>5, <1>6, <1>7, <1>8, <1>9, <1>10, <1>11,
     <1>12, <1>13, <1>14, <1>15, <1>16, <1>17, <1>18, <1>19, <1>20, <1>21,
     <1>22, <1>23, <1>24, <1>25, <1>26, <1>27, <1>28, <1>29, <1>30,
     AttemptWriters, MemberWriters
     DEF attemptVars, memberVars

\* The completion review begins when every membership is closed.
ReviewComplete ==
    \A b \in Batches : recovery[b] = "completion_review" =>
        \A r \in Members(b) : member[r] \in Closed

LEMMA ReviewCompleteKept ==
    ASSUME RowInv1, ReviewComplete, Next
    PROVE  ReviewComplete'
<1> USE DEF RowInv1, TypeInv, BatchTypes, ReviewComplete, Members
<1>1. ASSUME UNCHANGED <<recovery>> PROVE ReviewComplete'
  BY <1>1, ClosedStays
<1>2. ASSUME NEW b \in Batches, Begin(b) PROVE ReviewComplete'
  BY <1>2, ClosedStays DEF Begin, WriteRunning
<1>3. ASSUME NEW b \in Batches, Pick(b) PROVE ReviewComplete'
  BY <1>3, ClosedStays DEF Pick, Fence
<1>4. ASSUME NEW b \in Batches, Dispatch(b) PROVE ReviewComplete'
  BY <1>4, ClosedStays DEF Dispatch, WriteRunning
<1>5. ASSUME NEW b \in Batches, FenceUnknown(b) PROVE ReviewComplete'
  BY <1>5, ClosedStays DEF FenceUnknown, FenceFromWorker, Fence
<1>6. ASSUME NEW b \in Batches, Stop(b) PROVE ReviewComplete'
  BY <1>6, ClosedStays DEF Stop
<1>7. ASSUME NEW b \in Batches, FinishCancelled(b) PROVE ReviewComplete'
  BY <1>7, ClosedStays DEF FinishCancelled, SealFromWorker, FenceFromWorker,
     Fence
<1>8. ASSUME NEW b \in Batches, Conclude(b) PROVE ReviewComplete'
  BY <1>8, ClosedStays DEF Conclude, Incomplete, Closed, memberVars
<1>9. ASSUME NEW b \in Batches, DeliverSettle(b) PROVE ReviewComplete'
  BY <1>9, ClosedStays DEF DeliverSettle
<1>10. ASSUME NEW b \in Batches, ResolveOpen(b) PROVE ReviewComplete'
  BY <1>10, ClosedStays DEF ResolveOpen, ResolvedWith, Closed, Members, memberVars
<1>11. ASSUME NEW b \in Batches, Dismiss(b) PROVE ReviewComplete'
  BY <1>11, ClosedStays DEF Dismiss
<1>12. ASSUME NEW b \in Batches, ResumeBatch(b) PROVE ReviewComplete'
  BY <1>12, ClosedStays DEF ResumeBatch
<1>13. ASSUME NEW b \in Batches, RecoverBatch(b) PROVE ReviewComplete'
  BY <1>13, ClosedStays DEF RecoverBatch, AwaitReconciliation
<1>14. ASSUME NEW b \in Batches, 
           \/ CreateBatch(b) \/ CancelBatch(b) \/ CancelIdleBatch(b)
           \/ Decide(b) \/ Resolve(b) \/ ResolveCancelled(b)
           \/ ReviewSeal(b) \/ SealCommit(b)
     PROVE  UNCHANGED <<recovery>>
  BY <1>14 DEF CreateBatch, CancelBatch, CancelIdleBatch, Decide, Resolve,
     ResolveCancelled, ReviewSeal, SealCommit
<1>15. ASSUME \/ Crash
     PROVE  UNCHANGED <<recovery>>
  BY <1>15 DEF Crash
<1>16. QED
  BY <1>1, <1>2, <1>3, <1>4, <1>5, <1>6, <1>7, <1>8, <1>9, <1>10, <1>11,
     <1>12, <1>13, <1>14, <1>15, BatchWriters
     DEF batchVars, decisionVars

\* What input recovery wrote stands: its attempt has ended and its membership
\* is closed.
LEMMA RecoveredFinalKept ==
    ASSUME TypeInv, QueueInv, RecoveredFinal, Next
    PROVE  RecoveredFinal'
<1>1. \A r \in recovered : /\ r \in Runs
                           /\ attempt'[r] = "review_required"
                           /\ member'[r] = "terminal"
  <2>1. \A r \in recovered : r \in Runs
    BY DEF TypeInv, RunTypes
  <2>2. \A r \in recovered : attempt'[r] = attempt[r]
    BY <2>1, AttemptSteps DEF AttemptStep, RecoveredFinal, Live
  <2>3. \A r \in recovered : member'[r] = member[r]
    BY <2>1, ClosedStays DEF RecoveredFinal, Closed
  <2>4. QED
    BY <2>1, <2>2, <2>3 DEF RecoveredFinal
<1>2. ASSUME NEW b \in Batches, Recover(b) PROVE RecoveredFinal'
  <2>1. cur[b] \in Runs /\ recovered' = recovered \cup {cur[b]}
    BY <1>2, CurIsRun DEF Recover, Free
  <2>2. attempt'[cur[b]] = "review_required" /\ member'[cur[b]] = "terminal"
    BY <1>2, <2>1, RowsTyped DEF Recover, RowTypes
  <2>3. QED
    BY <1>1, <2>1, <2>2 DEF RecoveredFinal
<1>3. ASSUME NEW b \in Batches, 
           \/ WorkerStart(b) \/ SkipQuarantined(b) \/ Pick(b)
           \/ FailUnstarted(b) \/ Mark(b) \/ MarkRun(b) \/ Launch(b)
           \/ LauncherFails(b) \/ AbortRun(b) \/ SpawnFails(b) \/ SetRun(b)
           \/ FenceUnknown(b) \/ Park(b) \/ FinishCancelled(b)
           \/ DeliverTry(b) \/ CancelBatch(b) \/ CancelIdleBatch(b)
           \/ ResolveCancelled(b) \/ ResumeBatch(b) \/ RecoverBatch(b)
     PROVE  UNCHANGED recovered
  BY <1>3 DEF WorkerStart, KeepRunFlags, SkipQuarantined, Pick,
     FailUnstarted, Mark, MarkRun, Launch, runVars, FailStart,
     LauncherFails, AbortRun, SpawnFails, SetRun, FenceUnknown, Park,
     FinishCancelled, DeliverTry, KeepRest, CancelBatch, CancelIdleBatch,
     ResolveCancelled, ResolvedWith, ResumeBatch, RecoverBatch
<1>4. ASSUME NEW r \in Runs, 
           \/ CancelRun(r) \/ WithdrawRun(r) \/ DeliverRunCancel(r)
     PROVE  UNCHANGED recovered
  BY <1>4 DEF CancelRun, KeepRest, WithdrawRun, DeliverRunCancel
<1>5. ASSUME \/ HumanEvent \/ FinishCommit \/ FinishFail \/ Adjudicate
               \/ Crash \/ StartRevoke
     PROVE  UNCHANGED recovered
  BY <1>5 DEF HumanEvent, FinishCommit, FinishFail, Adjudicate, Crash,
     StartRevoke
<1>6. QED
  BY <1>1, <1>2, <1>3, <1>4, <1>5, RunWriters
     DEF runVars, RecoveredFinal
-----------------------------------------------------------------------------
(* Seals and acknowledged cancellations.                                   *)

\* A seal is written only for a cancellation that was acknowledged.
SealingSettled == \A b \in sealing : cancel[b] \in {"acknowledged", "sealed"}

LEMMA SealingSettledKept ==
    ASSUME RowInv1, SealIsQuiescent, SealingSettled, Next
    PROVE  SealingSettled'
<1> USE DEF RowInv1, TypeInv, CancelTypes, SealingSettled, ActiveCancel
<1>1. ASSUME UNCHANGED <<cancel, sealing>> PROVE SealingSettled'
  BY <1>1
<1>2. ASSUME NEW b \in Batches, WorkerStart(b) PROVE SealingSettled'
  BY <1>2 DEF WorkerStart, SealFromWorker
<1>3. ASSUME NEW b \in Batches, Pick(b) PROVE SealingSettled'
  BY <1>3 DEF Pick, Fence
<1>4. ASSUME NEW b \in Batches, FenceUnknown(b) PROVE SealingSettled'
  BY <1>4 DEF FenceUnknown, FenceFromWorker, Fence
<1>5. ASSUME NEW b \in Batches, FinishCancelled(b) PROVE SealingSettled'
  BY <1>5 DEF FinishCancelled, SealFromWorker, FenceFromWorker, Fence
<1>6. ASSUME NEW b \in Batches, DeliverSettle(b) PROVE SealingSettled'
  BY <1>6 DEF DeliverSettle
<1>7. ASSUME NEW b \in Batches, CancelBatch(b) PROVE SealingSettled'
  BY <1>7 DEF CancelBatch
<1>8. ASSUME NEW b \in Batches, CancelIdleBatch(b) PROVE SealingSettled'
  BY <1>8 DEF CancelIdleBatch, Cancellable
<1>9. ASSUME NEW b \in Batches, ResolveCancelled(b) PROVE SealingSettled'
  BY <1>9 DEF ResolveCancelled, ResolvedWith, SealIsQuiescent, Settled,
     LiveIn, Members
<1>10. ASSUME NEW b \in Batches, SealCommit(b) PROVE SealingSettled'
  BY <1>10 DEF SealCommit
<1>11. CASE Crash
  BY <1>11 DEF Crash
<1>12. ASSUME NEW b \in Batches, RecoverBatch(b) PROVE SealingSettled'
  BY <1>12 DEF RecoverBatch, AwaitReconciliation, RecoverOpen
<1>13. ASSUME NEW b \in Batches, 
           \/ DeliverTry(b)
     PROVE  UNCHANGED <<cancel, sealing>>
  BY <1>13 DEF DeliverTry
<1>14. QED
  BY <1>1, <1>2, <1>3, <1>4, <1>5, <1>6, <1>7, <1>8, <1>9, <1>10, <1>11,
     <1>12, <1>13, CancelWriters
     DEF cancelVars

\* Nothing of the batch may still run and every membership is closed.
Quiet(b) ==
    \A r \in Members(b) : attempt[r] \notin Live /\ member[r] \in Closed

\* A run that may not be prepared any more is not.
LEMMA QuietStays ==
    ASSUME RowInv1, NEW b \in Batches, Quiet(b), Next
    PROVE  Quiet(b)'
<1> SUFFICES ASSUME NEW r \in Members(b)
             PROVE  attempt'[r] \notin Live /\ member'[r] \in Closed
  BY DEF Quiet, Members
<1>1. r \in Runs /\ BatchOf[r] = b /\ attempt[r] \notin Live /\ member[r] \in Closed
  BY DEF Quiet, Members
<1>2. member'[r] \in Closed
  BY <1>1, ClosedStays DEF RowInv1
<1>3. ASSUME Prepare(b), cur[b] = r PROVE FALSE
  <2>1. r \in Ahead(b) /\ run[r] # "cancelled"
    BY <1>3 DEF Prepare, Ahead
  <2>2. QED
    BY <1>1, <2>1 DEF RowInv1, AheadStartable, Startable, Closed
<1>4. attempt'[r] \notin Live
  BY <1>1, <1>3, AttemptSteps DEF RowInv1, AttemptStep
<1>5. QED
  BY <1>2, <1>4

\* _seal_cancelled_batch closes what it finds open.
LEMMA SealQuiets ==
    ASSUME NEW b, NEW m, NEW x, NEW y, AcknowledgeSeal(b, m, x, y),
           \A r \in Members(b) : attempt'[r] \notin Live
    PROVE  Quiet(b)'
<1>1. ASSUME NEW r \in Members(b) PROVE member'[r] \in Closed
  BY <1>1 DEF AcknowledgeSeal, Closed, Members
<1>2. QED
  BY <1>1 DEF Quiet, Members

LEMMA SettlesQuiet ==
    ASSUME RowInv1, LiveMember, ReviewComplete, SealingSettled,
           NEW k \in Batches, ~Settled(k), Next
    PROVE  (Settled(k)' => Quiet(k)')
<1> USE DEF RowInv1, TypeInv, CancelTypes, BatchTypes, Settled, Open,
            ActiveCancel
<1>1. ASSUME UNCHANGED <<cancel, seal>> PROVE (Settled(k)' => Quiet(k)')
  BY <1>1
<1>2. ASSUME NEW b \in Batches, WorkerStart(b) PROVE (Settled(k)' => Quiet(k)')
  <2>1. CASE LiveIn(b) = {} /\ SealFromWorker(b)
    <3>1. \A r \in Members(b) : attempt'[r] \notin Live
      BY <1>2, <2>1 DEF WorkerStart, attemptVars, LiveIn
    <3>2. Quiet(b)'
      BY <2>1, <3>1, SealQuiets DEF SealFromWorker
    <3>3. UNCHANGED seal /\ cancel' = [cancel EXCEPT ![b] = "acknowledged"]
      BY <1>2, <2>1 DEF WorkerStart, KeepFixed, SealFromWorker
    <3>4. QED
      BY <3>2, <3>3
  <2>2. CASE ~(LiveIn(b) = {} /\ SealFromWorker(b))
    BY <1>2, <2>2 DEF WorkerStart, KeepFixed, FenceFromWorker, Fence
  <2>3. QED
    BY <2>1, <2>2
<1>3. ASSUME NEW b \in Batches, Pick(b) PROVE (Settled(k)' => Quiet(k)')
  BY <1>3 DEF Pick, KeepFixed, Fence
<1>4. ASSUME NEW b \in Batches, FenceUnknown(b) PROVE (Settled(k)' => Quiet(k)')
  BY <1>4 DEF FenceUnknown, FenceFromWorker, KeepFixed, Fence
<1>5. ASSUME NEW b \in Batches, FinishCancelled(b) PROVE (Settled(k)' => Quiet(k)')
  <2>1. CASE LiveIn(b) = {} /\ SealFromWorker(b)
    <3>1. \A r \in Members(b) : attempt'[r] \notin Live
      BY <1>5, <2>1 DEF FinishCancelled, attemptVars, LiveIn
    <3>2. Quiet(b)'
      BY <2>1, <3>1, SealQuiets DEF SealFromWorker
    <3>3. UNCHANGED seal /\ cancel' = [cancel EXCEPT ![b] = "acknowledged"]
      BY <1>5, <2>1 DEF FinishCancelled, KeepFixed, SealFromWorker
    <3>4. QED
      BY <3>2, <3>3
  <2>2. CASE ~(LiveIn(b) = {} /\ SealFromWorker(b))
    BY <1>5, <2>2 DEF FinishCancelled, KeepFixed, FenceFromWorker, Fence
  <2>3. QED
    BY <2>1, <2>2
<1>6. ASSUME NEW b \in Batches, DeliverSettle(b) PROVE (Settled(k)' => Quiet(k)')
  BY <1>6 DEF DeliverSettle
<1>7. ASSUME NEW b \in Batches, CancelBatch(b) PROVE (Settled(k)' => Quiet(k)')
  BY <1>7 DEF CancelBatch
<1>8. ASSUME NEW b \in Batches, CancelIdleBatch(b) PROVE (Settled(k)' => Quiet(k)')
  <2>1. CASE LiveIn(b) = {} /\ AcknowledgeSeal(b, member, outcome, run)
    <3>1. \A r \in Members(b) : attempt'[r] \notin Live
      BY <1>8, <2>1 DEF CancelIdleBatch, KeepRest, LiveIn
    <3>2. Quiet(b)'
      BY <2>1, <3>1, SealQuiets
    <3>3. \A c \in Batches \ {b} : Settled(c)' => Settled(c)
      BY <1>8 DEF CancelIdleBatch, KeepRest
    <3>4. QED
      BY <3>2, <3>3
  <2>2. CASE ~(LiveIn(b) = {} /\ AcknowledgeSeal(b, member, outcome, run))
    BY <1>8, <2>2 DEF CancelIdleBatch, KeepRest
  <2>3. QED
    BY <2>1, <2>2
<1>9. ASSUME NEW b \in Batches, ResolveCancelled(b) PROVE (Settled(k)' => Quiet(k)')
  <2>1. CASE LiveIn(b) = {} /\ AcknowledgeSeal(b, member, outcome, run)
    <3>1. \A r \in Members(b) : attempt'[r] \notin Live
      BY <1>9, <2>1 DEF ResolveCancelled, ResolvedWith, LiveIn
    <3>2. Quiet(b)'
      BY <2>1, <3>1, SealQuiets
    <3>3. \A c \in Batches \ {b} : Settled(c)' => Settled(c)
      BY <1>9 DEF ResolveCancelled, ResolvedWith
    <3>4. QED
      BY <3>2, <3>3
  <2>2. CASE ~(LiveIn(b) = {} /\ AcknowledgeSeal(b, member, outcome, run))
    BY <1>9, <2>2 DEF ResolveCancelled, ResolvedWith
  <2>3. QED
    BY <2>1, <2>2
<1>10. ASSUME NEW b \in Batches, ReviewSeal(b) PROVE (Settled(k)' => Quiet(k)')
  <2>1. Quiet(b)
    BY <1>10 DEF ReviewSeal, ReviewComplete, LiveMember, Quiet, Closed, Members
  <2>2. Quiet(b)'
    BY <2>1, QuietStays
  <2>3. QED
    BY <1>10, <2>2 DEF ReviewSeal, cancelVars
<1>11. ASSUME NEW b \in Batches, SealCommit(b) PROVE (Settled(k)' => Quiet(k)')
  BY <1>11 DEF SealCommit, SealingSettled
<1>12. ASSUME NEW b \in Batches, RecoverBatch(b) PROVE (Settled(k)' => Quiet(k)')
  <2>1. CASE SealsAtStartup(b) /\ AcknowledgeSeal(b, ClosedMember(b),
                                     ClosedOutcome(b), ClosedRun(b))
             /\ cancel' = [cancel EXCEPT ![b] = "acknowledged"]
             /\ UNCHANGED seal
    <3>1. \A r \in Members(b) : attempt'[r] \notin Live
      BY <1>12, <2>1 DEF RecoverBatch, CloseLaunches, ClosedAttempt, ClosedAs,
         SealsAtStartup, StillLive, LiveIn, Members, Live
    <3>2. Quiet(b)'
      BY <2>1, <3>1, SealQuiets
    <3>3. QED
      BY <2>1, <3>2
  <2>2. CASE ~(SealsAtStartup(b) /\ AcknowledgeSeal(b, ClosedMember(b),
                                     ClosedOutcome(b), ClosedRun(b)))
    BY <1>12, <2>2 DEF RecoverBatch, AwaitReconciliation
  <2>3. QED
    BY <1>12, <2>1, <2>2 DEF RecoverBatch
<1>13. ASSUME NEW b \in Batches, 
           \/ Begin(b) \/ Dispatch(b) \/ Stop(b) \/ Conclude(b)
           \/ DeliverTry(b) \/ CreateBatch(b) \/ Decide(b) \/ Resolve(b)
           \/ ResolveOpen(b) \/ Dismiss(b) \/ ResumeBatch(b)
     PROVE  UNCHANGED <<cancel, seal>>
  BY <1>13 DEF Begin, WriteRunning, cancelVars, Dispatch, Stop, Conclude,
     DeliverTry, batchVars, CreateBatch, Decide, Resolve, ResolveOpen,
     ResolvedWith, Dismiss, ResumeBatch
<1>14. ASSUME \/ Crash
     PROVE  UNCHANGED <<cancel, seal>>
  BY <1>14 DEF Crash
<1>15. QED
  BY <1>1, <1>2, <1>3, <1>4, <1>5, <1>6, <1>7, <1>8, <1>9, <1>10, <1>11,
     <1>12, <1>13, <1>14, CancelWriters, BatchWriters
     DEF cancelVars, batchVars, decisionVars

LEMMA SealKept ==
    ASSUME RowInv1, LiveMember, ReviewComplete, SealingSettled,
           SealIsQuiescent, Next
    PROVE  SealIsQuiescent'
<1>1. ASSUME NEW b \in Batches, Settled(b)' PROVE Quiet(b)'
  <2>1. CASE Settled(b)
    <3>1. Quiet(b)
      BY <2>1 DEF SealIsQuiescent, Quiet, Closed
    <3>2. QED
      BY <3>1, QuietStays
  <2>2. CASE ~Settled(b)
    BY <1>1, <2>2, SettlesQuiet
  <2>3. QED
    BY <2>1, <2>2
<1>2. QED
  BY <1>1 DEF SealIsQuiescent, Quiet, Closed

-----------------------------------------------------------------------------
(* The inductive invariant of the rows.                                    *)

RowInv2 ==
    /\ LiveMember /\ ReviewComplete /\ SealingSettled /\ SealIsQuiescent
    /\ RecoveredFinal

RowInv == RowInv1 /\ RowInv2

LEMMA RowInvInit == Init => RowInv
<1> SUFFICES ASSUME Init PROVE RowInv
  OBVIOUS
<1>1. TypeInv /\ QueueInv
  BY TypeInvInit, InitQueueInv
<1>2. DownIdle /\ CurAttempted /\ HostAttempted /\ IdleEmpty
  BY DEF Init, DownIdle, CurAttempted, HostAttempted, IdleEmpty, Unattempted,
         Free, Aborting
<1>3. AheadStartable /\ AbsentClean /\ AbsentFresh /\ RecoverCreated
  BY DEF Init, AheadStartable, Ahead, AbsentClean, AbsentFresh,
         RecoverCreated, Open, Members
<1>4. LiveMember /\ ReviewComplete /\ SealingSettled /\ RecoveredFinal
  BY DEF Init, LiveMember, ReviewComplete, SealingSettled, RecoveredFinal,
         Live
<1>5. SealIsQuiescent
  BY DEF Init, SealIsQuiescent, Settled, Open
<1>6. QED
  BY <1>1, <1>2, <1>3, <1>4, <1>5 DEF RowInv, RowInv1, RowInv2

LEMMA RowInvStep == RowInv /\ [Next]_vars => RowInv'
<1> SUFFICES ASSUME RowInv, [Next]_vars PROVE RowInv'
  OBVIOUS
<1>1. CASE Next
  <2> USE DEF RowInv, RowInv1, RowInv2
  <2>1. TypeInv' /\ QueueInv'
    BY <1>1, TypeInvStep, StepQueueInv
  <2>2. DownIdle' /\ CurAttempted' /\ HostAttempted' /\ IdleEmpty'
    BY <1>1, DownIdleKept, CurAttemptedKept, HostAttemptedKept, IdleEmptyKept
  <2>3. AheadStartable' /\ AbsentClean' /\ AbsentFresh' /\ RecoverCreated'
    <3>1. AbsentUntouched
      BY DEF QueueInv
    <3>2. QED
      BY <1>1, <3>1, AheadStartableKept, AbsentCleanKept, AbsentFreshKept,
         RecoverCreatedKept
  <2>4. LiveMember' /\ ReviewComplete' /\ RecoveredFinal'
    BY <1>1, LiveMemberKept, ReviewCompleteKept, RecoveredFinalKept
  <2>5. SealingSettled' /\ SealIsQuiescent'
    BY <1>1, SealingSettledKept, SealKept
  <2>6. QED
    BY <2>1, <2>2, <2>3, <2>4, <2>5
<1>2. CASE UNCHANGED vars
  <2>1. TypeInv' /\ QueueInv'
    BY <1>2, TypeInvStep, StepQueueInv DEF RowInv, RowInv1
  <2>2. /\ UNCHANGED <<attemptVars, memberVars, runVars, batchVars>>
        /\ UNCHANGED <<cancelVars, quarantine, hostVars>>
        /\ UNCHANGED <<workerVars, managerVars>>
    BY <1>2 DEF vars
  <2>3. DownIdle' /\ CurAttempted' /\ HostAttempted' /\ IdleEmpty'
    BY <2>2 DEF RowInv, RowInv1, DownIdle, CurAttempted, HostAttempted,
       IdleEmpty, attemptVars, hostVars, workerVars, managerVars
  <2>4. AheadStartable' /\ AbsentClean' /\ AbsentFresh' /\ RecoverCreated'
    BY <2>2 DEF RowInv, RowInv1, AheadStartable, Ahead, Startable,
       AbsentClean, AbsentFresh, RecoverCreated, Open, Members, memberVars,
       runVars, batchVars, decisionVars, cancelVars, workerVars, managerVars
  <2>5. LiveMember' /\ ReviewComplete' /\ SealingSettled' /\ RecoveredFinal'
    BY <2>2 DEF RowInv, RowInv2, LiveMember, ReviewComplete, SealingSettled,
       RecoveredFinal, Members, attemptVars, memberVars, runVars, batchVars,
       cancelVars
  <2>6. SealIsQuiescent'
    BY <2>2 DEF RowInv, RowInv2, SealIsQuiescent, Settled, Open, Members,
       attemptVars, memberVars, batchVars, cancelVars
  <2>7. QED
    BY <2>1, <2>3, <2>4, <2>5, <2>6 DEF RowInv, RowInv1, RowInv2
<1>3. QED
  BY <1>1, <1>2

LEMMA RowInvHolds == Spec => []RowInv
BY RowInvInit, RowInvStep, PTL DEF Spec

\* Ends are final, for all constants: no membership is closed before its
\* attempt has ended, a batch whose cancellation is acknowledged or that is
\* sealed has nothing left that may run, and what input recovery wrote stands,
\* whatever workers, late callbacks, decisions, crashes and startups do.
THEOREM EndsHold == Spec => []EndsAreFinal
<1>1. RowInv => EndsAreFinal
  <2>1. LiveMember => TerminalMeansEnded
    BY DEF LiveMember, TerminalMeansEnded
  <2>2. QED
    BY <2>1 DEF RowInv, RowInv2, EndsAreFinal
<1>2. QED
  BY <1>1, RowInvHolds, PTL

-----------------------------------------------------------------------------
(* A late success.                                                         *)

\* Only a callback that nothing dictates otherwise completes an attempt.
LEMMA SuccessInTime ==
    ASSUME TypeInv, QueueInv, NEW q \in Runs, Dictated(q),
           attempt'[q] = "completed", Next
    PROVE  attempt[q] = "completed"
<1> USE DEF RowTypes
<1>1. ASSUME UNCHANGED <<attempt>> PROVE attempt[q] = "completed"
  BY <1>1
<1>2. ASSUME NEW b \in Batches, Prepare(b) PROVE attempt[q] = "completed"
  BY <1>2, RowsTyped DEF Prepare
<1>3. ASSUME NEW b \in Batches, Mark(b) PROVE attempt[q] = "completed"
  BY <1>3, RowsTyped DEF Mark
<1>4. ASSUME NEW b \in Batches, Launch(b) PROVE attempt[q] = "completed"
  BY <1>4, RowsTyped, ControlEnds DEF Launch, attemptVars, FailStart
<1>5. ASSUME NEW b \in Batches, LauncherFails(b) PROVE attempt[q] = "completed"
  BY <1>5, RowsTyped, ControlEnds DEF LauncherFails, FailStart
<1>6. ASSUME NEW b \in Batches, Abort(b) PROVE attempt[q] = "completed"
  <2>1. PICK end \in {"cancelled", "human_required"} :
          attempt' = IF attempt[cur[b]] \in Live
                     THEN [attempt EXCEPT ![cur[b]] = end] ELSE attempt
    BY <1>6 DEF Abort
  <2>2. QED
    BY <2>1, RowsTyped
<1>7. ASSUME NEW b \in Batches, SpawnFails(b) PROVE attempt[q] = "completed"
  BY <1>7, RowsTyped, ControlEnds DEF SpawnFails, FailStart
<1>8. ASSUME NEW b \in Batches, Timeout(b) PROVE attempt[q] = "completed"
  BY <1>8, RowsTyped DEF Timeout, Asked
<1>9. ASSUME NEW b \in Batches, Recover(b) PROVE attempt[q] = "completed"
  BY <1>9, RowsTyped DEF Recover
<1>10. ASSUME NEW b \in Batches, DeliverTry(b) PROVE attempt[q] = "completed"
  BY <1>10, RowsTyped DEF DeliverTry
<1>11. ASSUME NEW b \in Batches, CancelBatch(b) PROVE attempt[q] = "completed"
  BY <1>11, RowsTyped DEF CancelBatch
<1>12. ASSUME NEW r \in Runs, CancelRun(r) PROVE attempt[q] = "completed"
  BY <1>12, RowsTyped DEF CancelRun
<1>13. ASSUME NEW r \in Runs, DeliverRunCancel(r) PROVE attempt[q] = "completed"
  BY <1>13, RowsTyped DEF DeliverRunCancel
<1>14. CASE FinishCommit
  <2>1. FinalState(q, hostResult) # "completed"
    BY DEF FinalState, Control, Dictated
  <2>2. attempt' = [attempt EXCEPT ![hostOwner] = FinalState(hostOwner, hostResult)]
    BY <1>14 DEF FinishCommit
  <2>3. QED
    BY <2>1, <2>2, RowsTyped
<1>15. CASE FinishFail
  BY <1>15, RowsTyped DEF FinishFail
<1>16. CASE StartRevoke
  BY <1>16, RowsTyped DEF StartRevoke
<1>17. ASSUME NEW b \in Batches, RecoverBatch(b) PROVE attempt[q] = "completed"
  BY <1>17, RowsTyped DEF RecoverBatch, CloseLaunches, CloseLaunches,
     ClosedAttempt, ClosedAs
<1>18. ASSUME NEW b \in Batches, 
           \/ Claim(b) \/ AbortLease(b) \/ Record(b) \/ Park(b)
     PROVE  UNCHANGED <<attempt>>
  BY <1>18 DEF Claim, AbortLease, Record, Park
<1>19. ASSUME \/ HumanEvent
     PROVE  UNCHANGED <<attempt>>
  BY <1>19 DEF HumanEvent
<1>20. QED
  BY <1>1, <1>2, <1>3, <1>4, <1>5, <1>6, <1>7, <1>8, <1>9, <1>10, <1>11,
     <1>12, <1>13, <1>14, <1>15, <1>16, <1>17, <1>18, <1>19, AttemptWriters
     DEF attemptVars

\* A late success changes nothing, for all constants: a step completes an
\* attempt only if no input recovery, human gate or active cancellation had
\* taken it, although the callback reports what the process returned.
THEOREM LateSuccessIsRefused == Spec => NoLateSuccess
<1>1. TypeInv /\ QueueInv /\ [Next]_vars =>
          [\A r \in Runs : Dictated(r) /\ attempt'[r] = "completed" =>
               attempt[r] = "completed"]_vars
  BY SuccessInTime
<1>2. QED
  BY <1>1, TypeInvHolds, PTL DEF Spec, NoLateSuccess

-----------------------------------------------------------------------------
(* A fenced batch is owed a decision.                                      *)

\* A resolution half way through has its decision on record.
ResolvingDecided == \A b \in Batches : resolving[b] # {} => decided[b] # {}

Owed == FencedIsOwed /\ ResolvingDecided

LEMMA OwedKept ==
    ASSUME Replays = Batches, TypeInv, QueueInv, Owed, Next
    PROVE  Owed'
<1> USE DEF Owed, FencedIsOwed, ResolvingDecided, RowTypes, TypeInv,
            BatchTypes, Members, Open
<1>1. ASSUME UNCHANGED <<seal, recovery, workItem, decided, resolving, member>> PROVE Owed'
  BY <1>1
<1>2. ASSUME NEW b \in Batches, WorkerStart(b) PROVE Owed'
  BY <1>2, RowsTyped DEF WorkerStart, KeepFixed, memberVars, SealFromWorker,
     decisionVars, AcknowledgeSeal
<1>3. ASSUME NEW b \in Batches, Begin(b) PROVE Owed'
  BY <1>3, RowsTyped DEF Begin, WriteRunning, memberVars, decisionVars
<1>4. ASSUME NEW b \in Batches, SkipQuarantined(b) PROVE Owed'
  BY <1>4, RowsTyped DEF SkipQuarantined, batchVars, memberVars,
     decisionVars
<1>5. ASSUME NEW b \in Batches, Pick(b) PROVE Owed'
  <2>1. UNCHANGED <<seal, decided, resolving>>
    BY <1>5 DEF Pick, KeepFixed, decisionVars
  <2>2. CASE UNCHANGED <<member, recovery, workItem>>
    BY <2>1, <2>2
  <2>3. CASE Open(b) /\ Fence(b, {First(b)})
    <3>1. First(b) \in Members(b)
      BY <1>5, FirstIsAhead DEF Pick, QueueInv, AheadUnstarted
    <3>2. QED
      BY <2>1, <2>3, <3>1, RowsTyped DEF Fence
  <2>4. QED
    BY <1>5, <2>2, <2>3 DEF Pick
<1>6. ASSUME NEW b \in Batches, Dispatch(b) PROVE Owed'
  BY <1>6, RowsTyped DEF Dispatch, WriteRunning, memberVars, decisionVars
<1>7. ASSUME NEW b \in Batches, Prepare(b) PROVE Owed'
  BY <1>7, RowsTyped DEF Prepare, batchVars, decisionVars
<1>8. ASSUME NEW b \in Batches, PrepareFails(b) PROVE Owed'
  BY <1>8, RowsTyped DEF PrepareFails, memberVars, batchVars, decisionVars
<1>9. ASSUME NEW b \in Batches, Launch(b) PROVE Owed'
  BY <1>9, RowsTyped DEF Launch, memberVars, batchVars, FailStart,
     decisionVars, Terminalize, Terminalize
<1>10. ASSUME NEW b \in Batches, LauncherFails(b) PROVE Owed'
  BY <1>10, RowsTyped DEF LauncherFails, FailStart, Terminalize, batchVars,
     decisionVars, Terminalize
<1>11. ASSUME NEW b \in Batches, AbortMember(b) PROVE Owed'
  BY <1>11, RowsTyped DEF AbortMember, Terminalize, batchVars, decisionVars,
     Terminalize
<1>12. ASSUME NEW b \in Batches, SpawnFails(b) PROVE Owed'
  BY <1>12, RowsTyped DEF SpawnFails, FailStart, Terminalize, batchVars,
     decisionVars, Terminalize
<1>13. ASSUME NEW b \in Batches, Recover(b) PROVE Owed'
  BY <1>13, RowsTyped DEF Recover, batchVars, decisionVars
<1>14. ASSUME NEW b \in Batches, FenceUnknown(b) PROVE Owed'
  BY <1>14, RowsTyped, CurIsRun DEF FenceUnknown, FenceFromWorker,
     KeepFixed, Fence, decisionVars, Free, Owed
<1>15. ASSUME NEW b \in Batches, Park(b) PROVE Owed'
  BY <1>15, RowsTyped DEF Park, batchVars, decisionVars, Interrupted
<1>16. ASSUME NEW b \in Batches, Stop(b) PROVE Owed'
  BY <1>16, RowsTyped DEF Stop, memberVars, decisionVars
<1>17. ASSUME NEW b \in Batches, FinishCancelled(b) PROVE Owed'
  BY <1>17, RowsTyped DEF FinishCancelled, KeepFixed, SealFromWorker,
     FenceFromWorker, decisionVars, AcknowledgeSeal, Fence, LiveIn
<1>18. ASSUME NEW b \in Batches, Conclude(b) PROVE Owed'
  BY <1>18, RowsTyped DEF Conclude, memberVars, decisionVars
<1>19. ASSUME NEW b \in Batches, DeliverSettle(b) PROVE Owed'
  BY <1>19, RowsTyped DEF DeliverSettle, memberVars, decisionVars
<1>20. ASSUME NEW b \in Batches, CancelIdleBatch(b) PROVE Owed'
  BY <1>20, RowsTyped DEF CancelIdleBatch, AcknowledgeSeal, decisionVars,
     Cancellable
<1>21. ASSUME NEW b \in Batches, Decide(b) PROVE Owed'
  <2>1. PICK d \in {"accepted", "rejected"} :
          /\ decided' = [decided EXCEPT ![b] = @ \cup {d}]
          /\ workItem' = [workItem EXCEPT ![b] = d = "rejected"]
    BY <1>21 DEF Decide
  <2>2. UNCHANGED <<seal, recovery, resolving, member>>
    BY <1>21 DEF Decide, memberVars
  <2>3. decided'[b] # {} /\ \A c \in Batches \ {b} :
            decided'[c] = decided[c] /\ workItem'[c] = workItem[c]
    BY <2>1
  <2>4. QED
    BY <2>2, <2>3
<1>22. ASSUME NEW b \in Batches, Resolve(b) PROVE Owed'
  BY <1>22, RowsTyped DEF Resolve, Resolved, memberVars, Reconciled
<1>23. ASSUME NEW b \in Batches, ResolveCancelled(b) PROVE Owed'
  BY <1>23, RowsTyped DEF ResolveCancelled, ResolvedWith, memberVars,
     AcknowledgeSeal
<1>24. ASSUME NEW b \in Batches, ResolveOpen(b) PROVE Owed'
  BY <1>24, RowsTyped DEF ResolveOpen, ResolvedWith, memberVars,
     ResolvedWith
<1>25. ASSUME NEW b \in Batches, Dismiss(b) PROVE Owed'
  BY <1>25, RowsTyped DEF Dismiss, Resolved, memberVars
<1>26. ASSUME NEW b \in Batches, ResumeBatch(b) PROVE Owed'
  BY <1>26, RowsTyped DEF ResumeBatch, memberVars, decisionVars
<1>27. ASSUME NEW b \in Batches, ReviewSeal(b) PROVE Owed'
  BY <1>27, RowsTyped DEF ReviewSeal, memberVars, decisionVars
<1>28. CASE FinishCommit
  BY <1>28, RowsTyped DEF FinishCommit, Terminalize, KeepBatches, batchVars,
     decisionVars, Terminalize
<1>29. CASE FinishFail
  BY <1>29, RowsTyped DEF FinishFail, Terminalize, KeepBatches, batchVars,
     decisionVars, Terminalize
<1>30. ASSUME NEW b \in Batches, SealCommit(b) PROVE Owed'
  BY <1>30, RowsTyped DEF SealCommit, memberVars, decisionVars
<1>31. CASE Crash
  BY <1>31, RowsTyped DEF Crash, memberVars
<1>32. ASSUME NEW b \in Batches, RecoverBatch(b) PROVE Owed'
  BY <1>32, RowsTyped DEF RecoverBatch, decisionVars, AcknowledgeSeal,
     AwaitReconciliation, Interrupted, ClosedMember
<1>33. ASSUME NEW b \in Batches, 
           \/ CreateBatch(b) \/ CancelBatch(b)
     PROVE  UNCHANGED <<seal, recovery, workItem, decided, resolving, member>>
  BY <1>33 DEF CreateBatch, memberVars, decisionVars, CancelBatch
<1>34. QED
  BY <1>1, <1>2, <1>3, <1>4, <1>5, <1>6, <1>7, <1>8, <1>9, <1>10, <1>11,
     <1>12, <1>13, <1>14, <1>15, <1>16, <1>17, <1>18, <1>19, <1>20, <1>21,
     <1>22, <1>23, <1>24, <1>25, <1>26, <1>27, <1>28, <1>29, <1>30, <1>31,
     <1>32, <1>33, BatchWriters, MemberWriters
     DEF batchVars, memberVars, decisionVars

\* A fenced batch is owed a decision, for all constants, if clients may repeat
\* every decision: whatever crashes between the commits of a resolution, there
\* is an open work item or a recorded decision to send again.
THEOREM DecisionIsOwed ==
    ASSUME Replays = Batches
    PROVE  Spec => []FencedIsOwed
<1>1. Init => Owed
  BY DEF Init, Owed, FencedIsOwed, ResolvingDecided, Members
<1>2. TypeInv /\ QueueInv /\ Owed /\ [Next]_vars => Owed'
  <2> SUFFICES ASSUME TypeInv, QueueInv, Owed, [Next]_vars PROVE Owed'
    OBVIOUS
  <2>1. CASE Next
    BY <2>1, OwedKept
  <2>2. CASE UNCHANGED vars
    BY <2>2 DEF vars, Owed, FencedIsOwed, ResolvingDecided, Members, Open,
       memberVars, batchVars, decisionVars
  <2>3. QED
    BY <2>1, <2>2
<1>3. Owed => FencedIsOwed
  BY DEF Owed
<1>4. QED
  BY <1>1, <1>2, <1>3, TypeInvHolds, PTL DEF Spec

-----------------------------------------------------------------------------
(* Completed attempts and sealed batches.                                  *)

\* What a completed attempt means for its other rows.
CompletedRows(r) ==
    /\ attempt[r] = "completed" => outcome[r] = "completed" /\ member[r] = "terminal"
    /\ outcome[r] = "completed" => attempt[r] = "completed"
    /\ run[r] = "done" => attempt[r] = "completed"

LEMMA CompletedRowsKept ==
    ASSUME TypeInv, QueueInv, NEW q \in Runs, CompletedRows(q), Next
    PROVE  CompletedRows(q)'
<1> USE DEF CompletedRows, TypeInv, RowTypes, Live, Ended
<1>1. ASSUME UNCHANGED <<attempt, member, outcome, run>> PROVE CompletedRows(q)'
  BY <1>1
<1>2. ASSUME NEW b \in Batches, WorkerStart(b) PROVE CompletedRows(q)'
  BY <1>2, RowsTyped DEF WorkerStart, attemptVars, memberVars,
     SealFromWorker, AcknowledgeSeal, LiveIn, Members
<1>3. ASSUME NEW b \in Batches, SkipQuarantined(b) PROVE CompletedRows(q)'
  BY <1>3, RowsTyped DEF SkipQuarantined, memberVars, attemptVars
<1>4. ASSUME NEW b \in Batches, Pick(b) PROVE CompletedRows(q)'
  BY <1>4, RowsTyped DEF Pick, attemptVars, Fence, LiveIn, Members
<1>5. ASSUME NEW b \in Batches, Prepare(b) PROVE CompletedRows(q)'
  <2>1. attempt[cur[b]] = "none"
    BY <1>5 DEF Prepare, QueueInv, PickedUnstarted
  <2>2. QED
    BY <1>5, <2>1, RowsTyped DEF Prepare, runVars
<1>6. ASSUME NEW b \in Batches, PrepareFails(b) PROVE CompletedRows(q)'
  BY <1>6, RowsTyped DEF PrepareFails, memberVars, attemptVars, runVars,
     LiveIn, Members
<1>7. ASSUME NEW b \in Batches, FailUnstarted(b) PROVE CompletedRows(q)'
  BY <1>7, RowsTyped DEF FailUnstarted, FailRun, attemptVars, memberVars,
     LiveIn, Members
<1>8. ASSUME NEW b \in Batches, Mark(b) PROVE CompletedRows(q)'
  BY <1>8, RowsTyped DEF Mark, FailRun, memberVars, LiveIn, Members
<1>9. ASSUME NEW b \in Batches, MarkRun(b) PROVE CompletedRows(q)'
  BY <1>9, RowsTyped DEF MarkRun, attemptVars, memberVars, LiveIn, Members
<1>10. ASSUME NEW b \in Batches, Launch(b) PROVE CompletedRows(q)'
  <2>1. cur[b] \in Runs
    BY <1>10, CurIsRun DEF Launch, Free
  <2>2. CASE FailStart(b)
    BY <2>1, <2>2, RowsTyped, ControlEnds
       DEF FailStart, Terminalize, Terminalizable
  <2>3. QED
    BY <1>10, <2>2 DEF Launch, attemptVars, memberVars, runVars
<1>11. ASSUME NEW b \in Batches, LauncherFails(b) PROVE CompletedRows(q)'
  <2>1. cur[b] \in Runs
    BY <1>11, CurIsRun DEF LauncherFails, Free
  <2>2. CASE FailStart(b)
    BY <2>1, <2>2, RowsTyped, ControlEnds
       DEF FailStart, Terminalize, Terminalizable
  <2>3. QED
    BY <1>11, <2>2 DEF LauncherFails
<1>12. ASSUME NEW b \in Batches, Abort(b) PROVE CompletedRows(q)'
  <2>1. PICK end \in {"cancelled", "human_required"} :
          attempt' = IF attempt[cur[b]] \in Live
                     THEN [attempt EXCEPT ![cur[b]] = end] ELSE attempt
    BY <1>12 DEF Abort
  <2>2. UNCHANGED <<member, outcome, run>>
    BY <1>12 DEF Abort, memberVars, runVars
  <2>3. QED
    BY <2>1, <2>2, RowsTyped
<1>13. ASSUME NEW b \in Batches, AbortRun(b) PROVE CompletedRows(q)'
  <2>1. intent[b] # "done"
    BY <1>13 DEF AbortRun, IntentKnown, Aborting
  <2>2. QED
    BY <1>13, <2>1, RowsTyped DEF AbortRun, attemptVars, memberVars
<1>14. ASSUME NEW b \in Batches, AbortMember(b) PROVE CompletedRows(q)'
  <2>1. intent[b] # "completed"
    BY <1>14 DEF AbortMember, IntentKnown, Aborting
  <2>2. UNCHANGED <<attempt, run>>
    BY <1>14 DEF AbortMember, attemptVars, runVars
  <2>3. QED
    BY <1>14, <2>1, <2>2, RowsTyped DEF AbortMember, Terminalize, Terminalizable
<1>15. ASSUME NEW b \in Batches, SpawnFails(b) PROVE CompletedRows(q)'
  <2>1. cur[b] \in Runs
    BY <1>15, CurIsRun DEF SpawnFails, Free
  <2>2. CASE FailStart(b)
    BY <2>1, <2>2, RowsTyped, ControlEnds
       DEF FailStart, Terminalize, Terminalizable
  <2>3. QED
    BY <1>15, <2>2 DEF SpawnFails
<1>16. ASSUME NEW b \in Batches, SetRun(b) PROVE CompletedRows(q)'
  <2>1. intent[b] # "done"
    BY <1>16 DEF SetRun, IntentKnown
  <2>2. QED
    BY <1>16, <2>1, RowsTyped DEF SetRun, attemptVars, memberVars
<1>17. ASSUME NEW b \in Batches, Timeout(b) PROVE CompletedRows(q)'
  BY <1>17, RowsTyped DEF Timeout, memberVars, runVars, LiveIn, Members,
     Asked
<1>18. ASSUME NEW b \in Batches, Recover(b) PROVE CompletedRows(q)'
  BY <1>18, RowsTyped DEF Recover, LiveIn, Members, Recoverable, Authorised
<1>19. ASSUME NEW b \in Batches, FenceUnknown(b) PROVE CompletedRows(q)'
  BY <1>19, RowsTyped DEF FenceUnknown, FenceFromWorker, attemptVars, Fence,
     LiveIn, Members
<1>20. ASSUME NEW b \in Batches, Park(b) PROVE CompletedRows(q)'
  BY <1>20, RowsTyped DEF Park, LiveIn, Members, Parkable
<1>21. ASSUME NEW b \in Batches, FinishCancelled(b) PROVE CompletedRows(q)'
  BY <1>21, RowsTyped DEF FinishCancelled, attemptVars, SealFromWorker,
     FenceFromWorker, AcknowledgeSeal, Fence, LiveIn, Members
<1>22. ASSUME NEW b \in Batches, DeliverTry(b) PROVE CompletedRows(q)'
  BY <1>22, RowsTyped DEF DeliverTry, memberVars, LiveIn, Members
<1>23. ASSUME NEW b \in Batches, CancelBatch(b) PROVE CompletedRows(q)'
  BY <1>23, RowsTyped DEF CancelBatch, memberVars, LiveIn, Members
<1>24. ASSUME NEW b \in Batches, CancelIdleBatch(b) PROVE CompletedRows(q)'
  BY <1>24, RowsTyped DEF CancelIdleBatch, AcknowledgeSeal, LiveIn, Members,
     Cancellable
<1>25. ASSUME NEW b \in Batches, Resolve(b) PROVE CompletedRows(q)'
  BY <1>25, RowsTyped DEF Resolve, memberVars, attemptVars, runVars, LiveIn,
     Members, Resolved, Reconciled
<1>26. ASSUME NEW b \in Batches, ResolveCancelled(b) PROVE CompletedRows(q)'
  BY <1>26, RowsTyped DEF ResolveCancelled, ResolvedWith, memberVars,
     AcknowledgeSeal, LiveIn, Members
<1>27. ASSUME NEW b \in Batches, ResumeBatch(b) PROVE CompletedRows(q)'
  BY <1>27, RowsTyped DEF ResumeBatch, memberVars, LiveIn, Members
<1>28. ASSUME NEW r \in Runs, CancelRun(r) PROVE CompletedRows(q)'
  BY <1>28, RowsTyped DEF CancelRun, memberVars, LiveIn, Members
<1>29. ASSUME NEW r \in Runs, WithdrawRun(r) PROVE CompletedRows(q)'
  BY <1>29, RowsTyped DEF WithdrawRun, memberVars, LiveIn, Members
<1>30. ASSUME NEW r \in Runs, DeliverRunCancel(r) PROVE CompletedRows(q)'
  BY <1>30, RowsTyped DEF DeliverRunCancel, memberVars, LiveIn, Members
<1>31. CASE FinishCommit
  <2>1. FinalState(hostOwner, hostResult) \in Ended
    BY <1>31, FinalEnds DEF FinishCommit
  <2>2. FinalState(hostOwner, hostResult) = "completed" =>
            Control(hostOwner) = "none"
    BY ControlEnds DEF FinalState
  <2>3. Control(hostOwner) = "none" => Terminalizable(hostOwner)
    BY DEF Control, Terminalizable
  <2>4. /\ attempt' = [attempt EXCEPT ![hostOwner] = FinalState(hostOwner, hostResult)]
        /\ run' = [run EXCEPT ![hostOwner] =
                      RunStateOf(FinalState(hostOwner, hostResult))]
        /\ Terminalize(hostOwner, FinalState(hostOwner, hostResult))
        /\ attempt[hostOwner] \in Live
    BY <1>31 DEF FinishCommit, Finishing
  <2>5. RunStateOf(FinalState(hostOwner, hostResult)) # "done"
    BY <2>1 DEF RunStateOf
  <2>6. hostOwner \in Runs
    BY <1>31, OwnerIsRun DEF FinishCommit
  <2>7. CASE q = hostOwner
    BY <2>1, <2>2, <2>3, <2>4, <2>5, <2>7, RowsTyped DEF Terminalize
  <2>8. CASE q # hostOwner
    BY <2>4, <2>8, RowsTyped DEF Terminalize
  <2>9. QED
    BY <2>7, <2>8
<1>32. CASE FinishFail
  <2>1. hostOwner \in Runs
    BY <1>32, OwnerIsRun DEF FinishFail
  <2>2. QED
    BY <1>32, <2>1, RowsTyped DEF FinishFail, Terminalize, Terminalizable
<1>33. CASE Adjudicate
  BY <1>33, RowsTyped DEF Adjudicate, attemptVars, memberVars, LiveIn,
     Members
<1>34. CASE StartRevoke
  BY <1>34, RowsTyped DEF StartRevoke, memberVars, LiveIn, Members
<1>35. ASSUME NEW b \in Batches, RecoverBatch(b) PROVE CompletedRows(q)'
  <2>1. attempt' = ClosedAttempt(b)
    BY <1>35 DEF RecoverBatch, CloseLaunches
  <2>2. /\ \/ ClosedAttempt(b)[q] = attempt[q]
           \/ /\ attempt[q] \in Live /\ ClosedAttempt(b)[q] \in Ended
              /\ ClosedAttempt(b)[q] # "completed"
        /\ ClosedRun(b)[q] = "done" => run[q] = "done" /\ q \notin PreAdapter(b)
        /\ q \in PreAdapter(b) => attempt[q] \in Live
    <3>1. ClosedAs(b) \in {"cancelled", "review_required"}
      BY DEF ClosedAs
    <3>2. q \in PreAdapter(b) => attempt[q] \in Live
      BY DEF PreAdapter, LiveIn
    <3>3. ClosedAttempt(b)[q] = IF q \in PreAdapter(b) THEN ClosedAs(b) ELSE attempt[q]
      BY DEF ClosedAttempt
    <3>4. ClosedRun(b)[q] = IF q \in PreAdapter(b) THEN ClosedAs(b) ELSE run[q]
      BY DEF ClosedRun
    <3>5. QED
      BY <3>1, <3>2, <3>3, <3>4
  <2>3. \/ /\ ClosedMember(b)[q] = member[q]
           /\ ClosedOutcome(b)[q] = outcome[q]
        \/ /\ attempt[q] \in Live /\ ClosedMember(b)[q] = "terminal"
           /\ ClosedOutcome(b)[q] = "cancelled"
    <3>1. q \in ClosedNow(b) => attempt[q] \in Live
      BY DEF ClosedNow, PreAdapter, LiveIn
    <3>2. ClosedMember(b)[q] = IF q \in ClosedNow(b) THEN "terminal" ELSE member[q]
      BY DEF ClosedMember
    <3>3. ClosedOutcome(b)[q] = IF q \in ClosedNow(b) THEN "cancelled" ELSE outcome[q]
      BY DEF ClosedOutcome
    <3>4. QED
      BY <3>1, <3>2, <3>3
  <2>4. CASE member' = ClosedMember(b) /\ outcome' = ClosedOutcome(b)
             /\ run' = ClosedRun(b)
    BY <2>1, <2>2, <2>3, <2>4
  <2>5. CASE AwaitReconciliation(b)
    BY <2>1, <2>2, <2>5 DEF AwaitReconciliation, Interrupted
  <2>6. CASE SealsAtStartup(b) /\ AcknowledgeSeal(b, ClosedMember(b),
                                     ClosedOutcome(b), ClosedRun(b))
    <3>1. q \in Members(b) => (ClosedMember(b)[q] = "active" => attempt[q] \notin Live)
      BY <1>35, <2>6, ClosedSealable DEF RecoverBatch
    <3>2. q \in Members(b) => attempt'[q] \notin Live
      BY <2>1, <2>6 DEF SealsAtStartup, StillLive, LiveIn, Members,
         ClosedAttempt, ClosedAs
    <3>3. CASE q \in Members(b)
      BY <2>1, <2>2, <2>3, <2>6, <3>1, <3>2, <3>3 DEF AcknowledgeSeal
    <3>4. CASE q \notin Members(b)
      BY <2>1, <2>2, <2>3, <2>6, <3>4 DEF AcknowledgeSeal
    <3>5. QED
      BY <3>3, <3>4
  <2>7. QED
    BY <1>35, <2>4, <2>5, <2>6 DEF RecoverBatch
<1>36. ASSUME NEW b \in Batches, 
           \/ Claim(b) \/ AbortLease(b) \/ Record(b)
     PROVE  UNCHANGED <<attempt, member, outcome, run>>
  BY <1>36 DEF Claim, memberVars, runVars, AbortLease, Record
<1>37. ASSUME \/ HumanEvent \/ Crash
     PROVE  UNCHANGED <<attempt, member, outcome, run>>
  BY <1>37 DEF HumanEvent, memberVars, Crash, attemptVars
<1>38. QED
  BY <1>1, <1>2, <1>3, <1>4, <1>5, <1>6, <1>7, <1>8, <1>9, <1>10, <1>11,
     <1>12, <1>13, <1>14, <1>15, <1>16, <1>17, <1>18, <1>19, <1>20, <1>21,
     <1>22, <1>23, <1>24, <1>25, <1>26, <1>27, <1>28, <1>29, <1>30, <1>31,
     <1>32, <1>33, <1>34, <1>35, <1>36, <1>37, AttemptWriters,
     MemberWriters, RunWriters
     DEF attemptVars, memberVars, runVars

\* A completed attempt, a completed membership and a finished run imply each
\* other as far as the code promises, for all constants: no fence, cancellation,
\* decision or restart between the commits tears the rows apart.
THEOREM CompletionsAgree == Spec => []CompletionKept
<1> DEFINE Rows == \A r \in Runs : CompletedRows(r)
<1>1. Init => Rows
  BY DEF Init, CompletedRows
<1>2. TypeInv /\ QueueInv /\ Rows /\ [Next]_vars => Rows'
  <2> SUFFICES ASSUME TypeInv, QueueInv, Rows, [Next]_vars PROVE Rows'
    OBVIOUS
  <2>1. CASE Next
    BY <2>1, CompletedRowsKept
  <2>2. CASE UNCHANGED vars
    BY <2>2 DEF vars, CompletedRows, attemptVars, memberVars, runVars
  <2>3. QED
    BY <2>1, <2>2
<1>3. Rows => CompletionKept
  BY DEF CompletedRows, CompletionKept
<1> HIDE DEF Rows
<1>4. QED
  BY <1>1, <1>2, <1>3, TypeInvHolds, PTL DEF Spec

\* The outcome of a run of a sealed batch stays.
LEMMA SealedOutcomeStays ==
    ASSUME TypeInv, NEW s \in Runs, member[s] \in Closed, ~Open(BatchOf[s]), Next
    PROVE  outcome'[s] = outcome[s]
<1> USE DEF Closed, RowTypes
<1>1. ASSUME UNCHANGED <<outcome>> PROVE outcome'[s] = outcome[s]
  BY <1>1
<1>2. ASSUME NEW b \in Batches, WorkerStart(b) PROVE outcome'[s] = outcome[s]
  BY <1>2, RowsTyped DEF WorkerStart, memberVars, SealFromWorker,
     AcknowledgeSeal
<1>3. ASSUME NEW b \in Batches, SkipQuarantined(b) PROVE outcome'[s] = outcome[s]
  BY <1>3, RowsTyped DEF SkipQuarantined, memberVars
<1>4. ASSUME NEW b \in Batches, PrepareFails(b) PROVE outcome'[s] = outcome[s]
  BY <1>4, RowsTyped DEF PrepareFails, memberVars
<1>5. ASSUME NEW b \in Batches, Launch(b) PROVE outcome'[s] = outcome[s]
  BY <1>5, RowsTyped DEF Launch, memberVars, FailStart, Terminalize,
     Terminalize, Terminalizable
<1>6. ASSUME NEW b \in Batches, LauncherFails(b) PROVE outcome'[s] = outcome[s]
  BY <1>6, RowsTyped DEF LauncherFails, FailStart, Terminalize, Terminalize,
     Terminalizable
<1>7. ASSUME NEW b \in Batches, AbortMember(b) PROVE outcome'[s] = outcome[s]
  BY <1>7, RowsTyped DEF AbortMember, Terminalize, Terminalize,
     Terminalizable
<1>8. ASSUME NEW b \in Batches, SpawnFails(b) PROVE outcome'[s] = outcome[s]
  BY <1>8, RowsTyped DEF SpawnFails, FailStart, Terminalize, Terminalize,
     Terminalizable
<1>9. ASSUME NEW b \in Batches, Recover(b) PROVE outcome'[s] = outcome[s]
  BY <1>9, RowsTyped DEF Recover, Recoverable, Authorised
<1>10. ASSUME NEW b \in Batches, Park(b) PROVE outcome'[s] = outcome[s]
  BY <1>10, RowsTyped, CurIsRun DEF Park, Parkable, Free
<1>11. ASSUME NEW b \in Batches, FinishCancelled(b) PROVE outcome'[s] = outcome[s]
  BY <1>11, RowsTyped DEF FinishCancelled, SealFromWorker, FenceFromWorker,
     AcknowledgeSeal
<1>12. ASSUME NEW b \in Batches, CancelIdleBatch(b) PROVE outcome'[s] = outcome[s]
  BY <1>12, RowsTyped DEF CancelIdleBatch, AcknowledgeSeal
<1>13. ASSUME NEW b \in Batches, Resolve(b) PROVE outcome'[s] = outcome[s]
  BY <1>13, RowsTyped DEF Resolve, memberVars, Resolved, Reconciled
<1>14. ASSUME NEW b \in Batches, ResolveCancelled(b) PROVE outcome'[s] = outcome[s]
  BY <1>14, RowsTyped DEF ResolveCancelled, memberVars, AcknowledgeSeal
<1>15. CASE FinishCommit
  BY <1>15, RowsTyped DEF FinishCommit, Terminalize, Terminalize,
     Terminalizable
<1>16. CASE FinishFail
  BY <1>16, RowsTyped DEF FinishFail, Terminalize, Terminalize,
     Terminalizable
<1>17. ASSUME NEW b \in Batches, RecoverBatch(b) PROVE outcome'[s] = outcome[s]
  <2>1. \/ AcknowledgeSeal(b, ClosedMember(b), ClosedOutcome(b), ClosedRun(b))
        \/ outcome' = ClosedOutcome(b)
        \/ AwaitReconciliation(b)
    BY <1>17 DEF RecoverBatch
  <2>2. ClosedMember(b)[s] = member[s] /\ ClosedOutcome(b)[s] = outcome[s]
    BY DEF ClosedMember, ClosedOutcome, ClosedNow, Terminalizable
  <2>3. QED
    BY <2>1, <2>2 DEF AcknowledgeSeal, AwaitReconciliation, Interrupted
<1>18. ASSUME NEW b \in Batches, 
           \/ Pick(b) \/ Prepare(b) \/ FenceUnknown(b)
     PROVE  UNCHANGED <<outcome>>
  BY <1>18 DEF Pick, Prepare, FenceUnknown, FenceFromWorker
<1>19. QED
  BY <1>1, <1>2, <1>3, <1>4, <1>5, <1>6, <1>7, <1>8, <1>9, <1>10, <1>11,
     <1>12, <1>13, <1>14, <1>15, <1>16, <1>17, <1>18, MemberWriters
     DEF memberVars

LEMMA SealStays ==
    ASSUME TypeInv, NEW k \in Batches, ~Open(k), Next
    PROVE  seal'[k] = seal[k]
<1> USE DEF Open, TypeInv, BatchTypes
<1>1. ASSUME UNCHANGED <<seal>> PROVE seal'[k] = seal[k]
  BY <1>1
<1>2. ASSUME NEW b \in Batches, CancelIdleBatch(b) PROVE seal'[k] = seal[k]
  BY <1>2 DEF CancelIdleBatch, Cancellable
<1>3. ASSUME NEW b \in Batches, ReviewSeal(b) PROVE seal'[k] = seal[k]
  BY <1>3 DEF ReviewSeal
<1>4. ASSUME NEW b \in Batches, SealCommit(b) PROVE seal'[k] = seal[k]
  BY <1>4 DEF SealCommit
<1>5. ASSUME NEW b \in Batches, 
           \/ Begin(b) \/ Pick(b) \/ Dispatch(b) \/ FenceUnknown(b)
           \/ Stop(b) \/ FinishCancelled(b) \/ Conclude(b)
           \/ DeliverSettle(b) \/ CreateBatch(b) \/ CancelBatch(b)
           \/ Decide(b) \/ Resolve(b) \/ ResolveCancelled(b)
           \/ ResolveOpen(b) \/ Dismiss(b) \/ ResumeBatch(b)
           \/ RecoverBatch(b)
     PROVE  UNCHANGED <<seal>>
  BY <1>5 DEF Begin, WriteRunning, Pick, KeepFixed, Dispatch, FenceUnknown,
     Stop, FinishCancelled, Conclude, DeliverSettle, CreateBatch,
     CancelBatch, Decide, Resolve, ResolveCancelled, ResolvedWith,
     ResolveOpen, Dismiss, ResumeBatch, RecoverBatch, AwaitReconciliation
<1>6. ASSUME \/ Crash
     PROVE  UNCHANGED <<seal>>
  BY <1>6 DEF Crash
<1>7. QED
  BY <1>1, <1>2, <1>3, <1>4, <1>5, <1>6, BatchWriters
     DEF batchVars, decisionVars

\* Sealed batches are immutable, for all constants: no step changes how a batch
\* was sealed or what became of its runs.
THEOREM SealedBatchesStay == Spec => SealedStays
<1>1. RowInv /\ [Next]_vars => [SealedStep]_vars
  <2> SUFFICES ASSUME RowInv, Next, NEW b \in Batches, ~Open(b)
               PROVE  /\ seal'[b] = seal[b]
                      /\ \A r \in Members(b) :
                            member'[r] = member[r] /\ outcome'[r] = outcome[r]
    BY DEF SealedStep
  <2>4. seal'[b] = seal[b]
    BY SealStays DEF RowInv, RowInv1
  <2> SUFFICES ASSUME NEW r \in Members(b)
               PROVE  member'[r] = member[r] /\ outcome'[r] = outcome[r]
    BY <2>4
  <2>1. TypeInv /\ r \in Runs /\ BatchOf[r] = b
    BY DEF RowInv, RowInv1, Members
  <2>2. member[r] \in Closed
    BY DEF RowInv, RowInv2, SealIsQuiescent, Settled, Closed
  <2>3. QED
    BY <2>1, <2>2, ClosedStays, SealedOutcomeStays
<1>2. QED
  BY <1>1, RowInvHolds, PTL DEF Spec, SealedStays

-----------------------------------------------------------------------------
(* The attempt, its lease, its Host process and its signals agree, for     *)
(* every set of batches and runs, every assignment of runs to batches and  *)
(* every bound.                                                            *)
-----------------------------------------------------------------------------
(* Where a worker that is gone has been.                                   *)

\* A worker retires from few places, or its process crashes.
LEMMA RetiresFrom ==
    ASSUME TypeInv, NEW k \in Batches, Next, pc'[k] = "idle", pc[k] # "idle"
    PROVE  \/ Crash
           \/ pc[k] \in {"start", "begin", "dispatch", "pick", "fence",
                         "preserve", "stop", "finish", "conclude"}
<1> DEFINE Leaves(b) ==
      \/ Crash
      \/ pc[b] \in {"start", "begin", "dispatch", "pick", "fence",
                    "preserve", "stop", "finish", "conclude"}
<1> USE DEF TypeInv, WorkerTypes
<1>1. ASSUME UNCHANGED <<pc>> PROVE Leaves(k)
  BY <1>1
<1>2. ASSUME NEW b \in Batches, WorkerStart(b) PROVE Leaves(k)
  BY <1>2 DEF WorkerStart, Retire, Goto
<1>3. ASSUME NEW b \in Batches, Begin(b) PROVE Leaves(k)
  BY <1>3 DEF Begin, WriteRunning, Goto, Retire
<1>4. ASSUME NEW b \in Batches, LoopEnds(b) PROVE Leaves(k)
  BY <1>4 DEF LoopEnds, Goto
<1>5. ASSUME NEW b \in Batches, SkipQuarantined(b) PROVE Leaves(k)
  BY <1>5 DEF SkipQuarantined, Retire
<1>6. ASSUME NEW b \in Batches, Pick(b) PROVE Leaves(k)
  BY <1>6 DEF Pick, Retire
<1>7. ASSUME NEW b \in Batches, Dispatch(b) PROVE Leaves(k)
  BY <1>7 DEF Dispatch, WriteRunning, Goto, Retire
<1>8. ASSUME NEW b \in Batches, Prepare(b) PROVE Leaves(k)
  BY <1>8 DEF Prepare, Goto
<1>9. ASSUME NEW b \in Batches, PrepareFails(b) PROVE Leaves(k)
  BY <1>9 DEF PrepareFails, Goto
<1>10. ASSUME NEW b \in Batches, FailUnstarted(b) PROVE Leaves(k)
  BY <1>10 DEF FailUnstarted, Goto
<1>11. ASSUME NEW b \in Batches, Claim(b) PROVE Leaves(k)
  BY <1>11 DEF Claim, Goto
<1>12. ASSUME NEW b \in Batches, Mark(b) PROVE Leaves(k)
  BY <1>12 DEF Mark, Goto
<1>13. ASSUME NEW b \in Batches, MarkRun(b) PROVE Leaves(k)
  BY <1>13 DEF MarkRun, Goto
<1>14. ASSUME NEW b \in Batches, Launch(b) PROVE Leaves(k)
  BY <1>14 DEF Launch, Goto, FailStart
<1>15. ASSUME NEW b \in Batches, LauncherFails(b) PROVE Leaves(k)
  BY <1>15 DEF LauncherFails, FailStart, Goto
<1>16. ASSUME NEW b \in Batches, Abort(b) PROVE Leaves(k)
  BY <1>16 DEF Abort
<1>17. ASSUME NEW b \in Batches, AbortRun(b) PROVE Leaves(k)
  BY <1>17 DEF AbortRun, Goto
<1>18. ASSUME NEW b \in Batches, AbortLease(b) PROVE Leaves(k)
  BY <1>18 DEF AbortLease, Goto
<1>19. ASSUME NEW b \in Batches, AbortMember(b) PROVE Leaves(k)
  BY <1>19 DEF AbortMember
<1>20. ASSUME NEW b \in Batches, TakeHandoff(b) PROVE Leaves(k)
  BY <1>20 DEF TakeHandoff, Goto
<1>21. ASSUME NEW b \in Batches, Spawn(b) PROVE Leaves(k)
  BY <1>21 DEF Spawn, Goto
<1>22. ASSUME NEW b \in Batches, SpawnFails(b) PROVE Leaves(k)
  BY <1>22 DEF SpawnFails, FailStart, Goto
<1>23. ASSUME NEW b \in Batches, Record(b) PROVE Leaves(k)
  BY <1>23 DEF Record, Goto
<1>24. ASSUME NEW b \in Batches, Reread(b) PROVE Leaves(k)
  BY <1>24 DEF Reread
<1>25. ASSUME NEW b \in Batches, SetRun(b) PROVE Leaves(k)
  BY <1>25 DEF SetRun
<1>26. ASSUME NEW b \in Batches, Collect(b) PROVE Leaves(k)
  BY <1>26 DEF Collect, Goto
<1>27. ASSUME NEW b \in Batches, Timeout(b) PROVE Leaves(k)
  BY <1>27 DEF Timeout, Goto
<1>28. ASSUME NEW b \in Batches, Recover(b) PROVE Leaves(k)
  BY <1>28 DEF Recover, Goto
<1>29. ASSUME NEW b \in Batches, GiveUp(b) PROVE Leaves(k)
  BY <1>29 DEF GiveUp, Goto
<1>30. ASSUME NEW b \in Batches, FenceUnknown(b) PROVE Leaves(k)
  BY <1>30 DEF FenceUnknown, Retire
<1>31. ASSUME NEW b \in Batches, RefuseOwner(b) PROVE Leaves(k)
  BY <1>31 DEF RefuseOwner, Retire
<1>32. ASSUME NEW b \in Batches, AfterRecovery(b) PROVE Leaves(k)
  BY <1>32 DEF AfterRecovery
<1>33. ASSUME NEW b \in Batches, Park(b) PROVE Leaves(k)
  BY <1>33 DEF Park
<1>34. ASSUME NEW b \in Batches, StopAtGate(b) PROVE Leaves(k)
  BY <1>34 DEF StopAtGate, Goto
<1>35. ASSUME NEW b \in Batches, Stop(b) PROVE Leaves(k)
  BY <1>35 DEF Stop, Retire
<1>36. ASSUME NEW b \in Batches, NextMember(b) PROVE Leaves(k)
  BY <1>36 DEF NextMember
<1>37. ASSUME NEW b \in Batches, FinishCancelled(b) PROVE Leaves(k)
  BY <1>37 DEF FinishCancelled, Retire
<1>38. ASSUME NEW b \in Batches, Finish(b) PROVE Leaves(k)
  BY <1>38 DEF Finish, Goto
<1>39. ASSUME NEW b \in Batches, Conclude(b) PROVE Leaves(k)
  BY <1>39 DEF Conclude, Retire
<1>40. ASSUME NEW b \in Batches, CreateBatch(b) PROVE Leaves(k)
  BY <1>40 DEF CreateBatch, StartWorker
<1>41. ASSUME NEW b \in Batches, ResumeBatch(b) PROVE Leaves(k)
  BY <1>41 DEF ResumeBatch, StartWorker
<1>42. CASE Crash
  BY <1>42 DEF Crash
<1>43. QED
  BY <1>1, <1>2, <1>3, <1>4, <1>5, <1>6, <1>7, <1>8, <1>9, <1>10, <1>11,
     <1>12, <1>13, <1>14, <1>15, <1>16, <1>17, <1>18, <1>19, <1>20, <1>21,
     <1>22, <1>23, <1>24, <1>25, <1>26, <1>27, <1>28, <1>29, <1>30, <1>31,
     <1>32, <1>33, <1>34, <1>35, <1>36, <1>37, <1>38, <1>39, <1>40, <1>41,
     <1>42, WorkerWriters
     DEF workerVars

-----------------------------------------------------------------------------
(* What ends an attempt, and what it leaves.                               *)

\* Only its Host callback, a failed or aborted start, input recovery or the
\* startup of a process ends an attempt; only an abort leaves the lease.
Ender(r) ==
    LET b == BatchOf[r]
    IN  \/ mgr # "up"
        \/ /\ hostOwner = r /\ hostPhase \in {"reporting", "committed"}
           /\ lease'[r] # "active"
        \/ /\ cur[b] = r /\ pc[b] \in {"launch", "start_host", "handoff"}
           /\ pc'[b] = "gate" /\ lease'[r] # "active"
        \/ /\ cur[b] = r /\ pc[b] = "start_host" /\ pc'[b] = "abort_run"
           /\ cur'[b] = r
        \/ /\ cur[b] = r /\ pc[b] \in {"grace", "preserve"}
           /\ pc'[b] = "drain" /\ r \in recovered' /\ lease'[r] # "active"

LEMMA EndsBy ==
    ASSUME TypeInv, QueueInv, NEW q \in Runs, attempt[q] \in Live,
           attempt'[q] \notin Live, Next
    PROVE  Ender(q)
<1> USE DEF Ender, RowTypes, TypeInv, WorkerTypes
<1>1. ASSUME UNCHANGED <<attempt>> PROVE Ender(q)
  BY <1>1
<1>2. ASSUME NEW b \in Batches, Prepare(b) PROVE Ender(q)
  BY <1>2, RowsTyped DEF Prepare, Live, QueueInv, PickedUnstarted
<1>3. ASSUME NEW b \in Batches, Mark(b) PROVE Ender(q)
  BY <1>3, RowsTyped DEF Mark, Live
<1>4. ASSUME NEW b \in Batches, Launch(b) PROVE Ender(q)
  <2>1. CASE FailStart(b)
    <3>1. pc[b] = "launch"
      BY <1>4 DEF Launch
    <3>2. cur[b] = q /\ BatchOf[q] = b
      BY <2>1, <3>1, CurIsRun, RowsTyped DEF FailStart, Free
    <3>3. pc'[b] = "gate" /\ lease'[q] # "active"
      BY <2>1, <3>2 DEF FailStart, Goto, EndLeases
    <3>4. QED
      BY <3>1, <3>2, <3>3
  <2>2. QED
    BY <1>4, <2>1 DEF Launch, attemptVars
<1>5. ASSUME NEW b \in Batches, LauncherFails(b) PROVE Ender(q)
  <2>1. CASE FailStart(b)
    <3>1. pc[b] = "start_host"
      BY <1>5 DEF LauncherFails
    <3>2. cur[b] = q /\ BatchOf[q] = b
      BY <2>1, <3>1, CurIsRun, RowsTyped DEF FailStart, Free
    <3>3. pc'[b] = "gate" /\ lease'[q] # "active"
      BY <2>1, <3>2 DEF FailStart, Goto, EndLeases
    <3>4. QED
      BY <3>1, <3>2, <3>3
  <2>2. QED
    BY <1>5, <2>1 DEF LauncherFails
<1>6. ASSUME NEW b \in Batches, Abort(b) PROVE Ender(q)
  <2>1. PICK end \in {"cancelled", "human_required"} :
          attempt' = IF attempt[cur[b]] \in Live
                     THEN [attempt EXCEPT ![cur[b]] = end] ELSE attempt
    BY <1>6 DEF Abort
  <2>2. pc[b] = "start_host" /\ pc'[b] = "abort_run" /\ cur'[b] = cur[b]
    BY <1>6 DEF Abort
  <2>3. cur[b] = q /\ BatchOf[q] = b
    BY <2>1, <2>2, CurIsRun, RowsTyped DEF Free
  <2>4. QED
    BY <2>2, <2>3
<1>7. ASSUME NEW b \in Batches, SpawnFails(b) PROVE Ender(q)
  <2>1. CASE FailStart(b)
    <3>1. pc[b] = "handoff"
      BY <1>7 DEF SpawnFails
    <3>2. cur[b] = q /\ BatchOf[q] = b
      BY <2>1, <3>1, CurIsRun, RowsTyped DEF FailStart, Free
    <3>3. pc'[b] = "gate" /\ lease'[q] # "active"
      BY <2>1, <3>2 DEF FailStart, Goto, EndLeases
    <3>4. QED
      BY <3>1, <3>2, <3>3
  <2>2. QED
    BY <1>7, <2>1 DEF SpawnFails
<1>8. ASSUME NEW b \in Batches, Timeout(b) PROVE Ender(q)
  BY <1>8, RowsTyped DEF Timeout, Live, Asked
<1>9. ASSUME NEW b \in Batches, Recover(b) PROVE Ender(q)
  <2>1. pc[b] \in {"grace", "preserve"} /\ pc'[b] = "drain"
    BY <1>9 DEF Recover, Goto
  <2>2. cur[b] = q /\ BatchOf[q] = b
    BY <1>9, <2>1, CurIsRun, RowsTyped DEF Recover, Free
  <2>3. q \in recovered' /\ lease'[q] # "active"
    BY <1>9, <2>2 DEF Recover, EndLeases
  <2>4. QED
    BY <2>1, <2>2, <2>3
<1>10. ASSUME NEW b \in Batches, DeliverTry(b) PROVE Ender(q)
  BY <1>10, RowsTyped DEF DeliverTry, Live
<1>11. ASSUME NEW b \in Batches, CancelBatch(b) PROVE Ender(q)
  BY <1>11, RowsTyped DEF CancelBatch, Live
<1>12. ASSUME NEW r \in Runs, CancelRun(r) PROVE Ender(q)
  BY <1>12, RowsTyped DEF CancelRun, Live
<1>13. ASSUME NEW r \in Runs, DeliverRunCancel(r) PROVE Ender(q)
  BY <1>13, RowsTyped DEF DeliverRunCancel, Live
<1>14. CASE FinishCommit
  BY <1>14, RowsTyped DEF FinishCommit, Live, EndLeases
<1>15. CASE FinishFail
  BY <1>15, RowsTyped DEF FinishFail, Live, EndLeases
<1>16. CASE StartRevoke
  BY <1>16, RowsTyped DEF StartRevoke, Live
<1>17. ASSUME NEW b \in Batches, RecoverBatch(b) PROVE Ender(q)
  BY <1>17, RowsTyped DEF RecoverBatch, CloseLaunches, Live
<1>18. ASSUME NEW b \in Batches, 
           \/ Claim(b) \/ AbortLease(b) \/ Record(b) \/ Park(b)
     PROVE  UNCHANGED <<attempt>>
  BY <1>18 DEF Claim, AbortLease, Record, Park
<1>19. ASSUME \/ HumanEvent
     PROVE  UNCHANGED <<attempt>>
  BY <1>19 DEF HumanEvent
<1>20. QED
  BY <1>1, <1>2, <1>3, <1>4, <1>5, <1>6, <1>7, <1>8, <1>9, <1>10, <1>11,
     <1>12, <1>13, <1>14, <1>15, <1>16, <1>17, <1>18, <1>19, AttemptWriters
     DEF attemptVars

\* A claimed dispatch stays claimed.
LEMMA ClaimedStays ==
    ASSUME TypeInv, QueueInv, NEW q \in Runs, attempt[q] # "none",
           dispatch[q] = "claimed", Next
    PROVE  dispatch'[q] = "claimed"
<1> USE DEF TypeInv, AttemptTypes
<1>1. ASSUME UNCHANGED <<dispatch>> PROVE dispatch'[q] = "claimed"
  BY <1>1
<1>2. ASSUME NEW b \in Batches, Prepare(b) PROVE dispatch'[q] = "claimed"
  BY <1>2 DEF Prepare, QueueInv, PickedUnstarted
<1>3. ASSUME NEW b \in Batches, Claim(b) PROVE dispatch'[q] = "claimed"
  BY <1>3 DEF Claim
<1>4. ASSUME NEW b \in Batches, 
           \/ Mark(b) \/ Launch(b) \/ LauncherFails(b) \/ Abort(b)
           \/ AbortLease(b) \/ SpawnFails(b) \/ Record(b) \/ Timeout(b)
           \/ Recover(b) \/ Park(b) \/ DeliverTry(b) \/ CancelBatch(b)
           \/ RecoverBatch(b)
     PROVE  UNCHANGED <<dispatch>>
  BY <1>4 DEF Mark, Launch, attemptVars, FailStart, LauncherFails, Abort,
     AbortLease, SpawnFails, Record, Timeout, Recover, Park, DeliverTry,
     KeepRest, CancelBatch, RecoverBatch, CloseLaunches
<1>5. ASSUME NEW r \in Runs, 
           \/ CancelRun(r) \/ DeliverRunCancel(r)
     PROVE  UNCHANGED <<dispatch>>
  BY <1>5 DEF CancelRun, KeepRest, DeliverRunCancel
<1>6. ASSUME \/ HumanEvent \/ FinishCommit \/ FinishFail \/ StartRevoke
     PROVE  UNCHANGED <<dispatch>>
  BY <1>6 DEF HumanEvent, FinishCommit, FinishFail, StartRevoke
<1>7. QED
  BY <1>1, <1>2, <1>3, <1>4, <1>5, <1>6, AttemptWriters
     DEF attemptVars

\* A lease is granted by Prepare only.
LeaseStep(r) ==
    lease'[r] = "active" =>
        lease[r] = "active" \/ \E c \in Batches : Prepare(c) /\ cur[c] = r

LEMMA LeaseSteps ==
    ASSUME TypeInv, NEW q \in Runs, Next
    PROVE  LeaseStep(q)
<1> USE DEF LeaseStep, TypeInv, AttemptTypes
<1>1. ASSUME UNCHANGED <<lease>> PROVE LeaseStep(q)
  BY <1>1
<1>2. ASSUME NEW b \in Batches, Prepare(b) PROVE LeaseStep(q)
  BY <1>2 DEF Prepare, EndLeases
<1>3. ASSUME NEW b \in Batches, Launch(b) PROVE LeaseStep(q)
  BY <1>3 DEF Launch, attemptVars, FailStart, EndLeases, EndLeases
<1>4. ASSUME NEW b \in Batches, LauncherFails(b) PROVE LeaseStep(q)
  BY <1>4 DEF LauncherFails, FailStart, EndLeases, EndLeases
<1>5. ASSUME NEW b \in Batches, AbortLease(b) PROVE LeaseStep(q)
  BY <1>5 DEF AbortLease, EndLeases, EndLeases
<1>6. ASSUME NEW b \in Batches, SpawnFails(b) PROVE LeaseStep(q)
  BY <1>6 DEF SpawnFails, FailStart, EndLeases, EndLeases
<1>7. ASSUME NEW b \in Batches, Recover(b) PROVE LeaseStep(q)
  BY <1>7 DEF Recover, EndLeases, EndLeases
<1>8. ASSUME NEW b \in Batches, Park(b) PROVE LeaseStep(q)
  BY <1>8 DEF Park, EndLeases, EndLeases
<1>9. ASSUME NEW r \in Runs, CancelRun(r) PROVE LeaseStep(q)
  BY <1>9 DEF CancelRun, EndLeases, LiveIn, Members, EndLeases
<1>10. CASE HumanEvent
  BY <1>10 DEF HumanEvent, EndLeases, EndLeases
<1>11. CASE FinishCommit
  BY <1>11 DEF FinishCommit, EndLeases, EndLeases
<1>12. CASE FinishFail
  BY <1>12 DEF FinishFail, EndLeases, EndLeases
<1>13. CASE StartRevoke
  BY <1>13 DEF StartRevoke, EndLeases, EndLeases
<1>14. ASSUME NEW b \in Batches, RecoverBatch(b) PROVE LeaseStep(q)
  BY <1>14 DEF RecoverBatch, CloseLaunches, EndLeases, EndLeases
<1>15. ASSUME NEW b \in Batches, 
           \/ Claim(b) \/ Mark(b) \/ Abort(b) \/ Record(b) \/ Timeout(b)
           \/ DeliverTry(b) \/ CancelBatch(b)
     PROVE  UNCHANGED <<lease>>
  BY <1>15 DEF Claim, Mark, Abort, Record, Timeout, DeliverTry, CancelBatch
<1>16. ASSUME NEW r \in Runs, 
           \/ DeliverRunCancel(r)
     PROVE  UNCHANGED <<lease>>
  BY <1>16 DEF DeliverRunCancel
<1>17. QED
  BY <1>1, <1>2, <1>3, <1>4, <1>5, <1>6, <1>7, <1>8, <1>9, <1>10, <1>11,
     <1>12, <1>13, <1>14, <1>15, <1>16, AttemptWriters
     DEF attemptVars

\* The Host changes its owner when a process is spawned or let go.
LEMMA OwnerSteps ==
    ASSUME TypeInv, Next
    PROVE  /\ \/ hostOwner' = Nobody \/ hostOwner' = hostOwner
              \/ \E b \in Batches : Spawn(b)
           /\ hostPhase' = "running" =>
                 \/ hostPhase = "running" /\ hostOwner' = hostOwner
                       /\ (signalled => signalled')
                 \/ \E b \in Batches : Spawn(b)
<1> DEFINE Goal ==
      /\ hostOwner' = Nobody \/ hostOwner' = hostOwner
      /\ hostPhase' = "running" =>
            hostPhase = "running" /\ hostOwner' = hostOwner
              /\ (signalled => signalled')
<1>1. ASSUME NEW b \in Batches, Timeout(b) \/ DeliverTry(b) PROVE Goal
  BY <1>1 DEF Timeout, DeliverTry
<1>2. ASSUME NEW r \in Runs, DeliverRunCancel(r) PROVE Goal
  BY <1>2 DEF DeliverRunCancel, TypeInv, HostTypes
<1>3. CASE HostExit \/ HostLost \/ FinishCommit \/ FinishFail \/ FinishLost
  BY <1>3 DEF HostExit, HostLost, FinishCommit, FinishFail, FinishLost,
     KeepOwner
<1>4. CASE HandOff \/ ReleaseQuarantine \/ Crash
  BY <1>4 DEF HandOff, ReleaseQuarantine, Crash
<1>5. CASE UNCHANGED hostVars
  BY <1>5 DEF hostVars
<1>6. QED
  BY <1>1, <1>2, <1>3, <1>4, <1>5, HostWriters

-----------------------------------------------------------------------------
(* The attempt of a worker that starts it.                                 *)

Starting == {"claim", "mark", "markrun", "launch", "launchrun", "start_host",
             "handoff"}

\* Nobody ends an attempt its worker is still starting, and the Host does not
\* own it before it is spawned.
StartingLive ==
    \A b \in Batches : pc[b] \in Starting =>
        /\ attempt[cur[b]] \in Live /\ hostOwner # cur[b]
        /\ pc[b] # "claim" => dispatch[cur[b]] = "claimed"

LEMMA StartingLiveKept ==
    ASSUME TypeInv, QueueInv, DownIdle, HostAttempted, StartingLive, Next
    PROVE  StartingLive'
<1> SUFFICES ASSUME NEW b \in Batches, pc'[b] \in Starting
             PROVE  /\ attempt'[cur'[b]] \in Live /\ hostOwner' # cur'[b]
                    /\ pc'[b] # "claim" => dispatch'[cur'[b]] = "claimed"
  BY DEF StartingLive
<1>1. CASE Prepare(b)
  <2>1. /\ cur' = cur /\ cur[b] \in Runs /\ attempt[cur[b]] = "none"
        /\ pc'[b] = "claim"
    BY <1>1 DEF Prepare, Goto, QueueInv, PickedUnstarted, Members, TypeInv,
       WorkerTypes
  <2>2. attempt'[cur[b]] = "starting" /\ hostOwner' = hostOwner
    BY <1>1, <2>1, RowsTyped DEF Prepare, RowTypes, hostVars
  <2>3. hostOwner # cur[b]
    BY <2>1, RunsAssumption DEF HostAttempted, Nobody
  <2>4. QED
    BY <2>1, <2>2, <2>3 DEF Live
<1>2. CASE ~Prepare(b)
  <2>1. pc[b] \in Starting /\ cur'[b] = cur[b]
    <3>1. CASE CreateBatch(b) \/ ResumeBatch(b)
      BY <3>1 DEF CreateBatch, ResumeBatch, StartWorker, TypeInv, WorkerTypes,
         Starting
    <3>2. QED
      BY <1>2, <3>1, WorkerMoves DEF Moves, Stays, Retired, Between, Takes,
         GoesOn, Starting, Free
  <2>2. /\ cur[b] \in Runs /\ BatchOf[cur[b]] = b
        /\ attempt[cur[b]] \in Live /\ hostOwner # cur[b]
    BY <2>1, CurIsRun DEF StartingLive, Starting, Free
  <2>3. mgr = "up"
    BY <2>1 DEF DownIdle, Starting
  <2>4. attempt'[cur[b]] \in Live
    <3>1. SUFFICES ASSUME attempt'[cur[b]] \notin Live PROVE FALSE
      OBVIOUS
    <3>2. Ender(cur[b])
      BY <2>2, <3>1, EndsBy
    <3>3. QED
      BY <2>2, <2>3, <3>2 DEF Ender, Starting
  <2>5. hostOwner' # cur[b]
    <3>1. ASSUME NEW c \in Batches, Spawn(c) PROVE hostOwner' # cur[b]
      <4>1. c # b
        BY <3>1 DEF Spawn, Goto, Starting, TypeInv, WorkerTypes
      <4>2. hostOwner' = cur[c] /\ BatchOf[cur[c]] = c
        BY <3>1, CurIsRun DEF Spawn, Free
      <4>3. QED
        BY <2>2, <4>1, <4>2
    <3>2. QED
      BY <2>2, <3>1, OwnerSteps, RunsAssumption DEF Nobody
  <2>6. pc'[b] # "claim" => dispatch'[cur[b]] = "claimed"
    <3>1. CASE dispatch[cur[b]] = "claimed"
      BY <2>2, <3>1, ClaimedStays DEF Live
    <3>2. CASE pc[b] = "claim" /\ pc'[b] # "claim"
      <4>1. Claim(b) /\ pc'[b] = "mark"
        BY <2>1, <3>2, WorkerMoves DEF Moves, Stays, Retired, Between, Takes,
           GoesOn, ReachesGate, Starting, Free, CreateBatch, ResumeBatch,
           StartWorker, TypeInv, WorkerTypes, QueueInv, AbsentUntouched
      <4>2. QED
        BY <2>2, <4>1 DEF Claim, Goto, TypeInv, WorkerTypes, AttemptTypes
    <3>3. QED
      BY <2>1, <3>1, <3>2 DEF StartingLive
  <2>7. QED
    BY <2>1, <2>4, <2>5, <2>6
<1>3. QED
  BY <1>1, <1>2

\* Nobody takes back an input recovery.
LEMMA RecoveredGrows ==
    ASSUME TypeInv, Next
    PROVE  recovered \subseteq recovered'
<1> USE DEF RunTypes
<1>1. ASSUME UNCHANGED <<recovered>> PROVE recovered \subseteq recovered'
  BY <1>1
<1>2. ASSUME NEW b \in Batches, Recover(b) PROVE recovered \subseteq recovered'
  BY <1>2 DEF Recover
<1>3. ASSUME NEW b \in Batches, 
           \/ WorkerStart(b) \/ SkipQuarantined(b) \/ Pick(b)
           \/ FailUnstarted(b) \/ Mark(b) \/ MarkRun(b) \/ Launch(b)
           \/ LauncherFails(b) \/ AbortRun(b) \/ SpawnFails(b) \/ SetRun(b)
           \/ FenceUnknown(b) \/ Park(b) \/ FinishCancelled(b)
           \/ DeliverTry(b) \/ CancelBatch(b) \/ CancelIdleBatch(b)
           \/ ResolveCancelled(b) \/ ResumeBatch(b) \/ RecoverBatch(b)
     PROVE  UNCHANGED <<recovered>>
  BY <1>3 DEF WorkerStart, KeepRunFlags, SkipQuarantined, Pick,
     FailUnstarted, Mark, MarkRun, Launch, runVars, FailStart,
     LauncherFails, AbortRun, SpawnFails, SetRun, FenceUnknown, Park,
     FinishCancelled, DeliverTry, KeepRest, CancelBatch, CancelIdleBatch,
     ResolveCancelled, ResolvedWith, ResumeBatch, RecoverBatch
<1>4. ASSUME NEW r \in Runs, 
           \/ CancelRun(r) \/ WithdrawRun(r) \/ DeliverRunCancel(r)
     PROVE  UNCHANGED <<recovered>>
  BY <1>4 DEF CancelRun, KeepRest, WithdrawRun, DeliverRunCancel
<1>5. ASSUME \/ HumanEvent \/ FinishCommit \/ FinishFail \/ Adjudicate
               \/ Crash \/ StartRevoke
     PROVE  UNCHANGED <<recovered>>
  BY <1>5 DEF HumanEvent, FinishCommit, FinishFail, Adjudicate, Crash,
     StartRevoke
<1>6. QED
  BY <1>1, <1>2, <1>3, <1>4, <1>5, RunWriters
     DEF runVars

\* While the Host process runs, its attempt may run.
LEMMA HostRunsKept ==
    ASSUME TypeInv, QueueInv, DownIdle, StartingLive, HostRunsLiveAttempt, Next
    PROVE  HostRunsLiveAttempt'
<1> SUFFICES ASSUME hostPhase' = "running", hostOwner' \notin recovered'
             PROVE  attempt'[hostOwner'] \in Live
                      /\ dispatch'[hostOwner'] = "claimed"
  BY DEF HostRunsLiveAttempt
<1>1. CASE \E b \in Batches : Spawn(b)
  <2>1. PICK b \in Batches : Spawn(b)
    BY <1>1
  <2>2. hostOwner' = cur[b] /\ UNCHANGED <<attempt, dispatch>> /\ pc[b] = "handoff"
    BY <2>1 DEF Spawn, attemptVars
  <2>3. QED
    BY <2>2 DEF StartingLive, Starting
<1>2. CASE hostPhase = "running" /\ hostOwner' = hostOwner
  <2>1. hostOwner \in Runs /\ hostOwner \notin recovered
    BY <1>2, OwnerIsRun, RecoveredGrows
  <2>2. attempt[hostOwner] \in Live /\ dispatch[hostOwner] = "claimed"
    BY <1>2, <2>1 DEF HostRunsLiveAttempt
  <2>3. dispatch'[hostOwner] = "claimed"
    BY <2>1, <2>2, ClaimedStays DEF Live
  <2>4. attempt'[hostOwner] \in Live
    <3>1. SUFFICES ASSUME attempt'[hostOwner] \notin Live PROVE FALSE
      OBVIOUS
    <3>2. Ender(hostOwner)
      BY <2>1, <2>2, <3>1, EndsBy
    <3>3. mgr = "up"
      BY <1>2 DEF DownIdle
    <3>4. hostOwner # cur[BatchOf[hostOwner]]
             \/ pc[BatchOf[hostOwner]] \notin Starting
      BY <2>1, BatchOfAssumption DEF StartingLive
    <3>5. QED
      BY <1>2, <3>2, <3>3, <3>4 DEF Ender, Starting
  <2>5. QED
    BY <1>2, <2>3, <2>4
<1>3. QED
  BY <1>1, <1>2, OwnerSteps

-----------------------------------------------------------------------------
(* Leases and reviews.                                                     *)

\* LeaseOfLive, with the run of an abort named, and during the startup.
LeaseKept ==
    /\ mgr = "up" => \A r \in LeaseHolders :
          \/ attempt[r] \in Live
          \/ pc[BatchOf[r]] \in {"abort_run", "abort_lease"} /\ cur[BatchOf[r]] = r
    /\ mgr \in {"recover", "failed"} => LeaseHolders = {}

LEMMA LeaseKeptKept ==
    ASSUME TypeInv, QueueInv, DownIdle, LeaseKept, Next
    PROVE  LeaseKept'
<1>1. ASSUME mgr' = "up", NEW r \in Runs, lease'[r] = "active"
      PROVE  \/ attempt'[r] \in Live
             \/ pc'[BatchOf[r]] \in {"abort_run", "abort_lease"}
                  /\ cur'[BatchOf[r]] = r
  <2>1. CASE \E c \in Batches : Prepare(c) /\ cur[c] = r
    BY <2>1, RowsTyped DEF Prepare, RowTypes, Live
  <2>2. CASE lease[r] = "active"
    <3>1. mgr = "up"
      <4>1. ~StartDone
        BY <2>2 DEF StartDone, LeaseKept, LeaseHolders
      <4>2. QED
        BY <1>1, <4>1, ManagerSteps DEF Restart, Seal, SealCommit, Crash,
           StartRevoke, RecoverBatch, AwaitReconciliation, managerVars
    <3>2. CASE attempt[r] \in Live
      BY <1>1, <3>1, <3>2, EndsBy DEF Ender
    <3>3. CASE attempt[r] \notin Live
      <4> DEFINE b == BatchOf[r]
      <4>1. b \in Batches /\ cur[b] = r /\ pc[b] \in {"abort_run", "abort_lease"}
        BY <2>2, <3>1, <3>3, BatchOfAssumption DEF LeaseKept, LeaseHolders
      <4>2. ~AbortLease(b)
        BY <1>1, <4>1 DEF AbortLease, EndLeases
      <4>3. ~Crash /\ pc'[b] # "idle"
        <5>1. ~Crash
          BY <1>1 DEF Crash
        <5>2. QED
          BY <4>1, <5>1, RetiresFrom
      <4>4. CASE Stays(b)
        BY <4>1, <4>4 DEF Stays
      <4>5. CASE GoesOn(b)
        BY <4>1, <4>2, <4>5 DEF GoesOn, ReachesGate
      <4>6. CASE Between(b) \/ Takes(b) \/ CreateBatch(b) \/ ResumeBatch(b)
        BY <4>1, <4>6 DEF Between, Takes, CreateBatch, ResumeBatch, QueueInv,
           AbsentUntouched, Free, AfterRecovery, Park, NextMember
      <4>7. QED
        BY <4>1, <4>3, <4>4, <4>5, <4>6, WorkerMoves DEF Moves, Retired
    <3>4. QED
      BY <3>2, <3>3
  <2>3. QED
    BY <1>1, <2>1, <2>2, LeaseSteps DEF LeaseStep
<1>2. ASSUME mgr' \in {"recover", "failed"}, NEW r \in Runs,
             lease'[r] = "active"
      PROVE  FALSE
  <2>1. ~StartRevoke
    BY <1>2 DEF StartRevoke, EndLeases
  <2>2. mgr \in {"recover", "failed"}
    BY <1>2, <2>1, ManagerSteps DEF Restart, Seal, SealCommit, Crash,
       StartDone, RecoverBatch, managerVars
  <2>3. ASSUME NEW c \in Batches, Prepare(c) PROVE FALSE
    BY <2>2, <2>3 DEF Prepare, DownIdle
  <2>4. lease[r] # "active"
    BY <2>2 DEF LeaseKept, LeaseHolders
  <2>5. QED
    BY <1>2, <2>3, <2>4, LeaseSteps DEF LeaseStep
<1>3. QED
  BY <1>1, <1>2 DEF LeaseKept, LeaseHolders

\* A worker whose run is under review has given the desktop back.
ReviewedReleased ==
    \A b \in Batches : cur[b] # Nobody /\ run[cur[b]] = "review_required" =>
        lease[cur[b]] # "active"

\* A run goes to review without its lease, or when its worker retires.
Reviewed(r) == mgr # "up" \/ lease'[r] # "active" \/ pc'[BatchOf[r]] = "idle"

LEMMA ReviewedBy ==
    ASSUME TypeInv, QueueInv, NEW q \in Runs, run[q] # "review_required",
           run'[q] = "review_required", Next
    PROVE  Reviewed(q)
<1> USE DEF Reviewed, TypeInv, RunTypes, WorkerTypes
<1>1. ASSUME UNCHANGED <<run>> PROVE Reviewed(q)
  BY <1>1
<1>2. ASSUME NEW b \in Batches, WorkerStart(b) PROVE Reviewed(q)
  BY <1>2 DEF WorkerStart, SealFromWorker, AcknowledgeSeal
<1>3. ASSUME NEW b \in Batches, SkipQuarantined(b) PROVE Reviewed(q)
  <2>1. First(b) = q /\ First(b) \in todo[b]
    BY <1>3, FirstIsAhead DEF SkipQuarantined, Retire, QueueInv, AheadUnstarted
  <2>2. UNCHANGED lease /\ lease[q] = "none"
    BY <1>3, <2>1 DEF SkipQuarantined, QueueInv, AheadUnstarted,
       LeaseNeedsAttempt, attemptVars
  <2>3. QED
    BY <2>2
<1>4. ASSUME NEW b \in Batches, Pick(b) PROVE Reviewed(q)
  <2>1. First(b) = q /\ pc'[b] = "idle" /\ First(b) \in todo[b]
    BY <1>4, FirstIsAhead DEF Pick, Fence, Retire, QueueInv, AheadUnstarted
  <2>2. BatchOf[q] = b
    BY <2>1 DEF QueueInv, AheadUnstarted, Members
  <2>3. QED
    BY <2>1, <2>2
<1>5. ASSUME NEW b \in Batches, FailUnstarted(b) PROVE Reviewed(q)
  BY <1>5 DEF FailUnstarted, FailRun
<1>6. ASSUME NEW b \in Batches, Mark(b) PROVE Reviewed(q)
  BY <1>6 DEF Mark, FailRun
<1>7. ASSUME NEW b \in Batches, MarkRun(b) PROVE Reviewed(q)
  BY <1>7 DEF MarkRun
<1>8. ASSUME NEW b \in Batches, Launch(b) PROVE Reviewed(q)
  BY <1>8, ControlEnds DEF Launch, runVars, FailStart
<1>9. ASSUME NEW b \in Batches, LauncherFails(b) PROVE Reviewed(q)
  BY <1>9, ControlEnds DEF LauncherFails, FailStart
<1>10. ASSUME NEW b \in Batches, AbortRun(b) PROVE Reviewed(q)
  BY <1>10 DEF AbortRun, IntentKnown, Aborting
<1>11. ASSUME NEW b \in Batches, SpawnFails(b) PROVE Reviewed(q)
  BY <1>11, ControlEnds DEF SpawnFails, FailStart
<1>12. ASSUME NEW b \in Batches, SetRun(b) PROVE Reviewed(q)
  BY <1>12 DEF SetRun, IntentKnown
<1>13. ASSUME NEW b \in Batches, Recover(b) PROVE Reviewed(q)
  BY <1>13 DEF Recover, EndLeases
<1>14. ASSUME NEW b \in Batches, FenceUnknown(b) PROVE Reviewed(q)
  <2>1. cur[b] = q /\ BatchOf[q] = b
    BY <1>14, CurIsRun, RowsTyped DEF FenceUnknown, FenceFromWorker, Fence, Free
  <2>2. QED
    BY <1>14, <2>1 DEF FenceUnknown, Retire
<1>15. ASSUME NEW b \in Batches, Park(b) PROVE Reviewed(q)
  BY <1>15 DEF Park, EndLeases, Parkable, TypeInv, CurKnown
<1>16. ASSUME NEW b \in Batches, FinishCancelled(b) PROVE Reviewed(q)
  <2>1. BatchOf[q] = b
    BY <1>16 DEF FinishCancelled, SealFromWorker, AcknowledgeSeal,
       FenceFromWorker, Fence, LiveIn, Members
  <2>2. QED
    BY <1>16, <2>1 DEF FinishCancelled, Retire
<1>17. ASSUME NEW b \in Batches, DeliverTry(b) PROVE Reviewed(q)
  BY <1>17 DEF DeliverTry
<1>18. ASSUME NEW b \in Batches, CancelBatch(b) PROVE Reviewed(q)
  BY <1>18 DEF CancelBatch
<1>19. ASSUME NEW b \in Batches, CancelIdleBatch(b) PROVE Reviewed(q)
  BY <1>19 DEF CancelIdleBatch, AcknowledgeSeal
<1>20. ASSUME NEW b \in Batches, ResolveCancelled(b) PROVE Reviewed(q)
  BY <1>20 DEF ResolveCancelled, AcknowledgeSeal
<1>21. ASSUME NEW b \in Batches, ResumeBatch(b) PROVE Reviewed(q)
  BY <1>21 DEF ResumeBatch
<1>22. ASSUME NEW r \in Runs, CancelRun(r) PROVE Reviewed(q)
  BY <1>22 DEF CancelRun
<1>23. ASSUME NEW r \in Runs, WithdrawRun(r) PROVE Reviewed(q)
  BY <1>23 DEF WithdrawRun
<1>24. CASE FinishCommit
  BY <1>24 DEF FinishCommit, EndLeases
<1>25. CASE FinishFail
  BY <1>25 DEF FinishFail
<1>26. CASE Adjudicate
  BY <1>26 DEF Adjudicate
<1>27. CASE StartRevoke
  BY <1>27 DEF StartRevoke
<1>28. ASSUME NEW b \in Batches, RecoverBatch(b) PROVE Reviewed(q)
  BY <1>28 DEF RecoverBatch
<1>29. ASSUME NEW r \in Runs, 
           \/ DeliverRunCancel(r)
     PROVE  UNCHANGED <<run>>
  BY <1>29 DEF DeliverRunCancel
<1>30. ASSUME \/ HumanEvent \/ Crash
     PROVE  UNCHANGED <<run>>
  BY <1>30 DEF HumanEvent, Crash
<1>31. QED
  BY <1>1, <1>2, <1>3, <1>4, <1>5, <1>6, <1>7, <1>8, <1>9, <1>10, <1>11,
     <1>12, <1>13, <1>14, <1>15, <1>16, <1>17, <1>18, <1>19, <1>20, <1>21,
     <1>22, <1>23, <1>24, <1>25, <1>26, <1>27, <1>28, <1>29, <1>30,
     RunWriters
     DEF runVars

LEMMA ReviewedReleasedKept ==
    ASSUME TypeInv, QueueInv, DownIdle, AheadStartable, ReviewedReleased, Next
    PROVE  ReviewedReleased'
<1> SUFFICES ASSUME NEW b \in Batches, cur'[b] # Nobody,
                    run'[cur'[b]] = "review_required",
                    lease'[cur'[b]] = "active"
             PROVE  FALSE
  BY DEF ReviewedReleased
<1>1. CurKnown'
  BY CurKept
<1>2. cur'[b] \in Runs /\ BatchOf[cur'[b]] = b /\ pc'[b] # "idle"
  BY <1>1 DEF CurKnown, Members, Free
<1>3. mgr = "up"
  <2>1. CASE mgr # "up"
    <3>1. pc[b] = "idle"
      BY <2>1 DEF DownIdle
    <3>2. UNCHANGED workerVars \/ Crash
      BY <2>1, ManagerSteps DEF Seal, SealCommit, Restart, StartRevoke,
         RecoverBatch, StartDone
    <3>3. QED
      BY <1>2, <3>1, <3>2 DEF Crash, workerVars
  <2>2. QED
    BY <2>1
<1>4. run[cur'[b]] = "review_required"
  BY <1>2, <1>3, ReviewedBy DEF Reviewed
<1>5. cur'[b] = cur[b]
  <2>1. CASE Takes(b)
    <3>1. First(b) \in todo[b]
      BY <2>1, FirstIsAhead DEF Takes, QueueInv, AheadUnstarted, Members
    <3>2. First(b) \in Ahead(b)
      BY <3>1 DEF Ahead
    <3>3. QED
      BY <1>4, <2>1, <3>2 DEF Takes, AheadStartable, Startable
  <2>2. CASE CreateBatch(b) \/ ResumeBatch(b)
    BY <2>2 DEF CreateBatch, ResumeBatch, StartWorker
  <2>3. QED
    BY <1>2, <2>1, <2>2, WorkerMoves DEF Moves, Stays, Retired, Between, GoesOn
<1>6. lease[cur[b]] # "active"
  BY <1>4, <1>5 DEF ReviewedReleased
<1>7. PICK c \in Batches : Prepare(c) /\ cur[c] = cur[b]
  BY <1>2, <1>5, <1>6, LeaseSteps DEF LeaseStep
<1>8. cur[c] \in Ahead(c)
  BY <1>7 DEF Prepare, Ahead
<1>9. QED
  BY <1>4, <1>5, <1>7, <1>8 DEF AheadStartable, Startable

-----------------------------------------------------------------------------
(* What a worker leaves behind.                                            *)

\* The worker is told of attempts that have ended.
ReportedEnded ==
    /\ \A r \in reported : attempt[r] \notin Live \cup {"none"}
    /\ hostPhase \in {"committed", "settled"} =>
          attempt[hostOwner] \notin Live \cup {"none"}

LEMMA EndedStays ==
    ASSUME TypeInv, QueueInv, NEW r \in Runs,
           attempt[r] \notin Live \cup {"none"}, Next
    PROVE  attempt'[r] \notin Live \cup {"none"}
BY AttemptSteps DEF AttemptStep

LEMMA ReportedEndedKept ==
    ASSUME TypeInv, QueueInv, HostAttempted, ReportedEnded, Next
    PROVE  ReportedEnded'
<1>1. ASSUME reported' \subseteq reported,
             hostPhase' \in {"committed", "settled"} =>
                 hostPhase' = hostPhase /\ hostOwner' = hostOwner
      PROVE  ReportedEnded'
  <2>1. reported \subseteq Runs
    BY DEF TypeInv, HostTypes
  <2>2. \A r \in reported' : attempt'[r] \notin Live \cup {"none"}
    BY <1>1, <2>1, EndedStays DEF ReportedEnded
  <2>3. ASSUME hostPhase' \in {"committed", "settled"}
        PROVE  attempt'[hostOwner'] \notin Live \cup {"none"}
    <3>1. hostOwner \in Runs
      BY <1>1, <2>3, OwnerIsRun
    <3>2. QED
      BY <1>1, <2>3, <3>1, EndedStays DEF ReportedEnded
  <2>4. QED
    BY <2>2, <2>3 DEF ReportedEnded
<1>2. CASE FinishCommit
  <2>1. /\ hostOwner \in Runs /\ FinalState(hostOwner, hostResult) \in Ended
        /\ hostOwner' = hostOwner /\ reported' = reported
    BY <1>2, OwnerIsRun, FinalEnds DEF FinishCommit, KeepOwner
  <2>2. attempt'[hostOwner] = FinalState(hostOwner, hostResult)
    BY <1>2, <2>1, RowsTyped DEF FinishCommit, RowTypes
  <2>3. reported \subseteq Runs
    BY DEF TypeInv, HostTypes
  <2>4. QED
    BY <2>1, <2>2, <2>3, EndedStays DEF ReportedEnded, Live, Ended
<1>3. CASE FinishFail
  <2>1. hostOwner \in Runs /\ attempt[hostOwner] # "none"
    BY <1>3, OwnerIsRun, RunsAssumption
       DEF FinishFail, HostAttempted, Nobody
  <2>2. hostOwner' = hostOwner /\ reported' = reported
    BY <1>3 DEF FinishFail, KeepOwner
  <2>3. attempt'[hostOwner] \notin Live \cup {"none"}
    BY <1>3, <2>1, RowsTyped DEF FinishFail, RowTypes, Live
  <2>4. reported \subseteq Runs
    BY DEF TypeInv, HostTypes
  <2>5. QED
    BY <2>2, <2>3, <2>4, EndedStays DEF ReportedEnded
<1>4. CASE HandOff
  <2>1. /\ hostPhase \in {"committed", "settled"} /\ hostPhase' = "idle"
        /\ reported' = reported \cup {hostOwner}
    BY <1>4 DEF HandOff
  <2>2. hostOwner \in Runs /\ reported \subseteq Runs
    BY <2>1, OwnerIsRun DEF TypeInv, HostTypes
  <2>3. QED
    BY <2>1, <2>2, EndedStays DEF ReportedEnded
<1>5. ASSUME NEW b \in Batches, Timeout(b) \/ DeliverTry(b) \/ Spawn(b)
      PROVE  ReportedEnded'
  BY <1>1, <1>5 DEF Timeout, DeliverTry, Spawn
<1>6. ASSUME NEW r \in Runs, DeliverRunCancel(r) PROVE ReportedEnded'
  BY <1>1, <1>6 DEF DeliverRunCancel
<1>7. CASE HostExit \/ HostLost \/ FinishLost \/ ReleaseQuarantine \/ Crash
  BY <1>1, <1>7 DEF HostExit, HostLost, FinishLost, KeepOwner,
     ReleaseQuarantine, Crash
<1>8. CASE UNCHANGED hostVars
  BY <1>1, <1>8 DEF hostVars
<1>9. QED
  BY <1>2, <1>3, <1>4, <1>5, <1>6, <1>7, <1>8, HostWriters

\* A delivery thread delivers a cancellation to runs of its batch.
CancelDelivered ==
    \A b \in Batches : /\ tries[b] # 0 => cancel[b] # "none"
                       /\ undelivered[b] \subseteq Members(b)

LEMMA CancelDeliveredKept ==
    ASSUME TypeInv, CancelDelivered, Next
    PROVE  CancelDelivered'
<1> USE DEF CancelDelivered, TypeInv, CancelTypes, Members
<1>1. ASSUME UNCHANGED <<cancel, tries, undelivered>> PROVE CancelDelivered'
  BY <1>1
<1>2. ASSUME NEW b \in Batches, WorkerStart(b) PROVE CancelDelivered'
  BY <1>2 DEF WorkerStart, KeepCancel, SealFromWorker
<1>3. ASSUME NEW b \in Batches, Pick(b) PROVE CancelDelivered'
  BY <1>3 DEF Pick, KeepCancel, Fence, ActiveCancel
<1>4. ASSUME NEW b \in Batches, FenceUnknown(b) PROVE CancelDelivered'
  BY <1>4 DEF FenceUnknown, FenceFromWorker, KeepCancel, Fence, ActiveCancel
<1>5. ASSUME NEW b \in Batches, FinishCancelled(b) PROVE CancelDelivered'
  BY <1>5 DEF FinishCancelled, KeepCancel, SealFromWorker, FenceFromWorker,
     Fence, ActiveCancel
<1>6. ASSUME NEW b \in Batches, DeliverTry(b) PROVE CancelDelivered'
  <2>1. tries[b] # 0 /\ undelivered'[b] \subseteq undelivered[b] /\ cancel' = cancel
        /\ \A c \in Batches \ {b} : undelivered'[c] = undelivered[c]
                                     /\ tries'[c] = tries[c]
    BY <1>6 DEF DeliverTry, TriesLeft
  <2>2. QED
    BY <2>1
<1>7. ASSUME NEW b \in Batches, DeliverSettle(b) PROVE CancelDelivered'
  BY <1>7 DEF DeliverSettle
<1>8. ASSUME NEW b \in Batches, CancelBatch(b) PROVE CancelDelivered'
  BY <1>8 DEF CancelBatch, LiveIn, Members
<1>9. ASSUME NEW b \in Batches, CancelIdleBatch(b) PROVE CancelDelivered'
  BY <1>9 DEF CancelIdleBatch
<1>10. ASSUME NEW b \in Batches, ResolveCancelled(b) PROVE CancelDelivered'
  BY <1>10 DEF ResolveCancelled, ResolvedWith
<1>11. ASSUME NEW b \in Batches, SealCommit(b) PROVE CancelDelivered'
  BY <1>11 DEF SealCommit
<1>12. CASE Crash
  BY <1>12 DEF Crash
<1>13. ASSUME NEW b \in Batches, RecoverBatch(b) PROVE CancelDelivered'
  BY <1>13 DEF RecoverBatch, AwaitReconciliation, AwaitReconciliation,
     CancelActive, ActiveCancel
<1>14. QED
  BY <1>1, <1>2, <1>3, <1>4, <1>5, <1>6, <1>7, <1>8, <1>9, <1>10, <1>11,
     <1>12, <1>13, CancelWriters
     DEF cancelVars

\* A request once made is not unmade.
LEMMA CancelStays ==
    ASSUME TypeInv, NEW k \in Batches, cancel[k] # "none", Next
    PROVE  cancel'[k] # "none"
<1> USE DEF TypeInv, CancelTypes, ActiveCancel
<1>1. ASSUME UNCHANGED <<cancel>> PROVE cancel'[k] # "none"
  BY <1>1
<1>2. ASSUME NEW b \in Batches, WorkerStart(b) PROVE cancel'[k] # "none"
  BY <1>2 DEF WorkerStart, SealFromWorker
<1>3. ASSUME NEW b \in Batches, Pick(b) PROVE cancel'[k] # "none"
  BY <1>3 DEF Pick, Fence
<1>4. ASSUME NEW b \in Batches, FenceUnknown(b) PROVE cancel'[k] # "none"
  BY <1>4 DEF FenceUnknown, FenceFromWorker, Fence
<1>5. ASSUME NEW b \in Batches, FinishCancelled(b) PROVE cancel'[k] # "none"
  BY <1>5 DEF FinishCancelled, SealFromWorker, FenceFromWorker, Fence
<1>6. ASSUME NEW b \in Batches, DeliverSettle(b) PROVE cancel'[k] # "none"
  BY <1>6 DEF DeliverSettle
<1>7. ASSUME NEW b \in Batches, CancelBatch(b) PROVE cancel'[k] # "none"
  BY <1>7 DEF CancelBatch
<1>8. ASSUME NEW b \in Batches, CancelIdleBatch(b) PROVE cancel'[k] # "none"
  BY <1>8 DEF CancelIdleBatch
<1>9. ASSUME NEW b \in Batches, ResolveCancelled(b) PROVE cancel'[k] # "none"
  BY <1>9 DEF ResolveCancelled
<1>10. ASSUME NEW b \in Batches, SealCommit(b) PROVE cancel'[k] # "none"
  BY <1>10 DEF SealCommit
<1>11. ASSUME NEW b \in Batches, RecoverBatch(b) PROVE cancel'[k] # "none"
  BY <1>11 DEF RecoverBatch, AwaitReconciliation, AwaitReconciliation
<1>12. ASSUME NEW b \in Batches, 
           \/ DeliverTry(b)
     PROVE  UNCHANGED <<cancel>>
  BY <1>12 DEF DeliverTry
<1>13. ASSUME \/ Crash
     PROVE  UNCHANGED <<cancel>>
  BY <1>13 DEF Crash
<1>14. QED
  BY <1>1, <1>2, <1>3, <1>4, <1>5, <1>6, <1>7, <1>8, <1>9, <1>10, <1>11,
     <1>12, <1>13, CancelWriters
     DEF cancelVars

\* A run without an attempt is neither running nor being cancelled, and a
\* worker that failed to prepare a run has not prepared it.
Unasked(r) ==
    /\ run[r] \notin {"running", "cancelling"}
    /\ runCancel[r] \notin {"accepted", "delivered"}

NotRunning(r) == attempt[r] = "none" => Unasked(r)

LEMMA NotRunningRows ==
    ASSUME TypeInv, QueueInv, CurAttempted, NEW q \in Runs,
           attempt[q] = "none", NotRunning(q), Next
    PROVE  Unasked(q)'
<1> USE DEF TypeInv, RunTypes, NotRunning, Unasked
<1>1. ASSUME UNCHANGED <<run, runCancel>> PROVE Unasked(q)'
  BY <1>1
<1>2. ASSUME NEW b \in Batches, WorkerStart(b) PROVE Unasked(q)'
  BY <1>2 DEF WorkerStart, KeepRunFlags, SealFromWorker, AcknowledgeSeal,
     KeepRunFlags
<1>3. ASSUME NEW b \in Batches, SkipQuarantined(b) PROVE Unasked(q)'
  BY <1>3 DEF SkipQuarantined, KeepRunFlags
<1>4. ASSUME NEW b \in Batches, Pick(b) PROVE Unasked(q)'
  BY <1>4 DEF Pick, KeepRunFlags, Fence
<1>5. ASSUME NEW b \in Batches, FailUnstarted(b) PROVE Unasked(q)'
  BY <1>5 DEF FailUnstarted, FailRun, KeepRunFlags
<1>6. ASSUME NEW b \in Batches, Mark(b) PROVE Unasked(q)'
  BY <1>6 DEF Mark, FailRun, KeepRunFlags
<1>7. ASSUME NEW b \in Batches, MarkRun(b) PROVE Unasked(q)'
  <2>1. attempt[cur[b]] # "none"
    BY <1>7 DEF MarkRun, CurAttempted, Unattempted, Free
  <2>2. QED
    BY <1>7, <2>1 DEF MarkRun, KeepRunFlags
<1>8. ASSUME NEW b \in Batches, Launch(b) PROVE Unasked(q)'
  BY <1>8, ControlEnds DEF Launch, runVars, FailStart, KeepRunFlags
<1>9. ASSUME NEW b \in Batches, LauncherFails(b) PROVE Unasked(q)'
  BY <1>9, ControlEnds DEF LauncherFails, FailStart, KeepRunFlags
<1>10. ASSUME NEW b \in Batches, AbortRun(b) PROVE Unasked(q)'
  <2>1. attempt[cur[b]] # "none"
    BY <1>10 DEF AbortRun, CurAttempted, Unattempted, Free
  <2>2. QED
    BY <1>10, <2>1 DEF AbortRun, KeepRunFlags
<1>11. ASSUME NEW b \in Batches, SpawnFails(b) PROVE Unasked(q)'
  BY <1>11, ControlEnds DEF SpawnFails, FailStart, KeepRunFlags
<1>12. ASSUME NEW b \in Batches, SetRun(b) PROVE Unasked(q)'
  <2>1. attempt[cur[b]] # "none"
    BY <1>12 DEF SetRun, CurAttempted, Unattempted, Free
  <2>2. QED
    BY <1>12, <2>1 DEF SetRun, KeepRunFlags
<1>13. ASSUME NEW b \in Batches, Recover(b) PROVE Unasked(q)'
  BY <1>13 DEF Recover
<1>14. ASSUME NEW b \in Batches, FenceUnknown(b) PROVE Unasked(q)'
  BY <1>14 DEF FenceUnknown, FenceFromWorker, KeepRunFlags, Fence
<1>15. ASSUME NEW b \in Batches, Park(b) PROVE Unasked(q)'
  BY <1>15 DEF Park
<1>16. ASSUME NEW b \in Batches, FinishCancelled(b) PROVE Unasked(q)'
  BY <1>16 DEF FinishCancelled, KeepRunFlags, SealFromWorker,
     FenceFromWorker, AcknowledgeSeal, Fence
<1>17. ASSUME NEW b \in Batches, DeliverTry(b) PROVE Unasked(q)'
  BY <1>17 DEF DeliverTry, LiveIn, Members, Live
<1>18. ASSUME NEW b \in Batches, CancelBatch(b) PROVE Unasked(q)'
  BY <1>18 DEF CancelBatch, LiveIn, Members, Live
<1>19. ASSUME NEW b \in Batches, CancelIdleBatch(b) PROVE Unasked(q)'
  BY <1>19 DEF CancelIdleBatch, AcknowledgeSeal
<1>20. ASSUME NEW b \in Batches, ResolveCancelled(b) PROVE Unasked(q)'
  BY <1>20 DEF ResolveCancelled, ResolvedWith, AcknowledgeSeal
<1>21. ASSUME NEW b \in Batches, ResumeBatch(b) PROVE Unasked(q)'
  BY <1>21 DEF ResumeBatch
<1>22. ASSUME NEW r \in Runs, CancelRun(r) PROVE Unasked(q)'
  BY <1>22 DEF CancelRun, LiveIn, Members, Live
<1>23. ASSUME NEW r \in Runs, WithdrawRun(r) PROVE Unasked(q)'
  BY <1>23 DEF WithdrawRun
<1>24. ASSUME NEW r \in Runs, DeliverRunCancel(r) PROVE Unasked(q)'
  BY <1>24 DEF DeliverRunCancel, LiveIn, Members, Live
<1>25. CASE FinishCommit
  <2>1. hostOwner # q
    BY <1>25 DEF FinishCommit, Finishing, Live
  <2>2. QED
    BY <1>25, <2>1 DEF FinishCommit
<1>26. CASE FinishFail
  BY <1>26 DEF FinishFail
<1>27. CASE Adjudicate
  BY <1>27 DEF Adjudicate
<1>28. CASE Crash
  BY <1>28 DEF Crash
<1>29. CASE StartRevoke
  BY <1>29 DEF StartRevoke, LiveIn, Members, Live
<1>30. ASSUME NEW b \in Batches, RecoverBatch(b) PROVE Unasked(q)'
  <2>1. ClosedRun(b)[q] = run[q]
    BY DEF ClosedRun, PreAdapter, LiveIn, Live
  <2>2. QED
    BY <1>30, <2>1 DEF RecoverBatch, AcknowledgeSeal, AwaitReconciliation
<1>31. ASSUME \/ HumanEvent
     PROVE  UNCHANGED <<run, runCancel>>
  BY <1>31 DEF HumanEvent
<1>32. QED
  BY <1>1, <1>2, <1>3, <1>4, <1>5, <1>6, <1>7, <1>8, <1>9, <1>10, <1>11,
     <1>12, <1>13, <1>14, <1>15, <1>16, <1>17, <1>18, <1>19, <1>20, <1>21,
     <1>22, <1>23, <1>24, <1>25, <1>26, <1>27, <1>28, <1>29, <1>30, <1>31,
     RunWriters
     DEF runVars

Unstarted ==
    /\ \A r \in Runs : NotRunning(r)
    /\ \A b \in Batches : pc[b] = "failrun" => attempt[cur[b]] = "none"

LEMMA UnstartedKept ==
    ASSUME TypeInv, QueueInv, CurAttempted, Unstarted, Next
    PROVE  Unstarted'
<1>1. ASSUME NEW r \in Runs PROVE NotRunning(r)'
  BY NotRunningRows, AttemptSteps DEF Unstarted, NotRunning, AttemptStep, Live,
     Ended
<1>2. ASSUME NEW b \in Batches, pc'[b] = "failrun"
      PROVE  attempt'[cur'[b]] = "none"
  <2>1. \/ Stays(b) /\ pc[b] = "failrun"
        \/ pc[b] = "prepare" /\ PrepareFails(b)
    <3>1. CASE CreateBatch(b) \/ ResumeBatch(b)
      BY <1>2, <3>1 DEF CreateBatch, ResumeBatch, StartWorker, TypeInv,
         WorkerTypes
    <3>2. QED
      BY <1>2, <3>1, WorkerMoves DEF Moves, Stays, Retired, Between, Takes,
         GoesOn, Free
  <2>2. CASE Stays(b) /\ pc[b] = "failrun"
    <3>1. cur'[b] = cur[b] /\ cur[b] \in Runs /\ BatchOf[cur[b]] = b
          /\ attempt[cur[b]] = "none"
      BY <2>2, CurIsRun DEF Stays, Unstarted, Free
    <3>2. ~(cur[b] = cur[b] /\ Prepare(b))
      BY <2>2 DEF Prepare
    <3>3. QED
      BY <3>1, <3>2, AttemptSteps DEF AttemptStep, Live
  <2>3. CASE pc[b] = "prepare" /\ PrepareFails(b)
    BY <2>3 DEF PrepareFails, Goto, attemptVars, QueueInv, PickedUnstarted
  <2>4. QED
    BY <2>1, <2>2, <2>3
<1>3. QED
  BY <1>1, <1>2 DEF Unstarted

-----------------------------------------------------------------------------
(* Attempts that nobody executes.                                          *)

\* A claim was refused: the attempt was prepared, holds the desktop, and
\* nothing short of a cancellation of the batch touches it any more.
Waiting(r) ==
    /\ lease[r] = "active" /\ attempt[r] = "starting"
    /\ run[r] \in {"queued", "cancelled"} /\ runCancel[r] # "accepted"
    /\ hostOwner # r

Idling == {"claim", "mark", "gate"}

\* In a batch at work that nobody has cancelled, an attempt that may run is
\* the one the worker executes, or waits.
LiveIsCur ==
    \A b \in Batches : pc[b] # "idle" => \A r \in LiveIn(b) :
        \/ r = cur[b] /\ pc[b] \notin Idling
        \/ cancel[b] # "none"
        \/ Waiting(r)

\* It waits on, unless its worker goes on with it.
WaitsOn(k, r) == Waiting(r)' \/ (Mark(k) /\ cur[k] = r)

LEMMA WaitingStays ==
    ASSUME TypeInv, QueueInv, CancelDelivered, mgr = "up", NEW k \in Batches,
           cancel'[k] = "none", NEW q \in Members(k), Waiting(q),
           q = cur[k] => pc[k] \in Idling, Next
    PROVE  WaitsOn(k, q)
<1>0. /\ q \in Runs /\ BatchOf[q] = k /\ cancel[k] = "none"
      /\ \A b \in Batches : cur[b] = q => b = k /\ pc[b] \in Idling
      /\ \A b \in Batches : todo[b] # {} => First(b) # q
      /\ \A b \in Batches : tries[b] # 0 => q \notin undelivered[b]
  <2>1. q \in Runs /\ BatchOf[q] = k
    BY DEF Members
  <2>2. cancel[k] = "none"
    BY CancelStays
  <2>3. \A b \in Batches : cur[b] = q => b = k /\ pc[b] \in Idling
    BY <2>1, RunsAssumption DEF TypeInv, CurKnown, Members, Nobody
  <2>4. ASSUME NEW b \in Batches, todo[b] # {} PROVE First(b) # q
    <3>1. First(b) \in todo[b]
      BY <2>4, FirstIsAhead DEF QueueInv, AheadUnstarted, Members
    <3>2. QED
      BY <3>1 DEF QueueInv, AheadUnstarted, Waiting
  <2>5. \A b \in Batches : tries[b] # 0 => q \notin undelivered[b]
    BY <2>1, <2>2 DEF CancelDelivered, Members
  <2>6. QED
    BY <2>1, <2>2, <2>3, <2>4, <2>5
<1> USE DEF WaitsOn, Waiting, Live, Idling, TypeInv, AttemptTypes, RunTypes, CancelTypes
<1>1. ASSUME UNCHANGED <<attempt, lease, run, runCancel, hostOwner>> PROVE WaitsOn(k, q)
  BY <1>1
<1>2. ASSUME NEW b \in Batches, WorkerStart(b) PROVE WaitsOn(k, q)
  BY <1>2, <1>0 DEF WorkerStart, attemptVars, hostVars, KeepRunFlags,
     SealFromWorker, AcknowledgeSeal, LiveIn, Members, CancelActive,
     ActiveCancel
<1>3. ASSUME NEW b \in Batches, SkipQuarantined(b) PROVE WaitsOn(k, q)
  <2>1. First(b) # q
    BY <1>3, <1>0 DEF SkipQuarantined
  <2>2. QED
    BY <1>3, <2>1, <1>0 DEF SkipQuarantined, KeepRunFlags, attemptVars, hostVars
<1>4. ASSUME NEW b \in Batches, Pick(b) PROVE WaitsOn(k, q)
  <2>1. First(b) # q
    BY <1>4, <1>0 DEF Pick
  <2>2. QED
    BY <1>4, <2>1, <1>0 DEF Pick, Fence, KeepRunFlags, attemptVars, hostVars
<1>5. ASSUME NEW b \in Batches, Prepare(b) PROVE WaitsOn(k, q)
  BY <1>5, <1>0 DEF Prepare, runVars, hostVars, LiveIn, Members, QueueInv,
     PickedUnstarted
<1>6. ASSUME NEW b \in Batches, FailUnstarted(b) PROVE WaitsOn(k, q)
  <2>1. cur[b] # q
    BY <1>6, <1>0 DEF FailUnstarted
  <2>2. QED
    BY <1>6, <2>1, <1>0 DEF FailUnstarted, FailRun, KeepRunFlags, attemptVars, hostVars
<1>7. ASSUME NEW b \in Batches, Mark(b) PROVE WaitsOn(k, q)
  <2>1. CASE cur[b] = q
    BY <1>7, <2>1, <1>0
  <2>2. CASE cur[b] # q
    BY <1>7, <2>2, <1>0 DEF Mark, FailRun, KeepRunFlags, hostVars
  <2>3. QED
    BY <2>1, <2>2
<1>8. ASSUME NEW b \in Batches, MarkRun(b) PROVE WaitsOn(k, q)
  <2>1. cur[b] # q
    BY <1>8, <1>0 DEF MarkRun
  <2>2. QED
    BY <1>8, <2>1, <1>0 DEF MarkRun, KeepRunFlags, attemptVars, hostVars
<1>9. ASSUME NEW b \in Batches, Launch(b) PROVE WaitsOn(k, q)
  <2>1. cur[b] # q
    BY <1>9, <1>0 DEF Launch
  <2>2. CASE FailStart(b)
    BY <2>1, <2>2, <1>0 DEF FailStart, EndLeases, KeepRunFlags, hostVars
  <2>3. QED
    BY <1>9, <2>2, <1>0 DEF Launch, attemptVars, runVars, hostVars
<1>10. ASSUME NEW b \in Batches, LauncherFails(b) PROVE WaitsOn(k, q)
  <2>1. cur[b] # q
    BY <1>10, <1>0 DEF LauncherFails
  <2>2. CASE FailStart(b)
    BY <2>1, <2>2, <1>0 DEF FailStart, EndLeases, KeepRunFlags, hostVars
  <2>3. QED
    BY <1>10, <2>2, <1>0 DEF LauncherFails, attemptVars, runVars, hostVars
<1>11. ASSUME NEW b \in Batches, Abort(b) PROVE WaitsOn(k, q)
  <2>1. cur[b] # q
    BY <1>11, <1>0 DEF Abort
  <2>2. PICK end \in {"cancelled", "human_required"} :
          attempt' = IF attempt[cur[b]] \in Live
                     THEN [attempt EXCEPT ![cur[b]] = end] ELSE attempt
    BY <1>11 DEF Abort
  <2>3. UNCHANGED <<lease, run, runCancel, hostOwner>>
    BY <1>11 DEF Abort, runVars, hostVars
  <2>4. QED
    BY <2>1, <2>2, <2>3, <1>0
<1>12. ASSUME NEW b \in Batches, AbortRun(b) PROVE WaitsOn(k, q)
  <2>1. cur[b] # q
    BY <1>12, <1>0 DEF AbortRun
  <2>2. QED
    BY <1>12, <2>1, <1>0 DEF AbortRun, KeepRunFlags, attemptVars, hostVars
<1>13. ASSUME NEW b \in Batches, AbortLease(b) PROVE WaitsOn(k, q)
  <2>1. cur[b] # q
    BY <1>13, <1>0 DEF AbortLease
  <2>2. QED
    BY <1>13, <2>1, <1>0 DEF AbortLease, EndLeases, runVars, hostVars
<1>14. ASSUME NEW b \in Batches, Spawn(b) PROVE WaitsOn(k, q)
  <2>1. cur[b] # q
    BY <1>14, <1>0 DEF Spawn
  <2>2. QED
    BY <1>14, <2>1, <1>0 DEF Spawn, attemptVars, runVars
<1>15. ASSUME NEW b \in Batches, SpawnFails(b) PROVE WaitsOn(k, q)
  <2>1. cur[b] # q
    BY <1>15, <1>0 DEF SpawnFails
  <2>2. CASE FailStart(b)
    BY <2>1, <2>2, <1>0 DEF FailStart, EndLeases, KeepRunFlags, hostVars
  <2>3. QED
    BY <1>15, <2>2, <1>0 DEF SpawnFails, attemptVars, runVars, hostVars
<1>16. ASSUME NEW b \in Batches, SetRun(b) PROVE WaitsOn(k, q)
  <2>1. cur[b] # q
    BY <1>16, <1>0 DEF SetRun
  <2>2. QED
    BY <1>16, <2>1, <1>0 DEF SetRun, KeepRunFlags, attemptVars, hostVars
<1>17. ASSUME NEW b \in Batches, Timeout(b) PROVE WaitsOn(k, q)
  <2>1. cur[b] # q
    BY <1>17, <1>0 DEF Timeout, WaitExpired
  <2>2. QED
    BY <1>17, <2>1, <1>0 DEF Timeout, WaitExpired, runVars
<1>18. ASSUME NEW b \in Batches, Recover(b) PROVE WaitsOn(k, q)
  <2>1. cur[b] # q
    BY <1>18, <1>0 DEF Recover
  <2>2. QED
    BY <1>18, <2>1, <1>0 DEF Recover, EndLeases, hostVars
<1>19. ASSUME NEW b \in Batches, FenceUnknown(b) PROVE WaitsOn(k, q)
  <2>1. cur[b] # q
    BY <1>19, <1>0 DEF FenceUnknown
  <2>2. QED
    BY <1>19, <2>1, <1>0 DEF FenceUnknown, FenceFromWorker, Fence, KeepRunFlags, attemptVars, hostVars
<1>20. ASSUME NEW b \in Batches, Park(b) PROVE WaitsOn(k, q)
  BY <1>20, <1>0 DEF Park, EndLeases, hostVars, LiveIn, Members, EndLeases,
     Parkable
<1>21. ASSUME NEW b \in Batches, FinishCancelled(b) PROVE WaitsOn(k, q)
  BY <1>21, <1>0 DEF FinishCancelled, KeepRunFlags, attemptVars, hostVars,
     SealFromWorker, FenceFromWorker, AcknowledgeSeal, Fence, LiveIn,
     Members, CancelActive, ActiveCancel
<1>22. ASSUME NEW b \in Batches, DeliverTry(b) PROVE WaitsOn(k, q)
  BY <1>22, <1>0 DEF DeliverTry, LiveIn, Members, TriesLeft
<1>23. ASSUME NEW b \in Batches, CancelBatch(b) PROVE WaitsOn(k, q)
  <2>1. b # k
    BY <1>23 DEF CancelBatch
  <2>2. QED
    BY <1>23, <2>1, <1>0 DEF CancelBatch, KeepRest, hostVars, LiveIn, Members
<1>24. ASSUME NEW b \in Batches, CancelIdleBatch(b) PROVE WaitsOn(k, q)
  BY <1>24, <1>0 DEF CancelIdleBatch, AcknowledgeSeal, hostVars, LiveIn,
     Members
<1>25. ASSUME NEW b \in Batches, ResolveCancelled(b) PROVE WaitsOn(k, q)
  BY <1>25, <1>0 DEF ResolveCancelled, ResolvedWith, AcknowledgeSeal,
     hostVars, LiveIn, Members
<1>26. ASSUME NEW b \in Batches, ResumeBatch(b) PROVE WaitsOn(k, q)
  BY <1>26, <1>0 DEF ResumeBatch, hostVars, LiveIn, Members
<1>27. ASSUME NEW r \in Runs, CancelRun(r) PROVE WaitsOn(k, q)
  BY <1>27, <1>0 DEF CancelRun, EndLeases, hostVars, LiveIn, Members,
     EndLeases
<1>28. ASSUME NEW r \in Runs, WithdrawRun(r) PROVE WaitsOn(k, q)
  BY <1>28, <1>0 DEF WithdrawRun, hostVars, LiveIn, Members
<1>29. ASSUME NEW r \in Runs, DeliverRunCancel(r) PROVE WaitsOn(k, q)
  BY <1>29, <1>0 DEF DeliverRunCancel, LiveIn, Members
<1>30. CASE HumanEvent
  BY <1>30, <1>0 DEF HumanEvent, EndLeases, hostVars, LiveIn, Members,
     EndLeases
<1>31. CASE FinishCommit
  BY <1>31, <1>0 DEF FinishCommit, EndLeases, KeepOwner, LiveIn, Members,
     EndLeases
<1>32. CASE FinishFail
  BY <1>32, <1>0 DEF FinishFail, EndLeases, KeepOwner, LiveIn, Members,
     EndLeases
<1>33. CASE Adjudicate
  BY <1>33, <1>0 DEF Adjudicate, hostVars, attemptVars, LiveIn, Members
<1>34. CASE HandOff
  <2>1. hostOwner' # q
    BY <1>34, <1>0, RunsAssumption DEF HandOff, Nobody
  <2>2. QED
    BY <1>34, <2>1, <1>0 DEF HandOff, attemptVars, runVars
<1>35. CASE ReleaseQuarantine
  <2>1. hostOwner' # q
    BY <1>35, <1>0, RunsAssumption DEF ReleaseQuarantine, Nobody
  <2>2. QED
    BY <1>35, <2>1, <1>0 DEF ReleaseQuarantine, attemptVars, runVars
<1>36. CASE Crash
  <2>1. hostOwner' # q
    BY <1>36, <1>0, RunsAssumption DEF Crash, Nobody
  <2>2. QED
    BY <1>36, <2>1, <1>0 DEF Crash, attemptVars
<1>37. CASE StartRevoke
  BY <1>37 DEF StartRevoke
<1>38. ASSUME NEW b \in Batches, RecoverBatch(b) PROVE WaitsOn(k, q)
  BY <1>38 DEF RecoverBatch
<1>39. ASSUME NEW b \in Batches, 
           \/ Claim(b) \/ Record(b)
     PROVE  UNCHANGED <<attempt, lease, run, runCancel, hostOwner>>
  BY <1>39 DEF Claim, runVars, hostVars, Record
<1>40. ASSUME \/ HostExit \/ HostLost \/ FinishLost
     PROVE  UNCHANGED <<attempt, lease, run, runCancel, hostOwner>>
  BY <1>40 DEF HostExit, attemptVars, runVars, HostLost, KeepOwner,
     FinishLost
<1>41. QED
  BY <1>1, <1>2, <1>3, <1>4, <1>5, <1>6, <1>7, <1>8, <1>9, <1>10, <1>11,
     <1>12, <1>13, <1>14, <1>15, <1>16, <1>17, <1>18, <1>19, <1>20, <1>21,
     <1>22, <1>23, <1>24, <1>25, <1>26, <1>27, <1>28, <1>29, <1>30, <1>31,
     <1>32, <1>33, <1>34, <1>35, <1>36, <1>37, <1>38, <1>39, <1>40,
     AttemptWriters, RunWriters, HostWriters
     DEF attemptVars, runVars, hostVars

LEMMA LiveIsCurKept ==
    ASSUME TypeInv, QueueInv, DownIdle, CurAttempted, HostAttempted,
           AheadStartable, LiveMember, Unstarted, ReportedEnded,
           CancelDelivered, LiveIsCur, Next
    PROVE  LiveIsCur'
<1> SUFFICES ASSUME NEW b \in Batches, pc'[b] # "idle", NEW q \in LiveIn(b)',
                    cancel'[b] = "none"
             PROVE  \/ q = cur'[b] /\ pc'[b] \notin Idling
                    \/ Waiting(q)'
  BY DEF LiveIsCur
<1>1. q \in Runs /\ q \in Members(b) /\ BatchOf[q] = b /\ attempt'[q] \in Live
  BY DEF LiveIn, Members
<1>2. cancel[b] = "none"
  BY CancelStays
<1>3. mgr = "up"
  <2>1. CASE mgr # "up"
    <3>1. pc[b] = "idle"
      BY <2>1 DEF DownIdle
    <3>2. UNCHANGED workerVars \/ Crash
      BY <2>1, ManagerSteps DEF Seal, SealCommit, Restart, StartRevoke,
         RecoverBatch, StartDone
    <3>3. QED
      BY <3>1, <3>2 DEF Crash, workerVars
  <2>2. QED
    BY <2>1
<1>4. CASE attempt[q] = "none"
  <2>1. Prepare(b) /\ cur[b] = q /\ attempt'[q] = "starting"
    BY <1>1, <1>4, AttemptSteps DEF AttemptStep, Live
  <2>2. lease'[q] = "active" /\ UNCHANGED <<run, runCancel, hostOwner>>
    BY <1>1, <2>1, RowsTyped DEF Prepare, RowTypes, runVars, hostVars
  <2>3. run[q] \in {"queued", "cancelled"}
    <3>1. q \in Ahead(b)
      BY <2>1 DEF Prepare, Ahead
    <3>2. QED
      BY <3>1 DEF AheadStartable, Startable
  <2>4. runCancel[q] # "accepted"
    BY <1>1, <1>4 DEF Unstarted, NotRunning, Unasked
  <2>5. hostOwner # q
    BY <1>1, <1>4, RunsAssumption DEF HostAttempted, Nobody
  <2>6. QED
    BY <2>1, <2>2, <2>3, <2>4, <2>5 DEF Waiting
<1>5. CASE attempt[q] # "none"
  <2>1. attempt[q] \in Live
    BY <1>1, <1>5, AttemptSteps, RowsTyped DEF AttemptStep
  <2>2. ~CreateBatch(b) /\ ~ResumeBatch(b)
    BY <1>1, <2>1 DEF CreateBatch, ResumeBatch, QueueInv, AbsentUntouched,
       LiveMember, Live
  <2>3. pc[b] # "idle" /\ ~Retired(b)
    BY <2>2, WorkerMoves DEF Moves, Stays, Retired, Between, Takes, GoesOn,
       Free
  <2>4. \/ q = cur[b] /\ pc[b] \notin Idling
        \/ Waiting(q) /\ (q = cur[b] => pc[b] \in Idling)
    BY <1>1, <1>2, <2>1, <2>3 DEF LiveIsCur, LiveIn
  <2>5. CASE q = cur[b] /\ pc[b] \notin Idling
    <3>1. pc[b] \notin Free
      BY <1>1, <2>5, RunsAssumption DEF TypeInv, CurKnown, Nobody
    <3>2. pc[b] \notin Aborting \cup {"drain"}
      BY <2>1, <2>5 DEF CurAttempted
    <3>3. ~Between(b) /\ ~Takes(b)
      BY <2>5, <3>1, <3>2 DEF Between, Takes, AfterRecovery, Park, NextMember,
         Idling, Free
    <3>4. cur'[b] = q
      BY <2>2, <2>3, <2>5, <3>3, WorkerMoves DEF Moves, Stays, GoesOn
    <3>5. pc[b] # "prepare"
      BY <1>5, <2>5 DEF QueueInv, PickedUnstarted
    <3>6. SUFFICES ASSUME pc'[b] \in Idling PROVE FALSE
      BY <3>4
    <3>7. pc'[b] = "gate" /\ ReachesGate(b)
      BY <2>2, <2>3, <2>5, <3>3, <3>5, <3>6, WorkerMoves
         DEF Moves, Stays, GoesOn, Idling
    <3>8. ~(pc[b] = "failrun")
      BY <1>5, <2>5 DEF Unstarted
    <3>9. ~Launch(b) /\ ~LauncherFails(b) /\ ~SpawnFails(b)
      <4>1. ~FailStart(b)
        BY <1>1, <2>1, <2>5, ControlEnds, RowsTyped DEF FailStart, RowTypes,
           Live
      <4>2. QED
        BY <3>7, <4>1 DEF Launch, LauncherFails, SpawnFails, Goto, TypeInv,
           WorkerTypes
    <3>10. ~Collect(b)
      BY <2>1, <2>5 DEF Collect, ReportedEnded
    <3>11. ~GiveUp(b)
      BY <2>1, <2>5, <3>7 DEF GiveUp, Goto, MayRun, TypeInv, WorkerTypes
    <3>12. QED
      BY <2>5, <3>2, <3>5, <3>7, <3>8, <3>9, <3>10, <3>11
         DEF ReachesGate, Idling, Aborting
  <2>6. CASE Waiting(q) /\ (q = cur[b] => pc[b] \in Idling)
    <3>1. CASE Mark(b) /\ cur[b] = q
      BY <2>6, <3>1 DEF Mark, Goto, Waiting, Idling, TypeInv, WorkerTypes
    <3>2. QED
      BY <1>1, <1>3, <2>6, <3>1, WaitingStays DEF WaitsOn
  <2>7. QED
    BY <2>4, <2>5, <2>6
<1>6. QED
  BY <1>4, <1>5

-----------------------------------------------------------------------------
(* Cancellations and the process that runs.                                *)

\* What moves a cancellation request to and through its delivery.
SignalStep(k) ==
    /\ cancel'[k] = "requested" =>
          \/ cancel[k] = "requested" /\ undelivered'[k] = undelivered[k]
          \/ cancel[k] = "requested" /\ DeliverTry(k)
          \/ CancelBatch(k)
          \/ Crash
    /\ cancel'[k] = "signal_delivered" =>
          \/ cancel[k] = "signal_delivered"
          \/ cancel[k] = "requested" /\ undelivered[k] = {}

LEMMA SignalSteps ==
    ASSUME TypeInv, NEW k \in Batches, Next
    PROVE  SignalStep(k)
<1> USE DEF SignalStep, TypeInv, CancelTypes, ActiveCancel
<1>1. ASSUME UNCHANGED <<cancel, undelivered>> PROVE SignalStep(k)
  BY <1>1
<1>2. ASSUME NEW b \in Batches, WorkerStart(b) PROVE SignalStep(k)
  BY <1>2 DEF WorkerStart, KeepCancel, SealFromWorker
<1>3. ASSUME NEW b \in Batches, Pick(b) PROVE SignalStep(k)
  BY <1>3 DEF Pick, KeepCancel, Fence
<1>4. ASSUME NEW b \in Batches, FenceUnknown(b) PROVE SignalStep(k)
  BY <1>4 DEF FenceUnknown, FenceFromWorker, KeepCancel, Fence
<1>5. ASSUME NEW b \in Batches, FinishCancelled(b) PROVE SignalStep(k)
  BY <1>5 DEF FinishCancelled, KeepCancel, SealFromWorker, FenceFromWorker,
     Fence
<1>6. ASSUME NEW b \in Batches, DeliverTry(b) PROVE SignalStep(k)
  <2>1. UNCHANGED cancel /\ (b # k => undelivered'[k] = undelivered[k])
    BY <1>6 DEF DeliverTry
  <2>2. QED
    BY <1>6, <2>1
<1>7. ASSUME NEW b \in Batches, DeliverSettle(b) PROVE SignalStep(k)
  BY <1>7 DEF DeliverSettle
<1>8. ASSUME NEW b \in Batches, CancelBatch(b) PROVE SignalStep(k)
  <2>1. CASE b = k
    BY <1>8, <2>1 DEF CancelBatch
  <2>2. CASE b # k
    BY <1>8, <2>2 DEF CancelBatch
  <2>3. QED
    BY <2>1, <2>2
<1>9. ASSUME NEW b \in Batches, CancelIdleBatch(b) PROVE SignalStep(k)
  BY <1>9 DEF CancelIdleBatch
<1>10. ASSUME NEW b \in Batches, ResolveCancelled(b) PROVE SignalStep(k)
  BY <1>10 DEF ResolveCancelled, ResolvedWith
<1>11. ASSUME NEW b \in Batches, SealCommit(b) PROVE SignalStep(k)
  BY <1>11 DEF SealCommit
<1>12. CASE Crash
  BY <1>12 DEF Crash
<1>13. ASSUME NEW b \in Batches, RecoverBatch(b) PROVE SignalStep(k)
  BY <1>13 DEF RecoverBatch, AwaitReconciliation
<1>14. QED
  BY <1>1, <1>2, <1>3, <1>4, <1>5, <1>6, <1>7, <1>8, <1>9, <1>10, <1>11,
     <1>12, <1>13, CancelWriters
     DEF cancelVars

\* At the handoff no cancellation counts as delivered, and one that was
\* requested has still to be delivered to the run.
HandoffSignal ==
    \A b \in Batches : pc[b] = "handoff" =>
        /\ cancel[b] # "signal_delivered"
        /\ cancel[b] = "requested" => cur[b] \in undelivered[b]

LEMMA HandoffSignalKept ==
    ASSUME TypeInv, StartingLive, HandoffSignal, Next
    PROVE  HandoffSignal'
<1> SUFFICES ASSUME NEW b \in Batches, pc'[b] = "handoff"
             PROVE  /\ cancel'[b] # "signal_delivered"
                    /\ cancel'[b] = "requested" => cur'[b] \in undelivered'[b]
  BY DEF HandoffSignal
<1>1. TakeHandoff(b) \/ (Stays(b) /\ pc[b] = "handoff")
  <2>1. CASE CreateBatch(b) \/ ResumeBatch(b)
    BY <2>1 DEF CreateBatch, ResumeBatch, StartWorker, TypeInv, WorkerTypes
  <2>2. QED
    BY <2>1, WorkerMoves DEF Moves, Stays, Retired, Between, Takes, GoesOn,
       Free
<1>2. CASE TakeHandoff(b)
  <2>1. BatchOf[cur[b]] = b
    BY <1>2, CurIsRun DEF TakeHandoff, Free
  <2>2. QED
    BY <1>2, <2>1 DEF TakeHandoff, Authorised, CancelActive, ActiveCancel,
       cancelVars
<1>3. CASE Stays(b) /\ pc[b] = "handoff"
  <2>1. cur'[b] = cur[b] /\ cur[b] \in LiveIn(b)
    BY <1>3, CurIsRun DEF Stays, StartingLive, Starting, LiveIn, Free
  <2>2. SignalStep(b)
    BY SignalSteps
  <2>3. ~DeliverTry(b) /\ ~Crash
    BY <1>3 DEF DeliverTry, HandoffHeld, Crash, Stays
  <2>4. CASE CancelBatch(b)
    <3>1. undelivered'[b] = LiveIn(b)
          /\ (cancel[b] = "none" \/ cancel'[b] = cancel[b])
      BY <2>4 DEF CancelBatch, TypeInv, CancelTypes
    <3>2. QED
      BY <1>3, <2>1, <2>2, <3>1 DEF SignalStep, HandoffSignal
  <2>5. CASE ~CancelBatch(b)
    BY <1>3, <2>1, <2>2, <2>3, <2>5 DEF SignalStep, HandoffSignal
  <2>6. QED
    BY <2>4, <2>5
<1>4. QED
  BY <1>1, <1>2, <1>3

\* Input recovery takes the attempt of the worker.
LEMMA RecoveredBy ==
    ASSUME NEW q \in recovered', q \notin recovered, Next
    PROVE  \E c \in Batches : Recover(c) /\ cur[c] = q
<1>1. ASSUME UNCHANGED <<recovered>> PROVE \E c \in Batches : Recover(c) /\ cur[c] = q
  BY <1>1
<1>2. ASSUME NEW b \in Batches, Recover(b) PROVE \E c \in Batches : Recover(c) /\ cur[c] = q
  <2>1. recovered' = recovered \cup {cur[b]}
    BY <1>2 DEF Recover
  <2>2. QED
    BY <1>2, <2>1
<1>3. ASSUME NEW b \in Batches, 
           \/ WorkerStart(b) \/ SkipQuarantined(b) \/ Pick(b)
           \/ FailUnstarted(b) \/ Mark(b) \/ MarkRun(b) \/ Launch(b)
           \/ LauncherFails(b) \/ AbortRun(b) \/ SpawnFails(b) \/ SetRun(b)
           \/ FenceUnknown(b) \/ Park(b) \/ FinishCancelled(b)
           \/ DeliverTry(b) \/ CancelBatch(b) \/ CancelIdleBatch(b)
           \/ ResolveCancelled(b) \/ ResumeBatch(b) \/ RecoverBatch(b)
     PROVE  UNCHANGED <<recovered>>
  BY <1>3 DEF WorkerStart, KeepRunFlags, SkipQuarantined, Pick,
     FailUnstarted, Mark, MarkRun, Launch, runVars, FailStart,
     LauncherFails, AbortRun, SpawnFails, SetRun, FenceUnknown, Park,
     FinishCancelled, DeliverTry, KeepRest, CancelBatch, CancelIdleBatch,
     ResolveCancelled, ResolvedWith, ResumeBatch, RecoverBatch
<1>4. ASSUME NEW r \in Runs, 
           \/ CancelRun(r) \/ WithdrawRun(r) \/ DeliverRunCancel(r)
     PROVE  UNCHANGED <<recovered>>
  BY <1>4 DEF CancelRun, KeepRest, WithdrawRun, DeliverRunCancel
<1>5. ASSUME \/ HumanEvent \/ FinishCommit \/ FinishFail \/ Adjudicate
               \/ Crash \/ StartRevoke
     PROVE  UNCHANGED <<recovered>>
  BY <1>5 DEF HumanEvent, FinishCommit, FinishFail, Adjudicate, Crash,
     StartRevoke
<1>6. QED
  BY <1>1, <1>2, <1>3, <1>4, <1>5, RunWriters
     DEF runVars

\* A launch is recorded by the worker of the run.
LaunchStep(q) ==
    \/ launch'[q] = launch[q]
    \/ \E c \in Batches : cur[c] = q /\ (Mark(c) \/ Record(c))

LEMMA LaunchSteps ==
    ASSUME TypeInv, NEW q \in Runs, Next
    PROVE  LaunchStep(q)
<1> USE DEF LaunchStep, TypeInv, AttemptTypes
<1>1. ASSUME UNCHANGED <<launch>> PROVE LaunchStep(q)
  BY <1>1
<1>2. ASSUME NEW b \in Batches, Mark(b) PROVE LaunchStep(q)
  BY <1>2 DEF Mark
<1>3. ASSUME NEW b \in Batches, Record(b) PROVE LaunchStep(q)
  BY <1>3 DEF Record
<1>4. ASSUME NEW b \in Batches, 
           \/ Prepare(b) \/ Claim(b) \/ Launch(b) \/ LauncherFails(b)
           \/ Abort(b) \/ AbortLease(b) \/ SpawnFails(b) \/ Timeout(b)
           \/ Recover(b) \/ Park(b) \/ DeliverTry(b) \/ CancelBatch(b)
           \/ RecoverBatch(b)
     PROVE  UNCHANGED <<launch>>
  BY <1>4 DEF Prepare, Claim, Launch, attemptVars, FailStart, LauncherFails,
     Abort, AbortLease, SpawnFails, Timeout, Recover, Park, DeliverTry,
     KeepRest, CancelBatch, RecoverBatch, CloseLaunches
<1>5. ASSUME NEW r \in Runs, 
           \/ CancelRun(r) \/ DeliverRunCancel(r)
     PROVE  UNCHANGED <<launch>>
  BY <1>5 DEF CancelRun, KeepRest, DeliverRunCancel
<1>6. ASSUME \/ HumanEvent \/ FinishCommit \/ FinishFail \/ StartRevoke
     PROVE  UNCHANGED <<launch>>
  BY <1>6 DEF HumanEvent, FinishCommit, FinishFail, StartRevoke
<1>7. QED
  BY <1>1, <1>2, <1>3, <1>4, <1>5, <1>6, AttemptWriters
     DEF attemptVars

\* A cancellation that counts as delivered was delivered to the process that
\* runs, and one that was requested is still going to be; the process is past
\* its launch; and the batch of a recovered one is quiet.
SignalOwed(r) ==
    /\ cancel[BatchOf[r]] = "signal_delivered" => signalled
    /\ cancel[BatchOf[r]] = "requested" =>
          signalled \/ r \in undelivered[BatchOf[r]]

PastLaunch(r) ==
    r \notin recovered =>
        \/ launch[r] = "host"
        \/ pc[BatchOf[r]] = "record" /\ cur[BatchOf[r]] = r

QuietOnceRecovered(r) ==
    r \in recovered =>
        /\ LiveIn(BatchOf[r]) = {} /\ quarantine # "none"
        /\ cancel[BatchOf[r]] \notin {"requested", "signal_delivered"}

RunningSignal ==
    hostPhase = "running" =>
        /\ SignalOwed(hostOwner) /\ PastLaunch(hostOwner)
        /\ QuietOnceRecovered(hostOwner)

LEMMA SpawnSignals ==
    ASSUME TypeInv, QueueInv, RecoveredFinal, StartingLive, HandoffSignal,
           NEW c \in Batches, Spawn(c), hostPhase' = "running"
    PROVE  RunningSignal'
<1>1. /\ pc[c] = "handoff" /\ hostOwner' = cur[c]
      /\ cur[c] \in Runs /\ BatchOf[cur[c]] = c
  BY CurIsRun DEF Spawn, Free
<1>2. UNCHANGED <<attempt, launch, recovered, cancel, undelivered, cur>>
  BY DEF Spawn, Goto, attemptVars, runVars, cancelVars
<1>3. SignalOwed(hostOwner)'
  BY <1>1, <1>2 DEF HandoffSignal, SignalOwed
<1>4. pc'[c] = "record"
  BY <1>1 DEF Spawn, Goto, TypeInv, WorkerTypes
<1>5. cur[c] \notin recovered
  BY <1>1 DEF StartingLive, Starting, RecoveredFinal, Live
<1>6. QED
  BY <1>1, <1>2, <1>3, <1>4, <1>5 DEF RunningSignal, PastLaunch,
     QuietOnceRecovered

\* The rest of the step of the process that goes on.
LEMMA RunningSignalled ==
    ASSUME TypeInv, QueueInv, HostRunsLiveAttempt, RunningSignal,
           hostPhase = "running", hostPhase' = "running", NEW r \in Runs,
           hostOwner = r, signalled => signalled', Next
    PROVE  SignalOwed(r)'
<1> DEFINE b == BatchOf[r]
<1>1. b \in Batches /\ b = BatchOf[r] /\ r \in Members(b)
  BY BatchOfAssumption DEF Members
<1>2. SignalOwed(r) /\ PastLaunch(r) /\ QuietOnceRecovered(r)
  BY DEF RunningSignal
<1>3. r \notin recovered => r \in LiveIn(b)
  BY <1>1 DEF HostRunsLiveAttempt, LiveIn
<1> HIDE DEF b
<1>4. ~Crash
  BY DEF Crash
<1>5. SignalStep(b)
  BY <1>1, SignalSteps
<1>6. cancel'[b] = "signal_delivered" => signalled'
  BY <1>1, <1>2, <1>5 DEF SignalStep, SignalOwed
<1>7. CASE CancelBatch(b)
  <2>1. r \in undelivered'[b]
    BY <1>1, <1>2, <1>3, <1>7
       DEF CancelBatch, QuietOnceRecovered, TypeInv, CancelTypes
  <2>2. QED
    BY <1>1, <1>6, <2>1 DEF SignalOwed, b
<1>8. CASE cancel[b] = "requested" /\ DeliverTry(b)
  <2>1. signalled \/ r \in undelivered[b]
    BY <1>1, <1>2, <1>8 DEF SignalOwed
  <2>2. launch[r] # "pre"
    BY <1>1, <1>2, <1>8 DEF QuietOnceRecovered, PastLaunch, DeliverTry,
       HandoffHeld
  <2>3. signalled' \/ r \in undelivered'[b]
    <3> DEFINE polled == {s \in undelivered[b] : launch[s] = "pre"}
               hosted == {s \in undelivered[b] \ polled :
                            hostOwner = s /\ hostPhase = "running"}
    <3>1. PICK sent \in SUBSET (polled \cup hosted) :
             /\ undelivered' = [undelivered EXCEPT ![b] = @ \ sent]
             /\ signalled' = (signalled \/ sent \cap hosted # {})
      BY <1>8 DEF DeliverTry
    <3>2. undelivered'[b] = undelivered[b] \ sent
      BY <1>1, <3>1 DEF TypeInv, CancelTypes
    <3>3. r \in undelivered[b] => r \in hosted
      BY <2>2
    <3>4. QED
      BY <2>1, <3>1, <3>2, <3>3 DEF TypeInv, HostTypes
  <2>4. QED
    BY <1>1, <1>6, <2>3 DEF SignalOwed, b
<1>9. CASE ~CancelBatch(b) /\ ~(cancel[b] = "requested" /\ DeliverTry(b))
  <2>1. cancel'[b] = "requested" => signalled' \/ r \in undelivered'[b]
    BY <1>1, <1>2, <1>4, <1>5, <1>9 DEF SignalStep, SignalOwed
  <2>2. QED
    BY <1>1, <1>6, <2>1 DEF SignalOwed, b
<1>10. QED
  BY <1>7, <1>8, <1>9

LEMMA RunningPastLaunch ==
    ASSUME TypeInv, QueueInv, StartingLive, HostRunsLiveAttempt,
           RunningSignal, hostPhase = "running", hostPhase' = "running",
           NEW r \in Runs, hostOwner = r, Next
    PROVE  PastLaunch(r)'
<1> DEFINE b == BatchOf[r]
<1>1. b \in Batches /\ b = BatchOf[r]
  BY BatchOfAssumption
<1>2. PastLaunch(r)
  BY DEF RunningSignal
<1>3. SUFFICES ASSUME r \notin recovered
               PROVE  launch'[r] = "host" \/ (pc'[b] = "record" /\ cur'[b] = r)
  BY RecoveredGrows DEF PastLaunch
<1>4. attempt[r] \in Live
  BY <1>3 DEF HostRunsLiveAttempt
<1> HIDE DEF b
<1>5. ASSUME NEW c \in Batches, cur[c] = r, Record(c) PROVE launch'[r] = "host"
  BY <1>1, <1>4, <1>5 DEF Record, TypeInv, AttemptTypes
<1>6. ASSUME NEW c \in Batches, cur[c] = r PROVE ~Mark(c)
  BY <1>6 DEF Mark, StartingLive, Starting
<1>7. CASE launch[r] = "host"
  BY <1>1, <1>5, <1>6, <1>7, LaunchSteps DEF LaunchStep
<1>8. CASE pc[b] = "record" /\ cur[b] = r
  <2>1. ~CreateBatch(b) /\ ~ResumeBatch(b)
    BY <1>1, <1>8 DEF CreateBatch, ResumeBatch, QueueInv, AbsentUntouched
  <2>2. pc'[b] # "idle"
    BY <1>1, <1>8, RetiresFrom DEF Crash
  <2>3. Stays(b) \/ Record(b)
    BY <1>1, <1>8, <2>1, <2>2, WorkerMoves DEF Moves, Retired, Between, Takes,
       GoesOn, ReachesGate, Free, AfterRecovery, Park, NextMember
  <2>4. QED
    BY <1>1, <1>5, <1>8, <2>3 DEF Stays
<1>9. QED
  BY <1>1, <1>2, <1>3, <1>7, <1>8 DEF PastLaunch, b

LEMMA RunningQuiet ==
    ASSUME TypeInv, QueueInv, SealIsQuiescent, LiveIsCur, RunningSignal,
           hostPhase = "running", hostPhase' = "running",
           NEW r \in Runs, hostOwner = r, Next
    PROVE  QuietOnceRecovered(r)'
<1> DEFINE b == BatchOf[r]
<1>1. b \in Batches /\ b = BatchOf[r]
  BY BatchOfAssumption
<1>2. QuietOnceRecovered(r)
  BY DEF RunningSignal
<1>3. SUFFICES ASSUME r \in recovered'
               PROVE  /\ LiveIn(b)' = {} /\ quarantine' # "none"
                      /\ cancel'[b] \notin {"requested", "signal_delivered"}
  BY DEF QuietOnceRecovered
<1> HIDE DEF b
<1>4. CASE r \in recovered
  <2>1. /\ LiveIn(b) = {} /\ quarantine # "none"
        /\ cancel[b] \notin {"requested", "signal_delivered"}
    BY <1>1, <1>2, <1>4 DEF QuietOnceRecovered
  <2>2. ASSUME NEW s \in LiveIn(b)' PROVE FALSE
    <3>1. s \in Runs /\ BatchOf[s] = b /\ attempt'[s] \in Live
      BY <2>2 DEF LiveIn, Members
    <3>2. attempt[s] \notin Live
      BY <2>1, <3>1 DEF LiveIn, Members
    <3>3. Prepare(b)
      BY <3>1, <3>2, AttemptSteps DEF AttemptStep
    <3>4. QED
      BY <2>1, <3>3 DEF Prepare, DesktopReleased
  <2>3. quarantine' # "none"
    <3>1. ASSUME NEW c \in Batches, Recover(c) PROVE quarantine' # "none"
      BY <3>1 DEF Recover
    <3>2. ~ReleaseQuarantine /\ ~Crash
      BY DEF ReleaseQuarantine, Crash
    <3>3. QED
      BY <2>1, <3>1, <3>2, QuarantineWriters
  <2>4. cancel'[b] \notin {"requested", "signal_delivered"}
    BY <1>1, <2>1, SignalSteps DEF SignalStep, CancelBatch, Crash
  <2>5. QED
    BY <2>2, <2>3, <2>4
<1>5. CASE r \notin recovered
  <2>1. PICK c \in Batches : Recover(c) /\ cur[c] = r
    BY <1>3, <1>5, RecoveredBy
  <2>2. pc[c] \in {"grace", "preserve"} /\ Authorised(r, "claimed")
    BY <2>1 DEF Recover, Recoverable
  <2>3. c = b
    BY <1>1, <2>1, <2>2, CurIsRun DEF Free
  <2>4. /\ attempt[r] \in Live /\ LeaseHolders = {r}
        /\ Open(b) /\ ~CancelActive(b)
    BY <1>1, <2>2 DEF Authorised
  <2>5. cancel[b] = "none"
    <3>1. ~Settled(b)
      BY <1>1, <2>4 DEF SealIsQuiescent, Members
    <3>2. QED
      BY <1>1, <2>4, <3>1 DEF Settled, CancelActive, TypeInv, CancelTypes
  <2>6. ASSUME NEW s \in LiveIn(b) PROVE s = r
    <3>1. s = cur[b] \/ Waiting(s)
      BY <1>1, <2>2, <2>3, <2>5 DEF LiveIsCur
    <3>2. Waiting(s) => s \in LeaseHolders
      BY DEF Waiting, LeaseHolders, LiveIn, Members
    <3>3. QED
      BY <2>1, <2>3, <2>4, <3>1, <3>2
  <2>7. attempt' = [attempt EXCEPT ![r] = "review_required"] /\ cancel' = cancel
        /\ quarantine' # "none"
    BY <2>1 DEF Recover, cancelVars
  <2>8. LiveIn(b)' = {}
    <3>1. ASSUME NEW s \in LiveIn(b)' PROVE FALSE
      BY <1>1, <2>6, <2>7, <3>1 DEF LiveIn, Members, Live, TypeInv,
         AttemptTypes
    <3>2. QED
      BY <3>1
  <2>9. QED
    BY <2>5, <2>7, <2>8
<1>6. QED
  BY <1>4, <1>5

LEMMA RunningSignalKept ==
    ASSUME TypeInv, QueueInv, RecoveredFinal, SealIsQuiescent, StartingLive,
           HandoffSignal, HostRunsLiveAttempt, LiveIsCur, RunningSignal, Next
    PROVE  RunningSignal'
<1> SUFFICES ASSUME hostPhase' = "running" PROVE RunningSignal'
  BY DEF RunningSignal
<1>1. CASE \E c \in Batches : Spawn(c)
  BY <1>1, SpawnSignals
<1>2. CASE hostPhase = "running" /\ hostOwner' = hostOwner
             /\ (signalled => signalled')
  <2>1. hostOwner \in Runs
    BY <1>2, OwnerIsRun
  <2>2. PICK r \in Runs : r = hostOwner
    BY <2>1
  <2>3. SignalOwed(r)' /\ PastLaunch(r)' /\ QuietOnceRecovered(r)'
    BY <1>2, <2>2, RunningSignalled, RunningPastLaunch, RunningQuiet
  <2>4. QED
    BY <1>2, <2>2, <2>3 DEF RunningSignal, SignalOwed, PastLaunch,
       QuietOnceRecovered, LiveIn, Members
<1>3. QED
  BY <1>1, <1>2, OwnerSteps

-----------------------------------------------------------------------------
(* The theorem.                                                            *)

\* The inductive invariant of the Host, its signals and its leases.
HostInv ==
    /\ RowInv
    /\ StartingLive /\ HostRunsLiveAttempt /\ LeaseKept /\ ReviewedReleased
    /\ ReportedEnded /\ CancelDelivered /\ Unstarted /\ LiveIsCur
    /\ HandoffSignal /\ RunningSignal

LEMMA HostInvInit == Init => HostInv
<1> SUFFICES ASSUME Init PROVE HostInv
  OBVIOUS
<1>1. RowInv
  BY RowInvInit
<1>2. StartingLive /\ LiveIsCur /\ HandoffSignal
  BY DEF Init, StartingLive, LiveIsCur, HandoffSignal, Starting
<1>3. HostRunsLiveAttempt /\ ReportedEnded /\ RunningSignal
  BY DEF Init, HostRunsLiveAttempt, ReportedEnded, RunningSignal
<1>4. LeaseKept /\ ReviewedReleased
  BY DEF Init, LeaseKept, LeaseHolders, ReviewedReleased
<1>5. CancelDelivered /\ Unstarted
  BY DEF Init, CancelDelivered, Unstarted, NotRunning, Unasked
<1>6. QED
  BY <1>1, <1>2, <1>3, <1>4, <1>5 DEF HostInv

LEMMA HostInvStep == HostInv /\ [Next]_vars => HostInv'
<1> SUFFICES ASSUME HostInv, [Next]_vars PROVE HostInv'
  OBVIOUS
<1>1. RowInv'
  BY RowInvStep DEF HostInv
<1>2. CASE Next
  <2> USE DEF HostInv, RowInv, RowInv1, RowInv2
  <2>1. StartingLive' /\ HostRunsLiveAttempt'
    BY <1>2, StartingLiveKept, HostRunsKept
  <2>2. LeaseKept' /\ ReviewedReleased'
    BY <1>2, LeaseKeptKept, ReviewedReleasedKept
  <2>3. ReportedEnded' /\ CancelDelivered' /\ Unstarted'
    BY <1>2, ReportedEndedKept, CancelDeliveredKept, UnstartedKept
  <2>4. LiveIsCur'
    BY <1>2, LiveIsCurKept
  <2>5. HandoffSignal' /\ RunningSignal'
    BY <1>2, HandoffSignalKept, RunningSignalKept
  <2>6. QED
    BY <1>1, <2>1, <2>2, <2>3, <2>4, <2>5
<1>3. CASE UNCHANGED vars
  <2>1. /\ UNCHANGED <<attemptVars, runVars, cancelVars, quarantine>>
        /\ UNCHANGED <<hostVars, workerVars, managerVars>>
    BY <1>3 DEF vars
  <2>2. StartingLive' /\ HandoffSignal' /\ HostRunsLiveAttempt'
    BY <2>1 DEF HostInv, StartingLive, HandoffSignal, HostRunsLiveAttempt,
       attemptVars, runVars, cancelVars, hostVars, workerVars
  <2>3. LeaseKept' /\ ReviewedReleased' /\ ReportedEnded'
    BY <2>1 DEF HostInv, LeaseKept, LeaseHolders, ReviewedReleased,
       ReportedEnded, attemptVars, runVars, hostVars, workerVars, managerVars
  <2>4. CancelDelivered' /\ Unstarted'
    BY <2>1 DEF HostInv, CancelDelivered, Unstarted, NotRunning, Unasked, attemptVars,
       runVars, cancelVars, workerVars
  <2>5. LiveIsCur'
    BY <2>1 DEF HostInv, LiveIsCur, LiveIn, Members, Waiting, attemptVars,
       runVars, cancelVars, hostVars, workerVars
  <2>6. RunningSignal'
    BY <2>1 DEF HostInv, RunningSignal, SignalOwed, PastLaunch,
       QuietOnceRecovered, LiveIn, Members, attemptVars, runVars, cancelVars,
       hostVars, workerVars
  <2>7. QED
    BY <1>1, <2>2, <2>3, <2>4, <2>5, <2>6 DEF HostInv
<1>4. QED
  BY <1>2, <1>3

\* The attempt, its lease, its process and its signals agree, for all
\* constants: a lease ends with its attempt, only an attempt that may run has
\* a process (but for one input recovery took away), a cancellation recorded
\* as delivered did reach the process, and no worker meets a run under review
\* that still holds the desktop.
THEOREM AttemptsAreOwned == Spec => []AttemptOwned
<1>1. HostInv => AttemptOwned
  <2> SUFFICES ASSUME HostInv PROVE AttemptOwned
    OBVIOUS
  <2>1. LeaseOfLive
    BY DEF HostInv, LeaseKept, LeaseOfLive
  <2>2. SignalReached
    BY DEF HostInv, RunningSignal, SignalOwed, SignalReached
  <2>3. ReviewGateUnreached
    BY DEF HostInv, RowInv, RowInv1, TypeInv, CurKnown, Free,
       ReviewedReleased, ReviewGateUnreached
  <2>4. QED
    BY <2>1, <2>2, <2>3 DEF HostInv, AttemptOwned
<1>2. QED
  BY <1>1, HostInvInit, HostInvStep, PTL DEF Spec

-----------------------------------------------------------------------------
(* The runs of a batch execute one after the other.                        *)

\* Past the mark an attempt is not "starting" any more.
PastMark ==
    \A b \in Batches : pc[b] \notin Free \cup Idling \cup {"stop"} =>
        attempt[cur[b]] # "starting"

\* In a batch at work that nobody has cancelled, only the attempt of the worker
\* executes, and not before its claim nor once the worker is done with it.
ClaimedIsCur ==
    \A b \in Batches : pc[b] # "idle" /\ cancel[b] = "none" =>
        \A r \in Members(b) :
            Executing(r) => r = cur[b] /\ pc[b] \notin {"claim", "gate"}

\* A run is taken up when no attempt of its batch executes.
QuietWhilePreparing ==
    \A b \in Batches : pc[b] \in {"dispatch", "prepare"} =>
        \A r \in Members(b) : ~Executing(r)

\* A dispatch is claimed by the worker of its batch, for an attempt that alone
\* holds the desktop.
Claims(r) ==
    /\ Claim(BatchOf[r]) /\ cur[BatchOf[r]] = r /\ attempt' = attempt
    /\ pc'[BatchOf[r]] = "mark" /\ Authorised(r, "reserved")

LEMMA ClaimSteps ==
    ASSUME TypeInv, NEW q \in Runs, dispatch'[q] = "claimed", Next
    PROVE  dispatch[q] = "claimed" \/ Claims(q)
<1> DEFINE Goal == dispatch[q] = "claimed" \/ Claims(q)
<1> USE DEF TypeInv, AttemptTypes
<1>1. ASSUME UNCHANGED <<dispatch>> PROVE Goal
  BY <1>1
<1>2. ASSUME NEW b \in Batches, Prepare(b) PROVE Goal
  BY <1>2 DEF Prepare
<1>3. ASSUME NEW b \in Batches, Claim(b) PROVE Goal
  <2>1. CASE q = cur[b] /\ dispatch[q] # "claimed"
    <3>1. b = BatchOf[q]
      BY <1>3, <2>1, CurIsRun DEF Claim, Free
    <3>2. /\ pc'[b] = "mark" /\ attempt' = attempt
          /\ Authorised(q, "reserved")
      BY <1>3, <2>1 DEF Claim, Goto, WorkerTypes
    <3>3. QED
      BY <1>3, <2>1, <3>1, <3>2 DEF Claims
  <2>2. CASE q # cur[b]
    BY <1>3, <2>2 DEF Claim
  <2>3. QED
    BY <2>1, <2>2
<1>4. ASSUME NEW b \in Batches,
           \/ Mark(b) \/ Launch(b) \/ LauncherFails(b) \/ Abort(b)
           \/ AbortLease(b) \/ SpawnFails(b) \/ Record(b) \/ Timeout(b)
           \/ Recover(b) \/ Park(b) \/ DeliverTry(b) \/ CancelBatch(b)
           \/ RecoverBatch(b)
     PROVE  UNCHANGED <<dispatch>>
  BY <1>4 DEF Mark, Launch, attemptVars, FailStart, LauncherFails, Abort,
     AbortLease, SpawnFails, Record, Timeout, Recover, Park, DeliverTry,
     KeepRest, CancelBatch, RecoverBatch, CloseLaunches
<1>5. ASSUME NEW r \in Runs, CancelRun(r) \/ DeliverRunCancel(r)
     PROVE  UNCHANGED <<dispatch>>
  BY <1>5 DEF CancelRun, KeepRest, DeliverRunCancel
<1>6. ASSUME HumanEvent \/ FinishCommit \/ FinishFail \/ StartRevoke
     PROVE  UNCHANGED <<dispatch>>
  BY <1>6 DEF HumanEvent, FinishCommit, FinishFail, StartRevoke
<1>7. QED
  BY <1>1, <1>2, <1>3, <1>4, <1>5, <1>6, AttemptWriters DEF attemptVars

\* A prepared dispatch is not claimed yet.
LEMMA PreparedUnclaimed ==
    ASSUME TypeInv, NEW b \in Batches, Prepare(b)
    PROVE  dispatch'[cur[b]] = "reserved" /\ pc'[b] = "claim"
<1>1. cur[b] \in Runs
  BY CurIsRun DEF Prepare, Free
<1>2. QED
  BY <1>1 DEF Prepare, Goto, TypeInv, AttemptTypes, WorkerTypes

\* Who executes after a step did so before it, or claims.
LEMMA ExecutesBy ==
    ASSUME TypeInv, QueueInv, NEW q \in Runs, Executing(q)', Next
    PROVE  Executing(q) \/ (Claims(q) /\ attempt[q] \in Live)
<1>1. attempt'[q] \in Live /\ dispatch'[q] = "claimed"
  BY DEF Executing
<1>2. attempt[q] \in Live
  <2>1. ~(Prepare(BatchOf[q]) /\ cur[BatchOf[q]] = q)
    BY <1>1, PreparedUnclaimed, BatchOfAssumption
  <2>2. QED
    BY <1>1, <2>1, AttemptSteps DEF AttemptStep
<1>3. QED
  BY <1>1, <1>2, ClaimSteps DEF Executing

LEMMA PastMarkKept ==
    ASSUME TypeInv, QueueInv, PastMark, Next
    PROVE  PastMark'
<1> SUFFICES ASSUME NEW b \in Batches,
                    pc'[b] \notin Free \cup Idling \cup {"stop"},
                    attempt'[cur'[b]] = "starting"
             PROVE  FALSE
  BY DEF PastMark
<1>1. ~CreateBatch(b) /\ ~ResumeBatch(b)
  BY DEF CreateBatch, ResumeBatch, StartWorker, TypeInv, WorkerTypes, Free
<1>2. ASSUME NEW r \in Members(b), attempt'[r] = "starting"
      PROVE  attempt[r] = "starting"
  <2>1. r \in Runs /\ BatchOf[r] = b
    BY DEF Members
  <2>2. ~Prepare(b)
    BY PreparedUnclaimed DEF Idling
  <2>3. QED
    BY <1>2, <2>1, <2>2, AttemptSteps DEF AttemptStep, Live, Ended
<1>3. CASE Takes(b)
  <2>1. First(b) \in todo[b]
    BY <1>3, FirstIsAhead DEF Takes, QueueInv, AheadUnstarted, Members
  <2>2. First(b) \in Members(b) /\ attempt[First(b)] = "none"
    BY <2>1 DEF QueueInv, AheadUnstarted
  <2>3. QED
    BY <1>2, <1>3, <2>2 DEF Takes
<1>4. CASE Stays(b) \/ GoesOn(b)
  <2>1. cur'[b] = cur[b] /\ pc[b] \notin Free
    BY <1>4 DEF Stays, GoesOn
  <2>2. cur[b] \in Members(b)
    BY <2>1, CurIsRun
  <2>3. attempt[cur[b]] = "starting"
    BY <1>2, <2>1, <2>2
  <2>4. pc[b] \in Idling \cup {"stop"}
    BY <2>1, <2>3 DEF PastMark
  <2>5. Mark(b) /\ pc'[b] = "markrun"
    BY <1>4, <2>4 DEF Stays, GoesOn, Idling
  <2>6. QED
    BY <2>1, <2>2, <2>3, <2>5 DEF Mark, Members, TypeInv, AttemptTypes
<1>5. QED
  BY <1>1, <1>3, <1>4, WorkerMoves DEF Moves, Retired, Between, Free

LEMMA ClaimedIsCurKept ==
    ASSUME TypeInv, QueueInv, LiveMember, PastMark, ClaimedIsCur, LiveIsCur,
           LiveIsCur', Next
    PROVE  ClaimedIsCur'
<1> SUFFICES ASSUME NEW b \in Batches, pc'[b] # "idle", cancel'[b] = "none",
                    NEW r \in Members(b), Executing(r)'
             PROVE  r = cur'[b] /\ pc'[b] \notin {"claim", "gate"}
  BY DEF ClaimedIsCur, Members
<1>1. r \in Runs /\ BatchOf[r] = b /\ r \in LiveIn(b)'
  BY DEF Members, LiveIn, Executing
<1>2. CASE r = cur'[b] /\ pc'[b] \notin Idling
  BY <1>2 DEF Idling
<1>3. CASE Waiting(r)'
  <2>1. attempt'[r] = "starting"
    BY <1>3 DEF Waiting
  <2>2. CASE Claims(r)
    <3>1. pc[b] = "claim" /\ pc'[b] = "mark" /\ cur[b] = r
      BY <1>1, <2>2 DEF Claims, Claim
    <3>2. Stays(b) \/ GoesOn(b)
      BY <3>1, WorkerMoves DEF Moves, Retired, Between, Takes, Free,
         CreateBatch, ResumeBatch, StartWorker, TypeInv, WorkerTypes
    <3>3. QED
      BY <3>1, <3>2 DEF Stays, GoesOn
  <2>3. CASE Executing(r)
    <3>1. attempt[r] = "starting"
      <4>1. attempt[r] \in Live
        BY <2>3 DEF Executing
      <4>2. QED
        BY <1>1, <2>1, <4>1, AttemptSteps DEF AttemptStep, Live, Ended
    <3>2. ~CreateBatch(b) /\ ~ResumeBatch(b)
      BY <1>1, <3>1 DEF CreateBatch, ResumeBatch, QueueInv, AbsentUntouched,
         LiveMember, Live
    <3>3. pc[b] # "idle" /\ ~Retired(b)
      BY <3>2, WorkerMoves DEF Moves, Stays, Retired, Between, Takes, GoesOn,
         Free
    <3>4. r = cur[b] /\ pc[b] \notin {"claim", "gate"}
      BY <2>3, <3>3, CancelStays DEF ClaimedIsCur
    <3>5. pc[b] \notin Free
      BY <1>1, <3>4, RunsAssumption DEF TypeInv, CurKnown, Nobody
    <3>6. pc[b] \in {"mark", "stop"}
      BY <3>1, <3>4, <3>5 DEF PastMark, Idling
    <3>7. Stays(b) \/ GoesOn(b)
      BY <3>2, <3>3, <3>5, <3>6, WorkerMoves DEF Moves, Between, Takes,
         AfterRecovery, Park, NextMember
    <3>8. ASSUME Mark(b) PROVE pc'[b] = "markrun"
      BY <3>1, <3>4, <3>8 DEF Mark, Goto, TypeInv, WorkerTypes
    <3>9. cur'[b] = r /\ pc'[b] \in {"mark", "stop", "markrun"}
      BY <3>4, <3>6, <3>7, <3>8 DEF Stays, GoesOn, ReachesGate
    <3>10. QED
      BY <3>9
  <2>4. QED
    BY <1>1, <2>2, <2>3, ExecutesBy
<1>4. QED
  BY <1>1, <1>2, <1>3 DEF LiveIsCur

\* A batch with an attempt alive that nobody cancels was never cancelled.
LEMMA Uncancelled ==
    ASSUME TypeInv, SealIsQuiescent, NEW b \in Batches, Open(b),
           ~CancelActive(b), NEW r \in LiveIn(b)
    PROVE  cancel[b] = "none"
<1>1. ~Settled(b)
  BY DEF SealIsQuiescent, LiveIn
<1>2. QED
  BY <1>1 DEF Settled, CancelActive, TypeInv, CancelTypes

LEMMA QuietWhilePreparingKept ==
    ASSUME TypeInv, QueueInv, SealIsQuiescent, ClaimedIsCur,
           QuietWhilePreparing, Next
    PROVE  QuietWhilePreparing'
<1> SUFFICES ASSUME NEW b \in Batches, pc'[b] \in {"dispatch", "prepare"},
                    NEW r \in Members(b), Executing(r)'
             PROVE  FALSE
  BY DEF QuietWhilePreparing, Members
<1>1. r \in Runs /\ BatchOf[r] = b
  BY DEF Members
<1>2. Executing(r)
  BY <1>1, ExecutesBy DEF Claims
<1>3. CASE Takes(b)
  <2>1. cancel[b] = "none"
    BY <1>2, <1>3, Uncancelled DEF Takes, LiveIn, Executing
  <2>2. r = cur[b]
    BY <1>2, <1>3, <2>1 DEF Takes, ClaimedIsCur
  <2>3. QED
    BY <1>1, <1>3, <2>2, RunsAssumption
       DEF Takes, TypeInv, CurKnown, Free, Nobody
<1>4. CASE Stays(b) \/ GoesOn(b)
  BY <1>2, <1>4 DEF Stays, GoesOn, QuietWhilePreparing
<1>5. ~CreateBatch(b) /\ ~ResumeBatch(b)
  BY DEF CreateBatch, ResumeBatch, StartWorker, TypeInv, WorkerTypes
<1>6. QED
  BY <1>3, <1>4, <1>5, WorkerMoves DEF Moves, Retired, Between, Free

LEMMA SerialQueueKept ==
    ASSUME TypeInv, QueueInv, SealIsQuiescent, LiveIsCur, QuietWhilePreparing,
           SerialQueue, Next
    PROVE  SerialQueue'
<1> SUFFICES ASSUME NEW r \in Runs, NEW s \in Runs, BatchOf[r] = BatchOf[s],
                    Executing(r)', attempt'[s] \in Live, r # s
             PROVE  FALSE
  BY DEF SerialQueue
<1>1. PICK b \in Batches : b = BatchOf[r]
  BY BatchOfAssumption
<1>2. CASE attempt[s] \notin Live
  <2>1. Prepare(b) /\ cur[b] = s
    BY <1>1, <1>2, AttemptSteps DEF AttemptStep
  <2>2. ~Executing(r)
    BY <1>1, <2>1 DEF Prepare, QuietWhilePreparing, Members
  <2>3. Claim(b)
    BY <1>1, <2>2, ExecutesBy DEF Claims
  <2>4. QED
    BY <2>1, <2>3 DEF Prepare, Claim
<1>3. CASE attempt[s] \in Live /\ ~Executing(r)
  <2>1. Claim(b) /\ cur[b] = r /\ Authorised(r, "reserved")
    BY <1>1, <1>3, ExecutesBy DEF Claims
  <2>2. LeaseHolders = {r} /\ Open(b) /\ ~CancelActive(b)
    BY <1>1, <2>1 DEF Authorised
  <2>3. s \in LiveIn(b)
    BY <1>1, <1>3 DEF LiveIn, Members
  <2>4. cancel[b] = "none"
    BY <2>2, <2>3, Uncancelled
  <2>5. Waiting(s)
    BY <2>1, <2>3, <2>4 DEF LiveIsCur, Claim
  <2>6. QED
    BY <2>2, <2>5 DEF Waiting, LeaseHolders
<1>4. CASE attempt[s] \in Live /\ Executing(r)
  BY <1>4 DEF SerialQueue
<1>5. QED
  BY <1>2, <1>3, <1>4

\* The inductive invariant of the order of a batch's runs.
SerialInv ==
    HostInv /\ PastMark /\ ClaimedIsCur /\ QuietWhilePreparing /\ SerialQueue

LEMMA SerialInvInit == Init => SerialInv
<1> SUFFICES ASSUME Init PROVE SerialInv
  OBVIOUS
<1>1. HostInv
  BY HostInvInit
<1>2. \A r \in Runs : attempt[r] = "none"
  BY DEF Init
<1>3. \A b \in Batches : pc[b] = "idle"
  BY DEF Init
<1>4. \A r \in Runs : ~Executing(r)
  BY <1>2 DEF Executing, Live
<1>5. PastMark /\ ClaimedIsCur /\ QuietWhilePreparing
  BY <1>3 DEF PastMark, ClaimedIsCur, QuietWhilePreparing, Free
<1>6. SerialQueue
  BY <1>4 DEF SerialQueue
<1>7. QED
  BY <1>1, <1>5, <1>6 DEF SerialInv

LEMMA SerialInvStep == SerialInv /\ [Next]_vars => SerialInv'
<1> SUFFICES ASSUME SerialInv, [Next]_vars PROVE SerialInv'
  OBVIOUS
<1>1. HostInv'
  BY HostInvStep DEF SerialInv
<1>2. CASE Next
  <2> USE DEF SerialInv, HostInv, RowInv, RowInv1, RowInv2
  <2>1. PastMark' /\ ClaimedIsCur'
    BY <1>1, <1>2, PastMarkKept, ClaimedIsCurKept
  <2>2. QuietWhilePreparing' /\ SerialQueue'
    BY <1>2, QuietWhilePreparingKept, SerialQueueKept
  <2>3. QED
    BY <1>1, <2>1, <2>2
<1>3. CASE UNCHANGED vars
  <2>1. UNCHANGED <<attempt, dispatch, cancel, pc, cur>>
    BY <1>3 DEF vars, attemptVars, cancelVars, workerVars
  <2>2. PastMark' /\ SerialQueue'
    BY <2>1 DEF SerialInv, PastMark, SerialQueue, Executing
  <2>3. ClaimedIsCur' /\ QuietWhilePreparing'
    BY <2>1 DEF SerialInv, ClaimedIsCur, QuietWhilePreparing, Executing,
       Members
  <2>4. QED
    BY <1>1, <2>2, <2>3 DEF SerialInv
<1>4. QED
  BY <1>2, <1>3

\* For all constants, the runs of a batch execute one after the other, also
\* after a crash, a cancellation or a refused start, and the rows agree on
\* which of them completed.
THEOREM RunsAreSerial == Spec => []RunsSafe
<1>1. Spec => []SerialQueue
  BY SerialInvInit, SerialInvStep, PTL DEF Spec, SerialInv
<1>2. QED
  BY <1>1, CompletionsAgree, PTL DEF RunsSafe
=============================================================================
