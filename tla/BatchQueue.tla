----------------------------- MODULE BatchQueue -----------------------------
(***************************************************************************)
(* The batch queue: worker threads, the Host, the operators' commands and  *)
(* the restarts of the Manager, composed over the state of QueueState.     *)
(***************************************************************************)
EXTENDS QueueOutcome, QueueHost, QueueCommands

Worker(b) ==
    \/ WorkerStart(b) \/ Begin(b) \/ LoopEnds(b) \/ SkipQuarantined(b)
    \/ Pick(b) \/ Dispatch(b) \/ Prepare(b) \/ PrepareFails(b)
    \/ FailUnstarted(b) \/ Claim(b) \/ Mark(b) \/ MarkRun(b)
    \/ Launch(b) \/ LauncherFails(b)
    \/ Abort(b) \/ AbortRun(b) \/ AbortLease(b) \/ AbortMember(b)
    \/ TakeHandoff(b) \/ Spawn(b) \/ SpawnFails(b) \/ Record(b)
    \/ Reread(b) \/ SetRun(b) \/ Collect(b) \/ Timeout(b)
    \/ Recover(b) \/ GiveUp(b) \/ FenceUnknown(b) \/ RefuseOwner(b)
    \/ AfterRecovery(b) \/ Park(b) \/ StopAtGate(b) \/ Stop(b) \/ NextMember(b)
    \/ FinishCancelled(b) \/ Finish(b) \/ Conclude(b)

Host == HostExit \/ HostLost \/ HumanEvent \/ FinishCommit \/ FinishFail
        \/ FinishLost \/ Adjudicate \/ HandOff

Delivery(b) == DeliverTry(b) \/ DeliverSettle(b)

Command(b) ==
    \/ CreateBatch(b) \/ CancelBatch(b) \/ CancelIdleBatch(b)
    \/ Decide(b) \/ Resolve(b) \/ ResolveCancelled(b) \/ ResolveOpen(b)
    \/ Dismiss(b) \/ ResumeBatch(b) \/ ReviewSeal(b)

RunCommand(r) == CancelRun(r) \/ WithdrawRun(r) \/ DeliverRunCancel(r)

\* A process that serves runs its threads and answers requests.
Serve ==
    /\ mgr = "up"
    /\ \/ \E b \in Batches : Worker(b) \/ Delivery(b) \/ Command(b)
       \/ \E r \in Runs : RunCommand(r)
       \/ Host
       \/ ReleaseQuarantine
    /\ UNCHANGED managerVars

Seal ==
    /\ mgr \in {"up", "recover"}
    /\ \E b \in Batches : SealCommit(b)
    /\ UNCHANGED managerVars

Restart == Crash \/ StartRevoke \/ (\E b \in Batches : RecoverBatch(b))
           \/ StartDone

Next == Serve \/ Seal \/ Restart

Spec == Init /\ [][Next]_vars

\* The threads of a serving process run, every wait of a worker is bounded
\* (QueueOutcome), and a started process goes through its startup.
ServesWorker(b) == mgr = "up" /\ Worker(b) /\ UNCHANGED managerVars

ServesDelivery(b) == mgr = "up" /\ Delivery(b) /\ UNCHANGED managerVars

Startup == StartRevoke \/ (\E b \in Batches : RecoverBatch(b)) \/ StartDone

Fairness ==
    /\ \A b \in Batches : WF_vars(ServesWorker(b)) /\ WF_vars(ServesDelivery(b))
    /\ WF_vars(Seal)
    /\ WF_vars(Startup)

FairSpec == Spec /\ Fairness

-----------------------------------------------------------------------------
\* Invariants.

\* The desktop has one controller: no two attempts of any batch hold an active
\* lease at the same time (create_controller_lease under its row lock).
OneController == \A r, s \in LeaseHolders : r = s

\* A lease never outlives its attempt in a serving process, except between
\* the separate commits of an aborted launch: every path that ends an attempt
\* gives the desktop back.
LeaseOfLive ==
    mgr = "up" => \A r \in LeaseHolders :
        attempt[r] \in Live \/ pc[BatchOf[r]] \in {"abort_run", "abort_lease"}

Settled(b) == cancel[b] \in {"acknowledged", "sealed"} \/ ~Open(b)

\* A cancellation is acknowledged and a batch sealed only when nothing of it
\* may still run and no membership is left open, and nothing starts later:
\* _seal_cancelled_batch and the review barrier race with the worker thread.
SealIsQuiescent ==
    \A b \in Batches : Settled(b) =>
        \A r \in Members(b) : /\ attempt[r] \notin Live
                              /\ member[r] \in {"terminal", "cancelled"}

\* While the Host process runs, the row of its attempt says that it may run:
\* nobody but input recovery ends an attempt behind the back of its process,
\* so the callback of every process finds an attempt it can still end.
HostRunsLiveAttempt ==
    hostPhase = "running" /\ hostOwner \notin recovered =>
        attempt[hostOwner] \in Live /\ dispatch[hostOwner] = "claimed"

\* A batch cancellation recorded as delivered did reach the process that
\* runs: the handoff lock orders delivery against the start of the Host.
SignalReached ==
    hostPhase = "running" /\ cancel[BatchOf[hostOwner]] = "signal_delivered"
        => signalled

\* A membership is closed only after its attempt: no review, decision,
\* cancellation or restart manufactures the end of an attempt.
TerminalMeansEnded ==
    \A r \in Runs : member[r] \in {"terminal", "cancelled"} =>
        attempt[r] \notin Live

\* A completed attempt and a completed membership imply each other whatever
\* happens between the commits (fences, cancellations, restarts), and only a
\* completed attempt makes its run done.
CompletionKept ==
    \A r \in Runs :
        /\ attempt[r] = "completed" <=>
              outcome[r] = "completed" /\ member[r] = "terminal"
        /\ run[r] = "done" => attempt[r] = "completed"

\* A quarantined desktop has no controller: from the commit of an input
\* recovery to the proof that its Host drained, no attempt is prepared.
QuarantineIdle == quarantine # "none" => LeaseHolders = {}

\* What input recovery commits stands: the late callback of the process it
\* gave up on changes neither the attempt nor the membership.
RecoveredFinal ==
    \A r \in recovered : attempt[r] = "review_required" /\ member[r] = "terminal"

\* A batch offered for resumption is executed by no worker thread, so that a
\* resume cannot start a second one.
ReadyMeansIdle ==
    \A b \in Batches :
        Open(b) /\ recovery[b] = "ready_for_resume" => pc[b] = "idle"

\* The worker never meets a run under review that still holds the desktop:
\* the branch of _run_batch that stops the queue for it cannot be taken.
ReviewGateUnreached ==
    \A b \in Batches : pc[b] = "gate" /\ run[cur[b]] = "review_required" =>
        lease[cur[b]] # "active"

\* The attempt, its lease, its process and its signals agree: whoever holds the
\* desktop or runs may do so, and a delivered cancellation was delivered.
AttemptOwned ==
    LeaseOfLive /\ HostRunsLiveAttempt /\ SignalReached /\ ReviewGateUnreached

\* No membership, no cancellation and no seal ends before what it is about,
\* and the end that input recovery wrote stands.
EndsAreFinal == SealIsQuiescent /\ TerminalMeansEnded /\ RecoveredFinal

\* The desktop is kept: by one attempt, and by none while it is quarantined.
DesktopKept == OneController /\ QuarantineIdle

\* An attempt whose dispatch was claimed and that has not ended: its game, its
\* Adapter or both may be running.
Executing(r) == attempt[r] \in Live /\ dispatch[r] = "claimed"

\* The runs of a batch execute one after the other: while one may be running no
\* other attempt of its batch is alive, whatever a crash, a cancellation or a
\* refused start left behind (_run_batch, _recover_active_batches).
SerialQueue ==
    \A r, s \in Runs :
        BatchOf[r] = BatchOf[s] /\ Executing(r) /\ attempt[s] \in Live => r = s

\* The runs of a batch execute one after the other, and the rows agree on
\* which of them completed.
RunsSafe == SerialQueue /\ CompletionKept

\* A batch that waits for reconciliation, or has a member fenced for it, is
\* owed a decision: there is an open work item, or a decision whose request
\* can be repeated, also after a crash between the commits of a resolution.
FencedIsOwed ==
    \A b \in Batches :
        Open(b) /\ (\/ recovery[b] \in {"awaiting_reconciliation",
                                        "reconciliation_required"}
                   \/ \E r \in Members(b) :
                         member[r] = "reconciliation_required") =>
            workItem[b] \/ decided[b] # {}

-----------------------------------------------------------------------------
\* Action properties and refinement.

\* Input recovery, a human gate or a cancellation has taken the attempt.
Dictated(r) == r \in recovered \/ r \in humanGate \/ CancelActive(BatchOf[r])

\* A late success changes nothing: once a human, a cancellation or input
\* recovery dictates the outcome, no step makes the attempt completed.
NoLateSuccess ==
    [][\A r \in Runs : Dictated(r) /\ attempt'[r] = "completed" =>
           attempt[r] = "completed"]_vars

\* "sealed batches are immutable": no step changes how a sealed batch was
\* sealed, nor the membership and the outcome of any of its runs.
SealedStep ==
    \A b \in Batches : ~Open(b) =>
        /\ seal'[b] = seal[b]
        /\ \A r \in Members(b) :
              member'[r] = member[r] /\ outcome'[r] = outcome[r]
SealedStays == [][SealedStep]_vars

Desktop == INSTANCE DesktopLease WITH Attempts <- Runs, lease <- lease

\* Whatever its threads do, the queue uses the desktop as the lease ledger
\* promises: one controller at a time, one lease per attempt, no lease revived
\* (every step grants one lease, ends at most one, or leaves the leases alone).
ImplementsDesktopLease == Desktop!Spec

-----------------------------------------------------------------------------
\* Liveness, of FairSpec.

\* Every worker thread ends: no wait, lock or gate keeps it for ever, also
\* when the Host process is lost and never calls back.
WorkerRetires == \A b \in Batches : pc[b] # "idle" ~> pc[b] = "idle"

\* A cancellation that meets a worker is never dropped silently: the batch is
\* sealed or a work item asks for a decision, unless startup fails or the Host
\* is kept by a process nobody could confirm.
CancelAnswered ==
    \A b \in Batches :
        cancel[b] = "requested" /\ pc[b] # "idle" ~>
            ~Open(b) \/ workItem[b] \/ mgr = "failed" \/ hostPhase = "retained"

\* Neither a worker thread nor a cancellation it meets goes on for ever.
QueueEnds == WorkerRetires /\ CancelAnswered

-----------------------------------------------------------------------------
\* What comments of the source say and the code does not do.

\* "Fence interrupted batches and replay any durable cancellation intent":
\* startup gets through whatever the dead process left behind.
RestartSucceeds == mgr # "failed"

\* "A cancellation either becomes durable before Host dispatch, or waits until
\* the Host is registered": a run cancelled while queued is never dispatched.
WithdrawnNotHosted ==
    \A r \in Runs : runCancel[r] = "withdrawn" => hostOwner # r

\* "... replay any durable cancellation intent": in a serving process every
\* cancellation still to be delivered has a thread that delivers it.
CancelIsCarried ==
    mgr = "up" => \A b \in Batches : cancel[b] = "requested" => tries[b] > 0

\* "The launch loop polls this attempt's durable `cancelling` state": an
\* attempt whose cancellation counts as delivered to its launch has one.
DeliveredIsPolled ==
    mgr = "up" => \A r \in Runs :
        launch[r] = "pre" /\ attempt[r] = "cancelling"
          /\ cancel[BatchOf[r]] = "signal_delivered" => pc[BatchOf[r]] # "idle"
=============================================================================
