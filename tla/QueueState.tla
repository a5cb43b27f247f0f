----------------------------- MODULE QueueState -----------------------------
(***************************************************************************)
(* The durable rows and the in-memory state the batch queue works on, and  *)
(* the state changes that several of its operations share.                 *)
(*                                                                         *)
(* A run (GameRun) belongs to one batch and is attempted at most once, so  *)
(* attempt, lease and dispatch reservation are functions of the run.  The  *)
(* fixed Host executes one attempt at a time.  A batch has one worker      *)
(* thread, at most one cancellation request and one recovery work item.    *)
(* QueueWorker, QueueHost and QueueCommands hold the                       *)
(* operations; BatchQueue composes them.                                   *)
(***************************************************************************)
EXTENDS Integers, FiniteSets

CONSTANTS
    Runs,          \* runs, numbered in their queue order
    Batches,       \* batches
    BatchOf,       \* BatchOf[r]: the batch run r is a frozen member of
    HostResults,   \* results a Host may report for an attempt
    MaxDeliveries, \* tries of one cancellation signal
    MaxRestarts,   \* bound: crashes of the Manager process
    Cancels,       \* bound: batches an operator may cancel
    Recancels,     \* bound: batches cancelled again while they still run
    RunCancels,    \* bound: runs an operator may cancel one by one
    Replays        \* bound: batches whose decisions are sent more than once

ASSUME RunsAssumption == Runs \subseteq Nat \ {0}
ASSUME BatchOfAssumption == BatchOf \in [Runs -> Batches]
ASSUME ResultsAssumption ==
    HostResults \subseteq
        {"completed", "blocked", "human_required", "cancelled", "failed"}
ASSUME BoundsAssumption ==
    /\ MaxDeliveries \in Nat \ {0}
    /\ MaxRestarts \in Nat
    /\ Cancels \subseteq Batches /\ Recancels \subseteq Cancels
    /\ RunCancels \subseteq Runs /\ Replays \subseteq Batches

VARIABLES
    attempt,    \* attempt[r]: state of the run-attempt row
    launch,     \* launch[r]: none, pre (Manager launches the game), host
    lease,      \* lease[r]: controller lease of the attempt
    dispatch,   \* dispatch[r]: dispatch reservation of the attempt
    member,     \* member[r]: batch membership row
    outcome,    \* outcome[r]: terminal outcome of the membership
    run,        \* run[r]: state of the GameRun row
    parked,     \* runs whose human gate was parked
    recovered,  \* runs whose attempt input recovery took away from the Host
    humanGate,  \* runs with an active human_required Todo blocker
    runCancel,  \* runCancel[r]: what became of the run's own cancellation
    batch,      \* batch[b]: state of the batch row, until it is sealed
    seal,       \* seal[b]: open, or how the batch was sealed
    recovery,   \* recovery[b]: status of recoveryPhase / completionReviewPhase
    workItem,   \* workItem[b]: an open recovery work item exists
    decided,    \* decided[b]: decisions on it whose resolution may (still) run
    resolving,  \* resolving[b]: what resolutions half way through have read
    cancel,     \* cancel[b]: durable cancellation request
    tries,      \* tries[b]: delivery thread; 0 when there is none
    undelivered,\* undelivered[b]: runs it has not signalled yet
    sealing,    \* batches acknowledged and about to be sealed
    quarantine, \* none, held, or drainable by this process
    hostOwner,  \* run whose attempt the Host owns, or Nobody
    hostPhase,  \* what the Host and its watcher thread are doing
    signalled,  \* the running Host process was told to stop
    hostResult, \* result of the Host process, once it ended
    reported,   \* runs whose completion callback reached the worker
    pc,         \* pc[b]: where the batch worker thread is
    cur,        \* cur[b]: run the worker is busy with, or Nobody
    todo,       \* todo[b]: runs of the worker's list still ahead of it
    intent,     \* intent[b]: state the worker has read or decided to write
    resumed,    \* batches whose worker was started to resume them
    mgr,        \* the Manager process
    unrecovered,\* batches startup has yet to recover
    restarts    \* crashes so far

attemptVars == <<attempt, launch, lease, dispatch>>
memberVars  == <<member, outcome>>
runVars     == <<run, parked, recovered, humanGate, runCancel>>
decisionVars == <<decided, resolving>>
batchVars   == <<batch, seal, recovery, workItem, decisionVars>>
cancelVars  == <<cancel, tries, undelivered, sealing>>
hostVars    == <<hostOwner, hostPhase, signalled, hostResult, reported>>
workerVars  == <<pc, cur, todo, intent, resumed>>
managerVars == <<mgr, unrecovered, restarts>>
vars == <<attemptVars, memberVars, runVars, batchVars, cancelVars,
          quarantine, hostVars, workerVars, managerVars>>

Nobody == 0
Owners == Runs \cup {Nobody}

Live  == {"starting", "running", "cancelling"}
Ended == {"completed", "blocked", "human_required", "cancelled", "failed",
          "review_required"}
RunStates == {"queued", "running", "cancelling", "cancelled",
              "review_required", "human_required", "failed", "blocked", "done"}
MemberStates == {"queued", "resume_pending", "active",
                 "reconciliation_required", "terminal", "cancelled"}
Outcomes == Ended \cup {"none", "not_started_start_failed",
                        "not_started_desktop_quarantine"}
BatchStates == {"absent", "queued", "running", "cancelling",
                "review_required", "human_required"}
RecoveryStates == {"none", "awaiting_reconciliation",
                   "reconciliation_required", "ready_for_resume",
                   "resume_dispatch_pending", "resuming", "completion_review"}
ActiveCancel == {"requested", "signal_delivered", "reconciliation_required",
                 "acknowledged"}
HostPhases == {"idle", "running", "reporting", "committed", "settled",
               "retained"}
Places == {"idle", "start", "begin", "pick", "dispatch", "prepare", "failrun",
           "claim", "mark", "markrun", "launch", "launchrun", "start_host",
           "handoff", "record", "reread", "setrun", "wait", "grace", "fence",
           "preserve", "drain", "abort_run", "abort_lease", "abort_member",
           "gate", "stop", "finish", "conclude"}

TypeOK ==
    /\ attempt \in [Runs -> {"none"} \cup Live \cup Ended]
    /\ launch \in [Runs -> {"none", "pre", "host"}]
    /\ lease \in [Runs -> {"none", "active", "ended"}]
    /\ dispatch \in [Runs -> {"none", "reserved", "claimed"}]
    /\ member \in [Runs -> MemberStates]
    /\ outcome \in [Runs -> Outcomes]
    /\ run \in [Runs -> RunStates]
    /\ parked \subseteq Runs /\ recovered \subseteq Runs
    /\ humanGate \subseteq Runs
    /\ runCancel \in [Runs ->
          {"none", "withdrawn", "accepted", "delivered", "failed"}]
    /\ batch \in [Batches -> BatchStates]
    /\ seal \in [Batches -> {"open", "cancelled", "reviewed"}]
    /\ recovery \in [Batches -> RecoveryStates]
    /\ workItem \in [Batches -> BOOLEAN]
    /\ decided \in [Batches -> SUBSET {"accepted", "rejected"}]
    /\ resolving \in [Batches -> SUBSET {"cancelled", "uncancelled"}]
    /\ cancel \in [Batches -> {"none", "sealed"} \cup ActiveCancel]
    /\ tries \in [Batches -> 0 .. MaxDeliveries + 1]
    /\ undelivered \in [Batches -> SUBSET Runs]
    /\ sealing \subseteq Batches
    /\ quarantine \in {"none", "held", "drainable"}
    /\ hostOwner \in Owners
    /\ hostPhase \in HostPhases
    /\ signalled \in BOOLEAN
    /\ hostResult \in HostResults \cup {"none"}
    /\ reported \subseteq Runs
    /\ pc \in [Batches -> Places]
    /\ cur \in [Batches -> Owners]
    /\ todo \in [Batches -> SUBSET Runs]
    /\ intent \in [Batches -> {"none", "running", "cancelling", "cancelled",
                               "human_required"}]
    /\ resumed \subseteq Batches
    /\ mgr \in {"up", "revoke", "recover", "failed"}
    /\ unrecovered \subseteq Batches
    /\ restarts \in 0 .. MaxRestarts

Init ==
    /\ attempt = [r \in Runs |-> "none"] /\ launch = [r \in Runs |-> "none"]
    /\ lease = [r \in Runs |-> "none"]   /\ dispatch = [r \in Runs |-> "none"]
    /\ member = [r \in Runs |-> "queued"]
    /\ outcome = [r \in Runs |-> "none"]
    /\ run = [r \in Runs |-> "queued"]
    /\ parked = {} /\ recovered = {} /\ humanGate = {}
    /\ runCancel = [r \in Runs |-> "none"]
    /\ batch = [b \in Batches |-> "absent"]
    /\ seal = [b \in Batches |-> "open"]
    /\ recovery = [b \in Batches |-> "none"]
    /\ workItem = [b \in Batches |-> FALSE]
    /\ decided = [b \in Batches |-> {}] /\ resolving = [b \in Batches |-> {}]
    /\ cancel = [b \in Batches |-> "none"]
    /\ tries = [b \in Batches |-> 0]
    /\ undelivered = [b \in Batches |-> {}]
    /\ sealing = {}
    /\ quarantine = "none"
    /\ hostOwner = Nobody /\ hostPhase = "idle" /\ signalled = FALSE
    /\ hostResult = "none" /\ reported = {}
    /\ pc = [b \in Batches |-> "idle"]
    /\ cur = [b \in Batches |-> Nobody]
    /\ todo = [b \in Batches |-> {}]
    /\ intent = [b \in Batches |-> "none"] /\ resumed = {}
    /\ mgr = "up" /\ unrecovered = {} /\ restarts = 0

-----------------------------------------------------------------------------
Members(b) == {r \in Runs : BatchOf[r] = b}

\* Mutant of LiveIn: an attempt being cancelled counts as over.
NotYetCancelled(b) ==
    {r \in Members(b) : attempt[r] \in {"starting", "running"}}

\* _active_run_attempts_for_batch
LiveIn(b) == {r \in Members(b) : attempt[r] \in Live}

\* Runs that hold an active lease of the desktop.
LeaseHolders == {r \in Runs : lease[r] = "active"}

Open(b) == seal[b] = "open"

\* Mutant of CancelActive: a delivered request is forgotten.
CancelRequested(b) == cancel[b] = "requested"

\* get_active_batch_cancel_request
CancelActive(b) == cancel[b] \in ActiveCancel

\* Mutant of HandoffHeld: the handoff takes no lock.
NoHandoffLock == FALSE

\* The handoff lock is held from the last cancel check to the recorded pid.
HandoffHeld == \E b \in Batches : pc[b] \in {"handoff", "record"}

\* _classify: the reservation still authorises this attempt to go on.
Authorised(r, d) ==
    LET b == BatchOf[r]
    IN  /\ dispatch[r] = d
        /\ run[r] \in {"queued", "running"}
        /\ attempt[r] \in Live
        /\ LeaseHolders = {r}
        /\ member[r] = "active"
        /\ batch[b] \in {"queued", "running"}
        /\ Open(b) /\ ~CancelActive(b)

\* _terminal_game_cleanup_gate, run inside the transaction that ends the
\* attempt: the outcome a human or a cancellation dictates, or "none".
Control(r) ==
    LET b == BatchOf[r]
    IN  IF quarantine # "none" \/ r \in recovered THEN "cancelled"
        ELSE IF run[r] = "human_required" \/ attempt[r] = "human_required"
                \/ r \in humanGate THEN "human_required"
        ELSE IF attempt[r] \notin {"starting", "running"}
                \/ run[r] \in {"cancelling", "cancelled"}
                \/ ~Open(b) \/ CancelActive(b)
                \/ member[r] # "active" THEN "cancelled"
        ELSE "none"

\* Mutant of Asked: asking ends the attempt.
AskedEnds(r) == IF attempt[r] \in {"starting", "running"} THEN "cancelled"
                ELSE attempt[r]

\* The row of an attempt that is asked to stop.
Asked(r) == IF attempt[r] \in {"starting", "running"} THEN "cancelling"
            ELSE attempt[r]

\* Mutants of EndLeases: the row is not written; the row is cleared.
ForgetLeases(S) == lease' = lease
ClearLeases(S) ==
    lease' = [r \in Runs |->
                IF r \in S /\ lease[r] = "active" THEN "none" ELSE lease[r]]

\* _end_controller_lease: a no-op unless the lease is active.
EndLeases(S) ==
    lease' = [r \in Runs |->
                IF r \in S /\ lease[r] = "active" THEN "ended" ELSE lease[r]]

\* _terminalize_unsealed_batch_memberships
Terminalizable(r) ==
    /\ Open(BatchOf[r])
    /\ member[r] \in {"active", "resume_pending", "reconciliation_required"}

Terminalize(r, result) ==
    /\ member' = IF Terminalizable(r)
                 THEN [member EXCEPT ![r] = "terminal"] ELSE member
    /\ outcome' = IF Terminalizable(r)
                  THEN [outcome EXCEPT ![r] = result] ELSE outcome

-----------------------------------------------------------------------------
\* _fence_batch_for_reconciliation: one transaction, no-op once sealed.
Fence(b, affected) ==
    IF ~Open(b)
    THEN UNCHANGED <<member, run, workItem, cancel, batch, recovery>>
    ELSE /\ member' = [r \in Runs |->
               IF r \in affected /\ member[r] \notin {"terminal", "cancelled"}
               THEN "reconciliation_required" ELSE member[r]]
         /\ run' = [r \in Runs |->
               IF r \in affected /\ run[r] \notin {"done", "cancelled"}
               THEN "review_required" ELSE run[r]]
         /\ workItem' = [workItem EXCEPT ![b] = TRUE]
         /\ cancel' = IF cancel[b] \in ActiveCancel \ {"acknowledged"}
                      THEN [cancel EXCEPT ![b] = "reconciliation_required"]
                      ELSE cancel
         /\ batch' = [batch EXCEPT ![b] = "review_required"]
         /\ recovery' = [recovery EXCEPT ![b] = "awaiting_reconciliation"]

\* First half of _seal_cancelled_batch: the transaction that ends every
\* membership, given the rows m, o and s of members and runs it starts from.
AcknowledgeSeal(b, m, o, s) ==
    LET ran == {r \in Members(b) : m[r] = "active" /\ attempt[r] # "none"}
        never == {r \in Members(b) \ ran : m[r] \notin {"terminal", "cancelled"}}
    IN  /\ member' = [r \in Runs |-> IF r \in ran THEN "terminal"
                                    ELSE IF r \in never THEN "cancelled"
                                    ELSE m[r]]
        /\ outcome' = [r \in Runs |-> IF r \in ran THEN attempt[r]
                                     ELSE IF r \in never THEN "cancelled"
                                     ELSE o[r]]
        /\ run' = [r \in Runs |-> IF r \in Members(b) /\ s[r] = "queued"
                                 THEN "cancelled" ELSE s[r]]
=============================================================================
