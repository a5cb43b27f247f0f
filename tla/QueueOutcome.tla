---------------------------- MODULE QueueOutcome ----------------------------
(***************************************************************************)
(* The second half of the worker thread: waiting for the completion        *)
(* callback, the timeout and input recovery, parking a human gate, and the *)
(* end of the batch.                                                       *)
(***************************************************************************)
EXTENDS QueueWorker

\* The callback arrived in time, or within the grace period.
Collect(b) ==
    /\ pc[b] \in {"wait", "grace"} /\ cur[b] \in reported
    /\ Goto(b, "gate")
    /\ UNCHANGED <<attemptVars, memberVars, runVars, batchVars, cancelVars,
                   quarantine, hostVars>>

\* Mutant of WaitExpired: the wait has no end once the Host process is gone.
WaitExpiredOnHost(b) ==
    pc[b] = "wait" /\ cur[b] \notin reported /\ hostPhase = "running"

WaitExpired(b) == pc[b] = "wait" /\ cur[b] \notin reported

\* The wait expires: the Host is told to stop, which may fail, and the
\* attempt is written cancelling.
Timeout(b) ==
    LET r == cur[b]
        ask == attempt[r] \in {"starting", "running"}
    IN  /\ WaitExpired(b)
        /\ attempt' = [attempt EXCEPT ![r] = Asked(r)]
        /\ signalled' \in {signalled,
               signalled \/ (ask /\ hostOwner = r /\ hostPhase = "running")}
        /\ Goto(b, "grace")
        /\ UNCHANGED <<launch, lease, dispatch, memberVars, runVars, batchVars,
                       cancelVars, quarantine, hostOwner, hostPhase,
                       hostResult, reported>>

\* recover_attempt commits: the attempt is taken from its Host without
\* success and the desktop is quarantined.  Only this process can drain the
\* Host later, and only when it validated what the Host owns.
Recoverable(r) ==
    /\ Authorised(r, "claimed") /\ r \notin recovered /\ quarantine = "none"

Recover(b) ==
    LET r == cur[b]
    IN  /\ pc[b] \in {"grace", "preserve"} /\ r \notin reported
        /\ Recoverable(r)
        /\ attempt' = [attempt EXCEPT ![r] = "review_required"]
        /\ run' = [run EXCEPT ![r] = "review_required"]
        /\ EndLeases({r})
        /\ member' = [member EXCEPT ![r] = "terminal"]
        /\ outcome' = [outcome EXCEPT ![r] = "review_required"]
        /\ recovered' = recovered \cup {r}
        /\ \/ quarantine' = "held"
           \/ quarantine' = "drainable" /\ hostOwner = r
        /\ Goto(b, "drain")
        /\ UNCHANGED <<launch, dispatch, parked, humanGate, runCancel,
                       batchVars, cancelVars, hostVars>>

\* Mutant of MayRun: an attempt asked to stop is taken to have stopped.
MayRunUnasked(r) == attempt[r] \in {"starting", "running"}

MayRun(r) == attempt[r] \in Live

\* Recovery refuses, and the attempt is read once more ...
GiveUp(b) ==
    LET r == cur[b]
    IN  /\ pc[b] = "grace" /\ r \notin reported /\ ~Recoverable(r)
        /\ Goto(b, IF MayRun(r) THEN "fence" ELSE "gate")
        /\ UNCHANGED <<attemptVars, memberVars, runVars, batchVars, cancelVars,
                       quarantine, hostVars>>

\* ... and one that may still run fences the batch, even if its callback
\* has committed a result since.
FenceUnknown(b) ==
    /\ pc[b] = "fence"
    /\ FenceFromWorker(b, {cur[b]}) /\ Retire(b)
    /\ KeepRunFlags /\ KeepCancel /\ KeepFixed
    /\ UNCHANGED <<attemptVars, hostVars, quarantine>>

\* A Host owner that cannot be reconciled forbids the next dispatch.
RefuseOwner(b) ==
    /\ pc[b] = "preserve" /\ ~Recoverable(cur[b])
    /\ Retire(b)
    /\ UNCHANGED <<attemptVars, memberVars, runVars, batchVars, cancelVars,
                   quarantine, hostVars>>

\* retry_committed_recovery: the owned Host is proven drained and let go.
ReleaseQuarantine ==
    /\ quarantine = "drainable" /\ hostOwner \in recovered
    /\ LeaseHolders = {}
    /\ \E b \in Batches : pc[b] \in {"drain", "prepare"}
    /\ LET r == hostOwner
           b == BatchOf[hostOwner]
       IN  /\ Open(b) /\ ~CancelActive(b)
           /\ batch[b] \in {"queued", "running", "review_required"}
           /\ run[r] = "review_required" /\ member[r] = "terminal"
    /\ hostOwner' = Nobody /\ hostPhase' = "idle" /\ signalled' = FALSE
    /\ hostResult' = "none"
    /\ quarantine' = "none"
    /\ UNCHANGED <<reported, attemptVars, memberVars, runVars, batchVars,
                   cancelVars, workerVars>>

\* Recovered: the list goes on, whether or not the quarantine was released.
AfterRecovery(b) ==
    /\ pc[b] = "drain"
    /\ pc' = [pc EXCEPT ![b] = "pick"]
    /\ cur' = [cur EXCEPT ![b] = Nobody]
    /\ UNCHANGED <<attemptVars, memberVars, runVars, batchVars, cancelVars,
                   quarantine, hostVars, todo, intent, resumed>>

-----------------------------------------------------------------------------
\* park_human_gate: after its budget the gate yields the desktop.
Parkable(r) ==
    LET b == BatchOf[r]
    IN  /\ attempt[r] = "human_required" /\ run[r] = "human_required"
        /\ Open(b) /\ ~CancelActive(b)
        /\ member[r] \in {"active", "terminal"}
        /\ LeaseHolders \subseteq {r} /\ hostPhase = "idle"

Park(b) ==
    LET r == cur[b]
    IN  /\ pc[b] = "gate" /\ Parkable(r)
        /\ EndLeases({r})
        /\ run' = [run EXCEPT ![r] = "review_required"]
        /\ member' = [member EXCEPT ![r] = "terminal"]
        /\ outcome' = [outcome EXCEPT ![r] = "review_required"]
        /\ parked' = parked \cup {r}
        /\ pc' = [pc EXCEPT ![b] = "pick"]
        /\ cur' = [cur EXCEPT ![b] = Nobody]
        /\ UNCHANGED <<attempt, launch, dispatch, recovered, humanGate,
                       runCancel, batchVars, cancelVars, quarantine, hostVars,
                       todo, intent, resumed>>

\* The gate cannot be parked: the batch stops with later members queued.
StopAtGate(b) ==
    LET r == cur[b]
    IN  /\ pc[b] = "gate" /\ run[r] = "human_required" /\ ~Parkable(r)
        /\ ~CancelActive(b)
        /\ Goto(b, "stop")
        /\ UNCHANGED <<attemptVars, memberVars, runVars, batchVars, cancelVars,
                       quarantine, hostVars>>

Stop(b) ==
    /\ pc[b] = "stop"
    /\ IF Open(b)
       THEN /\ batch' = [batch EXCEPT ![b] = "human_required"]
            /\ recovery' = [recovery EXCEPT ![b] = "ready_for_resume"]
       ELSE UNCHANGED <<batch, recovery>>
    /\ Retire(b)
    /\ UNCHANGED <<attemptVars, memberVars, runVars, seal, workItem,
                   decisionVars, cancelVars, quarantine, hostVars>>

\* The member is dealt with; a cancellation breaks the loop.
NextMember(b) ==
    /\ pc[b] = "gate"
    /\ run[cur[b]] # "human_required" \/ CancelActive(b)
    /\ pc' = [pc EXCEPT ![b] = IF CancelActive(b) THEN "finish" ELSE "pick"]
    /\ cur' = [cur EXCEPT ![b] = Nobody]
    /\ UNCHANGED <<attemptVars, memberVars, runVars, batchVars, cancelVars,
                   quarantine, hostVars, todo, intent, resumed>>

-----------------------------------------------------------------------------
Incomplete(b) == {r \in Members(b) : member[r] \notin {"terminal", "cancelled"}}

\* Cancelled: seal, or fence what may still be running.
FinishCancelled(b) ==
    /\ pc[b] = "finish" /\ CancelActive(b)
    /\ Retire(b)
    /\ KeepRunFlags /\ KeepCancel /\ KeepFixed
    /\ UNCHANGED <<attemptVars, hostVars, quarantine>>
    /\ \/ Open(b) /\ LiveIn(b) = {} /\ SealFromWorker(b)
       \/ LiveIn(b) # {} /\ FenceFromWorker(b, LiveIn(b))

\* Not cancelled, so far.
Finish(b) ==
    /\ pc[b] = "finish" /\ ~CancelActive(b)
    /\ Goto(b, "conclude")
    /\ UNCHANGED <<attemptVars, memberVars, runVars, batchVars, cancelVars,
                   quarantine, hostVars>>

\* Stop for a resume, keep what was parked or recovered for review, or begin
\* the completion review.
Conclude(b) ==
    LET held == Members(b) \cap (parked \cup recovered)
    IN  /\ pc[b] = "conclude"
        /\ Retire(b)
        /\ IF Open(b)
           THEN /\ batch' = [batch EXCEPT ![b] = "review_required"]
                /\ recovery' = [recovery EXCEPT ![b] =
                      IF Incomplete(b) # {} \/ held # {}
                      THEN "ready_for_resume" ELSE "completion_review"]
           ELSE UNCHANGED <<batch, recovery>>
        /\ UNCHANGED <<attemptVars, memberVars, runVars, seal, workItem,
                       decisionVars, cancelVars, quarantine, hostVars>>
=============================================================================
