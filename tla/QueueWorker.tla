----------------------------- MODULE QueueWorker ----------------------------
(***************************************************************************)
(* The worker thread of a batch (_run_batch and the _start_game_run it     *)
(* calls): one action for every stretch of code between two points where   *)
(* another thread can interleave, which are the commits of the store, the  *)
(* reads a later commit relies on, the execution handoff lock and the      *)
(* waits.                                                                  *)
(***************************************************************************)
EXTENDS QueueState

Goto(b, p) == pc' = [pc EXCEPT ![b] = p] /\ UNCHANGED <<cur, todo, intent, resumed>>

\* The thread returns, or dies of an exception nobody catches.
Retire(b) ==
    /\ pc' = [pc EXCEPT ![b] = "idle"]
    /\ cur' = [cur EXCEPT ![b] = Nobody]
    /\ todo' = [todo EXCEPT ![b] = {}]
    /\ intent' = [intent EXCEPT ![b] = "none"]
    /\ UNCHANGED resumed

\* The except clause of _run_batch writes FAILED over these states only.
FailRun(r) ==
    run' = IF run[r] \in {"failed", "blocked", "review_required",
                          "human_required", "cancelled"}
           THEN run ELSE [run EXCEPT ![r] = "failed"]

KeepRunFlags == UNCHANGED <<parked, recovered, humanGate, runCancel>>
KeepCancel   == UNCHANGED <<tries, undelivered>>
KeepFixed    == UNCHANGED <<seal, decisionVars>>

\* The worker finds an active cancellation and seals, or fences the batch
\* when an attempt of it may still be running.
SealFromWorker(b) ==
    /\ AcknowledgeSeal(b, member, outcome, run)
    /\ cancel' = [cancel EXCEPT ![b] = "acknowledged"]
    /\ sealing' = sealing \cup {b}
    /\ UNCHANGED <<batch, recovery, workItem>>

FenceFromWorker(b, affected) ==
    /\ Fence(b, affected)
    /\ UNCHANGED <<outcome, sealing>>

-----------------------------------------------------------------------------
\* Start of the thread: sealed, cancelled before the first dispatch, or go.
WorkerStart(b) ==
    /\ pc[b] = "start"
    /\ UNCHANGED <<attemptVars, hostVars, quarantine>>
    /\ KeepRunFlags /\ KeepCancel /\ KeepFixed
    /\ \/ /\ ~Open(b) \/ (CancelActive(b) /\ LiveIn(b) # {})
          /\ Retire(b)
          /\ UNCHANGED <<memberVars, run, batch, recovery, workItem, cancel,
                         sealing>>
       \/ /\ Open(b) /\ CancelActive(b) /\ LiveIn(b) = {}
          /\ SealFromWorker(b) /\ Retire(b)
       \/ /\ Open(b) /\ ~CancelActive(b)
          /\ Goto(b, "begin")
          /\ UNCHANGED <<memberVars, run, batch, recovery, workItem, cancel,
                         sealing>>

\* The batch is written running, with the recovery phase the worker started
\* from, whatever was written since; a sealed batch refuses, which kills the
\* thread.
WriteRunning(b) ==
    /\ IF Open(b)
       THEN /\ batch' = [batch EXCEPT ![b] = "running"]
            /\ recovery' = [recovery EXCEPT ![b] =
                              IF b \in resumed THEN "resuming" ELSE "none"]
            /\ Goto(b, IF pc[b] = "begin" THEN "pick" ELSE "prepare")
       ELSE Retire(b) /\ UNCHANGED <<batch, recovery>>
    /\ UNCHANGED <<attemptVars, memberVars, runVars, seal, workItem,
                   decisionVars, cancelVars, quarantine, hostVars>>

Begin(b) == pc[b] = "begin" /\ WriteRunning(b)

First(b) == CHOOSE r \in todo[b] : \A s \in todo[b] : r <= s

\* The loop is over, or a cancellation breaks it.
LoopEnds(b) ==
    /\ pc[b] = "pick"
    /\ todo[b] = {} \/ (Open(b) /\ CancelActive(b))
    /\ Goto(b, "finish")
    /\ UNCHANGED <<attemptVars, memberVars, runVars, batchVars, cancelVars,
                   quarantine, hostVars>>

\* skip_quarantined_member, or its refusal, which kills the thread.
SkipQuarantined(b) ==
    LET r == First(b)
    IN  /\ pc[b] = "pick" /\ todo[b] # {}
        /\ Open(b) /\ ~CancelActive(b) /\ quarantine # "none"
        /\ UNCHANGED <<attemptVars, batchVars, cancelVars, quarantine,
                       hostVars>>
        /\ KeepRunFlags
        /\ IF member[r] \in {"queued", "resume_pending"} /\ run[r] = "queued"
           THEN /\ run' = [run EXCEPT ![r] = "review_required"]
                /\ member' = [member EXCEPT ![r] = "terminal"]
                /\ outcome' = [outcome EXCEPT ![r] =
                                 "not_started_desktop_quarantine"]
                /\ todo' = [todo EXCEPT ![b] = @ \ {r}]
                /\ UNCHANGED <<pc, cur, intent, resumed>>
           ELSE Retire(b) /\ UNCHANGED <<memberVars, run>>

\* The next run of the list; a member outside its committed state fences.
Pick(b) ==
    LET r == First(b)
    IN  /\ pc[b] = "pick" /\ todo[b] # {}
        /\ UNCHANGED <<attemptVars, hostVars, quarantine, outcome, sealing>>
        /\ KeepRunFlags /\ KeepCancel /\ KeepFixed
        /\ \/ /\ ~Open(b)
              /\ Retire(b)
              /\ UNCHANGED <<member, run, batch, recovery, workItem, cancel>>
           \/ /\ Open(b) /\ ~CancelActive(b) /\ quarantine = "none"
              /\ member[r] \notin {"queued", "resume_pending"}
              /\ Fence(b, {r}) /\ Retire(b)
           \/ /\ Open(b) /\ ~CancelActive(b) /\ quarantine = "none"
              /\ member[r] \in {"queued", "resume_pending"}
              /\ cur' = [cur EXCEPT ![b] = r]
              /\ todo' = [todo EXCEPT ![b] = @ \ {r}]
              /\ pc' = [pc EXCEPT ![b] = "dispatch"]
              /\ UNCHANGED <<member, run, batch, recovery, workItem, cancel,
                             intent, resumed>>

Dispatch(b) == pc[b] = "dispatch" /\ WriteRunning(b)

-----------------------------------------------------------------------------
\* Mutant of DesktopReleased: the quarantine is only looked at by Pick.
QuarantineIgnored == TRUE

\* require_desktop_available
DesktopReleased == quarantine = "none"

\* Mutant of DesktopFree: an active lease of another attempt is overlooked.
LeaseIgnored == TRUE

\* The row lock create_controller_lease stands on.
DesktopFree == LeaseHolders = {}

\* _prepare_run_attempt: attempt, lease, membership and reservation in one
\* transaction.
Prepare(b) ==
    LET r == cur[b]
    IN  /\ pc[b] = "prepare"
        /\ DesktopReleased /\ run[r] # "cancelled" /\ DesktopFree
        /\ attempt' = [attempt EXCEPT ![r] = "starting"]
        /\ lease' = [lease EXCEPT ![r] = "active"]
        /\ dispatch' = [dispatch EXCEPT ![r] = "reserved"]
        /\ member' = IF Open(b) /\ member[r] \notin {"terminal", "cancelled"}
                     THEN [member EXCEPT ![r] = "active"] ELSE member
        /\ Goto(b, "claim")
        /\ UNCHANGED <<launch, outcome, runVars, batchVars, cancelVars,
                       quarantine, hostVars>>

\* The profile and the binding of the game are validated before any attempt of the
\* run exists; whatever refuses them leaves a cancelled run as it is.
MayBeRefused(r) == run[r] # "cancelled"

\* Nothing was prepared: the desktop is quarantined, the run was cancelled,
\* the lease is taken, or the run's configuration is refused.
PrepareFails(b) ==
    LET r == cur[b]
        wait == ~DesktopReleased \/ run[r] = "cancelled"
    IN  /\ pc[b] = "prepare"
        /\ IF Open(b) /\ member[r] \in {"queued", "resume_pending"}
           THEN /\ member' = [member EXCEPT ![r] = "terminal"]
                /\ outcome' = [outcome EXCEPT ![r] = "not_started_start_failed"]
           ELSE UNCHANGED memberVars
        /\ \/ wait /\ Goto(b, "gate")
           \/ MayBeRefused(r) /\ Goto(b, "failrun")
        /\ UNCHANGED <<attemptVars, runVars, batchVars, cancelVars, quarantine,
                       hostVars>>

\* The run that could not start is written failed in a commit of its own.
FailUnstarted(b) ==
    /\ pc[b] = "failrun"
    /\ FailRun(cur[b])
    /\ Goto(b, "gate")
    /\ KeepRunFlags
    /\ UNCHANGED <<attemptVars, memberVars, batchVars, cancelVars, quarantine,
                   hostVars>>

\* dispatch_reservation.claim_start; a rejection leaves everything as it is.
Claim(b) ==
    LET r == cur[b]
        ok == /\ hostPhase = "idle" /\ Authorised(r, "reserved")
              /\ attempt[r] = "starting"
    IN  /\ pc[b] = "claim"
        /\ dispatch' = IF ok THEN [dispatch EXCEPT ![r] = "claimed"]
                       ELSE dispatch
        /\ Goto(b, IF ok THEN "mark" ELSE "gate")
        /\ UNCHANGED <<attempt, launch, lease, memberVars, runVars, batchVars,
                       cancelVars, quarantine, hostVars>>

\* The attempt is written running; the store refuses that to an attempt
\* which is being cancelled, and _run_batch records the error.
Mark(b) ==
    LET r == cur[b]
        ok == attempt[r] \in {"starting", "running"}
    IN  /\ pc[b] = "mark"
        /\ attempt' = IF ok THEN [attempt EXCEPT ![r] = "running"] ELSE attempt
        /\ launch' = IF ok THEN [launch EXCEPT ![r] = "pre"] ELSE launch
        /\ IF ok THEN UNCHANGED run ELSE FailRun(r)
        /\ Goto(b, IF ok THEN "markrun" ELSE "gate")
        /\ KeepRunFlags
        /\ UNCHANGED <<lease, dispatch, memberVars, batchVars, cancelVars,
                       quarantine, hostVars>>

\* The run is written running in a commit of its own, whatever it was.
MarkRun(b) ==
    /\ pc[b] \in {"markrun", "launchrun"}
    /\ run' = [run EXCEPT ![cur[b]] = "running"]
    /\ Goto(b, IF pc[b] = "markrun" THEN "launch" ELSE "start_host")
    /\ KeepRunFlags
    /\ UNCHANGED <<attemptVars, memberVars, batchVars, cancelVars,
                   quarantine, hostVars>>

-----------------------------------------------------------------------------
\* The one transaction that ends a failed start, keeping the outcome a
\* human or a cancellation has imposed meanwhile.
FailStart(b) ==
    LET r == cur[b]
        end == IF Control(r) = "none" THEN "failed" ELSE Control(r)
    IN  /\ attempt' = IF attempt[r] \in Live
                      THEN [attempt EXCEPT ![r] = end] ELSE attempt
        /\ run' = [run EXCEPT ![r] = end]
        /\ EndLeases({r})
        /\ Terminalize(r, end)
        /\ Goto(b, "gate")
        /\ KeepRunFlags
        /\ UNCHANGED <<launch, dispatch, batchVars, cancelVars, quarantine,
                       hostVars>>

\* The second write of the running attempt, inside the guarded launch.
Launch(b) ==
    LET r == cur[b]
    IN  /\ pc[b] = "launch"
        /\ IF attempt[r] \in {"starting", "running"}
           THEN /\ Goto(b, "launchrun")
                /\ UNCHANGED <<attemptVars, memberVars, runVars, batchVars,
                               cancelVars, quarantine, hostVars>>
           ELSE FailStart(b)

\* An aborted launch writes attempt, run, lease and membership in four
\* commits: cancelled, or human_required when the launcher asks for a human.
Abort(b) ==
    LET r == cur[b]
    IN  /\ pc[b] = "start_host"
        /\ \E end \in {"cancelled", "human_required"} :
              /\ end = "cancelled" =>
                    attempt[r] \notin {"starting", "running"}
                    \/ ~Authorised(r, "claimed")
              /\ end = "human_required" => attempt[r] \in {"starting", "running"}
              /\ attempt' = IF attempt[r] \in Live
                            THEN [attempt EXCEPT ![r] = end] ELSE attempt
              /\ intent' = [intent EXCEPT ![b] = end]
        /\ pc' = [pc EXCEPT ![b] = "abort_run"]
        /\ UNCHANGED <<launch, lease, dispatch, memberVars, runVars, batchVars,
                       cancelVars, quarantine, hostVars, cur, todo, resumed>>

AbortRun(b) ==
    /\ pc[b] = "abort_run"
    /\ run' = [run EXCEPT ![cur[b]] = intent[b]]
    /\ Goto(b, "abort_lease")
    /\ KeepRunFlags
    /\ UNCHANGED <<attemptVars, memberVars, batchVars, cancelVars, quarantine,
                   hostVars>>

AbortLease(b) ==
    /\ pc[b] = "abort_lease"
    /\ EndLeases({cur[b]})
    /\ Goto(b, "abort_member")
    /\ UNCHANGED <<attempt, launch, dispatch, memberVars, runVars, batchVars,
                   cancelVars, quarantine, hostVars>>

AbortMember(b) ==
    /\ pc[b] = "abort_member"
    /\ Terminalize(cur[b], intent[b])
    /\ pc' = [pc EXCEPT ![b] = "gate"]
    /\ intent' = [intent EXCEPT ![b] = "none"]
    /\ UNCHANGED <<attemptVars, runVars, batchVars, cancelVars, quarantine,
                   hostVars, cur, todo,
                       resumed>>

\* The game launcher fails before the Adapter Host is asked.
LauncherFails(b) == pc[b] = "start_host" /\ FailStart(b)

\* The handoff lock is taken and the last cancel check and validate_start
\* pass; the Host process is spawned under the lock.
TakeHandoff(b) ==
    LET r == cur[b]
    IN  /\ pc[b] = "start_host" /\ ~HandoffHeld
        /\ Authorised(r, "claimed") /\ attempt[r] \in {"starting", "running"}
        /\ Goto(b, "handoff")
        /\ UNCHANGED <<attemptVars, memberVars, runVars, batchVars,
                       cancelVars, quarantine, hostVars>>

\* AdapterHost.execute starts the process, or keeps a process it cannot
\* confirm as the owner of the Host.
Spawn(b) ==
    /\ pc[b] = "handoff" /\ hostPhase = "idle"
    /\ hostOwner' = cur[b]
    /\ signalled' = FALSE
    /\ hostResult' = "none"
    /\ \/ hostPhase' = "running" /\ Goto(b, "record")
       \/ hostPhase' = "retained" /\ Goto(b, "preserve")
    /\ UNCHANGED <<attemptVars, memberVars, runVars, batchVars, cancelVars,
                   quarantine, reported>>

\* The Host is busy or the process cannot be created.
SpawnFails(b) == pc[b] = "handoff" /\ FailStart(b)

\* The pid is recorded and the handoff lock released.
Record(b) ==
    LET r == cur[b]
    IN  /\ pc[b] = "record"
        /\ launch' = IF attempt[r] \in Live
                     THEN [launch EXCEPT ![r] = "host"] ELSE launch
        /\ Goto(b, "reread")
        /\ UNCHANGED <<attempt, lease, dispatch, memberVars, runVars,
                       batchVars, cancelVars, quarantine, hostVars>>

\* The attempt is read again ...
Reread(b) ==
    LET r == cur[b]
    IN  /\ pc[b] = "reread"
        /\ pc' = [pc EXCEPT ![b] =
                    IF attempt[r] \in Live THEN "setrun" ELSE "wait"]
        /\ intent' = [intent EXCEPT ![b] =
                    IF attempt[r] \notin Live THEN "none"
                    ELSE IF attempt[r] = "cancelling" THEN "cancelling"
                    ELSE "running"]
        /\ UNCHANGED <<attemptVars, memberVars, runVars, batchVars,
                       cancelVars, quarantine, hostVars, cur, todo, resumed>>

\* ... and the run follows what was read.
SetRun(b) ==
    /\ pc[b] = "setrun"
    /\ run' = [run EXCEPT ![cur[b]] = intent[b]]
    /\ pc' = [pc EXCEPT ![b] = "wait"]
    /\ intent' = [intent EXCEPT ![b] = "none"]
    /\ KeepRunFlags
    /\ UNCHANGED <<attemptVars, memberVars, batchVars, cancelVars,
                   quarantine, hostVars, cur, todo, resumed>>
=============================================================================
