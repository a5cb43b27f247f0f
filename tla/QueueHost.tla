------------------------------ MODULE QueueHost -----------------------------
(***************************************************************************)
(* The fixed Adapter Host as the Manager sees it: the process that runs an *)
(* attempt, its watcher thread, and the callback that commits the result   *)
(* and then hands the Host over to the next dispatch.                      *)
(***************************************************************************)
EXTENDS QueueState

KeepBatches == UNCHANGED <<batchVars, cancelVars, quarantine, workerVars>>
KeepOwner   == UNCHANGED <<hostOwner, signalled, hostResult, reported>>

\* The process ends with a result; a stop request need not have won.
HostExit ==
    /\ hostPhase = "running"
    /\ hostPhase' = "reporting"
    /\ hostResult' \in HostResults
    /\ UNCHANGED <<hostOwner, signalled, reported, attemptVars, memberVars,
                   runVars>>
    /\ KeepBatches

\* The process ends but its tree cannot be proven gone: no callback.
HostLost ==
    /\ hostPhase = "running"
    /\ hostPhase' = "retained"
    /\ KeepOwner /\ KeepBatches
    /\ UNCHANGED <<attemptVars, memberVars, runVars>>

\* A todo_terminal event asks for a human: the blocker stays and the lease
\* is revoked while the process runs on.
HumanEvent ==
    /\ hostPhase = "running" /\ hostOwner \notin humanGate
    /\ hostOwner \notin recovered /\ attempt[hostOwner] \in Live
    /\ humanGate' = humanGate \cup {hostOwner}
    /\ EndLeases({hostOwner})
    /\ UNCHANGED <<hostVars, attempt, launch, dispatch, memberVars, run,
                   parked, recovered, runCancel>>
    /\ KeepBatches

-----------------------------------------------------------------------------
RunStateOf(result) == IF result = "completed" THEN "review_required" ELSE result

\* Mutant of FinalState: what the Host reports is what is recorded.
ReportedState(r, result) == result

FinalState(r, result) == IF Control(r) = "none" THEN result ELSE Control(r)

\* Mutant of Finishing: a callback that input recovery overtook goes on.
FinishingLate(r) == TRUE

\* The callback may still end the attempt.
Finishing(r) == r \notin recovered /\ attempt[r] \in Live

\* _finish_adapter_result: attempt, run, lease and membership end together.
FinishCommit ==
    LET r == hostOwner
        end == FinalState(r, hostResult)
    IN  /\ hostPhase = "reporting" /\ Finishing(r)
        /\ attempt' = [attempt EXCEPT ![r] = end]
        /\ run' = [run EXCEPT ![r] = RunStateOf(end)]
        /\ EndLeases({r})
        /\ Terminalize(r, end)
        /\ hostPhase' = "committed"
        /\ KeepOwner /\ KeepBatches
        /\ UNCHANGED <<launch, dispatch, parked, recovered, humanGate,
                       runCancel>>

\* The commit, or what follows it, raises: the failure itself is recorded.
FinishFail ==
    LET r == hostOwner
    IN  /\ \/ hostPhase = "reporting" /\ Finishing(r)
           \/ hostPhase = "committed"
        /\ attempt' = IF attempt[r] \in Live
                      THEN [attempt EXCEPT ![r] = "failed"] ELSE attempt
        /\ run' = [run EXCEPT ![r] = "failed"]
        /\ EndLeases({r})
        /\ Terminalize(r, "failed")
        /\ hostPhase' = "settled"
        /\ KeepOwner /\ KeepBatches
        /\ UNCHANGED <<launch, dispatch, parked, recovered, humanGate,
                       runCancel>>

\* Recording the failure raises as well, or input recovery was faster: the
\* Host is never handed over.
FinishLost ==
    /\ hostPhase \in {"reporting", "committed"}
    /\ hostPhase' = "retained"
    /\ KeepOwner /\ KeepBatches
    /\ UNCHANGED <<attemptVars, memberVars, runVars>>

\* A completed result whose upstream facts are accepted is done.
Adjudicate ==
    LET r == hostOwner
    IN  /\ hostPhase = "committed" /\ attempt[r] = "completed"
        /\ run[r] = "review_required"
        /\ run' = [run EXCEPT ![r] = "done"]
        /\ UNCHANGED <<hostVars, attemptVars, memberVars, parked, recovered,
                       humanGate, runCancel>>
        /\ KeepBatches

\* The Host is freed, then the worker is told.
HandOff ==
    /\ hostPhase \in {"committed", "settled"}
    /\ reported' = reported \cup {hostOwner}
    /\ hostOwner' = Nobody /\ hostPhase' = "idle" /\ signalled' = FALSE
    /\ hostResult' = "none"
    /\ UNCHANGED <<attemptVars, memberVars, runVars>>
    /\ KeepBatches
=============================================================================
