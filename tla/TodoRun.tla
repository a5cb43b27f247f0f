------------------------------- MODULE TodoRun -------------------------------
(* What one execution attempt promises the Todo ledger: a Todo starts at     *)
(* most once and is settled at most once, nothing is started or settled      *)
(* behind a Todo that waits for a human, and the outcome that is believed    *)
(* agrees with the Todos it is about.                                        *)
EXTENDS Naturals

CONSTANT Todos

VARIABLES
    phase,      \* [1..Todos -> "idle", "running" or how the Todo was settled]
    outcome     \* "open", "void" (not believed) or what is believed of the run

Settled == {"completed", "human_required", "failed"}

Init == phase = [t \in 1 .. Todos |-> "idle"] /\ outcome = "open"

Gate(t) == \A u \in 1 .. Todos : u < t => phase[u] # "human_required"

Start(t) == phase[t] = "idle" /\ Gate(t) /\ phase' = [phase EXCEPT ![t] = "running"]

Settle(t, r) == phase[t] = "running" /\ Gate(t) /\ phase' = [phase EXCEPT ![t] = r]

Close ==
    /\ UNCHANGED phase
    /\ outcome' \in Settled \cup {"void"}
    /\ outcome' = "completed" => \A t \in 1 .. Todos : phase[t] = "completed"
    /\ (\E t \in 1 .. Todos : phase[t] = "human_required")
            => outcome' \in {"human_required", "void"}

Next ==
    /\ outcome = "open"
    /\ \/ Close
       \/ outcome' = outcome /\ \E t \in 1 .. Todos : Start(t) \/ \E r \in Settled : Settle(t, r)

Spec == Init /\ [][Next]_<<phase, outcome>>
=============================================================================
