------------------------------ MODULE MCQueue ------------------------------
(***************************************************************************)
(* The queue on small batches.  OneSpec: a batch of one run with           *)
(* everything that may happen to it: both results of a Host, a             *)
(* cancellation of the run and of the batch, decisions that are sent       *)
(* again, a crash.  TwoSpec: two runs of one batch and one run of another. *)
(***************************************************************************)
EXTENDS BatchQueue

CONSTANTS b1, b2

OneBatch == [r \in Runs |-> b1]
TwoBatches == [r \in Runs |-> IF r = 3 THEN b2 ELSE b1]

VARIABLE subject

MCInit(parts) == subject \in parts /\ Init

(* A run that was cancelled by itself meets a decision only in a process   *)
(* that does not die, and after an ordinary result.                        *)
Apart ==
    \/ \A b \in Batches : decided'[b] = {}
    \/ \A r \in Runs : runCancel'[r] = "none"
    \/ restarts' = 0 /\ hostResult' # "human_required"

OneSpec ==
    MCInit({"one"})
      /\ [][Next /\ Apart /\ UNCHANGED subject]_<<subject, vars>>

(* Only the first batch exists, which is cancelled or whose Manager dies.  *)
Serial ==
    /\ subject = "serial"
    /\ batch'[b2] = "absent"
    /\ restarts' = 0 \/ cancel'[b1] = "none"

(* The workers of both batches compete for the desktop, nothing is         *)
(* cancelled, nobody dies and the first batch stops before its second run. *)
Competing ==
    /\ subject = "batches"
    /\ cur'[b1] # 2 /\ cancel'[b1] = "none" /\ restarts' = 0
    /\ \A b \in Batches : ~workItem[b] \/ workItem'[b]

TwoSpec ==
    MCInit({"serial", "batches"})
      /\ [][Next /\ (Serial \/ Competing) /\ UNCHANGED subject]_<<subject, vars>>

(* The one batch without restraint, and with the fairness of its threads.  *)
FreeSpec ==
    MCInit({"one"}) /\ [][Next /\ UNCHANGED subject]_<<subject, vars>>

EndsSpec == FreeSpec /\ Fairness
=============================================================================
