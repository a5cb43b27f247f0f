---------------------------- MODULE DesktopLease ----------------------------
(***************************************************************************)
(* What the controller-lease ledger promises to everything that touches    *)
(* the one interactive desktop: at most one run attempt controls it, a     *)
(* lease is granted once per attempt, and a lease that ended stays ended.  *)
(* ControllerLease (the ledger itself) and BatchQueue (the queue that      *)
(* grants and ends leases) both implement this specification.              *)
(***************************************************************************)
CONSTANT Attempts      \* identities of run attempts, each dispatched once

VARIABLE lease         \* lease[a]: "none", "active" or "ended"

Init == lease = [a \in Attempts |-> "none"]

\* The desktop is handed to an attempt nobody else competes with.
Grant(a) ==
    /\ lease[a] = "none"
    /\ \A b \in Attempts : lease[b] # "active"
    /\ lease' = [lease EXCEPT ![a] = "active"]

\* Release, revocation at the end of an attempt, or revocation at startup.
End(a) ==
    /\ lease[a] = "active"
    /\ lease' = [lease EXCEPT ![a] = "ended"]

Next == \E a \in Attempts : Grant(a) \/ End(a)

Spec == Init /\ [][Next]_lease
=============================================================================
