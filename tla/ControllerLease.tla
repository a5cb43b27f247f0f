-------------------------- MODULE ControllerLease ---------------------------
(***************************************************************************)
(* The durable ledger of controller leases (table controller_leases) and   *)
(* the two-step protocol that writes it.  A grant is proposed from an      *)
(* unlocked read of the ledger and committed in a later transaction that   *)
(* must check everything again; an end is likewise read first and          *)
(* committed later.  A Manager process may die between any two steps; the  *)
(* next one revokes what the dead process still holds before it serves.    *)
(*                                                                         *)
(* Lease expiry is absent on purpose: the code treats expires_at as an     *)
(* observation that neither ends a lease nor admits a successor.           *)
(***************************************************************************)
EXTENDS Integers, FiniteSets

CONSTANTS
    Attempts,      \* run attempts, each with an identity of its own
    MaxEpochs      \* bound: how many Manager processes are started

ASSUME MaxEpochsAssumption == MaxEpochs \in Nat \ {0}

VARIABLES
    lease,      \* lease[a]: state of the ledger row of attempt a
    gen,        \* gen[a]: generation of that row, 0 while there is none
    owner,      \* owner[a]: Manager epoch that created the row, 0 for none
    attempt,    \* attempt[a]: state of the run-attempt row
    proposal,   \* proposal[a]: generation read before the transaction, or 0
    ending,     \* ending[a]: terminal states of ends read, not yet committed
    epoch,      \* identity of the Manager process
    serving     \* FALSE until the process has revoked its predecessor

vars == <<lease, gen, owner, attempt, proposal, ending, epoch, serving>>
row  == <<lease, gen, owner>>

EndStates == {"released", "revoked"}
LeaseStates == {"none", "active"} \cup EndStates
\* Mutant of AttemptStates: the schema before restart fencing was added.
AttemptStatesWithoutReview == {"none", "live", "closed"}

\* "live" stands for starting, running or cancelling; "closed" for the
\* terminal states the attempt's own process writes.
AttemptStates == {"none", "live", "review_required", "closed"}

Active == {a \in Attempts : lease[a] = "active"}

\* Mutant of NextGeneration: counts the active leases instead of looking for
\* the highest generation of the ledger.
CountActive(g) == g = 1 + Cardinality(Active)

\* g is COALESCE(MAX(generation), 0) + 1 over the rows of the desktop.
NextGeneration(g) ==
    /\ g \in {1} \cup {gen[b] + 1 : b \in Attempts}
    /\ \A b \in Attempts : gen[b] < g

-----------------------------------------------------------------------------
TypeOK ==
    /\ lease \in [Attempts -> LeaseStates]
    /\ gen \in [Attempts -> Nat]
    /\ owner \in [Attempts -> 0 .. MaxEpochs]
    /\ attempt \in [Attempts -> AttemptStates]
    /\ proposal \in [Attempts -> Nat]
    /\ ending \in [Attempts -> SUBSET EndStates]
    /\ epoch \in 1 .. MaxEpochs
    /\ serving \in BOOLEAN

Init ==
    /\ lease = [a \in Attempts |-> "none"]
    /\ gen = [a \in Attempts |-> 0]
    /\ owner = [a \in Attempts |-> 0]
    /\ attempt = [a \in Attempts |-> "none"]
    /\ proposal = [a \in Attempts |-> 0]
    /\ ending = [a \in Attempts |-> {}]
    /\ epoch = 1
    /\ serving = FALSE

-----------------------------------------------------------------------------
\* _prepare_run_attempt reads the ledger and runs grant_controller_lease on
\* what it read, before it opens the transaction.
Propose(a) ==
    /\ serving
    /\ attempt[a] = "none"
    /\ proposal[a] = 0
    /\ Active = {}
    /\ \E g \in {1} \cup {gen[b] + 1 : b \in Attempts} :
          /\ NextGeneration(g)
          /\ proposal' = [proposal EXCEPT ![a] = g]
    /\ UNCHANGED <<lease, gen, owner, attempt, ending, epoch, serving>>

\* Mutant of Grantable: relies on what was read before the transaction.
TrustProposal(a) == TRUE

\* The checks create_controller_lease repeats under the write lock.
Grantable(a) == NextGeneration(proposal[a]) /\ Active = {}

\* create_run_attempt and create_controller_lease in one transaction.
CommitGrant(a) ==
    /\ serving
    /\ proposal[a] # 0
    /\ Grantable(a)
    /\ lease' = [lease EXCEPT ![a] = "active"]
    /\ gen' = [gen EXCEPT ![a] = proposal[a]]
    /\ owner' = [owner EXCEPT ![a] = epoch]
    /\ attempt' = [attempt EXCEPT ![a] = "live"]
    /\ proposal' = [proposal EXCEPT ![a] = 0]
    /\ UNCHANGED <<ending, epoch, serving>>

\* The transaction raises and rolls back: no attempt, no lease.
RejectGrant(a) ==
    /\ serving
    /\ proposal[a] # 0
    /\ ~Grantable(a)
    /\ proposal' = [proposal EXCEPT ![a] = 0]
    /\ UNCHANGED <<row, attempt, ending, epoch, serving>>

-----------------------------------------------------------------------------
\* _end_controller_lease finds the active row of the attempt ...
ReadEnd(a, s) ==
    /\ serving
    /\ lease[a] = "active"
    /\ ending' = [ending EXCEPT ![a] = @ \cup {s}]
    /\ UNCHANGED <<row, attempt, proposal, epoch, serving>>

\* Mutant of CommitEnd: writes the end it read, whatever the row says now.
CommitEndBlindly(a, s) ==
    /\ serving
    /\ s \in ending[a]
    /\ lease' = [lease EXCEPT ![a] = s]
    /\ ending' = [ending EXCEPT ![a] = @ \ {s}]
    /\ UNCHANGED <<gen, owner, attempt, proposal, epoch, serving>>

\* ... and transition_controller_lease commits the end, or raises because
\* another caller ended the lease in between.
CommitEnd(a, s) ==
    /\ serving
    /\ s \in ending[a]
    /\ lease' = IF lease[a] = "active" THEN [lease EXCEPT ![a] = s] ELSE lease
    /\ ending' = [ending EXCEPT ![a] = @ \ {s}]
    /\ UNCHANGED <<gen, owner, attempt, proposal, epoch, serving>>

\* transition_controller_lease_for_attempt: read and end in one transaction.
EndForAttempt(a) ==
    /\ serving
    /\ lease[a] = "active"
    /\ lease' = [lease EXCEPT ![a] = "revoked"]
    /\ UNCHANGED <<gen, owner, attempt, proposal, ending, epoch, serving>>

\* The attempt's own terminal write; it is a commit of its own, before or
\* after the end of the lease.
CloseAttempt(a) ==
    /\ serving
    /\ attempt[a] = "live"
    /\ attempt' = [attempt EXCEPT ![a] = "closed"]
    /\ UNCHANGED <<row, proposal, ending, epoch, serving>>

-----------------------------------------------------------------------------
\* The process dies and another starts: what was only read is forgotten.
Restart ==
    /\ epoch < MaxEpochs
    /\ epoch' = epoch + 1
    /\ serving' = FALSE
    /\ proposal' = [a \in Attempts |-> 0]
    /\ ending' = [a \in Attempts |-> {}]
    /\ UNCHANGED <<row, attempt>>

\* Mutant of Stale: compares with the process that created the row.
OwnRows == {a \in Active : owner[a] = epoch}

Stale == {a \in Active : owner[a] # epoch}

\* revoke_stale_controller_leases, one transaction, before anything is served.
RevokeStale ==
    /\ ~serving
    /\ lease' = [a \in Attempts |-> IF a \in Stale THEN "revoked" ELSE lease[a]]
    /\ attempt' = [a \in Attempts |->
                     IF a \in Stale /\ attempt[a] = "live"
                     THEN "review_required" ELSE attempt[a]]
    /\ serving' = TRUE
    /\ UNCHANGED <<gen, owner, proposal, ending, epoch>>

-----------------------------------------------------------------------------
Step(a) ==
    \/ Propose(a) \/ CommitGrant(a) \/ RejectGrant(a)
    \/ \E s \in EndStates : ReadEnd(a, s) \/ CommitEnd(a, s)
    \/ EndForAttempt(a) \/ CloseAttempt(a)

Next == (\E a \in Attempts : Step(a)) \/ Restart \/ RevokeStale

Spec == Init /\ [][Next]_vars

-----------------------------------------------------------------------------
(***************************************************************************)
(* Safety.                                                                 *)
(***************************************************************************)
\* Two attempts never control the desktop at once, although both may have
\* read a free ledger before either committed (_prepare_run_attempt checks
\* outside the transaction of create_controller_lease).
SingleActive == \A a, b \in Active : a = b

\* The active lease carries the highest generation ever granted, so a
\* runner holding an older fencing generation can be told apart.
FenceOrder == \A a \in Active, b \in Attempts : a # b => gen[b] < gen[a]

\* No two grants share a generation.
GenerationsDistinct ==
    \A a, b \in Attempts : gen[a] = gen[b] /\ gen[a] # 0 => a = b

\* Once the process serves, no lease of a dead predecessor is left active
\* (revoke_stale_controller_leases ran first, whatever was in flight).
OwnedByLiveManager == serving => \A a \in Active : owner[a] = epoch

\* The ledger can be trusted: one controller, fenced by its generation, and
\* never one of a process that is gone.
LedgerSafe ==
    SingleActive /\ FenceOrder /\ GenerationsDistinct /\ OwnedByLiveManager

\* A row is written once and ended once: a late end of another caller never
\* rewrites it, and generation and owner never change after the grant.
RowsAreFinal ==
    [][\A a \in Attempts :
          /\ lease[a] \in EndStates => lease'[a] = lease[a]
          /\ gen[a] # 0 => gen'[a] = gen[a] /\ owner'[a] = owner[a]]_vars

(***************************************************************************)
(* The ledger implements the abstract desktop lease.                       *)
(***************************************************************************)
AbstractLease ==
    [a \in Attempts |-> IF lease[a] \in EndStates THEN "ended" ELSE lease[a]]

Desktop == INSTANCE DesktopLease WITH lease <- AbstractLease

\* Every ledger transaction is a grant, an end or a stutter of DesktopLease.
ImplementsDesktopLease == Desktop!Spec
=============================================================================
