----------------------- MODULE ControllerLease_proofs ------------------------
(***************************************************************************)
(* Proofs about who has the desktop and what is done on it: the controller *)
(* lease, for every set of attempts and every number of Manager restarts;  *)
(* as Closing and Launching, what a run may do to the processes on that    *)
(* desktop, for any identifiers and any budgets; and, as Resume, the       *)
(* successors of a run, for any commands, Todos and launches.              *)
(***************************************************************************)
EXTENDS MCDesktop, TLAPS, FiniteSetTheorems

LEMMA InitType == Init => TypeOK
<1> USE DEF TypeOK, LeaseStates, AttemptStates, EndStates, row
<1> SUFFICES ASSUME Init PROVE TypeOK
  OBVIOUS
<1>1. /\ lease \in [Attempts -> LeaseStates]
      /\ gen \in [Attempts -> Nat]
      /\ attempt \in [Attempts -> AttemptStates]
      /\ proposal \in [Attempts -> Nat]
      /\ serving \in BOOLEAN
  BY DEF Init
<1>2. epoch \in 1 .. MaxEpochs /\ owner \in [Attempts -> 0 .. MaxEpochs]
  BY MaxEpochsAssumption DEF Init
<1>3. ending \in [Attempts -> SUBSET EndStates]
  BY Zenon DEF Init
<1>4. QED
  BY <1>1, <1>2, <1>3

LEMMA StepType == TypeOK /\ [Next]_vars => TypeOK'
<1> USE DEF TypeOK, LeaseStates, AttemptStates, EndStates, row
<1> SUFFICES ASSUME TypeOK, [Next]_vars PROVE TypeOK'
  OBVIOUS
<1>1. ASSUME NEW a \in Attempts, Propose(a) PROVE TypeOK'
  BY <1>1 DEF Propose
<1>2. ASSUME NEW a \in Attempts, CommitGrant(a) PROVE TypeOK'
  BY <1>2 DEF CommitGrant
<1>3. ASSUME NEW a \in Attempts, RejectGrant(a) PROVE TypeOK'
  BY <1>3 DEF RejectGrant
<1>4. ASSUME NEW a \in Attempts, NEW s \in EndStates, ReadEnd(a, s)
      PROVE  TypeOK'
  BY <1>4 DEF ReadEnd
<1>5. ASSUME NEW a \in Attempts, NEW s \in EndStates, CommitEnd(a, s)
      PROVE  TypeOK'
  BY <1>5 DEF CommitEnd
<1>6. ASSUME NEW a \in Attempts, EndForAttempt(a) PROVE TypeOK'
  BY <1>6 DEF EndForAttempt
<1>7. ASSUME NEW a \in Attempts, CloseAttempt(a) PROVE TypeOK'
  BY <1>7 DEF CloseAttempt
<1>8. CASE Restart
  <2>1. ending' \in [Attempts -> SUBSET EndStates]
    BY <1>8, Zenon DEF Restart
  <2>2. epoch' \in 1 .. MaxEpochs
    BY <1>8, MaxEpochsAssumption DEF Restart
  <2>3. QED
    BY <1>8, <2>1, <2>2 DEF Restart
<1>9. CASE RevokeStale
  BY <1>9 DEF RevokeStale, Stale, Active
<1>10. CASE UNCHANGED vars
  BY <1>10 DEF vars
<1>11. QED
  BY <1>1, <1>2, <1>3, <1>4, <1>5, <1>6, <1>7, <1>8, <1>9, <1>10 DEF Next, Step

\* Every variable of the ledger keeps its type, for all constants.
THEOREM TypeCorrect == Spec => []TypeOK
BY InitType, StepType, PTL DEF Spec

-----------------------------------------------------------------------------
(***************************************************************************)
(* The inductive invariant.  The safety properties alone are not           *)
(* inductive: that a grant writes a fresh row needs the coupling of the    *)
(* three tables (attempt, lease, proposal) stated by Coupled.              *)
(***************************************************************************)
Coupled ==
    \A a \in Attempts :
        /\ gen[a] = 0 <=> lease[a] = "none"
        /\ attempt[a] = "none" => lease[a] = "none"
        /\ proposal[a] # 0 => attempt[a] = "none"

LedgerInv ==
    /\ TypeOK
    /\ Coupled
    /\ SingleActive
    /\ FenceOrder
    /\ GenerationsDistinct
    /\ OwnedByLiveManager

\* A generation found from the ledger is positive and exceeds every earlier
\* one (the MAX(generation) + 1 of create_controller_lease).
LEMMA NextGenerationFresh ==
    ASSUME TypeOK, NEW g, NextGeneration(g)
    PROVE  g \in Nat \ {0} /\ \A b \in Attempts : gen[b] < g
BY DEF TypeOK, NextGeneration

LEMMA InitLedgerInv == Init => LedgerInv
<1> SUFFICES ASSUME Init PROVE LedgerInv
  OBVIOUS
<1>1. TypeOK
  BY InitType
<1>2. Active = {}
  BY DEF Init, Active
<1>3. QED
  BY <1>1, <1>2 DEF Init, LedgerInv, Coupled, SingleActive, FenceOrder,
     GenerationsDistinct, OwnedByLiveManager

LEMMA StepLedgerInv == LedgerInv /\ [Next]_vars => LedgerInv'
<1> SUFFICES ASSUME LedgerInv, [Next]_vars PROVE LedgerInv'
  OBVIOUS
<1> USE DEF LedgerInv
<1>t. TypeOK'
  BY StepType
<1> DEFINE Safe == /\ Coupled /\ SingleActive /\ FenceOrder
                   /\ GenerationsDistinct /\ OwnedByLiveManager
<1> USE DEF TypeOK, Coupled, SingleActive, FenceOrder, GenerationsDistinct,
            OwnedByLiveManager, Active, row
<1>1. ASSUME NEW a \in Attempts, Propose(a) PROVE Safe'
  BY <1>1, <1>t DEF Propose
<1>2. ASSUME NEW a \in Attempts, CommitGrant(a) PROVE Safe'
  <2>1. proposal[a] \in Nat \ {0} /\ \A b \in Attempts : gen[b] < proposal[a]
    BY <1>2, NextGenerationFresh DEF CommitGrant, Grantable
  <2>2. /\ lease' = [lease EXCEPT ![a] = "active"]
        /\ gen' = [gen EXCEPT ![a] = proposal[a]]
        /\ owner' = [owner EXCEPT ![a] = epoch]
        /\ attempt' = [attempt EXCEPT ![a] = "live"]
        /\ proposal' = [proposal EXCEPT ![a] = 0]
        /\ epoch' = epoch /\ serving' = serving
    BY <1>2 DEF CommitGrant
  <2>3. \A b \in Attempts : lease[b] # "active"
    BY <1>2 DEF CommitGrant, Grantable
  <2>4. Coupled'
    BY <2>1, <2>2
  <2>5. \A b \in Attempts : b \in Active' => b = a
    BY <2>2, <2>3
  <2>6. SingleActive' /\ FenceOrder' /\ OwnedByLiveManager'
    BY <2>1, <2>2, <2>5
  <2>7. GenerationsDistinct'
    BY <2>1, <2>2
  <2>8. QED
    BY <2>4, <2>6, <2>7
<1>3. ASSUME NEW a \in Attempts, RejectGrant(a) PROVE Safe'
  BY <1>3 DEF RejectGrant
<1>4. ASSUME NEW a \in Attempts, NEW s \in EndStates, ReadEnd(a, s)
      PROVE  Safe'
  BY <1>4 DEF ReadEnd
<1>5. ASSUME NEW a \in Attempts, NEW s \in EndStates, CommitEnd(a, s)
      PROVE  Safe'
  BY <1>5 DEF CommitEnd, EndStates
<1>6. ASSUME NEW a \in Attempts, EndForAttempt(a) PROVE Safe'
  BY <1>6 DEF EndForAttempt
<1>7. ASSUME NEW a \in Attempts, CloseAttempt(a) PROVE Safe'
  BY <1>7 DEF CloseAttempt
<1>8. ASSUME Restart PROVE Safe'
  BY <1>8 DEF Restart
<1>9. ASSUME RevokeStale PROVE Safe'
  BY <1>9 DEF RevokeStale, Stale
<1>10. ASSUME UNCHANGED vars PROVE Safe'
  BY <1>10 DEF vars
<1>11. QED
  BY <1>t, <1>1, <1>2, <1>3, <1>4, <1>5, <1>6, <1>7, <1>8, <1>9, <1>10
     DEF Next, Step

LEMMA InvariantHolds == Spec => []LedgerInv
BY InitLedgerInv, StepLedgerInv, PTL DEF Spec

\* One attempt controls the desktop at a time, for every number of attempts
\* that race through the unlocked pre-check and every number of restarts.
THEOREM ExclusiveDesktop == Spec => []SingleActive
<1>1. LedgerInv => SingleActive
  BY DEF LedgerInv
<1>2. QED
  BY <1>1, InvariantHolds, PTL

\* Generations are fencing tokens: distinct, and highest on the live lease.
THEOREM FencingTokens == Spec => [](FenceOrder /\ GenerationsDistinct)
<1>1. LedgerInv => FenceOrder /\ GenerationsDistinct
  BY DEF LedgerInv
<1>2. QED
  BY <1>1, InvariantHolds, PTL

\* A serving Manager never coexists with a predecessor's active lease.
THEOREM RestartFences == Spec => []OwnedByLiveManager
<1>1. LedgerInv => OwnedByLiveManager
  BY DEF LedgerInv
<1>2. QED
  BY <1>1, InvariantHolds, PTL

\* The whole safety of the ledger, from the same inductive invariant.
THEOREM LedgerSafety == Spec => []LedgerSafe
<1>1. LedgerInv => LedgerSafe
  BY DEF LedgerInv, LedgerSafe
<1>2. QED
  BY <1>1, InvariantHolds, PTL

\* No late end, no restart and no second grant rewrites a finished row.
THEOREM FinalRows == Spec => RowsAreFinal
<1> DEFINE Final == \A a \in Attempts :
              /\ lease[a] \in EndStates => lease'[a] = lease[a]
              /\ gen[a] # 0 => gen'[a] = gen[a] /\ owner'[a] = owner[a]
<1>1. LedgerInv /\ [Next]_vars => [Final]_vars
  <2> SUFFICES ASSUME LedgerInv, Next PROVE Final
    OBVIOUS
  <2> USE DEF LedgerInv, TypeOK, EndStates, row
  <2>1. ASSUME NEW a \in Attempts, CommitGrant(a) PROVE Final
    BY <2>1 DEF CommitGrant, Coupled
  <2>2. ASSUME NEW a \in Attempts,
               Propose(a) \/ RejectGrant(a) \/ CloseAttempt(a)
        PROVE  Final
    BY <2>2 DEF Propose, RejectGrant, CloseAttempt
  <2>3. ASSUME NEW a \in Attempts, NEW s \in EndStates,
               ReadEnd(a, s) \/ CommitEnd(a, s)
        PROVE  Final
    BY <2>3 DEF ReadEnd, CommitEnd
  <2>4. ASSUME NEW a \in Attempts, EndForAttempt(a) PROVE Final
    BY <2>4 DEF EndForAttempt
  <2>5. ASSUME Restart \/ RevokeStale PROVE Final
    BY <2>5 DEF Restart, RevokeStale, Stale, Active
  <2>6. QED
    BY <2>1, <2>2, <2>3, <2>4, <2>5 DEF Next, Step
<1>2. QED
  BY <1>1, InvariantHolds, PTL DEF Spec, RowsAreFinal

-----------------------------------------------------------------------------
\* Every transaction on the ledger is a grant or an end of the abstract
\* desktop lease, or leaves it unchanged: RevokeStale ends at most one lease
\* because at most one is active.
LEMMA StepRefines == LedgerInv /\ [Next]_vars => [Desktop!Next]_AbstractLease
<1> SUFFICES ASSUME LedgerInv, [Next]_vars PROVE [Desktop!Next]_AbstractLease
  OBVIOUS
<1> USE DEF LedgerInv, TypeOK, EndStates, LeaseStates, row
<1> DEFINE Unmoved == AbstractLease' = AbstractLease
<1>e. ASSUME NEW a \in Attempts, NEW s \in EndStates, lease[a] = "active",
             lease' = [lease EXCEPT ![a] = s]
      PROVE  Desktop!End(a)
  <2>1. AbstractLease[a] = "active"
    BY <1>e DEF AbstractLease
  <2>2. AbstractLease' = [AbstractLease EXCEPT ![a] = "ended"]
    BY <1>e DEF AbstractLease
  <2>3. QED
    BY <2>1, <2>2 DEF Desktop!End
<1>u. ASSUME lease' = lease PROVE Unmoved
  BY <1>u DEF AbstractLease
<1>1. ASSUME NEW a \in Attempts, CommitGrant(a) PROVE Desktop!Grant(a)
  <2>1. lease[a] = "none" /\ \A b \in Attempts : lease[b] # "active"
    BY <1>1 DEF CommitGrant, Grantable, Active, Coupled
  <2>2. lease' = [lease EXCEPT ![a] = "active"]
    BY <1>1 DEF CommitGrant
  <2>3. AbstractLease[a] = "none"
    BY <2>1 DEF AbstractLease
  <2>4. \A b \in Attempts : AbstractLease[b] # "active"
    BY <2>1 DEF AbstractLease
  <2>5. AbstractLease' = [AbstractLease EXCEPT ![a] = "active"]
    BY <2>2 DEF AbstractLease
  <2>6. QED
    BY <2>3, <2>4, <2>5 DEF Desktop!Grant
<1>2. ASSUME NEW a \in Attempts,
             Propose(a) \/ RejectGrant(a) \/ CloseAttempt(a)
      PROVE  Unmoved
  BY <1>2, <1>u DEF Propose, RejectGrant, CloseAttempt
<1>3. ASSUME NEW a \in Attempts, NEW s \in EndStates,
             ReadEnd(a, s) \/ CommitEnd(a, s)
      PROVE  Unmoved \/ Desktop!End(a)
  BY <1>3, <1>u, <1>e DEF ReadEnd, CommitEnd
<1>4. ASSUME NEW a \in Attempts, EndForAttempt(a) PROVE Desktop!End(a)
  BY <1>4, <1>e DEF EndForAttempt
<1>5. ASSUME RevokeStale PROVE Unmoved \/ \E a \in Attempts : Desktop!End(a)
  <2>1. CASE Stale = {}
    BY <1>5, <2>1, <1>u DEF RevokeStale
  <2>2. CASE Stale # {}
    <3>1. PICK a \in Attempts : a \in Stale
      BY <2>2 DEF Stale, Active
    <3>2. Stale = {a} /\ lease[a] = "active"
      BY <3>1 DEF Stale, Active, SingleActive
    <3>3. lease' = [lease EXCEPT ![a] = "revoked"]
      BY <1>5, <3>2 DEF RevokeStale
    <3>4. QED
      BY <3>2, <3>3, <1>e
  <2>3. QED
    BY <2>1, <2>2
<1>6. ASSUME Restart \/ UNCHANGED vars PROVE Unmoved
  BY <1>6, <1>u DEF Restart, vars
<1>7. QED
  BY <1>1, <1>2, <1>3, <1>4, <1>5, <1>6 DEF Next, Step, Desktop!Next

\* The ledger implements DesktopLease for every value of the constants.
THEOREM Refinement == Spec => ImplementsDesktopLease
<1>1. Init => Desktop!Init
  BY DEF Init, Desktop!Init, AbstractLease, EndStates
<1>2. QED
  BY <1>1, StepRefines, InvariantHolds, PTL
     DEF Spec, ImplementsDesktopLease, Desktop!Spec

-----------------------------------------------------------------------------
(* Taking a client down (GameClose), for any identifiers, any number of      *)
(* processes and both closers.                                               *)

Entry  == Closing!Process
Kill   == [born : Nat, image : Closing!Images, late : BOOLEAN]
QueueAt   == {"before", "bind", "list", "select", "act", "call", "poll", "look", "final", "seal", "done"}
StartedAt == {"before", "launching", "owned", "ask", "wait", "residue", "done"}

\* Every process has a birth of its own.
Births ==
    /\ born \in Nat /\ born <= MaxBorn /\ asOf \in Nat /\ asOf <= born
    /\ table \in [Pids -> Entry \cup {None}]
    /\ \A p \in Pids : table[p] # None => table[p].born <= born
    /\ \A p, q \in Pids :
           table[p] # None /\ table[q] # None /\ table[p].born = table[q].born => p = q

Routed ==
    /\ mode \in {"queue", "started"}
    /\ mode = "queue" => pc \in QueueAt
    /\ mode = "started" => pc \in StartedAt /\ cancelled = FALSE
    /\ pc \in {"before", "bind"} => killed = {}
    /\ targets \subseteq Pids /\ killed \subseteq Kill /\ cancelled \in BOOLEAN

\* The open handle is on the client that was bound.
Pinned ==
    pc = "call" => handle \in Pids /\ table[handle] # None /\ table[handle].image = "client"
                   /\ table[handle].born = bound[handle]

OfTheBound ==
    mode = "queue" => \A k \in killed : k.image = "client" /\ \E p \in Pids : k.born = bound[p]

Late == {k \in killed : k.late = TRUE}
LateOnce == /\ \E x : Late \subseteq {x}
            /\ cancelled = FALSE \/ pc = "call" => Late = {}

Suspect(p) == table[p] # None /\ table[p].live = TRUE /\ table[p].image \in {"client", "unreadable"}

\* What the last enumeration could see is on its list.
Seen ==
    /\ mode = "queue" /\ pc = "seal" => \A p \in Pids : Suspect(p) => p \in listing \/ table[p].born > asOf
    /\ mode = "queue" /\ receipt = "closed" =>
           pc = "done" /\ \A p \in Pids : Suspect(p) => table[p].born > asOf

\* A client of before keeps its identifier, which is no target.
Spared ==
    /\ mode = "queue" \/ pc = "before" => preexisting = {}
    /\ \A n \in preexisting : n \in Nat /\ n <= born
    /\ \A p \in Pids : table[p] # None /\ table[p].born \in preexisting => p \in baseline
    /\ mode = "started" => targets \cap baseline = {}
    /\ mode = "started" /\ pc \in {"before", "launching", "owned"} => targets = {}
    /\ \A k \in killed : k.born \notin preexisting

CloseInv == Births /\ Routed /\ Pinned /\ OfTheBound /\ LateOnce /\ Seen /\ Spared

LEMMA CloseStarts == ASSUME Closing!GameCloseAssumption, Closing!Init PROVE CloseInv
<1>1. Births
  BY DEF Closing!Init, Births, Closing!GameCloseAssumption
<1>2. Late = {}
  BY DEF Closing!Init, Late
<1>3. LateOnce
  BY <1>2 DEF LateOnce
<1>4. Routed
  BY DEF Closing!Init, Closing!GameCloseAssumption, Routed, QueueAt, StartedAt
<1>5. QED
  BY <1>1, <1>3, <1>4 DEF Closing!Init, CloseInv, Pinned, OfTheBound, Seen, Spared

\* What a step does to the process table.
Moves ==
    /\ table' \in [Pids -> Entry \cup {None}] /\ (born' = born \/ born' = born + 1)
    /\ \A q \in Pids : table'[q] # None =>
           \/ /\ table[q] # None /\ table'[q].born = table[q].born /\ table'[q].image = table[q].image
              /\ table'[q].live = TRUE => table[q].live = TRUE
           \/ table'[q].born = born + 1 /\ born' = born + 1
    /\ \A p, q \in Pids :
           table'[p] # None /\ table'[q] # None /\ table'[p].born = born + 1 /\ table'[q].born = born + 1 => p = q

Holds(p) == table'[p] # None /\ table'[p].born = table[p].born /\ table'[p].image = table[p].image

LEMMA NewMoves ==
    ASSUME Closing!GameCloseAssumption, Births, NEW p \in Pids, NEW image, Closing!Create(p, image),
           image \in Closing!Images
    PROVE  Moves /\ \A q \in Pids : table[q] # None => Holds(q)
<1> DEFINE n == born + 1
           y == [born |-> n, image |-> image, live |-> TRUE]
<1>1. n \in 1 .. MaxBorn /\ table[p] = None /\ born' = n /\ table' = [table EXCEPT ![p] = y]
  BY DEF Closing!Create, Closing!Free, Births, Closing!GameCloseAssumption
<1> HIDE DEF n
<1>2. y \in Entry /\ y.born = n
  BY <1>1 DEF Entry, Closing!Process
<1> HIDE DEF y
<1>3. /\ table' \in [Pids -> Entry \cup {None}] /\ table'[p] = y
      /\ \A q \in Pids : q # p => table'[q] = table[q]
  BY <1>1, <1>2 DEF Births
<1>4. ASSUME NEW q \in Pids, table'[q] # None, q # p
      PROVE  table'[q] = table[q] /\ table[q].born # n
  <2>1. table'[q] = table[q] /\ table[q].born <= born /\ table[q].born \in Nat /\ born \in Nat
    BY <1>3, <1>4 DEF Births, Entry, Closing!Process
  <2>2. QED
    BY <2>1 DEF n
<1>5. \A q, r \in Pids :
          table'[q] # None /\ table'[r] # None /\ table'[q].born = n /\ table'[r].born = n => q = r
  BY <1>4
<1>6. born' = born + 1 /\ n = born + 1
  BY <1>1 DEF n
<1>7. QED
  BY <1>1, <1>2, <1>3, <1>4, <1>5, <1>6 DEF Moves, Holds

Ending(p) == /\ p \in Pids /\ table[p] # None /\ born' = born
             /\ table' = [table EXCEPT ![p] = [table[p] EXCEPT !.live = FALSE]]

LEMMA EndMoves ==
    ASSUME Closing!GameCloseAssumption, Births, NEW p, Ending(p)
    PROVE  Moves /\ \A q \in Pids : table[q] # None => Holds(q)
<1> DEFINE y == [table[p] EXCEPT !.live = FALSE]
<1>1. y \in Entry /\ y.born = table[p].born /\ y.image = table[p].image /\ y.live = FALSE /\ y # None
  BY DEF Births, Entry, Closing!Process, Ending, Closing!GameCloseAssumption
<1> HIDE DEF y
<1>2. table' = [table EXCEPT ![p] = y] /\ p \in Pids /\ table[p] # None /\ born' = born
  BY DEF y, Ending
<1>3. /\ table' \in [Pids -> Entry \cup {None}] /\ table'[p] = y
      /\ \A q \in Pids : q # p => table'[q] = table[q]
  BY <1>1, <1>2 DEF Births
<1>4. \A q \in Pids : table'[q] # None => table[q] # None /\ table'[q].born = table[q].born
                          /\ table'[q].image = table[q].image /\ (table'[q].live = TRUE => table[q].live = TRUE)
  BY <1>1, <1>2, <1>3
<1>5. \A q \in Pids : table'[q] # None => table'[q].born # born + 1
  BY <1>4 DEF Births, Entry, Closing!Process
<1>6. QED
  BY <1>1, <1>2, <1>3, <1>4, <1>5 DEF Moves, Holds

LEMMA GoneMoves ==
    ASSUME Births, NEW p \in Pids, born' = born, table' = [table EXCEPT ![p] = None]
    PROVE  Moves /\ \A q \in Pids : table[q] # None /\ q # p => Holds(q)
<1>1. /\ table' \in [Pids -> Entry \cup {None}] /\ table'[p] = None
      /\ \A q \in Pids : q # p => table'[q] = table[q]
  BY DEF Births
<1>2. \A q \in Pids : table'[q] # None => table[q] # None /\ table'[q] = table[q]
  BY <1>1
<1>3. \A q \in Pids : table'[q] # None => table'[q].born # born + 1
  BY <1>2 DEF Births, Entry, Closing!Process
<1>4. QED
  BY <1>1, <1>2, <1>3 DEF Moves, Holds

LEMMA SameMoves ==
    ASSUME Births, table' = table, born' = born
    PROVE  Moves /\ \A q \in Pids : table[q] # None => Holds(q)
<1>1. \A q \in Pids : table[q] # None => table[q].born # born + 1
  BY DEF Births, Entry, Closing!Process
<1>2. QED
  BY <1>1 DEF Births, Moves, Holds

\* What a step does to the table, and that an open handle pins its process.
LEMMA EveryStepMoves ==
    ASSUME Closing!GameCloseAssumption, CloseInv, Closing!Next
    PROVE  Moves /\ (pc = "call" => Holds(handle))
<1>1. Births /\ Pinned
  BY DEF CloseInv
<1>2. pc = "call" => handle \in Pids /\ table[handle] # None
  BY <1>1 DEF Pinned
<1>3. CASE Closing!Spawn \/ Closing!LaunchClient
  <2>1. PICK p \in Pids, image \in Closing!Images : Closing!Create(p, image)
    BY <1>3 DEF Closing!Spawn, Closing!LaunchClient, Closing!Images
  <2>2. QED
    BY <1>1, <1>2, <2>1, NewMoves
<1>4. ASSUME NEW p, Ending(p) PROVE Moves /\ (pc = "call" => Holds(handle))
  BY <1>1, <1>2, <1>4, EndMoves
<1>5. CASE table' = table /\ born' = born
  BY <1>1, <1>2, <1>5, SameMoves
<1>6. CASE Closing!Exit
  <2>1. PICK p \in Pids : Ending(p)
    BY <1>6 DEF Closing!Exit, Closing!Live, Ending
  <2>2. QED
    BY <1>4, <2>1
<1>7. CASE Closing!Reap
  <2>1. PICK p \in Pids : p # handle /\ table' = [table EXCEPT ![p] = None] /\ born' = born
    BY <1>7 DEF Closing!Reap
  <2>2. QED
    BY <1>1, <1>2, <2>1, GoneMoves
<1>8. CASE Closing!CallTarget
  <2>1. pc = "call" /\ ((table' = table /\ born' = born) \/ Ending(handle))
    BY <1>2, <1>8 DEF Closing!CallTarget, Ending
  <2>2. QED
    BY <1>4, <1>5, <2>1
<1>9. CASE Closing!StartedKills
  <2>1. (table' = table /\ born' = born) \/ \E p : Ending(p)
    BY <1>9 DEF Closing!StartedKills, Closing!Live, Ending
  <2>2. QED
    BY <1>4, <1>5, <2>1
<1>10. CASE \/ Closing!Cancel \/ Closing!Raised \/ Closing!TasklistFails \/ Closing!QueueBegin
            \/ Closing!Bind \/ Closing!PassLists \/ Closing!PassSelects \/ Closing!OpenTarget
  BY <1>5, <1>10 DEF Closing!Cancel, Closing!Raised, Closing!TasklistFails, Closing!Raise,
     Closing!QueueBegin, Closing!Bind, Closing!PassLists, Closing!PassSelects, Closing!OpenTarget,
     Closing!windows
<1>11. CASE \/ Closing!Poll \/ Closing!Look \/ Closing!FinalLists \/ Closing!FinalReceipt
            \/ Closing!LaunchBaseline \/ Closing!StartedBegin \/ Closing!StartedAsks
            \/ Closing!StartedWaits \/ Closing!StartedReceipt
  BY <1>5, <1>11 DEF Closing!Poll, Closing!Look, Closing!FinalLists, Closing!FinalReceipt,
     Closing!LaunchBaseline, Closing!StartedBegin, Closing!StartedAsks, Closing!StartedWaits,
     Closing!StartedReceipt, Closing!windows
<1>12. QED
  BY <1>3, <1>6, <1>7, <1>8, <1>9, <1>10, <1>11 DEF Closing!Next

\* The closer's own steps, grouped by what they leave alone.
Outside == Closing!Spawn \/ Closing!Exit \/ Closing!Reap \/ Closing!Cancel
Queueing == \/ Closing!QueueBegin \/ Closing!Bind \/ Closing!PassLists \/ Closing!PassSelects
            \/ Closing!OpenTarget \/ Closing!CallTarget \/ Closing!Poll \/ Closing!Look
            \/ Closing!FinalLists \/ Closing!FinalReceipt
Starting == \/ Closing!LaunchBaseline \/ Closing!LaunchClient \/ Closing!StartedBegin
            \/ Closing!StartedAsks \/ Closing!StartedKills \/ Closing!StartedWaits
            \/ Closing!StartedReceipt
Raising  == (Closing!Raised \/ Closing!TasklistFails) /\ Closing!Raise

LEMMA StepKinds == ASSUME Closing!Next PROVE Outside \/ Queueing \/ Starting \/ Raising
  BY DEF Closing!Next, Outside, Queueing, Starting, Raising, Closing!Raised, Closing!TasklistFails

\* The parts of the state that only some of the steps touch.
LEMMA OutsideKeeps ==
    ASSUME Outside
    PROVE  /\ pc' = pc /\ mode' = mode /\ bound' = bound /\ targets' = targets /\ listing' = listing
           /\ asOf' = asOf /\ baseline' = baseline /\ preexisting' = preexisting /\ killed' = killed
           /\ receipt' = receipt /\ handle' = handle
           /\ cancelled' = cancelled \/ (mode = "queue" /\ cancelled = FALSE)
  BY DEF Outside, Closing!Spawn, Closing!Exit, Closing!Reap, Closing!Cancel, Closing!closer

LEMMA RaisingKeeps ==
    ASSUME Raising
    PROVE  /\ pc' = "done" /\ mode' = mode /\ bound' = bound /\ targets' = targets
           /\ listing' = listing /\ asOf' = asOf /\ baseline' = baseline
           /\ preexisting' = preexisting /\ killed' = killed /\ receipt' = "raised"
           /\ cancelled' = cancelled /\ pc \notin {"call", "done"}
  BY DEF Raising, Closing!Raise, Closing!Raised, Closing!TasklistFails

LEMMA QueueingKeeps ==
    ASSUME Routed, Queueing
    PROVE  /\ mode = "queue" /\ mode' = mode /\ pc' \in QueueAt \ {"before"} /\ pc # "done"
           /\ cancelled' = cancelled
           /\ preexisting' = preexisting /\ baseline' = baseline
           /\ bound' = bound \/ (pc = "bind" /\ pc' = "list")
           /\ pc' = "bind" => pc = "before"
           /\ asOf' \in {asOf, born}
           /\ killed' = killed \/ pc = "call"
           /\ receipt' = receipt \/ pc = "seal"
  BY DEF Routed, StartedAt, QueueAt, Queueing, Closing!QueueBegin, Closing!Bind, Closing!PassLists, Closing!PassSelects,
     Closing!OpenTarget, Closing!CallTarget, Closing!Poll, Closing!Look, Closing!FinalLists,
     Closing!FinalReceipt, Closing!Enumerate

LEMMA StartingKeeps ==
    ASSUME Routed, Starting
    PROVE  /\ mode = "started" /\ mode' = mode /\ pc' \in StartedAt \ {"before"} /\ pc # "done"
           /\ cancelled' = cancelled /\ bound' = bound /\ asOf' \in {asOf, born}
           /\ killed' = killed \/ Closing!StartedKills
           /\ (preexisting' = preexisting /\ baseline' = baseline) \/ Closing!LaunchBaseline
  BY DEF Routed, StartedAt, QueueAt, Starting, Closing!LaunchBaseline, Closing!LaunchClient, Closing!StartedBegin,
     Closing!StartedAsks, Closing!StartedKills, Closing!StartedWaits, Closing!StartedReceipt

LEMMA BirthsKept ==
    ASSUME Closing!GameCloseAssumption, CloseInv, Closing!Next
    PROVE  Births'
<1>1. Births /\ Routed /\ Moves
  BY EveryStepMoves DEF CloseInv
<1>2. asOf' \in {asOf, born}
  BY <1>1, StepKinds, OutsideKeeps, RaisingKeeps, QueueingKeeps, StartingKeeps
<1>3. \A p \in Pids : \A image : Closing!Create(p, image) => born' <= MaxBorn
  BY <1>1 DEF Closing!Create, Births, Closing!GameCloseAssumption
<1>4. born' = born \/ born' <= MaxBorn
  <2>1. CASE Closing!Spawn \/ Closing!LaunchClient
    BY <1>3, <2>1 DEF Closing!Spawn, Closing!LaunchClient
  <2>2. CASE Closing!Exit \/ Closing!Reap \/ Closing!Cancel \/ Raising
    BY <2>2 DEF Closing!Exit, Closing!Reap, Closing!Cancel, Raising, Closing!Raise, Closing!windows
  <2>3. CASE Queueing
    BY <2>3 DEF Queueing, Closing!QueueBegin, Closing!Bind, Closing!PassLists,
       Closing!PassSelects, Closing!OpenTarget, Closing!CallTarget, Closing!Poll, Closing!Look,
       Closing!FinalLists, Closing!FinalReceipt, Closing!windows
  <2>4. CASE \/ Closing!LaunchBaseline \/ Closing!StartedBegin \/ Closing!StartedAsks
             \/ Closing!StartedKills \/ Closing!StartedWaits \/ Closing!StartedReceipt
    BY <2>4 DEF Closing!LaunchBaseline, Closing!StartedBegin, Closing!StartedAsks,
       Closing!StartedKills, Closing!StartedWaits, Closing!StartedReceipt, Closing!windows
  <2>5. QED
    BY <2>1, <2>2, <2>3, <2>4, StepKinds DEF Outside, Starting
<1>5. /\ born' \in Nat /\ born' <= MaxBorn /\ asOf' \in Nat /\ asOf' <= born'
  BY <1>1, <1>2, <1>4 DEF Births, Moves
<1>6. \A p \in Pids : table'[p] # None => table'[p].born <= born'
  BY <1>1 DEF Births, Moves, Entry, Closing!Process
<1>7. \A p, q \in Pids :
          table'[p] # None /\ table'[q] # None /\ table'[p].born = table'[q].born => p = q
  <2>1. TAKE p, q \in Pids
  <2>2. HAVE table'[p] # None /\ table'[q] # None /\ table'[p].born = table'[q].born
  <2>3. \A r \in Pids : table[r] # None => table[r].born # born + 1
    BY <1>1 DEF Births, Entry, Closing!Process
  <2>4. QED
    BY <1>1, <2>2, <2>3 DEF Births, Moves
<1>8. QED
  BY <1>1, <1>5, <1>6, <1>7 DEF Births, Moves

\* Who is terminated: by the queue the process on the open handle, by the other
\* closer what has the identifier of a target.
LEMMA Kills ==
    ASSUME CloseInv, Queueing \/ Starting, NEW k \in killed', k \notin killed
    PROVE  \E p \in Pids : /\ table[p] # None /\ k.born = table[p].born /\ k.image = table[p].image
                           /\ k \in Kill
                           /\ (pc = "call" /\ p = handle /\ k.late = cancelled /\ Closing!CallTarget)
                              \/ (p \in targets /\ Closing!StartedKills /\ k.late = FALSE)
<1>1. Closing!CallTarget \/ Closing!StartedKills
  BY DEF Queueing, Starting, Closing!QueueBegin, Closing!Bind, Closing!PassLists,
     Closing!PassSelects, Closing!OpenTarget, Closing!Poll, Closing!Look,
     Closing!FinalLists, Closing!FinalReceipt, Closing!LaunchBaseline, Closing!LaunchClient,
     Closing!StartedBegin, Closing!StartedAsks, Closing!StartedWaits, Closing!StartedReceipt
<1> DEFINE y(p, l) == [born |-> table[p].born, image |-> table[p].image, late |-> l]
<1>2. PICK p \in Pids, l \in BOOLEAN :
         /\ table[p] # None /\ k = y(p, l)
         /\ (pc = "call" /\ p = handle /\ l = cancelled /\ Closing!CallTarget)
            \/ (p \in targets /\ Closing!StartedKills /\ l = FALSE)
  <2>1. CASE Closing!CallTarget
    <3>1. pc = "call" /\ handle \in Pids /\ table[handle] # None /\ cancelled \in BOOLEAN
      BY <2>1 DEF Closing!CallTarget, CloseInv, Routed, Pinned
    <3>2. k = y(handle, cancelled)
      BY <2>1 DEF Closing!CallTarget
    <3>3. QED
      BY <2>1, <3>1, <3>2
  <2>2. CASE Closing!StartedKills
    BY <2>2 DEF Closing!StartedKills, Closing!Live, CloseInv, Routed
  <2>3. QED
    BY <1>1, <2>1, <2>2
<1>3. y(p, l) \in Kill /\ y(p, l).born = table[p].born /\ y(p, l).image = table[p].image /\ y(p, l).late = l
  BY <1>2 DEF CloseInv, Births, Entry, Closing!Process, Kill
<1>4. QED
  BY <1>2, <1>3

LEMMA RoutedKept ==
    ASSUME Closing!GameCloseAssumption, CloseInv, Closing!Next
    PROVE  Routed'
<1>1. Routed
  BY DEF CloseInv
<1>2. cancelled' \in BOOLEAN
  BY <1>1, StepKinds, RaisingKeeps, QueueingKeeps, StartingKeeps
     DEF Outside, Closing!Spawn, Closing!Exit, Closing!Reap, Closing!Cancel, Routed
<1>3. /\ mode' = mode /\ (mode = "queue" => pc' \in QueueAt)
      /\ mode = "started" => pc' \in StartedAt /\ cancelled' = FALSE
  BY <1>1, StepKinds, OutsideKeeps, RaisingKeeps, QueueingKeeps, StartingKeeps
     DEF Routed, QueueAt, StartedAt
<1>4. killed' \subseteq Kill
  BY <1>1, Kills, StepKinds, OutsideKeeps, RaisingKeeps DEF Routed
<1>5. pc' \in {"before", "bind"} => killed' = {}
  BY <1>1, StepKinds, OutsideKeeps, RaisingKeeps, QueueingKeeps, StartingKeeps
     DEF Routed, StartedAt
<1>6. targets' \subseteq Pids
  <2>1. CASE Outside \/ Raising
    BY <1>1, <2>1, OutsideKeeps, RaisingKeeps DEF Routed
  <2>2. CASE Queueing
    BY <1>1, <2>2 DEF Routed, Queueing, Closing!QueueBegin, Closing!Bind, Closing!PassLists,
       Closing!PassSelects, Closing!OpenTarget, Closing!CallTarget, Closing!Poll, Closing!Look,
       Closing!FinalLists, Closing!FinalReceipt, Closing!Verified, Closing!Running, Closing!Live
  <2>3. CASE Starting
    BY <1>1, <2>3 DEF Routed, Starting, Closing!LaunchBaseline, Closing!LaunchClient,
       Closing!StartedBegin, Closing!StartedAsks, Closing!StartedKills, Closing!StartedWaits,
       Closing!StartedReceipt, Closing!Owned, Closing!Running, Closing!Live
  <2>4. QED
    BY <2>1, <2>2, <2>3, StepKinds
<1>7. QED
  BY <1>1, <1>2, <1>3, <1>4, <1>5, <1>6 DEF Routed

LEMMA PinnedKept ==
    ASSUME Closing!GameCloseAssumption, CloseInv, Closing!Next
    PROVE  Pinned'
<1>1. Routed /\ Pinned /\ (pc = "call" => Holds(handle)) /\ Births
  BY EveryStepMoves DEF CloseInv
<1>2. CASE Outside
  BY <1>1, <1>2, OutsideKeeps DEF Pinned, Holds
<1>3. CASE Raising \/ Starting
  BY <1>1, <1>3, RaisingKeeps, StartingKeeps DEF Pinned, StartedAt
<1>4. CASE Closing!OpenTarget
  <2>1. CASE pc' = "call"
    <3>1. PICK p \in targets : /\ table[p] # None /\ Closing!HandleVerifies(p) /\ handle' = p
                               /\ bound' = bound /\ table' = table
      BY <1>4, <2>1 DEF Closing!OpenTarget, Closing!windows
    <3>2. QED
      BY <1>1, <3>1 DEF Pinned, Closing!HandleVerifies, Closing!SameInstance, Routed
  <2>2. QED
    BY <2>1 DEF Pinned
<1>5. CASE Queueing /\ ~Closing!OpenTarget
  <2>1. pc' # "call"
    BY <1>5 DEF Queueing, Closing!QueueBegin, Closing!Bind, Closing!PassLists, Closing!PassSelects,
       Closing!CallTarget, Closing!Poll, Closing!Look, Closing!FinalLists, Closing!FinalReceipt,
       Closing!Enumerate
  <2>2. QED
    BY <2>1 DEF Pinned
<1>6. QED
  BY <1>2, <1>3, <1>4, <1>5, StepKinds

LEMMA OfTheBoundKept ==
    ASSUME Closing!GameCloseAssumption, CloseInv, Closing!Next
    PROVE  OfTheBound'
<1>1. Routed /\ Pinned /\ OfTheBound
  BY DEF CloseInv
<1>2. CASE Outside \/ Raising \/ Starting
  BY <1>1, <1>2, OutsideKeeps, RaisingKeeps, StartingKeeps DEF OfTheBound
<1>3. CASE Queueing
  <2>1. mode' = mode /\ mode = "queue" /\ (bound' = bound \/ killed = {})
    BY <1>1, <1>3, QueueingKeeps DEF Routed
  <2>2. ASSUME NEW k \in killed', k \notin killed
        PROVE  k.image = "client" /\ \E p \in Pids : k.born = bound[p] /\ pc = "call"
    <3>1. ~Closing!StartedKills
      BY <1>1, <2>1 DEF Closing!StartedKills, Routed, QueueAt
    <3>2. QED
      BY <1>1, <1>3, <2>2, <3>1, Kills DEF Pinned
  <2>3. \A k \in killed' : k \notin killed => bound' = bound
    BY <1>1, <1>3, <2>2, QueueingKeeps
  <2>4. QED
    BY <1>1, <2>1, <2>2, <2>3 DEF OfTheBound
<1>4. QED
  BY <1>2, <1>3, StepKinds

LEMMA LateOnceKept ==
    ASSUME Closing!GameCloseAssumption, CloseInv, Closing!Next
    PROVE  LateOnce'
<1>1. Routed /\ Pinned /\ LateOnce
  BY DEF CloseInv
<1>2. CASE killed' = killed
  <2>1. Late' = Late
    BY <1>2 DEF Late
  <2>2. cancelled' = FALSE => cancelled = FALSE
    BY <1>1, StepKinds, OutsideKeeps, RaisingKeeps, QueueingKeeps, StartingKeeps DEF Routed
  <2>3. pc' = "call" => pc = "call" \/ cancelled = FALSE
    <3>1. CASE Outside \/ Raising \/ Starting
      BY <1>1, <3>1, OutsideKeeps, RaisingKeeps, StartingKeeps DEF StartedAt
    <3>2. CASE Closing!OpenTarget
      BY <1>1, <3>2 DEF Closing!OpenTarget, Closing!CancelRequested, Routed
    <3>3. CASE Queueing /\ ~Closing!OpenTarget
      BY <3>3 DEF Queueing, Closing!QueueBegin, Closing!Bind, Closing!PassLists, Closing!PassSelects,
         Closing!CallTarget, Closing!Poll, Closing!Look, Closing!FinalLists, Closing!FinalReceipt,
         Closing!Enumerate
    <3>4. QED
      BY <3>1, <3>2, <3>3, StepKinds
  <2>4. QED
    BY <1>1, <2>1, <2>2, <2>3 DEF LateOnce
<1>3. CASE Closing!StartedKills
  <2>1. Starting
    BY <1>3 DEF Starting
  <2>2. mode' = "started" /\ cancelled' = cancelled /\ cancelled = FALSE /\ pc' # "call"
    BY <1>1, <2>1, StartingKeeps DEF Routed, StartedAt
  <2>3. Late = {}
    BY <1>1, <2>2 DEF LateOnce
  <2>4. \A k \in killed' : k \notin killed => k.late = FALSE
    BY <1>3, <2>1, <2>2, Kills
  <2>5. Late' = {}
    BY <2>3, <2>4 DEF Late
  <2>6. QED
    BY <2>5 DEF LateOnce
<1>4. CASE Closing!CallTarget
  <2>1. Late = {} /\ pc' # "call" /\ cancelled' = cancelled
    BY <1>1, <1>4 DEF LateOnce, Closing!CallTarget
  <2> DEFINE x == [born |-> table[handle].born, image |-> table[handle].image, late |-> cancelled]
  <2>2. killed' \subseteq killed \cup {x} /\ x.late = cancelled
    BY <1>4 DEF Closing!CallTarget
  <2> HIDE DEF x
  <2>3. Late' \subseteq {x} /\ (cancelled = FALSE => Late' = {})
    BY <2>1, <2>2 DEF Late
  <2>4. QED
    BY <2>1, <2>3 DEF LateOnce
<1>5. killed' = killed \/ Closing!StartedKills \/ Closing!CallTarget
  <2>1. CASE Queueing
    BY <1>1, <2>1, QueueingKeeps DEF Queueing, Closing!QueueBegin, Closing!Bind, Closing!PassLists,
       Closing!PassSelects, Closing!OpenTarget, Closing!Poll, Closing!Look, Closing!FinalLists,
       Closing!FinalReceipt
  <2>2. QED
    BY <1>1, <2>1, StepKinds, OutsideKeeps, RaisingKeeps, StartingKeeps
<1>6. QED
  BY <1>2, <1>3, <1>4, <1>5

\* What can still be closed after a step could be before, or was created by it.
LEMMA SuspectsFrom ==
    ASSUME Closing!GameCloseAssumption, CloseInv, Closing!Next, NEW p \in Pids, Suspect(p)'
    PROVE  (Suspect(p) /\ table'[p].born = table[p].born) \/ table'[p].born > asOf
<1>1. Births /\ Moves
  BY EveryStepMoves DEF CloseInv
<1>2. CASE table'[p].born = born + 1
  BY <1>1, <1>2 DEF Births
<1>3. CASE table'[p].born # born + 1
  <2>1. /\ table[p] # None /\ table'[p].born = table[p].born /\ table'[p].image = table[p].image
        /\ table'[p].live = TRUE => table[p].live = TRUE
    BY <1>1, <1>3 DEF Moves, Suspect
  <2>2. QED
    BY <2>1 DEF Suspect
<1>4. QED
  BY <1>2, <1>3

LEMMA SeenKept ==
    ASSUME Closing!GameCloseAssumption, CloseInv, Closing!Next
    PROVE  Seen'
<1>1. Routed /\ Births /\ Seen
  BY DEF CloseInv
<1>2. CASE Outside
  BY <1>1, <1>2, OutsideKeeps, SuspectsFrom DEF Seen
<1>3. CASE Raising \/ Starting
  BY <1>1, <1>3, RaisingKeeps, StartingKeeps DEF Seen, QueueAt, StartedAt
<1>4. CASE Closing!FinalReceipt
  <2>1. CASE receipt' = "closed"
    <3>1. /\ pc = "seal" /\ pc' = "done" /\ mode = "queue" /\ asOf' = asOf /\ table' = table
          /\ Closing!Remaining(listing) = {}
      BY <1>1, <1>4, <2>1, QueueingKeeps DEF Closing!FinalReceipt, Queueing, Closing!windows
    <3>2. \A p \in Pids : Suspect(p) => p \notin listing
      BY <1>1, <3>1 DEF Closing!Remaining, Closing!Verified, Closing!Unknown, Closing!Running,
         Closing!Live, Suspect
    <3>3. \A p \in Pids : Suspect(p) => table[p].born > asOf
      BY <1>1, <3>1, <3>2 DEF Seen
    <3>4. QED
      BY <3>1, <3>3 DEF Seen, Suspect
  <2>2. CASE receipt' # "closed"
    BY <1>4, <2>2 DEF Seen, Closing!FinalReceipt
  <2>3. QED
    BY <2>1, <2>2
<1>5. CASE Closing!FinalLists
  <2>1. /\ pc' = "seal" /\ mode' = "queue" /\ table' = table /\ listing' = Closing!Named
        /\ receipt' = receipt /\ pc = "final" /\ mode = "queue"
    BY <1>1, <1>5, QueueingKeeps DEF Closing!FinalLists, Closing!Enumerate, Queueing, Closing!windows
  <2>2. receipt' # "closed"
    BY <1>1, <2>1 DEF Seen
  <2>3. \A p \in Pids : Suspect(p) => p \in Closing!Named
    BY DEF Suspect, Closing!Named
  <2>4. QED
    BY <2>1, <2>2, <2>3 DEF Seen, Suspect
<1>6. CASE Queueing /\ ~Closing!FinalReceipt /\ ~Closing!FinalLists
  <2>1. pc' # "seal" /\ receipt' = receipt
    BY <1>6 DEF Queueing, Closing!QueueBegin, Closing!Bind, Closing!PassLists, Closing!PassSelects,
       Closing!OpenTarget, Closing!CallTarget, Closing!Poll, Closing!Look, Closing!Enumerate
  <2>2. pc # "done" /\ mode = "queue"
    BY <1>1, <1>6, QueueingKeeps
  <2>3. QED
    BY <1>1, <2>1, <2>2 DEF Seen
<1>7. QED
  BY <1>2, <1>3, <1>4, <1>5, <1>6, StepKinds

LEMMA SparedKept ==
    ASSUME Closing!GameCloseAssumption, CloseInv, Closing!Next
    PROVE  Spared'
<1>1. Routed /\ Births /\ Spared /\ Moves
  BY EveryStepMoves DEF CloseInv
\* an identifier gets no birth of before
<1>2. ASSUME NEW p \in Pids, table'[p] # None, table'[p].born \in preexisting
      PROVE  table[p] # None /\ table[p].born \in preexisting
  <2>1. table'[p].born # born + 1
    BY <1>1, <1>2 DEF Spared, Births
  <2>2. QED
    BY <1>1, <1>2, <2>1 DEF Moves
<1>3. CASE preexisting' = preexisting /\ baseline' = baseline
  <2>1. \A n \in preexisting : n \in Nat /\ n <= born'
    BY <1>1 DEF Spared, Births, Moves
  <2>2. \A p \in Pids : table'[p] # None /\ table'[p].born \in preexisting => p \in baseline
    BY <1>1, <1>2 DEF Spared
  <2>3. mode' = mode /\ (mode = "queue" => preexisting = {})
    BY <1>1, StepKinds, OutsideKeeps, RaisingKeeps, QueueingKeeps, StartingKeeps DEF Spared
  <2>4. pc' = "before" => preexisting = {}
    BY <1>1, StepKinds, OutsideKeeps, RaisingKeeps, QueueingKeeps, StartingKeeps DEF Spared
  <2>5. mode = "started" => /\ targets' \cap baseline = {}
                            /\ pc' \in {"before", "launching", "owned"} => targets' = {}
    <3>1. CASE Outside \/ Raising \/ Queueing
      BY <1>1, <3>1, OutsideKeeps, RaisingKeeps, QueueingKeeps DEF Spared
    <3>2. CASE Closing!LaunchBaseline \/ Closing!LaunchClient \/ Closing!StartedAsks
                 \/ Closing!StartedReceipt
      BY <1>1, <3>2 DEF Spared, Closing!LaunchBaseline, Closing!LaunchClient, Closing!StartedAsks,
         Closing!StartedReceipt
    <3>3. CASE Closing!StartedBegin
      BY <1>1, <3>3 DEF Spared, Closing!StartedBegin, Closing!Owned
    <3>4. CASE Closing!StartedKills
      BY <1>1, <3>4 DEF Spared, Closing!StartedKills
    <3>5. CASE Closing!StartedWaits
      BY <1>1, <3>5 DEF Spared, Closing!StartedWaits, Closing!Owned
    <3>6. QED
      BY <3>1, <3>2, <3>3, <3>4, <3>5, StepKinds DEF Starting
  <2>6. ASSUME NEW k \in killed', k \notin killed PROVE k.born \notin preexisting
    <3>1. Queueing \/ Starting
      BY <2>6, StepKinds, OutsideKeeps, RaisingKeeps
    <3>2. CASE Queueing
      BY <1>1, <3>2, QueueingKeeps DEF Spared
    <3>3. CASE Starting
      <4>1. PICK p \in Pids : table[p] # None /\ k.born = table[p].born
                              /\ (pc = "call" \/ p \in targets)
        BY <2>6, <3>3, Kills DEF CloseInv
      <4>2. mode = "started" /\ pc # "call"
        BY <1>1, <3>3, StartingKeeps DEF Routed, StartedAt
      <4>3. p \notin baseline
        BY <1>1, <4>1, <4>2 DEF Spared
      <4>4. QED
        BY <1>1, <4>1, <4>3 DEF Spared
    <3>4. QED
      BY <3>1, <3>2, <3>3
  <2>7. \A k \in killed' : k.born \notin preexisting
    BY <1>1, <2>6 DEF Spared
  <2>8. QED
    BY <1>3, <2>1, <2>2, <2>3, <2>4, <2>5, <2>7 DEF Spared
<1>4. CASE Closing!LaunchBaseline
  <2>1. /\ pc = "before" /\ pc' = "launching" /\ mode = "started" /\ mode' = mode /\ table' = table
        /\ born' = born /\ targets' = targets /\ killed' = killed /\ baseline' = Closing!Running(Closing!Named)
        /\ preexisting' = {table[p].born : p \in Closing!Running(Closing!Named)}
    BY <1>4 DEF Closing!LaunchBaseline, Closing!windows
  <2>2. killed = {} /\ targets = {}
    BY <1>1, <2>1 DEF Routed, Spared
  <2>3. \A p \in Closing!Running(Closing!Named) :
            p \in Pids /\ table[p] # None /\ table[p].born \in Nat /\ table[p].born <= born
    BY <1>1 DEF Closing!Running, Closing!Live, Births, Entry, Closing!Process
  <2>4. \A p \in Pids : table[p] # None /\ table[p].born \in preexisting' => p \in baseline'
    BY <1>1, <2>1, <2>3 DEF Births
  <2>5. \A n \in preexisting' : n \in Nat /\ n <= born'
    BY <2>1, <2>3
  <2>6. QED
    BY <2>1, <2>2, <2>4, <2>5 DEF Spared
<1>5. QED
  BY <1>1, <1>3, <1>4, StepKinds, OutsideKeeps, RaisingKeeps, QueueingKeeps, StartingKeeps

LEMMA CloseStep ==
    ASSUME Closing!GameCloseAssumption, CloseInv, [Closing!Next]_(Closing!vars)
    PROVE  CloseInv'
<1>1. CASE Closing!Next
  BY <1>1, BirthsKept, RoutedKept, PinnedKept, OfTheBoundKept, LateOnceKept, SeenKept, SparedKept
     DEF CloseInv
<1>2. CASE UNCHANGED Closing!vars
  BY <1>2 DEF CloseInv, Births, Routed, Pinned, OfTheBound, LateOnce, Late, Seen, Spared, Suspect,
     Closing!vars, Closing!closer
<1>3. QED
  BY <1>1, <1>2

\* close_for_queue terminates only the clients it bound, at most one of them
\* after a cancellation, and its "closed" is true of the machine; close_started
\* spares the clients that were open before the launch.

LEMMA CloseInvIsSafe == ASSUME CloseInv PROVE CloseSafe
<1>1. Closing!QueueKillsOnlyBound
  BY DEF CloseInv, OfTheBound, Closing!QueueKillsOnlyBound
<1>2. Closing!AtMostOneAfterCancel
  <2>1. PICK x : Late \subseteq {x}
    BY DEF CloseInv, LateOnce
  <2>2. \A k \in killed : k.late \in BOOLEAN
    BY DEF CloseInv, Routed, Kill
  <2>3. QED
    BY <2>1, <2>2 DEF Late, Closing!AtMostOneAfterCancel
<1>3. Closing!ClosedMeansGone
  <2>1. \A p \in Closing!Live : p \in Pids /\ table[p] # None /\ table[p].live = TRUE
    BY DEF CloseInv, Births, Entry, Closing!Process, Closing!Live
  <2>2. QED
    BY <2>1 DEF CloseInv, Seen, Suspect, Closing!ClosedMeansGone
<1>4. Closing!PreexistingSpared
  BY DEF CloseInv, Spared, Closing!PreexistingSpared
<1>5. QED
  BY <1>1, <1>2, <1>3, <1>4 DEF CloseSafe, Closing!KillsSafely

\* For any identifiers, any number of processes and either closer, with Windows
\* handing identifiers out again at any moment.
THEOREM ClosingIsSafe == ASSUME Closing!GameCloseAssumption PROVE Closing!Spec => []CloseSafe
<1>1. Closing!Init => CloseInv
  BY CloseStarts
<1>2. CloseInv /\ [Closing!Next]_(Closing!vars) => CloseInv'
  BY CloseStep
<1>3. CloseInv => CloseSafe
  BY CloseInvIsSafe
<1>4. QED
  BY <1>1, <1>2, <1>3, PTL DEF Closing!Spec

-----------------------------------------------------------------------------
(* Starting a client (GameLaunch), for any game, any deadlines, any number   *)
(* of processes, actions and recycles.  What the two have in common of their *)
(* names (born, pc, baseline, targets, cancelled, killed) is the launch's    *)
(* here.                                                                     *)

Waits == [left : Int, cap : Int, ui : Int, invoked : BOOLEAN, acts : Nat, idle : Nat,
          stable : BOOLEAN, restores : Int, blank : BOOLEAN]

\* What a launch has spent: the recycles before this wait, and the rounds of
\* actions without effect that an Endfield wait has behind it.
PerWaitWW == MaxActions + 2
Recycled(n) == n * PerWaitWW
Rounds(n)   == n * MaxActions
Entered(w)  == IF w.invoked = TRUE THEN 1 ELSE 0

Budgets ==
    /\ kind \in Kinds /\ MaxActions \in Nat
    /\ wait \in Waits /\ wait.acts <= MaxActions /\ (wait.idle = 0 \/ wait.idle < MaxActions)
    /\ recycles \in Nat /\ surface \in Nat /\ surface <= MaxActions /\ clicks \in Nat
    /\ kind = "ww" \/ (recycles = 0 /\ step \notin {"gate", "recycle"})
    /\ step \in {"enter", "start", "loop", "recycle"} => wait = Launching!NoWait

Pressed ==
    /\ kind = "ww" /\ step # "done" => clicks <= Recycled(recycles) + wait.acts + Entered(wait)
    /\ kind = "ww" /\ step = "done" => clicks <= Recycled(recycles) + PerWaitWW
    /\ kind = "endfield" /\ step # "done" => clicks <= Rounds(wait.acts) + wait.idle
    /\ kind = "endfield" /\ step = "done" => clicks <= Rounds(MaxActions + 1) + 1
    /\ kind \notin {"ww", "endfield"} => clicks = surface

Ended ==
    /\ abandoned \in BOOLEAN /\ cleaned \in BOOLEAN
    /\ step # "done" => outcome = "none" /\ cleaned = FALSE
    /\ cleaned = TRUE => outcome = "error"
    /\ outcome = "error" /\ branch = "started" => cleaned = TRUE \/ wait = Launching!NoWait

LateOnceStarted == late = 0 \/ (late = 1 /\ abandoned = TRUE /\ step \in {"loop", "done"})

LaunchInv == Budgets /\ Pressed /\ Ended /\ LateOnceStarted

\* The arithmetic of the bounds.
LEMMA Arithmetic ==
    ASSUME MaxActions \in Nat
    PROVE  /\ \A n \in Nat : Recycled(n) \in Nat /\ Recycled(n + 1) = Recycled(n) + PerWaitWW
           /\ \A n \in Nat : Rounds(n) \in Nat /\ Rounds(n + 1) = Rounds(n) + MaxActions
           /\ Rounds(0) = 0 /\ Recycled(0) = 0
           /\ \A m, n \in Nat : m <= n => Rounds(m) <= Rounds(n)
<1>1. \A n \in Nat : Recycled(n) \in Nat /\ Recycled(n + 1) = Recycled(n) + PerWaitWW
  BY DEF Recycled, PerWaitWW
<1>2. \A n \in Nat : Rounds(n) \in Nat /\ Rounds(n + 1) = Rounds(n) + MaxActions
  BY DEF Rounds
<1>3. Rounds(0) = 0 /\ Recycled(0) = 0
  BY DEF Rounds, Recycled, PerWaitWW
<1>4. ASSUME NEW m \in Nat, NEW n \in Nat, m <= n PROVE Rounds(m) <= Rounds(n)
  <2> DEFINE d == n - m
  <2>1. d \in Nat /\ n = m + d
    BY <1>4
  <2> HIDE DEF d
  <2>2. n * MaxActions = m * MaxActions + d * MaxActions /\ d * MaxActions \in Nat
    BY <2>1
  <2>3. QED
    BY <2>2 DEF Rounds
<1>5. QED
  BY <1>1, <1>2, <1>3, <1>4

LEMMA WaitShapes ==
    ASSUME Launching!GameLaunchAssumption
    PROVE  /\ Launching!NoWait \in Waits /\ Launching!FreshWait \in Waits
           /\ Launching!NoWait.acts = 0 /\ Launching!NoWait.idle = 0 /\ Launching!NoWait.invoked = FALSE
           /\ Launching!FreshWait.acts = 0 /\ Launching!FreshWait.idle = 0
           /\ Launching!FreshWait.invoked = FALSE
<1>1. Launching!NoWait \in Waits /\ Launching!NoWait.acts = 0 /\ Launching!NoWait.idle = 0
      /\ Launching!NoWait.invoked = FALSE
  BY DEF Launching!NoWait, Waits
<1>2. ReadyPolls \in Int /\ CapPolls \in Int /\ UiPolls \in Int
  BY DEF Launching!GameLaunchAssumption
<1>3. QED
  BY <1>1, <1>2 DEF Launching!FreshWait, Waits

LEMMA LaunchStarts == ASSUME Launching!GameLaunchAssumption, Launching!Init PROVE LaunchInv
<1>1. Budgets
  <2>1. /\ wait = Launching!NoWait /\ recycles = 0 /\ surface = 0 /\ clicks = 0 /\ step = "enter"
        /\ kind \in Kinds
    BY DEF Launching!Init
  <2>2. MaxActions \in Nat
    BY DEF Launching!GameLaunchAssumption
  <2>3. QED
    BY <2>1, <2>2, WaitShapes DEF Budgets
<1>2. Pressed
  <2>1. clicks = 0 /\ surface = 0 /\ recycles = 0 /\ wait = Launching!NoWait /\ step = "enter"
        /\ MaxActions \in Nat
    BY DEF Launching!Init, Launching!GameLaunchAssumption
  <2>2. Recycled(0) = 0 /\ Rounds(0) = 0 /\ Entered(wait) = 0 /\ wait.acts = 0 /\ wait.idle = 0
    BY <2>1, Arithmetic, WaitShapes DEF Entered
  <2>3. QED
    BY <2>1, <2>2 DEF Pressed
<1>3. Ended /\ LateOnceStarted
  BY DEF Launching!Init, Ended, LateOnceStarted
<1>4. QED
  BY <1>1, <1>2, <1>3 DEF LaunchInv

\* What stays as it is in the budget of a wait when only its clocks move.
SameBudget(w) == w \in Waits /\ w.acts = wait.acts /\ w.idle = wait.idle /\ w.invoked = wait.invoked

LEMMA NextPollKeeps ==
    ASSUME NEW w \in Waits, Launching!NextPoll(w)
    PROVE  wait' \in Waits /\ wait'.acts = w.acts /\ wait'.idle = w.idle
           /\ wait'.invoked = w.invoked /\ step' = "poll"
<1> DEFINE l == IF w.left > 0 THEN w.left - 1 ELSE 0
           c == IF w.cap > 0 THEN w.cap - 1 ELSE 0
           u == IF w.ui > 0 THEN w.ui - 1 ELSE 0
<1>1. step' = "poll" /\ wait' = [w EXCEPT !.left = l, !.cap = c, !.ui = u]
  BY DEF Launching!NextPoll
<1>2. l \in Int /\ c \in Int /\ u \in Int
  BY DEF Waits
<1> HIDE DEF l, c, u
<1>3. QED
  BY <1>1, <1>2 DEF Waits

\* A step that presses nothing and recycles nothing.
Quiet ==
    /\ SameBudget(wait') /\ kind' = kind /\ recycles' = recycles /\ surface' = surface
    /\ clicks' = clicks /\ step # "done"
    /\ kind = "ww" \/ step' \notin {"gate", "recycle"}
    /\ step' \in {"enter", "start", "loop", "recycle"} => wait' = Launching!NoWait

LEMMA QuietKeeps == ASSUME Budgets, Pressed, Quiet PROVE Budgets' /\ Pressed'
<1>1. Budgets'
  BY DEF Budgets, Quiet, SameBudget
<1>2. MaxActions \in Nat /\ wait.acts \in Nat /\ wait.idle \in Nat /\ wait.acts <= MaxActions
      /\ wait.idle <= MaxActions /\ recycles \in Nat /\ clicks \in Nat
  BY DEF Budgets, Waits
<1>3. /\ Rounds(wait.acts) <= Rounds(MaxActions) /\ Rounds(MaxActions + 1) = Rounds(MaxActions) + MaxActions
      /\ Rounds(wait.acts) \in Nat /\ Rounds(MaxActions) \in Nat /\ Recycled(recycles) \in Nat
  BY <1>2, Arithmetic
<1>4. Entered(wait) \in {0, 1} /\ Entered(wait') = Entered(wait)
  BY DEF Entered, Quiet, SameBudget
<1>5. step # "done" /\ kind' = kind /\ clicks' = clicks /\ surface' = surface /\ recycles' = recycles
      /\ wait'.acts = wait.acts /\ wait'.idle = wait.idle
  BY DEF Quiet, SameBudget
<1>6. CASE kind = "ww"
  <2>1. clicks <= Recycled(recycles) + wait.acts + Entered(wait)
    BY <1>5, <1>6 DEF Pressed
  <2>2. wait.acts + Entered(wait) <= PerWaitWW
    BY <1>2, <1>4 DEF PerWaitWW
  <2>3. clicks <= Recycled(recycles) + PerWaitWW
    BY <1>2, <1>3, <1>4, <2>1, <2>2 DEF PerWaitWW
  <2>4. QED
    BY <1>1, <1>4, <1>5, <1>6, <2>1, <2>3 DEF Pressed
<1>7. CASE kind = "endfield"
  <2>1. clicks <= Rounds(wait.acts) + wait.idle
    BY <1>5, <1>7 DEF Pressed
  <2>2. clicks <= Rounds(MaxActions + 1) + 1
    BY <1>2, <1>3, <2>1
  <2>3. QED
    BY <1>1, <1>5, <1>7, <2>1, <2>2 DEF Pressed
<1>8. CASE kind \notin {"ww", "endfield"}
  BY <1>1, <1>5, <1>8 DEF Pressed
<1>9. QED
  BY <1>1, <1>6, <1>7, <1>8

\* A press of the WW launcher.
WWPress ==
    /\ kind = "ww" /\ kind' = kind /\ recycles' = recycles /\ surface' = surface /\ clicks' = clicks + 1
    /\ step # "done"
    /\ \/ /\ wait' \in Waits /\ wait'.idle = wait.idle /\ step' = "poll"
          /\ \/ wait'.acts = wait.acts /\ wait.invoked = FALSE /\ wait'.invoked = TRUE
             \/ wait'.acts = wait.acts + 1 /\ wait'.acts <= MaxActions /\ wait'.invoked = wait.invoked
       \/ step' = "done" /\ wait' = wait

LEMMA WWPressKeeps == ASSUME Budgets, Pressed, WWPress PROVE Budgets' /\ Pressed'
<1>1. Budgets'
  BY DEF Budgets, WWPress
<1>2. MaxActions \in Nat /\ wait.acts \in Nat /\ wait'.acts \in Nat /\ wait.acts <= MaxActions
      /\ recycles \in Nat /\ clicks \in Nat /\ recycles' = recycles
  BY <1>1 DEF Budgets, Waits, WWPress
<1>3. Recycled(recycles) \in Nat
  BY <1>2, Arithmetic
<1>4. clicks <= Recycled(recycles) + wait.acts + Entered(wait) /\ clicks' = clicks + 1
      /\ Entered(wait) \in {0, 1}
  BY DEF Pressed, WWPress, Entered
<1>5. CASE step' = "done"
  <2>1. clicks' <= Recycled(recycles) + PerWaitWW
    BY <1>2, <1>3, <1>4 DEF PerWaitWW
  <2>2. QED
    BY <1>1, <1>2, <1>5, <2>1 DEF Pressed, WWPress
<1>6. CASE step' = "poll"
  <2>1. Entered(wait') + wait'.acts = Entered(wait) + wait.acts + 1
    BY <1>2, <1>6 DEF WWPress, Entered
  <2>2. Entered(wait') \in {0, 1}
    BY DEF Entered
  <2>3. clicks' <= Recycled(recycles) + wait'.acts + Entered(wait')
    BY <1>2, <1>3, <1>4, <2>1, <2>2
  <2>4. QED
    BY <1>1, <1>2, <1>6, <2>3 DEF Pressed, WWPress
<1>7. QED
  BY <1>1, <1>5, <1>6 DEF WWPress

\* A press of the Endfield launcher, which acted or had no effect.
EndfieldPress ==
    /\ kind = "endfield" /\ kind' = kind /\ recycles' = recycles /\ surface' = surface
    /\ clicks' = clicks + 1 /\ step # "done"
    /\ \/ /\ wait' \in Waits /\ step' = "poll"
          /\ \/ wait'.acts = wait.acts + 1 /\ wait'.acts <= MaxActions /\ wait'.idle = 0
             \/ wait'.acts = wait.acts /\ wait'.idle = wait.idle + 1 /\ wait'.idle < MaxActions
       \/ step' = "done" /\ wait' = wait

LEMMA EndfieldPressKeeps == ASSUME Budgets, Pressed, EndfieldPress PROVE Budgets' /\ Pressed'
<1>1. Budgets'
  BY DEF Budgets, EndfieldPress
<1>2. MaxActions \in Nat /\ wait.acts \in Nat /\ wait'.acts \in Nat /\ wait.acts <= MaxActions
      /\ wait.idle \in Nat /\ (wait.idle = 0 \/ wait.idle < MaxActions) /\ clicks \in Nat
  BY <1>1 DEF Budgets, Waits
<1>3. /\ Rounds(wait.acts) \in Nat /\ Rounds(wait.acts + 1) = Rounds(wait.acts) + MaxActions
      /\ Rounds(wait.acts) <= Rounds(MaxActions)
      /\ Rounds(MaxActions + 1) = Rounds(MaxActions) + MaxActions /\ Rounds(MaxActions) \in Nat
  BY <1>2, Arithmetic
<1>4. clicks <= Rounds(wait.acts) + wait.idle /\ clicks' = clicks + 1
  BY DEF Pressed, EndfieldPress
<1>5. CASE step' = "done"
  <2>1. clicks' <= Rounds(MaxActions + 1) + 1
    BY <1>2, <1>3, <1>4
  <2>2. QED
    BY <1>1, <1>5, <2>1 DEF Pressed, EndfieldPress
<1>6. CASE step' = "poll" /\ wait'.acts = wait.acts + 1 /\ wait'.acts <= MaxActions /\ wait'.idle = 0
  <2>1. clicks' <= Rounds(wait.acts + 1) + 0
    BY <1>2, <1>3, <1>4, <1>6
  <2>2. QED
    BY <1>1, <1>6, <2>1 DEF Pressed, EndfieldPress
<1>7. CASE step' = "poll" /\ wait'.acts = wait.acts /\ wait'.idle = wait.idle + 1
  <2>1. clicks' <= Rounds(wait.acts) + (wait.idle + 1)
    BY <1>2, <1>3, <1>4
  <2>2. QED
    BY <1>1, <1>7, <2>1 DEF Pressed, EndfieldPress
<1>8. QED
  BY <1>1, <1>5, <1>6, <1>7 DEF EndfieldPress

\* The WeGame surface, before any client runs.
SurfacePress ==
    /\ kind = "nikke" /\ kind' = kind /\ recycles' = recycles /\ wait' = wait
    /\ step = "loop" /\ step' = "loop" /\ surface < MaxActions /\ surface' = surface + 1 /\ clicks' = clicks + 1

LEMMA SurfacePressKeeps == ASSUME Budgets, Pressed, SurfacePress PROVE Budgets' /\ Pressed'
  BY DEF Budgets, Pressed, SurfacePress

\* A wait that ends in a recycle: the next one begins with a budget of its own.
Again == /\ kind = "ww" /\ kind' = kind /\ recycles' = recycles + 1 /\ surface' = surface
         /\ clicks' = clicks /\ wait' = Launching!NoWait /\ step # "done" /\ step' = "recycle"

LEMMA AgainKeeps ==
    ASSUME Launching!GameLaunchAssumption, Budgets, Pressed, Again
    PROVE  Budgets' /\ Pressed'
<1>1. Budgets'
  BY WaitShapes DEF Budgets, Again
<1>2. MaxActions \in Nat /\ wait.acts \in Nat /\ wait.acts <= MaxActions /\ recycles \in Nat /\ clicks \in Nat
  BY DEF Budgets, Waits
<1>3. Recycled(recycles) \in Nat /\ Recycled(recycles + 1) = Recycled(recycles) + PerWaitWW
  BY <1>2, Arithmetic
<1>4. clicks <= Recycled(recycles) + wait.acts + Entered(wait) /\ Entered(wait) \in {0, 1}
  BY DEF Pressed, Again, Entered
<1>5. wait'.acts = 0 /\ Entered(wait') = 0
  BY WaitShapes DEF Again, Entered
<1>6. clicks <= Recycled(recycles + 1) + wait'.acts + Entered(wait')
  BY <1>2, <1>3, <1>4, <1>5 DEF PerWaitWW
<1>7. Pressed'
  BY <1>6 DEF Pressed, Again
<1>8. QED
  BY <1>1, <1>7

LEMMA ExtendKeeps ==
    ASSUME Launching!GameLaunchAssumption, wait \in Waits
    PROVE  SameBudget(Launching!Extend(wait))
<1> DEFINE l == LET longer == IF wait.left > ReadyPolls + 1 THEN wait.left ELSE ReadyPolls + 1
                IN  IF longer < wait.cap THEN longer ELSE wait.cap
           u == UiPolls + 1
<1>1. Launching!Extend(wait) = [wait EXCEPT !.ui = u, !.left = l]
  BY DEF Launching!Extend
<1>2. l \in Int /\ u \in Int
  BY DEF Waits, Launching!GameLaunchAssumption
<1> HIDE DEF l, u
<1>3. QED
  BY <1>1, <1>2 DEF SameBudget, Waits

\* The steps of a poll only move the clocks of the wait.
LEMMA PollsAreQuiet ==
    ASSUME Budgets, Launching!PollReady \/ Launching!PollWindow \/ Launching!PollNothing
    PROVE  SameBudget(wait')
<1>1. wait \in Waits
  BY DEF Budgets
<1> DEFINE l == wait.left - 1
           c == wait.cap - 1
           r == wait.restores + 1
<1>2. l \in Int /\ c \in Int /\ r \in Int
  BY <1>1 DEF Waits
<1>3. \/ wait' = wait
      \/ wait' = [wait EXCEPT !.stable = FALSE, !.blank = TRUE, !.left = l, !.cap = c]
      \/ wait' = [wait EXCEPT !.stable = FALSE, !.restores = r, !.left = l, !.cap = c]
      \/ wait' = [wait EXCEPT !.stable = TRUE, !.left = l, !.cap = c]
      \/ wait' = [wait EXCEPT !.stable = FALSE]
      \/ wait' = [wait EXCEPT !.stable = FALSE, !.left = l, !.cap = c]
  BY DEF Launching!PollReady, Launching!PollWindow, Launching!PollNothing, Launching!Finish
<1> HIDE DEF l, c, r
<1>4. CASE wait' = wait \/ wait' = [wait EXCEPT !.stable = FALSE]
  BY <1>1, <1>4 DEF SameBudget, Waits
<1>5. CASE wait' = [wait EXCEPT !.stable = FALSE, !.blank = TRUE, !.left = l, !.cap = c]
  BY <1>1, <1>2, <1>5 DEF SameBudget, Waits
<1>6. CASE wait' = [wait EXCEPT !.stable = FALSE, !.restores = r, !.left = l, !.cap = c]
  BY <1>1, <1>2, <1>6 DEF SameBudget, Waits
<1>7. CASE wait' = [wait EXCEPT !.stable = TRUE, !.left = l, !.cap = c]
  BY <1>1, <1>2, <1>7 DEF SameBudget, Waits
<1>8. CASE wait' = [wait EXCEPT !.stable = FALSE, !.left = l, !.cap = c]
  BY <1>1, <1>2, <1>8 DEF SameBudget, Waits
<1>9. QED
  BY <1>3, <1>4, <1>5, <1>6, <1>7, <1>8

LEMMA SameIsQuiet == ASSUME Budgets, wait' = wait PROVE SameBudget(wait')
  BY DEF Budgets, SameBudget

LEMMA FreshIsQuiet ==
    ASSUME Launching!GameLaunchAssumption, wait = Launching!NoWait,
           wait' = Launching!NoWait \/ wait' = Launching!FreshWait
    PROVE  SameBudget(wait')
  BY WaitShapes DEF SameBudget

LEMMA WWProbe ==
    ASSUME Launching!GameLaunchAssumption, Budgets, Launching!ProbeWW
    PROVE  Quiet \/ WWPress
<1>1. wait \in Waits /\ kind = "ww" /\ kind' = kind /\ recycles' = recycles /\ surface' = surface
      /\ step = "probe" /\ MaxActions \in Nat
  BY DEF Budgets, Launching!ProbeWW
<1>2. CASE Launching!MayInvoke /\ Launching!NextPoll([wait EXCEPT !.invoked = TRUE]) /\ clicks' = clicks + 1
  <2> DEFINE w == [wait EXCEPT !.invoked = TRUE]
  <2>1. w \in Waits /\ w.acts = wait.acts /\ w.idle = wait.idle /\ w.invoked = TRUE
    BY <1>1 DEF Waits
  <2>2. Launching!NextPoll(w)
    BY <1>2
  <2> HIDE DEF w
  <2>3. wait' \in Waits /\ wait'.acts = wait.acts /\ wait'.idle = wait.idle /\ wait'.invoked = TRUE
        /\ step' = "poll"
    BY <2>1, <2>2, NextPollKeeps
  <2>4. wait.invoked = FALSE
    BY <1>1, <1>2 DEF Launching!MayInvoke, Waits
  <2>5. QED
    BY <1>1, <1>2, <2>3, <2>4 DEF WWPress
<1>3. CASE /\ wait.acts + 1 <= MaxActions /\ clicks' = clicks + 1
           /\ Launching!NextPoll([wait EXCEPT !.acts = @ + 1, !.ui = UiPolls + 1])
  <2> DEFINE a == wait.acts + 1
             u == UiPolls + 1
  <2>1. a \in Nat /\ u \in Int
    BY <1>1 DEF Waits, Launching!GameLaunchAssumption
  <2> DEFINE w == [wait EXCEPT !.acts = a, !.ui = u]
  <2>2. Launching!NextPoll(w)
    BY <1>3
  <2>3. a = wait.acts + 1
    OBVIOUS
  <2> HIDE DEF a, u
  <2>4. w \in Waits /\ w.acts = a /\ w.idle = wait.idle /\ w.invoked = wait.invoked
    BY <1>1, <2>1 DEF Waits
  <2> HIDE DEF w
  <2>5. wait' \in Waits /\ wait'.acts = a /\ wait'.idle = wait.idle /\ wait'.invoked = wait.invoked
        /\ step' = "poll"
    BY <2>2, <2>4, NextPollKeeps
  <2>6. QED
    BY <1>1, <1>3, <2>3, <2>5 DEF WWPress
<1>4. CASE wait' = wait /\ step' = "done" /\ clicks' = clicks + 1
  BY <1>1, <1>4 DEF WWPress
<1>5. CASE wait' = wait /\ step' \in {"done", "gate"} /\ clicks' = clicks
  BY <1>1, <1>5, SameIsQuiet DEF Quiet
<1>6. CASE clicks' = clicks /\ \E w \in {wait, Launching!Extend(wait)} : Launching!NextPoll(w)
  <2>1. PICK w : SameBudget(w) /\ Launching!NextPoll(w)
    BY <1>1, <1>6, ExtendKeeps DEF SameBudget
  <2>2. SameBudget(wait') /\ step' = "poll"
    BY <2>1, NextPollKeeps DEF SameBudget
  <2>3. QED
    BY <1>1, <1>6, <2>2 DEF Quiet
<1>7. QED
  <2>1. wait.acts + 1 <= MaxActions \/ wait.acts + 1 > MaxActions
    BY <1>1 DEF Waits
  <2>2. QED
    BY <1>2, <1>3, <1>4, <1>5, <1>6, <2>1
       DEF Launching!ProbeWW, Launching!RaiseGate, Launching!KeepForHuman, Launching!Finish

LEMMA FailEnds == ASSUME Launching!Fail PROVE step' = "done"
  BY DEF Launching!Fail, Launching!KeepForHuman, Launching!Finish

LEMMA EndfieldProbe ==
    ASSUME Budgets, Launching!ProbeEndfield
    PROVE  Quiet \/ EndfieldPress
<1>1. wait \in Waits /\ kind = "endfield" /\ kind' = kind /\ recycles' = recycles /\ surface' = surface
      /\ step = "probe" /\ MaxActions \in Nat
  BY DEF Budgets, Launching!ProbeEndfield
<1>2. CASE Launching!Fail /\ wait' = wait /\ clicks' = clicks
  BY <1>1, <1>2, FailEnds, SameIsQuiet DEF Quiet
<1>3. CASE Launching!Fail /\ wait' = wait /\ clicks' = clicks + 1
  BY <1>1, <1>3, FailEnds DEF EndfieldPress
<1>4. CASE Launching!NextPoll(wait) /\ clicks' = clicks
  <2>1. SameBudget(wait') /\ step' = "poll"
    BY <1>1, <1>4, NextPollKeeps DEF SameBudget
  <2>2. QED
    BY <1>1, <1>4, <2>1 DEF Quiet
<1>5. CASE /\ wait.acts + 1 <= MaxActions /\ clicks' = clicks + 1
           /\ Launching!NextPoll([wait EXCEPT !.acts = @ + 1, !.idle = 0])
  <2> DEFINE a == wait.acts + 1
  <2>1. a \in Nat /\ a = wait.acts + 1
    BY <1>1 DEF Waits
  <2> DEFINE w == [wait EXCEPT !.acts = a, !.idle = 0]
  <2>2. Launching!NextPoll(w)
    BY <1>5
  <2> HIDE DEF a
  <2>3. w \in Waits /\ w.acts = a /\ w.idle = 0
    BY <1>1, <2>1 DEF Waits
  <2> HIDE DEF w
  <2>4. wait' \in Waits /\ wait'.acts = a /\ wait'.idle = 0 /\ step' = "poll"
    BY <2>2, <2>3, NextPollKeeps
  <2>5. QED
    BY <1>1, <1>5, <2>1, <2>4 DEF EndfieldPress
<1>6. CASE /\ wait.idle + 1 < MaxActions /\ clicks' = clicks + 1
           /\ Launching!NextPoll([wait EXCEPT !.idle = @ + 1])
  <2> DEFINE a == wait.idle + 1
  <2>1. a \in Nat /\ a = wait.idle + 1
    BY <1>1 DEF Waits
  <2> DEFINE w == [wait EXCEPT !.idle = a]
  <2>2. Launching!NextPoll(w)
    BY <1>6
  <2> HIDE DEF a
  <2>3. w \in Waits /\ w.acts = wait.acts /\ w.idle = a
    BY <1>1, <2>1 DEF Waits
  <2> HIDE DEF w
  <2>4. wait' \in Waits /\ wait'.acts = wait.acts /\ wait'.idle = a /\ step' = "poll"
    BY <2>2, <2>3, NextPollKeeps
  <2>5. QED
    BY <1>1, <1>6, <2>1, <2>4 DEF EndfieldPress
<1>7. QED
  <2>1. /\ wait.acts + 1 <= MaxActions \/ wait.acts + 1 > MaxActions
        /\ wait.idle + 1 < MaxActions \/ wait.idle + 1 >= MaxActions
    BY <1>1 DEF Waits
  <2>2. QED
    BY <1>2, <1>3, <1>4, <1>5, <1>6, <2>1 DEF Launching!ProbeEndfield

LEMMA StepBudget ==
    ASSUME Launching!GameLaunchAssumption, Budgets, Launching!Next
    PROVE  Quiet \/ WWPress \/ EndfieldPress \/ SurfacePress \/ Again
<1>1. CASE Launching!Machine \/ Launching!Raised \/ Launching!Reactivate \/ Launching!Handoff
  BY <1>1, SameIsQuiet
     DEF Launching!Machine, Launching!Appear, Launching!Grow, Launching!Exit, Launching!Cancel,
         Launching!Raised, Launching!Reactivate, Launching!Handoff, Launching!Finish,
         Launching!KeepForHuman, Launching!locals, Launching!ghosts, Quiet, Budgets
<1>2. CASE Launching!Start \/ Launching!LoopSleeps \/ Launching!LoopExpires
  BY <1>2, SameIsQuiet
     DEF Launching!Start, Launching!LoopSleeps, Launching!LoopExpires, Launching!Finish,
         Launching!KeepForHuman, Launching!locals, Launching!ghosts, Quiet, Budgets
<1>3. CASE Launching!Enter \/ Launching!LoopLists
  <2>1. SameBudget(wait')
    BY <1>3, FreshIsQuiet DEF Launching!Enter, Launching!LoopLists, Budgets
  <2>2. QED
    BY <1>3, <2>1 DEF Launching!Enter, Launching!LoopLists, Launching!ghosts, Quiet
<1>4. CASE Launching!LoopDrivesWeGame
  <2>1. wait' = wait /\ kind' = kind /\ kind = "nikke" /\ recycles' = recycles /\ step = "loop"
        /\ step' \in {"loop", "done"}
    BY <1>4 DEF Launching!LoopDrivesWeGame, Launching!KeepForHuman, Launching!Finish
  <2>2. CASE surface' = surface /\ clicks' = clicks
    BY <2>1, <2>2, SameIsQuiet DEF Quiet, Budgets
  <2>3. CASE ~(surface' = surface /\ clicks' = clicks)
    BY <1>4, <2>1, <2>3 DEF Launching!LoopDrivesWeGame, Launching!MaySurfaceAct, SurfacePress
  <2>4. QED
    BY <2>2, <2>3
<1>5. CASE Launching!PollReady \/ Launching!PollWindow \/ Launching!PollNothing
  BY <1>5, PollsAreQuiet
     DEF Launching!PollReady, Launching!PollWindow, Launching!PollNothing, Launching!Finish,
         Launching!ghosts, Quiet
<1>6. CASE Launching!PollFails \/ Launching!WaitExpires
  BY <1>6, SameIsQuiet, FailEnds
     DEF Launching!PollFails, Launching!WaitExpires, Launching!RaiseGate, Launching!KeepForHuman,
         Launching!Finish, Launching!ghosts, Quiet
<1>7. CASE Launching!ProbeWW
  BY <1>7, WWProbe
<1>8. CASE Launching!ProbeEndfield
  BY <1>8, EndfieldProbe
<1>9. CASE Launching!HandleGate
  <2>1. step = "gate" /\ kind = "ww" /\ kind' = kind /\ surface' = surface /\ clicks' = clicks
    BY <1>9 DEF Launching!HandleGate, Budgets, Launching!ghosts
  <2>2. CASE step' = "recycle"
    BY <1>9, <2>1, <2>2 DEF Launching!HandleGate, Again, Launching!KeepForHuman, Launching!Finish
  <2>3. CASE step' # "recycle"
    BY <1>9, <2>1, <2>3, SameIsQuiet DEF Launching!HandleGate, Quiet, Launching!KeepForHuman, Launching!Finish
  <2>4. QED
    BY <2>2, <2>3
<1>10. CASE Launching!Recycle
  <2>1. step = "recycle" /\ kind = "ww" /\ wait = Launching!NoWait /\ kind' = kind /\ surface' = surface
        /\ clicks' = clicks /\ recycles' = recycles
    BY <1>10 DEF Launching!Recycle, Budgets
  <2>2. /\ wait' = wait \/ wait' = Launching!FreshWait
        /\ ((step' = "done" \/ step' = "start") /\ wait' = wait) \/ step' = "poll"
    BY <1>10 DEF Launching!Recycle, Launching!KeepForHuman, Launching!Finish
  <2>3. SameBudget(wait')
    BY <2>1, <2>2, FreshIsQuiet
  <2>4. QED
    BY <2>1, <2>2, <2>3 DEF Quiet
<1>11. QED
  BY <1>1, <1>2, <1>3, <1>4, <1>5, <1>6, <1>7, <1>8, <1>9, <1>10 DEF Launching!Next, Launching!Launch

LEMMA EndedKept ==
    ASSUME Launching!GameLaunchAssumption, LaunchInv, Launching!Next
    PROVE  Ended'
<1>1. Ended /\ step # "done" /\ outcome = "none" /\ cleaned = FALSE
      /\ (step \in {"enter", "start", "loop", "recycle"} => wait = Launching!NoWait)
      /\ (kind = "ww" \/ step \notin {"gate", "recycle"})
  <2>1. step # "done"
    BY StepBudget DEF LaunchInv, Quiet, WWPress, EndfieldPress, SurfacePress, Again
  <2>2. QED
    BY <2>1 DEF LaunchInv, Ended, Budgets
\* a step that goes on
<1>2. ASSUME step' # "done", outcome' = outcome, cleaned' = cleaned, abandoned' \in BOOLEAN PROVE Ended'
  BY <1>1, <1>2 DEF Ended
\* an end that is not an error of the launch
<1>3. ASSUME step' = "done", outcome' # "error", cleaned' = cleaned, abandoned' = abandoned PROVE Ended'
  BY <1>1, <1>3 DEF Ended
\* the failure of a wait
<1>4. ASSUME Launching!Fail, branch' = branch, wait' = wait, abandoned' = abandoned PROVE Ended'
  <2>1. CASE kind = "ww" \/ reactivated
    BY <1>1, <1>4, <2>1 DEF Launching!Fail, Launching!KeepForHuman, Launching!Finish, Ended
  <2>2. CASE ~(kind = "ww" \/ reactivated)
    BY <1>1, <1>4, <2>2 DEF Launching!Fail, Launching!Finish, Launching!CleanupOnFailure, Ended
  <2>3. QED
    BY <2>1, <2>2
\* an error before there is a wait
<1>5. ASSUME wait' = Launching!NoWait, step' = "done", cleaned' = cleaned, abandoned' = abandoned PROVE Ended'
  BY <1>1, <1>5 DEF Ended
<1>6. abandoned \in BOOLEAN
  BY <1>1 DEF Ended
<1>7. CASE Launching!Machine
  BY <1>1, <1>2, <1>6, <1>7
     DEF Launching!Machine, Launching!Appear, Launching!Grow, Launching!Exit, Launching!Cancel,
         Launching!locals
<1>8. CASE Launching!Raised \/ Launching!Reactivate \/ Launching!Handoff
  BY <1>1, <1>2, <1>3, <1>6, <1>8
     DEF Launching!Raised, Launching!Reactivate, Launching!Handoff, Launching!Finish,
         Launching!KeepForHuman, Launching!locals
<1>9. CASE Launching!Start \/ Launching!LoopExpires
  BY <1>1, <1>2, <1>5, <1>6, <1>9
     DEF Launching!Start, Launching!LoopExpires, Launching!Finish, Launching!KeepForHuman, Launching!locals
<1>10. CASE Launching!Enter \/ Launching!LoopLists \/ Launching!LoopSleeps
  BY <1>1, <1>2, <1>6, <1>10 DEF Launching!Enter, Launching!LoopLists, Launching!LoopSleeps
<1>11. CASE Launching!LoopDrivesWeGame
  BY <1>1, <1>2, <1>3, <1>6, <1>11 DEF Launching!LoopDrivesWeGame, Launching!KeepForHuman, Launching!Finish
<1>12. CASE Launching!PollReady \/ Launching!PollWindow \/ Launching!PollNothing
  BY <1>1, <1>2, <1>3, <1>6, <1>12
     DEF Launching!PollReady, Launching!PollWindow, Launching!PollNothing, Launching!Finish
<1>13. CASE Launching!PollFails
  BY <1>4, <1>13 DEF Launching!PollFails
<1>14. CASE Launching!WaitExpires
  <2>1. branch' = branch /\ wait' = wait /\ abandoned' = abandoned
    BY <1>14 DEF Launching!WaitExpires
  <2>2. CASE Launching!Fail
    BY <1>4, <2>1, <2>2
  <2>3. CASE ~Launching!Fail
    BY <1>1, <1>2, <1>3, <1>6, <1>14, <2>1, <2>3
       DEF Launching!WaitExpires, Launching!RaiseGate, Launching!KeepForHuman, Launching!Finish
  <2>4. QED
    BY <2>2, <2>3
<1>15. CASE Launching!ProbeWW
  BY <1>1, <1>2, <1>3, <1>6, <1>15
     DEF Launching!ProbeWW, Launching!NextPoll, Launching!RaiseGate, Launching!KeepForHuman, Launching!Finish
<1>16. CASE Launching!ProbeEndfield
  <2>1. branch' = branch /\ abandoned' = abandoned
    BY <1>16 DEF Launching!ProbeEndfield
  <2>2. CASE Launching!Fail /\ wait' = wait
    BY <1>4, <2>1, <2>2
  <2>3. CASE ~(Launching!Fail /\ wait' = wait)
    <3>1. step' = "poll" /\ outcome' = outcome /\ cleaned' = cleaned
      BY <1>16, <2>3 DEF Launching!ProbeEndfield, Launching!NextPoll
    <3>2. QED
      BY <1>2, <1>6, <2>1, <3>1
  <2>4. QED
    BY <2>2, <2>3
<1>17. CASE Launching!HandleGate \/ Launching!Recycle
  <2>1. cleaned' = cleaned /\ abandoned' = abandoned
    BY <1>17 DEF Launching!HandleGate, Launching!Recycle
  <2>2. (step' # "done" /\ outcome' = outcome) \/ (step' = "done" /\ outcome' # "error")
    BY <1>17 DEF Launching!HandleGate, Launching!Recycle, Launching!KeepForHuman, Launching!Finish
  <2>3. QED
    BY <1>2, <1>3, <1>6, <2>1, <2>2
<1>18. QED
  BY <1>7, <1>8, <1>9, <1>10, <1>11, <1>12, <1>13, <1>14, <1>15, <1>16, <1>17
     DEF Launching!Next, Launching!Launch

LEMMA LateKept ==
    ASSUME LaunchInv, Launching!Next
    PROVE  LateOnceStarted'
<1>1. LateOnceStarted /\ abandoned \in BOOLEAN
  BY DEF LaunchInv, Ended
\* nothing is started, and the cancellation is looked at before anything goes on
<1>2. ASSUME late' = late, abandoned' = abandoned \/ abandoned' = TRUE,
             step = "loop" => step' \in {"loop", "done"} \/ abandoned = FALSE,
             step # "done"
      PROVE  LateOnceStarted'
  BY <1>1, <1>2 DEF LateOnceStarted
<1>3. CASE Launching!Machine
  BY <1>2, <1>3
     DEF Launching!Machine, Launching!Appear, Launching!Grow, Launching!Exit, Launching!Cancel,
         Launching!locals, Launching!ghosts
<1>4. CASE \/ Launching!Raised \/ Launching!Enter \/ Launching!Reactivate \/ Launching!LoopLists
           \/ Launching!LoopSleeps \/ Launching!LoopExpires \/ Launching!Handoff
  <2>1. /\ late' = late /\ abandoned' = abandoned /\ step # "done"
        /\ step = "loop" => step' \in {"loop", "done"} \/ ~abandoned
    BY <1>4
       DEF Launching!Raised, Launching!Enter, Launching!Reactivate, Launching!LoopLists,
           Launching!LoopSleeps, Launching!LoopExpires, Launching!Handoff, Launching!ghosts,
           Launching!Finish, Launching!KeepForHuman, Launching!CancelRequested
  <2>2. QED
    BY <1>1, <1>2, <2>1
<1>5. CASE Launching!Start
  <2>1. step = "start" /\ late = 0 /\ abandoned' = abandoned
    BY <1>1, <1>5 DEF Launching!Start, LateOnceStarted
  <2>2. late' = 0 \/ (late' = 1 /\ abandoned = TRUE /\ step' = "loop")
    BY <1>1, <1>5, <2>1 DEF Launching!Start
  <2>3. QED
    BY <2>1, <2>2 DEF LateOnceStarted
<1>6. CASE Launching!LoopDrivesWeGame
  BY <1>1, <1>2, <1>6 DEF Launching!LoopDrivesWeGame, Launching!CancelRequested
<1>7. CASE Launching!PollReady \/ Launching!PollWindow \/ Launching!PollNothing \/ Launching!PollFails
  BY <1>2, <1>7
     DEF Launching!PollReady, Launching!PollWindow, Launching!PollNothing, Launching!PollFails,
         Launching!ghosts
<1>8. CASE Launching!ProbeWW \/ Launching!ProbeEndfield \/ Launching!WaitExpires
  BY <1>2, <1>8 DEF Launching!ProbeWW, Launching!ProbeEndfield, Launching!WaitExpires
<1>9. CASE Launching!HandleGate \/ Launching!Recycle
  BY <1>2, <1>9 DEF Launching!HandleGate, Launching!Recycle, Launching!ghosts
<1>10. QED
  BY <1>3, <1>4, <1>5, <1>6, <1>7, <1>8, <1>9 DEF Launching!Next, Launching!Launch

LEMMA LaunchStep ==
    ASSUME Launching!GameLaunchAssumption, LaunchInv, [Launching!Next]_(Launching!vars)
    PROVE  LaunchInv'
<1>1. CASE Launching!Next
  <2>1. Budgets' /\ Pressed'
    BY <1>1, StepBudget, QuietKeeps, WWPressKeeps, EndfieldPressKeeps, SurfacePressKeeps, AgainKeeps
       DEF LaunchInv
  <2>2. QED
    BY <1>1, <2>1, EndedKept, LateKept DEF LaunchInv
<1>2. CASE UNCHANGED Launching!vars
  BY <1>2 DEF LaunchInv, Budgets, Pressed, Ended, LateOnceStarted, Entered, Launching!vars,
     Launching!locals, Launching!ghosts
<1>3. QED
  BY <1>1, <1>2

LEMMA LaunchInvIsSafe ==
    ASSUME Launching!GameLaunchAssumption, LaunchInv
    PROVE  Launching!KindSafe
<1>1. Launching!CancelLeavesScene /\ Launching!HumanKeepsScene /\ Launching!FailureCleans
  BY DEF LaunchInv, Ended, LateOnceStarted, Launching!CancelLeavesScene, Launching!HumanKeepsScene,
     Launching!FailureCleans
<1>2. Launching!ClicksBounded
  <2>1. /\ MaxActions \in Nat /\ recycles \in Nat /\ surface \in Nat /\ surface <= MaxActions
        /\ clicks \in Nat /\ wait.acts \in Nat /\ wait.acts <= MaxActions
        /\ wait.idle \in Nat /\ wait.idle <= MaxActions /\ (kind = "ww" \/ recycles = 0)
    BY DEF LaunchInv, Budgets, Waits
  <2>2. /\ Recycled(recycles) \in Nat /\ Recycled(recycles + 1) = Recycled(recycles) + PerWaitWW
        /\ Rounds(wait.acts) <= Rounds(MaxActions) /\ Rounds(MaxActions) \in Nat /\ Rounds(wait.acts) \in Nat
        /\ Rounds(MaxActions + 1) = Rounds(MaxActions) + MaxActions
    BY <2>1, Arithmetic
  <2>3. CASE kind = "ww"
    <3>1. Entered(wait) <= 1 /\ Entered(wait) \in Nat
      BY DEF Entered
    <3>2. clicks <= Recycled(recycles) + PerWaitWW
      BY <2>1, <2>2, <2>3, <3>1 DEF LaunchInv, Pressed, PerWaitWW
    <3>3. (1 + recycles) * PerWaitWW = Recycled(recycles + 1)
      BY <2>1 DEF Recycled
    <3>4. QED
      BY <2>2, <2>3, <3>2, <3>3 DEF Launching!ClicksBounded, Launching!PressesPerWait, PerWaitWW
  <2>4. CASE kind = "endfield"
    <3>1. clicks <= Rounds(MaxActions + 1) + 1
      BY <2>1, <2>2, <2>4 DEF LaunchInv, Pressed
    <3>2. Rounds(MaxActions + 1) = MaxActions * (MaxActions + 1)
      BY <2>1 DEF Rounds
    <3>3. Launching!PressesPerWait = Rounds(MaxActions + 1) + 1 /\ recycles = 0
      BY <2>1, <2>4, <3>2 DEF Launching!PressesPerWait
    <3>4. (1 + 0) * (Rounds(MaxActions + 1) + 1) = Rounds(MaxActions + 1) + 1
      BY <2>1, <2>2
    <3>5. QED
      BY <3>1, <3>3, <3>4 DEF Launching!ClicksBounded
  <2>5. CASE kind \notin {"ww", "endfield"}
    <3>1. clicks <= MaxActions /\ recycles = 0 /\ Launching!PressesPerWait = MaxActions
      BY <2>1, <2>5 DEF LaunchInv, Pressed, Launching!PressesPerWait
    <3>2. QED
      BY <2>1, <3>1 DEF Launching!ClicksBounded
  <2>6. QED
    BY <2>3, <2>4, <2>5
<1>3. QED
  BY <1>1, <1>2 DEF Launching!KindSafe

\* What a recycle may end, where nothing ran before the launch: the branch that
\* waits for what was there before is then never taken.
Phases == {"launcher", "shell", "live", "window"}
Known  == [id : Nat, phase : Phases, opaque : BOOLEAN]
Dead(p) == p.phase \in {"launcher", "shell"}
SameSort(p, q) == p.phase = "launcher" <=> q.phase = "launcher"

Running ==
    /\ appeared \in Nat /\ procs \subseteq Known /\ running \subseteq Known /\ atGate \subseteq Known
    /\ \A p \in procs \cup running \cup atGate : p.id <= appeared
    /\ \A p, q \in procs : p.id = q.id => p = q

OwnOnly ==
    /\ branch \in {"none", "started"}
    /\ branch = "none" => step \in {"enter", "done"}
    /\ step = "enter" => procs = {}

\* A process only grows: what is dead now was dead at the gate, and a launcher
\* stays one.
Grown ==
    /\ \A r \in running, p \in procs : r.id = p.id => SameSort(r, p)
    /\ step \in {"gate", "recycle"} =>
           \A a \in atGate, p \in procs : a.id = p.id => (Dead(p) => Dead(a))
    /\ step = "gate" => \A r \in running, a \in atGate : r.id = a.id => SameSort(r, a)

Doomed == /\ step = "recycle" => \A a \in atGate : a.id \in wanted => Dead(a)
          /\ recycled \subseteq {"launcher", "shell"}

SparesInv == Running /\ OwnOnly /\ Grown /\ Doomed

\* What a step does to the processes.
Evolves ==
    /\ procs' \subseteq Known
    /\ appeared' = appeared \/ appeared' = appeared + 1
    /\ \A p, q \in procs' : p.id = q.id => p = q
    /\ \A p \in procs' : \/ \E q \in procs : q.id = p.id /\ SameSort(q, p) /\ (Dead(p) => Dead(q))
                         \/ p.id = appeared + 1 /\ appeared' = appeared + 1

LEMMA FewerEvolve ==
    ASSUME Running, procs' \subseteq procs, appeared' = appeared PROVE Evolves
  BY DEF Running, Evolves, SameSort, Dead

LEMMA OneMoreEvolves ==
    ASSUME Running, NEW old, old \subseteq procs, NEW f \in Phases, NEW o \in BOOLEAN,
           appeared' = appeared + 1,
           procs' = old \cup {[id |-> appeared + 1, phase |-> f, opaque |-> o]}
    PROVE  Evolves
<1> DEFINE y == [id |-> appeared + 1, phase |-> f, opaque |-> o]
<1>1. y \in Known /\ y.id = appeared + 1
  BY DEF Known, Running
<1> HIDE DEF y
<1>2. procs' = old \cup {y}
  BY DEF y
<1>3. \A p \in procs : p.id # appeared + 1
  BY DEF Running, Known
<1>4. QED
  BY <1>1, <1>2, <1>3 DEF Running, Evolves, SameSort, Dead

LEMMA GrowEvolves == ASSUME Running, Launching!Grow PROVE Evolves
<1>1. PICK p \in procs : /\ p.phase \in {"shell", "live"}
           /\ procs' = (procs \ {p}) \cup {[p EXCEPT !.phase = IF p.phase = "shell" THEN "live" ELSE "window"]}
  BY DEF Launching!Grow
<1> DEFINE y == [p EXCEPT !.phase = IF p.phase = "shell" THEN "live" ELSE "window"]
<1>2. y \in Known /\ y.id = p.id /\ y.phase \in {"live", "window"}
  BY <1>1 DEF Known, Phases, Running
<1> HIDE DEF y
<1>3. procs' = (procs \ {p}) \cup {y} /\ appeared' = appeared
  BY <1>1 DEF y, Launching!Grow
<1>4. QED
  BY <1>1, <1>2, <1>3 DEF Running, Evolves, SameSort, Dead

LEMMA FailKeepsFewer == ASSUME Launching!Fail PROVE procs' \subseteq procs
  BY DEF Launching!Fail, Launching!Alive, Launching!KeepForHuman, Launching!Finish

LEMMA ProcessesEvolve ==
    ASSUME SparesInv, Launching!Next
    PROVE  Evolves
<1>1. Running
  BY DEF SparesInv
<1>2. CASE Launching!Machine
  <2>1. CASE Launching!Appear
    <3>1. PICK f \in {"shell", "launcher"} :
             procs' = procs \cup {[id |-> appeared + 1, phase |-> f, opaque |-> FALSE]}
      BY <2>1 DEF Launching!Appear
    <3>2. appeared' = appeared + 1 /\ f \in Phases
      BY <2>1 DEF Launching!Appear, Phases
    <3>3. QED
      BY <1>1, <3>1, <3>2, OneMoreEvolves
  <2>2. CASE Launching!Exit \/ Launching!Cancel
    BY <1>1, <2>2, FewerEvolve DEF Launching!Exit, Launching!Cancel, Launching!machine
  <2>3. QED
    BY <1>1, <1>2, <2>1, <2>2, GrowEvolves DEF Launching!Machine
<1>3. CASE Launching!Start
  <2>1. CASE appeared' = appeared + 1
    <3>1. PICK f \in {"launcher", "shell"}, o \in BOOLEAN :
             procs' = procs \cup {[id |-> appeared + 1, phase |-> f, opaque |-> o]}
      BY <1>1, <1>3, <2>1 DEF Launching!Start, Launching!machine, Running
    <3>2. f \in Phases
      BY DEF Phases
    <3>3. QED
      BY <1>1, <2>1, <3>1, <3>2, OneMoreEvolves
  <2>2. CASE appeared' # appeared + 1
    BY <1>1, <1>3, <2>2, FewerEvolve DEF Launching!Start, Launching!machine
  <2>3. QED
    BY <2>1, <2>2
<1>4. CASE Launching!LoopDrivesWeGame
  <2>1. CASE appeared' = appeared + 1
    <3>1. procs' = {} \cup {[id |-> appeared + 1, phase |-> "shell", opaque |-> FALSE]}
      BY <1>1, <1>4, <2>1 DEF Launching!LoopDrivesWeGame, Launching!machine, Running
    <3>2. "shell" \in Phases
      BY DEF Phases
    <3>3. QED
      BY <1>1, <2>1, <3>1, <3>2, OneMoreEvolves
  <2>2. CASE appeared' # appeared + 1
    BY <1>1, <1>4, <2>2, FewerEvolve DEF Launching!LoopDrivesWeGame, Launching!machine
  <2>3. QED
    BY <2>1, <2>2
<1>5. CASE Launching!PollFails \/ Launching!WaitExpires \/ Launching!ProbeEndfield
  <2>1. appeared' = appeared
    BY <1>5 DEF Launching!PollFails, Launching!WaitExpires, Launching!ProbeEndfield
  <2>2. procs' \subseteq procs
    <3>1. Launching!Fail \/ procs' = procs
      BY <1>5 DEF Launching!PollFails, Launching!WaitExpires, Launching!ProbeEndfield
    <3>2. QED
      BY <3>1, FailKeepsFewer
  <2>3. QED
    BY <1>1, <2>1, <2>2, FewerEvolve
<1>6. CASE Launching!Recycle
  <2>1. procs' \subseteq procs /\ appeared' = appeared
    BY <1>6 DEF Launching!Recycle
  <2>2. QED
    BY <1>1, <2>1, FewerEvolve
<1>7. CASE \/ Launching!Raised \/ Launching!Enter \/ Launching!Reactivate \/ Launching!LoopLists
           \/ Launching!LoopSleeps \/ Launching!LoopExpires \/ Launching!Handoff
  <2>1. procs' = procs /\ appeared' = appeared
    BY <1>7 DEF Launching!Raised, Launching!Enter, Launching!Reactivate, Launching!LoopLists,
       Launching!LoopSleeps, Launching!LoopExpires, Launching!Handoff, Launching!machine
  <2>2. QED
    BY <1>1, <2>1, FewerEvolve
<1>8. CASE \/ Launching!PollReady \/ Launching!PollWindow \/ Launching!PollNothing
           \/ Launching!ProbeWW \/ Launching!HandleGate
  <2>1. procs' = procs /\ appeared' = appeared
    BY <1>8 DEF Launching!PollReady, Launching!PollWindow, Launching!PollNothing,
       Launching!ProbeWW, Launching!HandleGate, Launching!machine
  <2>2. QED
    BY <1>1, <2>1, FewerEvolve
<1>9. QED
  BY <1>2, <1>3, <1>4, <1>5, <1>6, <1>7, <1>8 DEF Launching!Next, Launching!Launch

\* What a step does to the two listings that are read later.
Listed ==
    /\ \/ running' = running
       \/ running' = procs /\ procs' = procs /\ atGate' = atGate /\ step' \notin {"gate", "recycle"}
    /\ \/ atGate' = {} \/ atGate' = atGate
       \/ atGate' = procs /\ procs' = procs /\ running' = running
    /\ step' = "gate" => \/ step = "gate" /\ running' = running /\ atGate' = atGate
                         \/ atGate' = procs /\ procs' = procs /\ running' = running
    /\ step' = "recycle" => \/ step = "recycle" /\ wanted' = wanted /\ atGate' = atGate
                            \/ Launching!HandleGate
    /\ recycled' = recycled \/ Launching!Recycle
    /\ OwnOnly'

LEMMA EveryStepLists ==
    ASSUME SparesInv, Launching!Next
    PROVE  Listed
<1>1. OwnOnly
  BY DEF SparesInv
<1>2. CASE Launching!Machine
  <2>1. /\ step # "done" /\ step' = step /\ running' = running /\ atGate' = atGate /\ branch' = branch
        /\ wanted' = wanted /\ recycled' = recycled
    BY <1>2 DEF Launching!Machine, Launching!Appear, Launching!Grow, Launching!Exit, Launching!Cancel,
       Launching!locals, Launching!ghosts
  <2>2. procs = {} => procs' = {}
    BY <1>2 DEF Launching!Machine, Launching!Appear, Launching!Grow, Launching!Exit, Launching!Cancel,
       Launching!machine
  <2>3. QED
    BY <1>1, <2>1, <2>2 DEF OwnOnly, Listed
\* a step of the launch that goes on with no gate, or ends
<1>3. ASSUME step # "done", step' \notin {"enter", "gate", "recycle"}, recycled' = recycled, atGate' = atGate,
             running' = running \/ (running' = procs /\ procs' = procs),
             branch' = "started" \/ (branch' = branch /\ (step # "enter" \/ step' = "done"))
      PROVE  Listed
  BY <1>1, <1>3 DEF OwnOnly, Listed
<1>4. CASE Launching!Enter
  <2>1. branch' = "started"
    BY <1>1, <1>4 DEF Launching!Enter, OwnOnly
  <2>2. QED
    BY <1>3, <1>4, <2>1 DEF Launching!Enter, Launching!machine, Launching!ghosts
<1>5. CASE \/ Launching!Raised \/ Launching!LoopSleeps \/ Launching!LoopExpires \/ Launching!Handoff
  BY <1>3, <1>5 DEF Launching!Raised, Launching!LoopSleeps, Launching!LoopExpires, Launching!Handoff,
     Launching!Finish, Launching!KeepForHuman, Launching!locals, Launching!ghosts
<1>6. CASE Launching!LoopLists \/ Launching!PollNothing
  BY <1>3, <1>6 DEF Launching!LoopLists, Launching!PollNothing, Launching!machine, Launching!ghosts
<1>7. CASE Launching!Reactivate \/ Launching!PollReady \/ Launching!PollWindow
  BY <1>3, <1>7 DEF Launching!Reactivate, Launching!PollReady, Launching!PollWindow,
     Launching!Finish, Launching!KeepForHuman, Launching!locals, Launching!ghosts
<1>8. CASE Launching!Start \/ Launching!LoopDrivesWeGame
  BY <1>3, <1>8 DEF Launching!Start, Launching!LoopDrivesWeGame, Launching!Finish, Launching!KeepForHuman
<1>9. CASE Launching!PollFails
  BY <1>3, <1>9, FailEnds DEF Launching!PollFails, Launching!ghosts
<1>10. CASE Launching!ProbeEndfield
  <2>1. step = "probe" /\ (step' = "done" \/ step' = "poll") /\ running' = running /\ branch' = branch
        /\ atGate' = atGate /\ recycled' = recycled
    BY <1>10, FailEnds DEF Launching!ProbeEndfield, Launching!NextPoll
  <2>2. QED
    BY <1>3, <2>1
<1>11. CASE Launching!ProbeWW
  <2>1. step = "probe" /\ running' = running /\ branch' = branch /\ recycled' = recycled /\ procs' = procs
    BY <1>11 DEF Launching!ProbeWW, Launching!machine
  <2>2. (step' \in {"done", "poll"} /\ atGate' = atGate) \/ (step' = "gate" /\ atGate' = procs)
    BY <1>11 DEF Launching!ProbeWW, Launching!NextPoll, Launching!RaiseGate, Launching!KeepForHuman,
       Launching!Finish
  <2>3. QED
    BY <1>1, <2>1, <2>2 DEF Listed, OwnOnly
<1>12. CASE Launching!WaitExpires
  <2>1. step = "poll" /\ running' = running /\ branch' = branch /\ recycled' = recycled
    BY <1>12 DEF Launching!WaitExpires
  <2>2. (step' = "done" /\ atGate' = atGate) \/ (step' = "gate" /\ atGate' = procs /\ procs' = procs)
    BY <1>12, FailEnds DEF Launching!WaitExpires, Launching!RaiseGate, Launching!KeepForHuman,
       Launching!Finish
  <2>3. QED
    BY <1>1, <2>1, <2>2 DEF Listed, OwnOnly
<1>13. CASE Launching!HandleGate
  <2>1. step = "gate" /\ step' \in {"recycle", "done"} /\ running' = running /\ branch' = branch
        /\ recycled' = recycled /\ atGate' = atGate
    BY <1>13 DEF Launching!HandleGate, Launching!KeepForHuman, Launching!Finish, Launching!ghosts
  <2>2. QED
    BY <1>1, <1>13, <2>1 DEF Listed, OwnOnly
<1>14. CASE Launching!Recycle
  <2>1. step = "recycle" /\ branch = "started"
    BY <1>1, <1>14 DEF Launching!Recycle, OwnOnly
  <2>2. step' \in {"done", "start"} /\ atGate' = {} /\ running' = running /\ branch' = "started"
    BY <1>14, <2>1 DEF Launching!Recycle, Launching!KeepForHuman, Launching!Finish
  <2>3. QED
    BY <1>14, <2>2 DEF Listed, OwnOnly
<1>15. QED
  BY <1>2, <1>4, <1>5, <1>6, <1>7, <1>8, <1>9, <1>10, <1>11, <1>12, <1>13, <1>14
     DEF Launching!Next, Launching!Launch

LEMMA SparesStep ==
    ASSUME SparesInv, Launching!Next
    PROVE  SparesInv'
<1>1. Running /\ Grown /\ Doomed /\ OwnOnly /\ Evolves /\ Listed
  BY ProcessesEvolve, EveryStepLists DEF SparesInv
<1>2. Running'
  <2>1. appeared' \in Nat /\ appeared' >= appeared /\ \A p \in procs' : p.id <= appeared'
    BY <1>1 DEF Running, Evolves, Known
  <2>2. /\ running' \subseteq running \cup procs /\ atGate' \subseteq atGate \cup procs
    BY <1>1 DEF Listed
  <2>3. \A p \in running' \cup atGate' : p \in Known /\ p.id <= appeared'
    BY <1>1, <2>1, <2>2 DEF Running, Known
  <2>4. QED
    BY <1>1, <2>1, <2>3 DEF Running, Evolves
\* one process is found again by its identifier
<1>3. ASSUME NEW r \in running \cup atGate \cup procs, NEW p \in procs', r.id = p.id
      PROVE  \E q \in procs : q.id = r.id /\ SameSort(q, p) /\ (Dead(p) => Dead(q))
  <2>1. r.id # appeared + 1
    BY <1>1, <1>3 DEF Running, Known
  <2>2. QED
    BY <1>1, <1>3, <2>1 DEF Evolves
<1>4. Grown'
  <2>1. ASSUME NEW r \in running', NEW p \in procs', r.id = p.id PROVE SameSort(r, p)
    <3>1. CASE running' = running
      BY <1>1, <1>3, <2>1, <3>1 DEF Grown, SameSort
    <3>2. CASE running' = procs /\ procs' = procs
      BY <1>1, <2>1, <3>2 DEF Running, SameSort
    <3>3. QED
      BY <1>1, <3>1, <3>2 DEF Listed
  <2>2. ASSUME step' \in {"gate", "recycle"}, NEW a \in atGate', NEW p \in procs', a.id = p.id, Dead(p)
        PROVE  Dead(a)
    <3>1. CASE atGate' = procs /\ procs' = procs
      BY <1>1, <2>2, <3>1 DEF Running, Dead
    <3>2. CASE step \in {"gate", "recycle"} /\ atGate' = atGate
      BY <1>1, <1>3, <2>2, <3>2 DEF Grown
    <3>3. Launching!HandleGate => step = "gate" /\ atGate' = atGate
      BY DEF Launching!HandleGate, Launching!ghosts
    <3>4. QED
      BY <1>1, <2>2, <3>1, <3>2, <3>3 DEF Listed
  <2>3. ASSUME step' = "gate", NEW r \in running', NEW a \in atGate', r.id = a.id PROVE SameSort(r, a)
    <3>1. CASE step = "gate" /\ running' = running /\ atGate' = atGate
      BY <1>1, <2>3, <3>1 DEF Grown
    <3>2. CASE atGate' = procs /\ running' = running
      BY <1>1, <2>3, <3>2 DEF Grown
    <3>3. QED
      BY <1>1, <2>3, <3>1, <3>2 DEF Listed
  <2>4. QED
    BY <2>1, <2>2, <2>3 DEF Grown, SameSort, Dead
<1>5. Doomed'
  <2>1. CASE Launching!HandleGate
    <3>1. step = "gate" /\ recycled' = recycled /\ atGate' = atGate /\ branch = "started"
          /\ (step' = "recycle" => wanted' = Launching!GateTargets)
      BY <1>1, <2>1 DEF Launching!HandleGate, Launching!KeepForHuman, Launching!Finish, Launching!ghosts,
         OwnOnly
    <3>2. ASSUME NEW a \in atGate, a.id \in Launching!GateTargets PROVE Dead(a)
      <4>1. \/ \E r \in running : r.id = a.id /\ r.phase = "launcher"
            \/ \E p \in procs : p.id = a.id /\ Dead(p)
        BY <3>1, <3>2 DEF Launching!GateTargets, Launching!Launcher, Launching!Disposable, Dead
      <4>2. QED
        BY <1>1, <3>1, <4>1 DEF Grown, SameSort, Dead
    <3>3. QED
      BY <1>1, <3>1, <3>2 DEF Doomed, Dead
  <2>2. CASE Launching!Recycle
    <3>1. step = "recycle" /\ step' # "recycle"
      BY <2>2 DEF Launching!Recycle, Launching!KeepForHuman, Launching!Finish
    <3>2. PICK ended \in SUBSET procs :
             /\ \A e \in ended : e.id \in wanted
             /\ recycled' = recycled \cup {a.phase : a \in {b \in atGate : b.id \in Launching!Ids(ended)}}
      BY <2>2 DEF Launching!Recycle, Launching!Alive
    <3>3. \A b \in atGate : b.id \in Launching!Ids(ended) => b.phase \in {"launcher", "shell"}
      BY <1>1, <3>1, <3>2 DEF Launching!Ids, Doomed, Dead
    <3>4. QED
      BY <1>1, <3>1, <3>2, <3>3 DEF Doomed
  <2>3. CASE ~Launching!HandleGate /\ ~Launching!Recycle
    BY <1>1, <2>3 DEF Listed, Doomed, Dead
  <2>4. QED
    BY <2>1, <2>2, <2>3
<1>6. QED
  BY <1>1, <1>2, <1>4, <1>5 DEF SparesInv, Listed

LEMMA SparesStarts ==
    ASSUME kind \notin Existing, Launching!Init
    PROVE  SparesInv
<1>1. procs = {} /\ appeared = 0 /\ running = {} /\ atGate = {} /\ branch = "none" /\ step = "enter" /\ recycled = {}
  BY DEF Launching!Init
<1>2. QED
  BY <1>1 DEF SparesInv, Running, OwnOnly, Grown, Doomed

LEMMA SparesStutter ==
    ASSUME SparesInv, UNCHANGED Launching!vars
    PROVE  SparesInv'
  BY DEF SparesInv, Running, OwnOnly, Grown, Doomed, SameSort, Dead,
     Launching!vars, Launching!machine, Launching!locals, Launching!ghosts

\* A launch is of one game.
LEMMA KindStays == ASSUME [Launching!Next]_(Launching!vars) PROVE kind' = kind
<1>1. CASE Launching!Machine
  BY <1>1 DEF Launching!Machine, Launching!Appear, Launching!Grow, Launching!Exit, Launching!Cancel
<1>2. CASE Launching!Launch
  <2>1. CASE Launching!Raised
    BY <2>1 DEF Launching!Raised
  <2>2. CASE Launching!Enter
    BY <2>2 DEF Launching!Enter
  <2>3. CASE Launching!Reactivate
    BY <2>3 DEF Launching!Reactivate
  <2>4. CASE Launching!Start
    BY <2>4 DEF Launching!Start
  <2>5. CASE Launching!LoopLists
    BY <2>5 DEF Launching!LoopLists
  <2>6. CASE Launching!LoopSleeps
    BY <2>6 DEF Launching!LoopSleeps
  <2>7. CASE Launching!LoopDrivesWeGame
    BY <2>7 DEF Launching!LoopDrivesWeGame
  <2>8. CASE Launching!LoopExpires
    BY <2>8 DEF Launching!LoopExpires
  <2>9. CASE Launching!Handoff
    BY <2>9 DEF Launching!Handoff
  <2>10. CASE Launching!PollReady
    BY <2>10 DEF Launching!PollReady
  <2>11. CASE Launching!PollWindow
    BY <2>11 DEF Launching!PollWindow
  <2>12. CASE Launching!PollNothing
    BY <2>12 DEF Launching!PollNothing
  <2>13. CASE Launching!PollFails
    BY <2>13 DEF Launching!PollFails
  <2>14. CASE Launching!ProbeWW
    BY <2>14 DEF Launching!ProbeWW
  <2>15. CASE Launching!ProbeEndfield
    BY <2>15 DEF Launching!ProbeEndfield
  <2>16. CASE Launching!WaitExpires
    BY <2>16 DEF Launching!WaitExpires
  <2>17. CASE Launching!HandleGate
    BY <2>17 DEF Launching!HandleGate
  <2>18. CASE Launching!Recycle
    BY <2>18 DEF Launching!Recycle
  <2> QED
    BY <1>2, <2>1, <2>2, <2>3, <2>4, <2>5, <2>6, <2>7, <2>8, <2>9, <2>10, <2>11, <2>12, <2>13, <2>14, <2>15, <2>16, <2>17, <2>18
       DEF Launching!Launch
<1>3. CASE UNCHANGED Launching!vars
  BY <1>3 DEF Launching!vars
<1>4. QED
  BY <1>1, <1>2, <1>3 DEF Launching!Next

\* For every game, all deadlines and any number of processes: _ensure_started
\* and _wait_until_ready keep their promises.  With something running before the
\* launch the last one is false of the code.
THEOREM LaunchIsSafe == ASSUME Launching!GameLaunchAssumption PROVE Launching!Spec => []LaunchSafe
<1> DEFINE Inv == LaunchInv /\ (kind \notin Existing => SparesInv)
<1>1. Launching!Init => Inv
  BY LaunchStarts, SparesStarts
<1>2. Inv /\ [Launching!Next]_(Launching!vars) => Inv'
  BY LaunchStep, SparesStep, SparesStutter, KindStays
<1>3. Inv => LaunchSafe
  BY LaunchInvIsSafe DEF LaunchSafe, SparesInv, Doomed, Launching!RecycleSparesLive
<1>4. QED
  BY <1>1, <1>2, <1>3, PTL DEF Launching!Spec

-----------------------------------------------------------------------------
(* The successors of a run (ResumeRun), for any commands, Todos, launches and *)
(* bounds, in a batch and outside one.                                       *)

Outcomes == {"failed", "completed", "human_required", "cancelled", "review_required"}
RowStates == Outcomes \cup {"starting", "running", "cancelling"}
RunWords == RowStates \cup {"pending_execution", "done"}
AttemptRow == [state : RowStates,
               launch : {"pre", "human", "host"}, lease : BOOLEAN]
IntentRow  == [pred : Nat, succ : Nat,
               state : {"successor_pending", "successor_dispatched", "successor_failed",
                        "successor_terminal", "reconciliation_required", "no_execution"}]
\* Where a thread still has the start of its attempt before it.
BeforeHost == {"mark", "write", "again", "rewrite", "gate", "launch", "handoff", "spawn", "cancelled",
               "human", "failed"}
Threads == [pc : {"idle", "read", "prepare", "tail", "tell", "settle", "dispatched", "fail", "recover",
                  "finish"} \cup BeforeHost,
            intent : Nat, att : Nat, seen : RunWords \cup {""}, scope : SUBSET Todos]
Calls   == [pc : {"none", "cleanup", "result", "accept", "handoff", "resumed"}, att : Nat,
            by : {"none"}, res : Outcomes \cup {"none", "ignored"},
            control : {"none", "human_required", "cancelled"}]

Is(a)   == a \in 1 .. Len(attempts)
Live(a) == attempts[a].state \in {"starting", "running", "cancelling"}

RunTyped ==
    /\ attempts \in Seq(AttemptRow) /\ Len(attempts) > 0
    /\ run \in RunWords
    /\ intents \in Seq(IntentRow) /\ \A i \in 1 .. Len(intents) : Is(intents[i].pred)
    /\ thr \in [Commands -> Threads] /\ cb \in Calls
    /\ host \in Nat /\ (host # 0 => Is(host) /\ attempts[host].launch # "pre")
    /\ cb.pc # "none" => Is(cb.att) /\ attempts[cb.att].launch # "pre"
    /\ cb.pc \in {"cleanup", "result"} => cb.res \in Outcomes
    /\ up \in BOOLEAN
    /\ up = FALSE => host = 0 /\ cb.pc = "none" /\ \A c \in Commands : thr[c].pc = "idle"

Newly ==
    \A a \in 1 .. Len(attempts) : /\ Live(a) \/ host = a => a = Len(attempts)
                                  /\ attempts[a].lease = TRUE => Live(a)

\* One thread: the attempt it starts is live and its own, and the attempt it
\* is to replace has ended.
Carries(c) ==
    /\ thr[c].att <= Len(attempts) /\ thr[c].intent <= Len(intents)
    /\ thr[c].pc # "idle" => thr[c].intent > 0
    /\ thr[c].pc = "idle" => thr[c].intent = 0
    /\ thr[c].pc \in {"idle", "read", "prepare"} => thr[c].att = 0
    /\ thr[c].pc \in {"read", "prepare"} => ~Live(intents[thr[c].intent].pred)
    /\ thr[c].pc \in BeforeHost => /\ thr[c].att > 0 /\ Live(thr[c].att)
                                   /\ attempts[thr[c].att].launch = "pre"
    /\ thr[c].pc = "spawn" => host = 0
    /\ thr[c].pc \in {"tail", "tell", "settle", "dispatched"} => thr[c].att > 0

Apart == \A c, d \in Commands :
             c # d => /\ thr[c].att = thr[d].att => thr[c].att = 0
                      /\ thr[c].intent = thr[d].intent => thr[c].intent = 0

RunInv == RunTyped /\ Newly /\ Apart /\ \A c \in Commands : Carries(c)

LEMMA ResumeStarts == ASSUME Resume!ResumeAssumption, Resume!Init PROVE RunInv
<1>1. PICK s \in {"failed", "completed", "human_required"}, l \in {"human", "host"} :
          attempts = <<[state |-> s, launch |-> l, lease |-> FALSE]>>
  BY DEF Resume!Init
<1>2. attempts \in Seq(AttemptRow) /\ Len(attempts) = 1 /\ attempts[1].state = s
      /\ attempts[1].lease = FALSE
  BY <1>1 DEF AttemptRow, RowStates, Outcomes
<1>3. Resume!Idle \in Threads /\ Resume!Idle.pc = "idle" /\ Resume!Idle.att = 0 /\ Resume!Idle.intent = 0
  BY DEF Resume!Idle, Threads
<1>4. Resume!NoCall \in Calls /\ Resume!NoCall.pc = "none"
  BY DEF Resume!NoCall, Calls
<1>5. intents = <<>> /\ host = 0 /\ thr = [c \in Commands |-> Resume!Idle] /\ cb = Resume!NoCall /\ up = TRUE
  BY DEF Resume!Init
<1>6. intents \in Seq(IntentRow) /\ Len(intents) = 0
  BY <1>5
<1>7. RunTyped
  <2>1. run \in RunWords
    BY DEF Resume!Init, RunWords, RowStates, Outcomes
  <2>2. QED
    BY <1>2, <1>3, <1>4, <1>5, <1>6, <2>1 DEF RunTyped
<1>8. Newly
  BY <1>2, <1>5 DEF Newly, Live
<1>9. Apart
  BY <1>3, <1>5 DEF Apart
<1>10. \A c \in Commands : Carries(c)
  BY <1>2, <1>3, <1>5, <1>6 DEF Carries, BeforeHost
<1>11. QED
  BY <1>7, <1>8, <1>9, <1>10 DEF RunInv

\* Intents keep their predecessors, and none is lost.
IntentsStay ==
    /\ intents' \in Seq(IntentRow) /\ Len(intents') = Len(intents)
    /\ \A i \in 1 .. Len(intents) : intents'[i].pred = intents[i].pred

\* A step of one thread that leaves the attempts and the Host alone.
LEMMA ThreadMoves ==
    ASSUME RunInv, NEW c \in Commands, NEW t \in Threads, thr' = [thr EXCEPT ![c] = t],
           attempts' = attempts, run' \in RunWords, host' = host, cb' = cb, up' = up, IntentsStay, thr[c].pc # "idle",
           t.pc = "idle" => t.att = 0 /\ t.intent = 0,
           t.pc # "idle" => t.att = thr[c].att /\ t.intent = thr[c].intent,
           t.pc # "read", t.pc = "prepare" => thr[c].pc = "read",
           t.pc \in BeforeHost => thr[c].pc \in BeforeHost, t.pc = "spawn" => host = 0,
           t.pc \in {"tail", "tell", "settle", "dispatched"} => thr[c].att > 0
    PROVE  RunInv'
<1>1. RunTyped /\ Newly /\ Apart /\ Carries(c) /\ thr'[c] = t
      /\ \A d \in Commands : d # c => thr'[d] = thr[d]
  BY DEF RunInv, RunTyped
<1>2. thr' \in [Commands -> Threads]
  BY <1>1 DEF RunTyped
<1>3. RunTyped'
  BY <1>1, <1>2 DEF RunTyped, Is, IntentsStay
<1>4. Newly'
  BY <1>1 DEF Newly, Live
<1>5. Apart'
  <2>1. t.att \in {0, thr[c].att} /\ t.intent \in {0, thr[c].intent}
    OBVIOUS
  <2>2. QED
    BY <1>1, <2>1 DEF Apart
<1>6. ASSUME NEW d \in Commands PROVE Carries(d)'
  <2>1. Carries(d) /\ thr[d] \in Threads
    BY <1>1 DEF RunInv, RunTyped
  <2>2. thr[d].pc \in {"read", "prepare"} => intents'[thr[d].intent].pred = intents[thr[d].intent].pred
    <3>1. Len(intents) \in Nat /\ thr[d].intent \in Nat
      <4>1. intents \in Seq(IntentRow)
        BY <1>1 DEF RunTyped
      <4>2. Len(intents) \in Nat
        BY <4>1
      <4>3. thr[d].intent \in Nat
        BY <2>1 DEF Threads
      <4>4. QED
        BY <4>2, <4>3
    <3>2. thr[d].pc \in {"read", "prepare"} => thr[d].intent \in 1 .. Len(intents)
      BY <2>1, <3>1 DEF Carries
    <3>3. QED
      BY <3>2 DEF IntentsStay
  <2>3. CASE d # c
    BY <1>1, <2>1, <2>2, <2>3 DEF Carries, Live, IntentsStay
  <2>4. CASE d = c
    <3>1. thr'[d] = t /\ attempts' = attempts /\ host' = host /\ Len(intents') = Len(intents)
          /\ 0 <= Len(attempts) /\ 0 <= Len(intents)
      BY <1>1, <2>4 DEF RunTyped, IntentsStay
    <3>2. CASE t.pc = "idle"
      BY <3>1, <3>2 DEF Carries, BeforeHost
    <3>3. CASE t.pc # "idle"
      BY <1>1, <2>1, <2>2, <2>4, <3>1, <3>3 DEF Carries, Live
    <3>4. QED
      BY <3>2, <3>3
  <2>5. QED
    BY <2>3, <2>4
<1>7. QED
  BY <1>3, <1>4, <1>5, <1>6 DEF RunInv

LEMMA IntentsUpdated ==
    ASSUME intents \in Seq(IntentRow), NEW i, NEW r, intents' = [intents EXCEPT ![i] = r],
           i \in 1 .. Len(intents) => r \in IntentRow /\ r.pred = intents[i].pred
    PROVE  IntentsStay
<1>1. CASE i \in 1 .. Len(intents)
  <2>1. intents' \in Seq(IntentRow) /\ Len(intents') = Len(intents)
    BY <1>1
  <2>2. \A j \in 1 .. Len(intents) : intents'[j].pred = intents[j].pred
    BY <1>1
  <2>3. QED
    BY <2>1, <2>2 DEF IntentsStay
<1>2. CASE i \notin 1 .. Len(intents)
  <2>1. intents' = intents
    BY <1>2
  <2>2. QED
    BY <2>1 DEF IntentsStay
<1>3. QED
  BY <1>1, <1>2

LEMMA IntentsSettled ==
    ASSUME intents \in Seq(IntentRow), NEW i, NEW s,
           s \in {"successor_pending", "successor_dispatched", "successor_failed",
                  "successor_terminal", "reconciliation_required", "no_execution"},
           intents' = [intents EXCEPT ![i].state = s]
    PROVE  IntentsStay
<1> DEFINE r == [intents[i] EXCEPT !.state = s]
<1>1. i \in 1 .. Len(intents) => r \in IntentRow /\ r.pred = intents[i].pred
  <2>1. i \in 1 .. Len(intents) => intents[i] \in IntentRow
    OBVIOUS
  <2>2. QED
    BY <2>1 DEF IntentRow
<1>2. intents' = [intents EXCEPT ![i] = r]
  OBVIOUS
<1> HIDE DEF r
<1>3. QED
  BY <1>1, <1>2, IntentsUpdated

LEMMA NothingUpdated ==
    ASSUME RunTyped, intents' = intents
    PROVE  IntentsStay
BY DEF RunTyped, IntentsStay

LEMMA GotoMoves ==
    ASSUME RunInv, NEW c \in Commands, NEW p, p # "idle", p # "read",
           p \in {"prepare", "tail", "tell", "settle", "dispatched", "fail", "recover", "finish"}
                 \cup BeforeHost,
           thr' = [thr EXCEPT ![c].pc = p], run' \in RunWords,
           attempts' = attempts, host' = host, cb' = cb, up' = up, IntentsStay, thr[c].pc # "idle",
           p = "prepare" => thr[c].pc = "read",
           p \in BeforeHost => thr[c].pc \in BeforeHost, p = "spawn" => host = 0,
           p \in {"tail", "tell", "settle", "dispatched"} => thr[c].att > 0
    PROVE  RunInv'
<1> DEFINE t == [thr[c] EXCEPT !.pc = p]
<1>1. thr[c] \in Threads
  BY DEF RunInv, RunTyped
<1>2. t \in Threads /\ t.pc = p /\ t.att = thr[c].att /\ t.intent = thr[c].intent
  BY <1>1 DEF Threads
<1>3. thr' = [thr EXCEPT ![c] = t]
  OBVIOUS
<1> HIDE DEF t
<1>4. QED
  BY <1>2, <1>3, ThreadMoves

LEMMA LeavesKeep ==
    ASSUME RunInv, NEW c \in Commands, thr' = [thr EXCEPT ![c] = Resume!Idle], run' \in RunWords,
           attempts' = attempts, host' = host, cb' = cb, up' = up, IntentsStay, thr[c].pc # "idle"
    PROVE  RunInv'
<1>1. Resume!Idle \in Threads /\ Resume!Idle.pc = "idle" /\ Resume!Idle.att = 0 /\ Resume!Idle.intent = 0
  BY DEF Resume!Idle, Threads
<1>2. Resume!Idle.pc \notin BeforeHost
  BY <1>1 DEF BeforeHost
<1>3. QED
  BY <1>1, <1>2, ThreadMoves

LEMMA LastTyped ==
    ASSUME RunTyped
    PROVE  /\ Len(attempts) \in Nat \ {0} /\ Is(Len(attempts))
           /\ \A a \in 1 .. Len(attempts) : attempts[a] \in AttemptRow
<1>1. attempts \in Seq(AttemptRow) /\ Len(attempts) > 0
  BY DEF RunTyped
<1>2. QED
  BY <1>1 DEF Is

LEMMA InRange ==
    ASSUME RunInv, NEW c \in Commands, thr[c].pc # "idle"
    PROVE  thr[c].intent \in 1 .. Len(intents) /\ (thr[c].att = 0 \/ Is(thr[c].att))
<1>1. intents \in Seq(IntentRow) /\ attempts \in Seq(AttemptRow) /\ thr[c] \in Threads
  BY DEF RunInv, RunTyped
<1>2. Len(intents) \in Nat /\ Len(attempts) \in Nat
  BY <1>1
<1>3. thr[c].intent \in Nat /\ thr[c].att \in Nat
  BY <1>1 DEF Threads
<1>4. QED
  BY <1>2, <1>3 DEF RunInv, Carries, Is

\* The steps of a thread that only read, decide or write the run and its intent.
LEMMA QuietStepsKeep ==
    ASSUME Resume!ResumeAssumption, RunInv, NEW c \in Commands,
           \/ Resume!ReadRun(c) \/ Resume!PrepareRefused(c) \/ Resume!MarkRun(c)
           \/ Resume!CleanupGate(c) \/ Resume!Launch(c) \/ Resume!Handoff(c) \/ Resume!ReadAttempt(c)
           \/ Resume!TellRun(c) \/ Resume!RecoverNow(c)
    PROVE  RunInv'
<1>1. RunTyped /\ thr[c] \in Threads
  BY DEF RunInv, RunTyped
<1>2. /\ attempts' = attempts /\ host' = host /\ cb' = cb /\ up' = up /\ intents' = intents
  BY DEF Resume!ReadRun, Resume!PrepareRefused, Resume!MarkRun, Resume!CleanupGate, Resume!Launch,
     Resume!Handoff, Resume!ReadAttempt, Resume!TellRun, Resume!RecoverNow, Resume!KeepRest
<1>3. IntentsStay
  BY <1>1, <1>2, NothingUpdated
<1>4. CASE Resume!ReadRun(c)
  <2> DEFINE t == [thr[c] EXCEPT !.pc = "prepare", !.seen = run]
  <2>1. t \in Threads /\ t.pc = "prepare" /\ t.att = thr[c].att /\ t.intent = thr[c].intent
    BY <1>1 DEF Threads, RunTyped
  <2>2. thr' = [thr EXCEPT ![c] = t] /\ thr[c].pc = "read" /\ run' = run
    BY <1>1, <1>4 DEF Resume!ReadRun, RunTyped, Threads
  <2> HIDE DEF t
  <2>3. t.pc \notin BeforeHost
    BY <2>1 DEF BeforeHost
  <2>4. QED
    BY <1>1, <1>2, <1>3, <2>1, <2>2, <2>3, ThreadMoves DEF RunTyped
<1>5. CASE Resume!ReadAttempt(c)
  <2> DEFINE p == IF Resume!LiveAtt(Resume!MyAtt(c)) THEN "tell" ELSE "settle"
             s == attempts[Resume!MyAtt(c)].state
             t == [thr[c] EXCEPT !.pc = p, !.seen = s]
  <2>1. p \in {"tell", "settle"}
    OBVIOUS
  <2>2. s \in RunWords
    <3>1. thr[c].att > 0 /\ thr[c].att <= Len(attempts) /\ thr[c].att \in Nat
      BY <1>1, <1>5 DEF Resume!ReadAttempt, RunInv, Carries, Threads
    <3>2. attempts \in Seq(AttemptRow)
      BY <1>1 DEF RunTyped
    <3>3. thr[c].att \in 1 .. Len(attempts)
      BY <3>1, <3>2
    <3>4. attempts[thr[c].att] \in AttemptRow
      BY <3>2, <3>3
    <3>5. QED
      BY <3>4 DEF AttemptRow, RunWords, Resume!MyAtt
  <2>3. thr' = [thr EXCEPT ![c].pc = p, ![c].seen = s] /\ thr[c].pc = "tail" /\ run' = run
    BY <1>5 DEF Resume!ReadAttempt
  <2> HIDE DEF p, s
  <2>4. t \in Threads /\ t.pc = p /\ t.att = thr[c].att /\ t.intent = thr[c].intent
    BY <1>1, <2>1, <2>2 DEF Threads
  <2>5. thr' = [thr EXCEPT ![c] = t]
    BY <1>1, <2>3 DEF RunTyped, Threads
  <2> HIDE DEF t
  <2>6. t.pc \notin BeforeHost
    BY <2>1, <2>4 DEF BeforeHost
  <2>7. thr[c].att > 0
    BY <2>3 DEF RunInv, Carries
  <2>8. QED
    BY <1>1, <1>2, <1>3, <2>1, <2>3, <2>4, <2>5, <2>6, <2>7, ThreadMoves DEF RunTyped
<1>6. CASE Resume!PrepareRefused(c) \/ Resume!TellRun(c) \/ Resume!RecoverNow(c)
  <2>1. run' \in RunWords
    <3>1. Resume!Outcome \in RunWords
      BY <1>1, LastTyped DEF Resume!Outcome, RunWords, RowStates, Outcomes, Resume!Last, AttemptRow
    <3>2. QED
      BY <1>1, <1>6, <3>1 DEF Resume!PrepareRefused, Resume!TellRun, Resume!RecoverNow, RunTyped,
         RunWords, RowStates
  <2>2. PICK p \in {"fail", "settle", "finish"} : thr' = [thr EXCEPT ![c].pc = p]
    BY <1>6 DEF Resume!PrepareRefused, Resume!TellRun, Resume!RecoverNow, Resume!Goto
  <2>3. thr[c].pc # "idle" /\ p \notin BeforeHost
    BY <1>6 DEF Resume!PrepareRefused, Resume!TellRun, Resume!RecoverNow, BeforeHost
  <2>4. p = "settle" => thr[c].att > 0
    <3>1. CASE Resume!TellRun(c)
      BY <3>1 DEF Resume!TellRun, RunInv, Carries
    <3>2. CASE ~Resume!TellRun(c)
      <4>1. thr' = [thr EXCEPT ![c].pc = "fail"] \/ thr' = [thr EXCEPT ![c].pc = "finish"]
        BY <1>6, <3>2 DEF Resume!PrepareRefused, Resume!RecoverNow, Resume!Goto
      <4>2. thr'[c].pc = p /\ thr'[c].pc \in {"fail", "finish"}
        BY <1>1, <2>2, <4>1 DEF RunTyped, Threads
      <4>3. QED
        BY <4>2
    <3>3. QED
      BY <3>1, <3>2
  <2>5. QED
    BY <1>2, <1>3, <2>1, <2>2, <2>3, <2>4, GotoMoves
<1>7. CASE Resume!MarkRun(c) \/ Resume!CleanupGate(c) \/ Resume!Launch(c) \/ Resume!Handoff(c)
  <2>1. run' \in RunWords
    BY <1>1, <1>7 DEF Resume!MarkRun, Resume!CleanupGate, Resume!Launch, Resume!Handoff, RunTyped,
       RunWords, RowStates
  <2> DEFINE Pcs == {"again", "gate", "launch", "human", "cancelled", "handoff", "failed", "spawn"}
  <2>2. \E p \in Pcs : thr' = [thr EXCEPT ![c].pc = p] /\ (p = "spawn" => host = 0)
    <3>1. CASE Resume!MarkRun(c)
      BY <3>1 DEF Resume!MarkRun, Resume!Goto
    <3>2. CASE Resume!CleanupGate(c)
      BY <3>2 DEF Resume!CleanupGate, Resume!Goto, Resume!QueueClosed
    <3>3. CASE Resume!Launch(c)
      <4>1. Startable \subseteq {"launched", "refused", "human", "failed"}
        BY DEF Resume!ResumeAssumption, Resume!LaunchEnds
      <4>2. QED
        BY <3>3, <4>1 DEF Resume!Launch, Resume!Goto
    <3>4. CASE Resume!Handoff(c)
      BY <3>4 DEF Resume!Handoff, Resume!Goto
    <3>5. QED
      BY <1>7, <3>1, <3>2, <3>3, <3>4
  <2>3. PICK p \in Pcs : thr' = [thr EXCEPT ![c].pc = p] /\ (p = "spawn" => host = 0)
    BY <2>2
  <2>4. thr[c].pc \in {"write", "rewrite", "gate", "launch", "handoff"} /\ p \in BeforeHost
    BY <1>7 DEF Resume!MarkRun, Resume!CleanupGate, Resume!Launch, Resume!Handoff, BeforeHost
  <2>5. thr[c].pc \in BeforeHost
    BY <2>4 DEF BeforeHost
  <2>6. QED
    BY <1>2, <1>3, <2>1, <2>3, <2>4, <2>5, GotoMoves DEF BeforeHost
<1>8. QED
  BY <1>4, <1>5, <1>6, <1>7

LEMMA FinishKeepsIntents ==
    ASSUME RunTyped, Resume!FinishBatch
    PROVE  IntentsStay /\ run' \in RunWords
<1>1. run' \in RunWords
  BY DEF RunTyped, RunWords, RowStates, Outcomes, Resume!FinishBatch
<1>2. CASE intents' = intents
  BY <1>1, <1>2, NothingUpdated
<1>3. CASE intents' # intents
  <2>1. PICK s \in {"reconciliation_required", "successor_terminal"} :
            intents' = [intents EXCEPT ![member.intent].state = s]
    BY <1>3 DEF Resume!FinishBatch
  <2>2. QED
    BY <1>1, <2>1, IntentsSettled DEF RunTyped
<1>4. QED
  BY <1>2, <1>3

LEMMA DispatchedStays ==
    ASSUME RunInv, NEW c \in Commands, Resume!Dispatched(c)
    PROVE  IntentsStay
<1> DEFINE i == thr[c].intent
           r == [intents[i] EXCEPT !.state = "successor_dispatched", !.succ = thr[c].att]
<1>1. intents' = [intents EXCEPT ![i].state = "successor_dispatched", ![i].succ = thr[c].att]
  BY DEF Resume!Dispatched, Resume!MyIntent, Resume!MyAtt
<1>2. thr[c] \in Threads /\ intents \in Seq(IntentRow) /\ thr[c].pc # "idle"
  BY DEF RunInv, RunTyped, Resume!Dispatched
<1>3. thr[c].att \in Nat
  BY <1>2 DEF Threads
<1>4. i \in 1 .. Len(intents) /\ intents[i] \in IntentRow
  BY <1>2, InRange
<1> HIDE DEF i
<1>5. r \in IntentRow /\ r.pred = intents[i].pred
  BY <1>3, <1>4 DEF IntentRow
<1>6. intents' = [intents EXCEPT ![i] = r]
  BY <1>1, <1>2, <1>4 DEF IntentRow
<1> HIDE DEF r
<1>7. QED
  BY <1>2, <1>5, <1>6, IntentsUpdated

\* The steps of a thread that write its intent.
LEMMA IntentStepsKeep ==
    ASSUME RunInv, NEW c \in Commands,
           Resume!ReadIntent(c) \/ Resume!Dispatched(c) \/ Resume!FailIntent(c) \/ Resume!AfterFailure(c)
    PROVE  RunInv'
<1>1. RunTyped /\ thr[c] \in Threads /\ intents \in Seq(IntentRow)
  BY DEF RunInv, RunTyped
<1>2. /\ attempts' = attempts /\ host' = host /\ cb' = cb /\ up' = up
  BY DEF Resume!ReadIntent, Resume!Dispatched, Resume!FailIntent, Resume!AfterFailure, Resume!KeepRest
<1>3. IntentsStay /\ run' \in RunWords
  <2>1. CASE Resume!ReadIntent(c)
    BY <1>1, <2>1, NothingUpdated DEF Resume!ReadIntent, RunTyped
  <2>2. CASE Resume!Dispatched(c)
    BY <2>2, DispatchedStays DEF Resume!Dispatched, RunInv, RunTyped
  <2>3. CASE Resume!FailIntent(c)
    <3>1. CASE intents' = intents
      BY <1>1, <2>3, <3>1, NothingUpdated DEF Resume!FailIntent, RunTyped
    <3>2. CASE intents' = [intents EXCEPT ![thr[c].intent].state = "successor_failed"]
      BY <1>1, <2>3, <3>2, IntentsSettled DEF Resume!FailIntent, RunTyped
    <3>3. QED
      BY <2>3, <3>1, <3>2 DEF Resume!FailIntent, Resume!MyIntent
  <2>4. CASE Resume!AfterFailure(c)
    <3>1. CASE Resume!FinishBatch
      BY <1>1, <3>1, FinishKeepsIntents
    <3>2. CASE ~Resume!FinishBatch
      BY <1>1, <2>4, <3>2, NothingUpdated DEF Resume!AfterFailure, RunTyped
    <3>3. QED
      BY <3>1, <3>2
  <2>5. QED
    BY <2>1, <2>2, <2>3, <2>4
<1>4. CASE thr' = [thr EXCEPT ![c] = Resume!Idle]
  <2>1. thr[c].pc # "idle"
    BY DEF Resume!ReadIntent, Resume!Dispatched, Resume!FailIntent, Resume!AfterFailure
  <2>2. QED
    BY <1>2, <1>3, <1>4, <2>1, LeavesKeep
<1>5. CASE Resume!FailIntent(c)
  <2>1. PICK p \in {"recover", "finish"} : thr' = [thr EXCEPT ![c].pc = p]
    BY <1>5 DEF Resume!FailIntent, Resume!Goto
  <2>2. thr[c].pc # "idle" /\ p \notin BeforeHost
    BY <1>5 DEF Resume!FailIntent, BeforeHost
  <2>3. QED
    BY <1>2, <1>3, <2>1, <2>2, GotoMoves
<1>6. CASE Resume!ReadIntent(c)
  <2>1. CASE thr' = [thr EXCEPT ![c] = [@ EXCEPT !.pc = "dispatched"]]
    <3>1. thr' = [thr EXCEPT ![c].pc = "dispatched"] /\ thr[c].pc = "settle"
      BY <1>6, <2>1 DEF Resume!ReadIntent
    <3>2. thr[c].att > 0
      BY <3>1 DEF RunInv, Carries
    <3>3. PICK p \in {"dispatched"} : thr' = [thr EXCEPT ![c].pc = p]
      BY <3>1
    <3>4. p \notin BeforeHost /\ thr[c].pc # "idle"
      BY <3>1 DEF BeforeHost
    <3>5. QED
      BY <1>2, <1>3, <3>2, <3>3, <3>4, GotoMoves
  <2>2. QED
    BY <1>4, <1>6, <2>1 DEF Resume!ReadIntent
<1>7. QED
  BY <1>4, <1>5, <1>6 DEF Resume!ReadIntent, Resume!Dispatched, Resume!FailIntent, Resume!AfterFailure

\* The attempts keep their number; none comes to life, and a lease goes with a live one.
AttemptsStay ==
    /\ attempts' \in Seq(AttemptRow) /\ Len(attempts') = Len(attempts)
    /\ \A a \in 1 .. Len(attempts) :
          /\ Live(a)' => Live(a)
          /\ attempts'[a].lease = TRUE => Live(a)'
          /\ attempts[a].launch # "pre" => attempts'[a].launch # "pre"

CallStays ==
    /\ cb' \in Calls /\ (cb'.pc \in {"cleanup", "result"} => cb'.res \in Outcomes)
    /\ cb'.pc # "none" => (cb.pc # "none" /\ cb'.att = cb.att) \/ (host # 0 /\ cb'.att = host)

\* A step that may end attempts, end the callback or give the Host back, while
\* the threads that have their start before them keep a live attempt.
LEMMA AttemptsMove ==
    ASSUME RunInv, AttemptsStay, IntentsStay, CallStays, run' \in RunWords, host' \in {0, host}, up' = up,
           thr' \in [Commands -> Threads],
           \A d \in Commands :
              /\ thr'[d].att = thr[d].att /\ thr'[d].intent = thr[d].intent
              /\ thr'[d].pc = "idle" <=> thr[d].pc = "idle"
              /\ thr'[d].pc \in {"read", "prepare", "spawn", "tail", "tell", "settle", "dispatched"}
                   => thr'[d].pc = thr[d].pc
              /\ thr'[d].pc \in BeforeHost
                   => thr[d].pc \in BeforeHost /\ Live(thr[d].att)' /\ attempts'[thr[d].att].launch = "pre"
    PROVE  RunInv'
<1>1. RunTyped /\ Newly /\ Apart
  BY DEF RunInv
<1>2. RunTyped'
  <2>1. attempts' \in Seq(AttemptRow) /\ Len(attempts') > 0 /\ run' \in RunWords
        /\ Len(attempts') = Len(attempts)
    BY <1>1 DEF AttemptsStay, RunTyped
  <2>2. intents' \in Seq(IntentRow) /\ \A i \in 1 .. Len(intents') : intents'[i].pred \in 1 .. Len(attempts')
    BY <1>1, <2>1 DEF IntentsStay, RunTyped, Is
  <2>3. host' \in Nat /\ (host' # 0 => host' \in 1 .. Len(attempts') /\ attempts'[host'].launch # "pre")
    BY <1>1, <2>1 DEF RunTyped, AttemptsStay, Is
  <2>4. cb' \in Calls /\ (cb'.pc # "none" => cb'.att \in 1 .. Len(attempts') /\ attempts'[cb'.att].launch # "pre")
    <3>1. cb'.pc # "none" => Is(cb'.att) /\ attempts[cb'.att].launch # "pre"
      BY <1>1 DEF RunTyped, CallStays
    <3>2. QED
      BY <2>1, <3>1 DEF CallStays, AttemptsStay, Is
  <2>5. up' \in BOOLEAN
        /\ (up' = FALSE => host' = 0 /\ cb'.pc = "none" /\ \A c \in Commands : thr'[c].pc = "idle")
    BY <1>1 DEF RunTyped, CallStays
  <2>6. cb'.pc \in {"cleanup", "result"} => cb'.res \in Outcomes
    BY DEF CallStays
  <2>7. QED
    BY <1>1, <2>1, <2>2, <2>3, <2>4, <2>5, <2>6 DEF RunTyped, Is
<1>3. Newly'
  <2>1. host' = 0 \/ host' = host
    OBVIOUS
  <2>2. Len(attempts) \in Nat
    BY <1>1, LastTyped
  <2>3. QED
    BY <1>1, <2>1, <2>2 DEF Newly, AttemptsStay
<1>4. Apart'
  BY <1>1 DEF Apart
<1>5. ASSUME NEW d \in Commands PROVE Carries(d)'
  <2>1. Carries(d) /\ thr[d] \in Threads /\ Len(attempts') = Len(attempts) /\ Len(intents') = Len(intents)
    BY <1>1 DEF RunInv, RunTyped, AttemptsStay, IntentsStay
  <2>2. thr'[d].att = thr[d].att /\ thr'[d].intent = thr[d].intent /\ (thr'[d].pc = "idle" <=> thr[d].pc = "idle")
    OBVIOUS
  <2>3. /\ thr'[d].att <= Len(attempts') /\ thr'[d].intent <= Len(intents')
        /\ thr'[d].pc # "idle" => thr'[d].intent > 0
        /\ thr'[d].pc = "idle" => thr'[d].intent = 0
        /\ thr'[d].pc \in {"idle", "read", "prepare"} => thr'[d].att = 0
    BY <2>1, <2>2 DEF Carries
  <2>4. thr'[d].pc \in {"read", "prepare"} => ~Live(intents[thr[d].intent].pred)'
                                            /\ intents'[thr[d].intent].pred = intents[thr[d].intent].pred
    <3>1. CASE thr'[d].pc \in {"read", "prepare"}
      <4>1. thr[d].pc \in {"read", "prepare"} /\ thr[d].intent \in 1 .. Len(intents)
        BY <3>1, InRange
      <4>2. intents'[thr[d].intent].pred = intents[thr[d].intent].pred
            /\ intents[thr[d].intent].pred \in 1 .. Len(attempts)
        BY <1>1, <4>1 DEF IntentsStay, RunTyped, Is
      <4>3. QED
        BY <2>1, <4>1, <4>2 DEF Carries, AttemptsStay
    <3>2. QED
      BY <3>1
  <2>5. thr'[d].pc \in BeforeHost => /\ thr'[d].att > 0
                                     /\ attempts'[thr'[d].att].state \in {"starting", "running", "cancelling"}
                                     /\ attempts'[thr'[d].att].launch = "pre"
    BY <2>1, <2>2 DEF Carries, Live
  <2>6. /\ thr'[d].pc = "spawn" => host' = 0
        /\ thr'[d].pc \in {"tail", "tell", "settle", "dispatched"} => thr'[d].att > 0
    BY <2>1, <2>2 DEF Carries
  <2>7. QED
    BY <2>2, <2>3, <2>4, <2>5, <2>6 DEF Carries, Live
<1>6. QED
  BY <1>2, <1>3, <1>4, <1>5 DEF RunInv

\* A step that leaves the threads and the attempts alone.
LEMMA HostStepsKeep ==
    ASSUME RunInv, attempts' = attempts, IntentsStay, CallStays, run' \in RunWords, host' \in {0, host},
           up' = up, thr' = thr
    PROVE  RunInv'
<1>1. RunTyped /\ Newly
  BY DEF RunInv
<1>2. AttemptsStay
  BY <1>1 DEF AttemptsStay, RunTyped, Newly, Live
<1>3. thr' \in [Commands -> Threads]
  BY <1>1 DEF RunTyped
<1>4. \A d \in Commands : thr[d].pc \in BeforeHost => Live(thr[d].att)' /\ attempts'[thr[d].att].launch = "pre"
  BY DEF RunInv, Carries, Live
<1>5. QED
  BY <1>2, <1>3, <1>4, AttemptsMove

LaunchMarks == {"", "human"}

LEMMA EndedRow ==
    ASSUME RunTyped, Newly, NEW a \in 1 .. Len(attempts), NEW s \in Outcomes, NEW l \in LaunchMarks,
           attempts' = Resume!Ended(a, s, l)
    PROVE  /\ AttemptsStay /\ attempts'[a].state \notin {"starting", "running", "cancelling"}
           /\ \A b \in 1 .. Len(attempts) : b # a => attempts'[b] = attempts[b]
<1>1. attempts \in Seq(AttemptRow) /\ attempts[a] \in AttemptRow
  BY LastTyped DEF RunTyped
<1> DEFINE z == IF Live(a) THEN s ELSE attempts[a].state
           h == IF Live(a) /\ l # "" THEN l ELSE attempts[a].launch
           r == [attempts[a] EXCEPT !.lease = FALSE, !.state = z, !.launch = h]
<1>2. z \in RowStates /\ z \notin {"starting", "running", "cancelling"}
  BY <1>1 DEF Outcomes, RowStates, AttemptRow, Live
<1>3. h \in {"pre", "human", "host"} /\ (attempts[a].launch # "pre" => h # "pre")
  BY <1>1 DEF AttemptRow, LaunchMarks
<1>4. attempts' = [attempts EXCEPT ![a] = r]
  BY <1>1 DEF Resume!Ended, Resume!EndLease, Resume!LiveAtt, Resume!LiveStates, Live, AttemptRow
<1> HIDE DEF z, h
<1>5. r \in AttemptRow /\ r.state = z /\ r.lease = FALSE /\ r.launch = h
  BY <1>1, <1>2, <1>3 DEF AttemptRow
<1> HIDE DEF r
<1>6. attempts' \in Seq(AttemptRow) /\ Len(attempts') = Len(attempts) /\ attempts'[a] = r
      /\ \A b \in 1 .. Len(attempts) : b # a => attempts'[b] = attempts[b]
  <2>1. DOMAIN attempts = 1 .. Len(attempts)
    BY <1>1
  <2>2. attempts' \in Seq(AttemptRow)
    BY <1>1, <1>4, <1>5
  <2>3. Len(attempts') = Len(attempts)
    BY <1>1, <1>4, <1>5
  <2>4. QED
    BY <1>4, <2>1, <2>2, <2>3
<1>7. AttemptsStay
  BY <1>2, <1>3, <1>5, <1>6 DEF AttemptsStay, Newly, Live
<1>8. QED
  BY <1>2, <1>5, <1>6, <1>7

LEMMA GateWords ==
    ASSUME NEW a PROVE Resume!Gate(a) \in {"human_required", "cancelled", "none"}
BY DEF Resume!Gate

\* The three ends of a start that fails.
LEMMA FailedStartsKeep ==
    ASSUME RunInv, NEW c \in Commands,
           Resume!LaunchCancelled(c) \/ Resume!LaunchHuman(c) \/ Resume!LaunchFailed(c)
    PROVE  RunInv'
<1>1. RunTyped /\ Newly /\ Apart /\ thr \in [Commands -> Threads]
  BY DEF RunInv, RunTyped
<1>2. /\ host' = host /\ cb' = cb /\ up' = up /\ intents' = intents
      /\ thr' = [thr EXCEPT ![c].pc = "fail"]
  BY DEF Resume!LaunchCancelled, Resume!LaunchHuman, Resume!LaunchFailed, Resume!KeepRest, Resume!Goto
<1>3. thr[c].pc \in BeforeHost
  BY DEF Resume!LaunchCancelled, Resume!LaunchHuman, Resume!LaunchFailed, BeforeHost
<1>4. thr[c].att > 0 /\ thr[c].att \in 1 .. Len(attempts) /\ thr[c].pc # "idle"
  <2>1. thr[c].pc # "idle"
    BY <1>3 DEF BeforeHost
  <2>2. QED
    BY <1>3, <2>1, InRange DEF RunInv, Carries, Is
<1>5. PICK s \in Outcomes, l \in LaunchMarks : attempts' = Resume!Ended(thr[c].att, s, l) /\ run' \in RunWords
  <2>1. CASE Resume!LaunchCancelled(c)
    BY <2>1 DEF Resume!LaunchCancelled, Resume!MyAtt, LaunchMarks, Outcomes, RunWords, RowStates
  <2>2. CASE Resume!LaunchHuman(c)
    BY <2>2 DEF Resume!LaunchHuman, Resume!MyAtt, LaunchMarks, Outcomes, RunWords, RowStates
  <2>3. CASE Resume!LaunchFailed(c)
    BY <2>3, GateWords DEF Resume!LaunchFailed, Resume!MyAtt, LaunchMarks, Outcomes, RunWords, RowStates
  <2>4. QED
    BY <2>1, <2>2, <2>3
<1>6. /\ AttemptsStay
      /\ \A b \in 1 .. Len(attempts) : b # thr[c].att => attempts'[b] = attempts[b]
  BY <1>1, <1>4, <1>5, EndedRow
<1>7. IntentsStay /\ CallStays
  BY <1>1, <1>2, NothingUpdated DEF CallStays, RunTyped
<1>8. thr' \in [Commands -> Threads] /\ thr'[c].pc = "fail" /\ thr'[c].att = thr[c].att
      /\ thr'[c].intent = thr[c].intent /\ \A d \in Commands : d # c => thr'[d] = thr[d]
  BY <1>1, <1>2 DEF Threads
<1>9. ASSUME NEW d \in Commands, d # c, thr[d].pc \in BeforeHost
      PROVE  Live(thr[d].att)' /\ attempts'[thr[d].att].launch = "pre"
  <2>1. thr[d].att > 0 /\ Live(thr[d].att) /\ attempts[thr[d].att].launch = "pre" /\ thr[d].pc # "idle"
    BY <1>9 DEF RunInv, Carries, BeforeHost
  <2>2. thr[d].att \in 1 .. Len(attempts)
    <3>1. thr[d].att = 0 \/ Is(thr[d].att)
      BY <1>9, <2>1, InRange
    <3>2. QED
      BY <2>1, <3>1 DEF Is
  <2>3. thr[d].att # thr[c].att
    <3>1. c \in Commands /\ d \in Commands /\ c # d
      BY <1>9
    <3>2. thr[c].att = thr[d].att => thr[c].att = 0
      BY <1>1, <3>1 DEF Apart
    <3>3. QED
      BY <1>4, <2>1, <3>2
  <2>4. thr'[d] = thr[d] /\ attempts'[thr[d].att] = attempts[thr[d].att]
    BY <1>6, <1>8, <1>9, <2>2, <2>3
  <2>5. QED
    BY <1>9, <2>1, <2>4 DEF Live
<1>10. ASSUME NEW d \in Commands
       PROVE  /\ thr'[d].att = thr[d].att /\ thr'[d].intent = thr[d].intent
              /\ thr'[d].pc = "idle" <=> thr[d].pc = "idle"
              /\ thr'[d].pc \in {"read", "prepare", "spawn", "tail", "tell", "settle", "dispatched"}
                   => thr'[d].pc = thr[d].pc
              /\ thr'[d].pc \in BeforeHost
                   => thr[d].pc \in BeforeHost /\ Live(thr[d].att)' /\ attempts'[thr[d].att].launch = "pre"
  <2>1. CASE d = c
    <3>1. "fail" \notin BeforeHost
      BY DEF BeforeHost
    <3>2. QED
      BY <1>4, <1>8, <2>1, <3>1
  <2>2. CASE d # c
    <3>1. thr'[d] = thr[d]
      BY <1>8, <2>2
    <3>2. QED
      BY <1>9, <2>2, <3>1
  <2>3. QED
    BY <2>1, <2>2
<1>11. QED
  BY <1>2, <1>5, <1>6, <1>7, <1>8, <1>10, AttemptsMove

\* The attempt, and then the run, are written running.
LEMMA MarksKeep ==
    ASSUME RunInv, NEW c \in Commands, Resume!MarkAttempt(c)
    PROVE  RunInv'
<1>1. RunTyped /\ Newly /\ Apart /\ thr \in [Commands -> Threads] /\ attempts \in Seq(AttemptRow)
  BY DEF RunInv, RunTyped
<1>2. /\ host' = host /\ cb' = cb /\ up' = up /\ intents' = intents /\ run' = run
      /\ thr[c].pc \in {"mark", "again"}
  BY DEF Resume!MarkAttempt, Resume!KeepRest
<1>3. thr[c].pc \in BeforeHost /\ thr[c].pc # "idle"
  BY <1>2 DEF BeforeHost
<1>4. thr[c].att \in 1 .. Len(attempts) /\ attempts[thr[c].att].launch = "pre" /\ Live(thr[c].att)
      /\ thr[c].att > 0
  BY <1>3, InRange DEF RunInv, Carries, Is
<1>5. IntentsStay /\ CallStays
  BY <1>1, <1>2, NothingUpdated DEF CallStays, RunTyped
<1>6. CASE Resume!Accepts(Resume!MyAtt(c), "running")
  <2> DEFINE r == [attempts[thr[c].att] EXCEPT !.state = "running"]
  <2>1. PICK p \in {"write", "rewrite"} : thr' = [thr EXCEPT ![c].pc = p]
    BY <1>6 DEF Resume!MarkAttempt, Resume!Goto
  <2>2. p \in BeforeHost
    BY DEF BeforeHost
  <2>3. attempts' = [attempts EXCEPT ![thr[c].att] = r] /\ r \in AttemptRow /\ r.state = "running"
        /\ r.lease = attempts[thr[c].att].lease /\ r.launch = attempts[thr[c].att].launch
    <3>1. attempts[thr[c].att] \in AttemptRow
      BY <1>1, <1>4
    <3>2. attempts' = [attempts EXCEPT ![thr[c].att].state = "running"]
      BY <1>6 DEF Resume!MarkAttempt, Resume!MyAtt
    <3>3. QED
      BY <1>1, <3>1, <3>2 DEF AttemptRow, RowStates
  <2> HIDE DEF r
  <2>4. attempts' \in Seq(AttemptRow) /\ Len(attempts') = Len(attempts) /\ attempts'[thr[c].att] = r
        /\ \A b \in 1 .. Len(attempts) : b # thr[c].att => attempts'[b] = attempts[b]
    BY <1>1, <1>4, <2>3
  <2>5. \A b \in 1 .. Len(attempts) :
          (Live(b)' <=> Live(b)) /\ attempts'[b].launch = attempts[b].launch /\ attempts'[b].lease = attempts[b].lease
    <3>1. attempts'[thr[c].att].state \in {"starting", "running", "cancelling"}
      BY <2>3, <2>4
    <3>2. QED
      BY <1>4, <2>3, <2>4, <3>1 DEF Live
  <2>6. AttemptsStay
    BY <1>1, <2>4, <2>5 DEF AttemptsStay, Newly
  <2>7. thr' \in [Commands -> Threads] /\ thr'[c].pc = p /\ thr'[c].att = thr[c].att
        /\ thr'[c].intent = thr[c].intent /\ \A d \in Commands : d # c => thr'[d] = thr[d]
    BY <1>1, <2>1, <2>2 DEF Threads
  <2>8. ASSUME NEW d \in Commands
        PROVE  /\ thr'[d].att = thr[d].att /\ thr'[d].intent = thr[d].intent
               /\ thr'[d].pc = "idle" <=> thr[d].pc = "idle"
               /\ thr'[d].pc \in {"read", "prepare", "spawn", "tail", "tell", "settle", "dispatched"}
                    => thr'[d].pc = thr[d].pc
               /\ thr'[d].pc \in BeforeHost
                    => thr[d].pc \in BeforeHost /\ attempts'[thr[d].att].state \in {"starting", "running", "cancelling"}
                       /\ attempts'[thr[d].att].launch = "pre"
    <3>1. CASE d = c
      BY <1>3, <1>4, <2>1, <2>2, <2>3, <2>4, <2>7, <3>1
    <3>2. CASE d # c
      <4>1. thr'[d] = thr[d]
        BY <2>7, <3>2
      <4>2. thr[d].pc \in BeforeHost => Live(thr[d].att) /\ attempts[thr[d].att].launch = "pre"
                                         /\ thr[d].att \in 1 .. Len(attempts)
        <5>1. thr[d].pc \in BeforeHost => thr[d].pc # "idle" /\ thr[d].att > 0
          BY DEF BeforeHost, RunInv, Carries
        <5>2. QED
          BY <5>1, InRange DEF RunInv, Carries, Is
      <4>3. QED
        BY <2>5, <4>1, <4>2 DEF Live
    <3>3. QED
      BY <3>1, <3>2
  <2>9. QED
    BY <1>1, <1>2, <1>5, <2>6, <2>7, <2>8, AttemptsMove DEF Live, RunTyped
<1>7. CASE ~Resume!Accepts(Resume!MyAtt(c), "running")
  <2>1. PICK p \in {"fail", "failed"} : thr' = [thr EXCEPT ![c].pc = p]
    BY <1>7 DEF Resume!MarkAttempt, Resume!Goto
  <2>2. attempts' = attempts
    BY <1>7 DEF Resume!MarkAttempt
  <2>3. QED
    BY <1>1, <1>2, <1>3, <1>5, <2>1, <2>2, GotoMoves DEF RunTyped, BeforeHost
<1>8. QED
  BY <1>6, <1>7

\* A takeover or a cancellation writes the newest attempt, and keeps it live.
LEMMA ControlsKeep ==
    ASSUME RunInv, Resume!Takeover \/ Resume!CancelRun
    PROVE  RunInv'
<1>1. RunTyped /\ Newly /\ thr \in [Commands -> Threads] /\ attempts \in Seq(AttemptRow)
      /\ intents \in Seq(IntentRow)
  BY DEF RunInv, RunTyped
<1>2. host' = host /\ cb' = cb /\ up' = up /\ thr' = thr
  BY DEF Resume!Takeover, Resume!CancelRun
<1>3. IntentsStay
  <2>1. CASE intents' = intents
    BY <1>1, <2>1, NothingUpdated
  <2>2. CASE intents' = [i \in DOMAIN intents |->
               IF intents[i].state \in {"successor_pending", "successor_dispatched"}
               THEN [intents[i] EXCEPT !.state = "successor_failed"] ELSE intents[i]]
    <3>1. DOMAIN intents = 1 .. Len(intents)
      BY <1>1
    <3>2. ASSUME NEW i \in 1 .. Len(intents)
          PROVE  intents'[i] \in IntentRow /\ intents'[i].pred = intents[i].pred
      <4>1. intents[i] \in IntentRow
        BY <1>1
      <4>2. intents'[i] = IF intents[i].state \in {"successor_pending", "successor_dispatched"}
               THEN [intents[i] EXCEPT !.state = "successor_failed"] ELSE intents[i]
        BY <2>2, <3>1
      <4>3. QED
        BY <4>1, <4>2 DEF IntentRow
    <3>3. intents' \in [1 .. Len(intents) -> IntentRow]
      BY <2>2, <3>1, <3>2
    <3>4. Len(intents) \in Nat
      BY <1>1
    <3>5. intents' \in Seq(IntentRow) /\ Len(intents') = Len(intents)
      BY <3>3, <3>4
    <3>6. QED
      BY <3>2, <3>5 DEF IntentsStay
  <2>3. QED
    BY <2>1, <2>2 DEF Resume!Takeover, Resume!CancelRun, Resume!CancelLive, Resume!CancelPending
<1>4. CallStays
  BY <1>1, <1>2 DEF CallStays, RunTyped
<1>5. run' \in RunWords
  BY DEF Resume!Takeover, Resume!CancelRun, Resume!CancelLive, Resume!CancelPending, RunWords, RowStates,
     Outcomes
<1>6. CASE attempts' = attempts
  BY <1>2, <1>3, <1>4, <1>5, <1>6, HostStepsKeep
<1>7. CASE attempts' # attempts
  <2> DEFINE n == Len(attempts)
  <2>1. n \in 1 .. Len(attempts) /\ attempts[n] \in AttemptRow
    BY <1>1, LastTyped DEF Is
  <2>2. PICK s \in {attempts[n].state, "cancelling"} :
            /\ attempts' = [attempts EXCEPT ![n] = [attempts[n] EXCEPT !.lease = FALSE, !.state = s]]
            /\ attempts[n].state \in {"starting", "running", "cancelling"}
    <3>1. CASE Resume!Takeover
      <4>1. attempts' = [attempts EXCEPT ![n].lease = FALSE] /\ attempts[n].state \in {"starting", "running", "cancelling"}
        BY <1>7, <3>1 DEF Resume!Takeover, Resume!EndLease, Resume!LiveAtt, Resume!LiveStates, Resume!Last
      <4>2. attempts' = [attempts EXCEPT ![n] = [attempts[n] EXCEPT !.lease = FALSE, !.state = attempts[n].state]]
        BY <1>1, <2>1, <4>1 DEF AttemptRow
      <4>3. QED
        BY <4>1, <4>2
    <3>2. CASE Resume!CancelRun
      <4>1. attempts' = [[attempts EXCEPT ![n].lease = FALSE] EXCEPT ![n].state = "cancelling"]
            /\ attempts[n].state \in {"starting", "running", "cancelling"}
        BY <1>7, <3>2 DEF Resume!CancelRun, Resume!CancelLive, Resume!CancelPending, Resume!EndLease,
           Resume!LiveAtt, Resume!LiveStates, Resume!Last
      <4>2. attempts' = [attempts EXCEPT ![n] = [attempts[n] EXCEPT !.lease = FALSE, !.state = "cancelling"]]
        BY <1>1, <2>1, <4>1 DEF AttemptRow
      <4>3. QED
        BY <4>1, <4>2
    <3>3. QED
      BY <3>1, <3>2
  <2>3. s \in {"starting", "running", "cancelling"}
    BY <2>2
  <2> DEFINE r == [attempts[n] EXCEPT !.lease = FALSE, !.state = s]
  <2>4. r \in AttemptRow /\ r.state = s /\ r.lease = FALSE /\ r.launch = attempts[n].launch
    BY <2>1, <2>3 DEF AttemptRow, RowStates
  <2>5. attempts' = [attempts EXCEPT ![n] = r]
    BY <2>2
  <2> HIDE DEF r, n
  <2>6. attempts' \in Seq(AttemptRow) /\ Len(attempts') = Len(attempts) /\ attempts'[n] = r
        /\ \A b \in 1 .. Len(attempts) : b # n => attempts'[b] = attempts[b]
    BY <1>1, <2>1, <2>4, <2>5
  <2>7. \A b \in 1 .. Len(attempts) :
          /\ attempts[b].state \in {"starting", "running", "cancelling"}
               <=> attempts'[b].state \in {"starting", "running", "cancelling"}
          /\ attempts'[b].launch = attempts[b].launch
          /\ attempts'[b].lease = TRUE => attempts[b].lease = TRUE
    BY <2>1, <2>2, <2>3, <2>4, <2>6
  <2>8. AttemptsStay
    BY <1>1, <2>6, <2>7 DEF AttemptsStay, Newly, Live
  <2>9. \A d \in Commands : thr[d].pc \in BeforeHost =>
            attempts'[thr[d].att].state \in {"starting", "running", "cancelling"} /\ attempts'[thr[d].att].launch = "pre"
    <3>1. ASSUME NEW d \in Commands, thr[d].pc \in BeforeHost
          PROVE  attempts'[thr[d].att].state \in {"starting", "running", "cancelling"} /\ attempts'[thr[d].att].launch = "pre"
      <4>1. thr[d].att > 0 /\ thr[d].pc # "idle" /\ Live(thr[d].att) /\ attempts[thr[d].att].launch = "pre"
        BY <3>1 DEF RunInv, Carries, BeforeHost
      <4>2. thr[d].att \in 1 .. Len(attempts)
        BY <4>1, InRange DEF Is
      <4>3. QED
        BY <2>7, <4>1, <4>2 DEF Live
    <3>2. QED
      BY <3>1
  <2>10. QED
    BY <1>1, <1>2, <1>3, <1>4, <1>5, <2>8, <2>9, AttemptsMove DEF Live
<1>8. QED
  BY <1>6, <1>7

\* What the Host, its callback and the watchdog do without ending an attempt.
LEMMA CallbacksKeep ==
    ASSUME RunInv,
           \/ Resume!ReleaseTakeover \/ Resume!Deliver \/ Resume!Watchdog \/ Resume!HostEnds \/ Resume!Cleanup
           \/ Resume!Accept \/ Resume!GiveBack \/ Resume!Resumed \/ \E t \in Todos : Resume!HostTodo(t)
    PROVE  RunInv'
<1>1. RunTyped
  BY DEF RunInv
<1>2. attempts' = attempts /\ thr' = thr /\ up' = up /\ host' \in {0, host}
  BY DEF Resume!ReleaseTakeover, Resume!Deliver, Resume!Watchdog, Resume!HostEnds, Resume!Cleanup,
     Resume!Accept, Resume!GiveBack, Resume!Resumed, Resume!HostTodo, Resume!KeepHost
<1>3. IntentsStay /\ run' \in RunWords
  <2>1. CASE Resume!Resumed
    BY <1>1, <2>1, FinishKeepsIntents DEF Resume!Resumed
  <2>2. CASE ~Resume!Resumed
    <3>1. intents' = intents
      BY <2>2 DEF Resume!ReleaseTakeover, Resume!Deliver, Resume!Watchdog, Resume!HostEnds, Resume!Cleanup,
         Resume!Accept, Resume!GiveBack, Resume!HostTodo, Resume!KeepHost
    <3>2. Resume!Outcome \in RunWords
      BY <1>1, LastTyped DEF Resume!Outcome, RunWords, RowStates, Outcomes, Resume!Last, AttemptRow
    <3>3. run \in RunWords /\ {"review_required", "done"} \subseteq RunWords
      BY <1>1 DEF RunTyped, RunWords, RowStates, Outcomes
    <3>4. run' \in RunWords
      BY <2>2, <3>2, <3>3 DEF Resume!ReleaseTakeover, Resume!Deliver, Resume!Watchdog, Resume!HostEnds, Resume!Cleanup,
         Resume!Accept, Resume!GiveBack, Resume!HostTodo
    <3>5. QED
      BY <1>1, <3>1, <3>4, NothingUpdated
  <2>3. QED
    BY <2>1, <2>2
<1>4. CallStays
  <2>1. cb \in Calls /\ (cb'= cb => CallStays)
    BY <1>1 DEF RunTyped, CallStays
  <2>2. Resume!NoCall \in Calls /\ Resume!NoCall.pc = "none"
    BY DEF Resume!NoCall, Calls
  <2>3. cb' = Resume!NoCall => CallStays
    BY <2>2 DEF CallStays
  <2>4. CASE Resume!HostEnds
    <3>1. PICK r \in {"completed", "failed", "human_required", "cancelled"} :
              cb' = [Resume!NoCall EXCEPT !.pc = "cleanup", !.att = host, !.res = r]
      BY <2>4 DEF Resume!HostEnds
    <3>2. host \in Nat /\ host # 0
      BY <1>1, <2>4 DEF Resume!HostEnds, RunTyped
    <3>3. r \in Outcomes
      BY DEF Outcomes
    <3>4. cb' \in Calls /\ cb'.att = host /\ cb'.res \in Outcomes
      BY <2>2, <3>1, <3>2, <3>3 DEF Calls
    <3>5. QED
      BY <3>2, <3>4 DEF CallStays
  <2>5. CASE Resume!Cleanup
    <3>1. cb.pc # "none"
      BY <2>5 DEF Resume!Cleanup
    <3>2. CASE cb' = [cb EXCEPT !.pc = "handoff", !.res = "ignored"]
      BY <2>1, <3>1, <3>2 DEF CallStays, Calls
    <3>3. CASE cb' = [cb EXCEPT !.pc = "result", !.control = Resume!Gate(cb.att)]
      <4>1. cb.pc = "cleanup" /\ cb.res \in Outcomes
        BY <1>1, <2>5 DEF Resume!Cleanup, RunTyped
      <4>2. Resume!Gate(cb.att) \in {"none", "human_required", "cancelled"}
        BY GateWords
      <4>3. cb' \in Calls /\ cb'.att = cb.att /\ cb'.res = cb.res
        BY <2>1, <3>3, <4>2 DEF Calls
      <4>4. QED
        BY <3>1, <4>1, <4>3 DEF CallStays
    <3>4. QED
      BY <2>5, <3>2, <3>3 DEF Resume!Cleanup
  <2>6. CASE Resume!Accept
    BY <2>1, <2>6 DEF Resume!Accept, CallStays, Calls
  <2>7. CASE Resume!GiveBack
    <3>1. CASE cb' = [cb EXCEPT !.pc = "resumed"]
      BY <2>1, <2>7, <3>1 DEF Resume!GiveBack, CallStays, Calls
    <3>2. QED
      BY <2>3, <2>7, <3>1 DEF Resume!GiveBack
  <2>8. QED
    BY <2>1, <2>3, <2>4, <2>5, <2>6, <2>7 DEF Resume!ReleaseTakeover, Resume!Deliver, Resume!Watchdog,
       Resume!Resumed, Resume!HostTodo
<1>5. QED
  BY <1>2, <1>3, <1>4, HostStepsKeep

\* The result of the Host ends the attempt it ran, which no thread still starts.
LEMMA ResultKeeps ==
    ASSUME RunInv, Resume!Result
    PROVE  RunInv'
<1>1. RunTyped /\ Newly /\ thr \in [Commands -> Threads] /\ cb \in Calls /\ cb.pc = "result" /\ cb.res \in Outcomes
      /\ cb.att \in 1 .. Len(attempts) /\ attempts[cb.att].launch # "pre"
  BY DEF RunInv, RunTyped, Resume!Result, Is
<1>2. host' = host /\ up' = up /\ thr' = thr /\ intents' = intents
  BY DEF Resume!Result, Resume!KeepHost
<1>3. IntentsStay
  BY <1>1, <1>2, NothingUpdated
<1>4. CASE ~Resume!LiveAtt(cb.att)
  <2>1. attempts' = attempts /\ run' = run /\ cb' = [cb EXCEPT !.pc = "handoff", !.res = "ignored"]
    BY <1>4 DEF Resume!Result
  <2>2. CallStays
    BY <1>1, <2>1 DEF CallStays, Calls
  <2>3. QED
    BY <1>1, <1>2, <1>3, <2>1, <2>2, HostStepsKeep DEF RunTyped
<1>5. CASE Resume!LiveAtt(cb.att)
  <2> DEFINE g == IF Resume!Gate(cb.att) # "none" THEN Resume!Gate(cb.att) ELSE cb.control
             s == IF g = "none" THEN cb.res ELSE g
  <2>1. /\ attempts' = Resume!Ended(cb.att, s, "")
        /\ run' = IF s = "completed" THEN "review_required" ELSE s
        /\ cb' = [cb EXCEPT !.pc = IF s = "completed" THEN "accept" ELSE "handoff"]
    BY <1>5 DEF Resume!Result
  <2>2. g \in {"human_required", "cancelled", "none"}
    BY <1>1, GateWords DEF Calls
  <2> HIDE DEF g
  <2>3. s \in Outcomes
    BY <1>1, <2>2 DEF Outcomes
  <2> HIDE DEF s
  <2>4. CASE s \in Outcomes
    <3>1. run' \in RunWords
      BY <2>1, <2>4 DEF RunWords, RowStates, Outcomes
    <3>2. CallStays
      <4>1. PICK p \in {"accept", "handoff"} : cb' = [cb EXCEPT !.pc = p]
        BY <2>1
      <4>2. QED
        BY <1>1, <4>1 DEF CallStays, Calls
    <3>3. "" \in LaunchMarks
      BY DEF LaunchMarks
    <3>4. PICK l \in LaunchMarks : attempts' = Resume!Ended(cb.att, s, l)
      BY <2>1, <3>3
    <3>5. AttemptsStay /\ \A b \in 1 .. Len(attempts) : b # cb.att => attempts'[b] = attempts[b]
      BY <1>1, <2>4, <3>4, EndedRow
    <3>6. ASSUME NEW d \in Commands, thr[d].pc \in BeforeHost
          PROVE  attempts'[thr[d].att].state \in {"starting", "running", "cancelling"} /\ attempts'[thr[d].att].launch = "pre"
      <4>1. thr[d].att > 0 /\ thr[d].pc # "idle" /\ Live(thr[d].att) /\ attempts[thr[d].att].launch = "pre"
        BY <3>6 DEF RunInv, Carries, BeforeHost
      <4>2. thr[d].att \in 1 .. Len(attempts)
        BY <4>1, InRange DEF Is
      <4>3. attempts'[thr[d].att] = attempts[thr[d].att]
        BY <1>1, <3>5, <4>1, <4>2
      <4>4. QED
        BY <4>1, <4>3 DEF Live
    <3>7. QED
      BY <1>1, <1>2, <1>3, <3>1, <3>2, <3>5, <3>6, AttemptsMove DEF Live
  <2>5. QED
    BY <2>3, <2>4
<1>6. QED
  BY <1>4, <1>5

LEMMA CrashKeeps ==
    ASSUME RunInv, Resume!Crash
    PROVE  RunInv'
<1>1. RunTyped /\ Newly
  BY DEF RunInv
<1>2. /\ attempts' = attempts /\ intents' = intents /\ run' = run /\ host' = 0 /\ up' = FALSE
      /\ cb' = Resume!NoCall /\ thr' = [c \in Commands |-> Resume!Idle]
  BY DEF Resume!Crash
<1>3. Resume!Idle \in Threads /\ Resume!Idle.pc = "idle" /\ Resume!Idle.att = 0 /\ Resume!Idle.intent = 0
  BY DEF Resume!Idle, Threads
<1>4. Resume!NoCall \in Calls /\ Resume!NoCall.pc = "none"
  BY DEF Resume!NoCall, Calls
<1>5. RunTyped'
  BY <1>1, <1>2, <1>3, <1>4 DEF RunTyped, Is
<1>6. Newly'
  BY <1>1, <1>2, LastTyped DEF Newly, Live
<1>7. Apart'
  BY <1>2, <1>3 DEF Apart
<1>8. Len(intents) \in Nat /\ Len(attempts) \in Nat
  <2>1. intents \in Seq(IntentRow) /\ attempts \in Seq(AttemptRow)
    BY <1>1 DEF RunTyped
  <2>2. QED
    BY <2>1
<1>9. \A c \in Commands : Carries(c)'
  BY <1>2, <1>3, <1>8 DEF Carries, BeforeHost
<1>10. QED
  BY <1>5, <1>6, <1>7, <1>9 DEF RunInv

LEMMA StartupKeeps ==
    ASSUME RunInv, Resume!Startup
    PROVE  RunInv'
<1>1. RunTyped /\ Newly /\ attempts \in Seq(AttemptRow) /\ intents \in Seq(IntentRow)
      /\ \A c \in Commands : thr[c].pc = "idle"
  BY DEF RunInv, RunTyped, Resume!Startup
<1>2. host' = host /\ cb' = cb /\ thr' = thr /\ up' = TRUE /\ host = 0 /\ cb.pc = "none"
  BY <1>1 DEF Resume!Startup, RunTyped
<1>3. IntentsStay
  <2>1. DOMAIN intents = 1 .. Len(intents) /\ Len(intents) \in Nat
    BY <1>1
  <2>2. ASSUME NEW i \in 1 .. Len(intents)
        PROVE  intents'[i] \in IntentRow /\ intents'[i].pred = intents[i].pred
    <3>1. intents[i] \in IntentRow
      BY <1>1
    <3>2. intents'[i] = IF intents[i].state = "successor_pending"
                        THEN [intents[i] EXCEPT !.state = "reconciliation_required"] ELSE intents[i]
      BY <2>1 DEF Resume!Startup
    <3>3. QED
      BY <3>1, <3>2 DEF IntentRow
  <2>3. intents' \in [1 .. Len(intents) -> IntentRow]
    BY <2>1, <2>2 DEF Resume!Startup
  <2>4. intents' \in Seq(IntentRow) /\ Len(intents') = Len(intents)
    BY <2>1, <2>3
  <2>5. QED
    BY <2>2, <2>4 DEF IntentsStay
<1>4. run' \in RunWords
  BY <1>1 DEF Resume!Startup, RunTyped, RunWords, RowStates, Outcomes
<1>5. DOMAIN attempts = 1 .. Len(attempts) /\ Len(attempts) \in Nat
  BY <1>1
<1>6. ASSUME NEW a \in 1 .. Len(attempts)
      PROVE  /\ attempts'[a] \in AttemptRow /\ attempts'[a].launch = attempts[a].launch
             /\ attempts'[a].state \in {"starting", "running", "cancelling"} => Live(a)
             /\ attempts'[a].lease = FALSE
  <2>1. attempts[a] \in AttemptRow /\ attempts[a].lease \in BOOLEAN
    <3>1. attempts[a] \in AttemptRow
      BY <1>1
    <3>2. QED
      BY <3>1 DEF AttemptRow
  <2>2. CASE attempts[a].lease = TRUE
    <3>1. attempts'[a] = Resume!Ended(a, "review_required", "")[a]
      BY <1>5, <2>2 DEF Resume!Startup, Resume!Revoked
    <3>2. attempts'[a] = [attempts[a] EXCEPT !.lease = FALSE,
                            !.state = IF Live(a) THEN "review_required" ELSE attempts[a].state]
      <4> DEFINE r == [attempts[a] EXCEPT !.lease = FALSE,
                            !.state = IF Live(a) THEN "review_required" ELSE attempts[a].state]
      <4>1. Resume!Ended(a, "review_required", "")
              = [attempts EXCEPT ![a] = r]
        BY <1>1, <2>1 DEF Resume!Ended, Resume!EndLease, Resume!LiveAtt, Resume!LiveStates, Live, AttemptRow
      <4> HIDE DEF r
      <4>2. [attempts EXCEPT ![a] = r][a] = r
        BY <1>5
      <4>3. QED
        BY <3>1, <4>1, <4>2 DEF r
    <3>3. QED
      BY <2>1, <3>2 DEF AttemptRow, RowStates, Outcomes, Live
  <2>3. CASE attempts[a].lease = FALSE
    BY <1>5, <2>1, <2>3 DEF Resume!Startup, Resume!Revoked, Live
  <2>4. QED
    BY <2>1, <2>2, <2>3
<1>7. attempts' \in [1 .. Len(attempts) -> AttemptRow]
  BY <1>5, <1>6 DEF Resume!Startup
<1>8. attempts' \in Seq(AttemptRow) /\ Len(attempts') = Len(attempts)
  BY <1>5, <1>7
<1>9. RunTyped'
  <2>1. intents' \in Seq(IntentRow) /\ \A i \in 1 .. Len(intents') : intents'[i].pred \in 1 .. Len(attempts')
    BY <1>1, <1>3, <1>8 DEF IntentsStay, RunTyped, Is
  <2>2. QED
    BY <1>1, <1>2, <1>4, <1>8, <2>1 DEF RunTyped, Is
<1>10. Newly'
  BY <1>1, <1>2, <1>5, <1>6, <1>8 DEF Newly, Live
<1>11. Apart'
  BY <1>2 DEF RunInv, Apart
<1>12. ASSUME NEW c \in Commands PROVE Carries(c)'
  <2>1. Carries(c) /\ thr'[c] = thr[c] /\ thr[c].pc = "idle" /\ Len(intents') = Len(intents)
    BY <1>1, <1>2, <1>3 DEF RunInv, IntentsStay
  <2>2. QED
    BY <1>8, <2>1 DEF Carries, BeforeHost
<1>13. QED
  BY <1>9, <1>10, <1>11, <1>12 DEF RunInv

\* Before an attempt is prepared none is live: the predecessor is the newest one.
LEMMA NoneLive ==
    ASSUME RunInv, NEW c \in Commands, thr[c].pc = "prepare", Resume!OwnsNewest(c),
           Len(attempts) = intents[thr[c].intent].pred
    PROVE  /\ \A a \in 1 .. Len(attempts) : ~Live(a) /\ attempts[a].lease # TRUE
           /\ \A d \in Commands : thr[d].pc \notin BeforeHost
<1>1. RunTyped /\ Newly
  BY DEF RunInv
<1>2. ~Live(Len(attempts))
  BY DEF RunInv, Carries
<1>3. \A a \in 1 .. Len(attempts) : ~Live(a) /\ attempts[a].lease # TRUE
  BY <1>1, <1>2 DEF Newly
<1>4. ASSUME NEW d \in Commands, thr[d].pc \in BeforeHost PROVE FALSE
  <2>1. thr[d].att > 0 /\ thr[d].pc # "idle" /\ Live(thr[d].att)
    BY <1>4 DEF RunInv, Carries, BeforeHost
  <2>2. thr[d].att \in 1 .. Len(attempts)
    BY <2>1, InRange DEF Is
  <2>3. QED
    BY <1>3, <2>1, <2>2
<1>5. QED
  BY <1>3, <1>4

LEMMA PrepareKeeps ==
    ASSUME RunInv, NEW c \in Commands, Resume!Prepare(c)
    PROVE  RunInv'
<1>1. RunTyped /\ Newly /\ Apart /\ thr \in [Commands -> Threads] /\ attempts \in Seq(AttemptRow)
      /\ intents \in Seq(IntentRow) /\ thr[c] \in Threads /\ cb \in Calls
  BY DEF RunInv, RunTyped
<1> DEFINE n == Len(attempts)
           new == [state |-> "starting", launch |-> "pre", lease |-> TRUE]
<1>2. n \in Nat \ {0} /\ Len(intents) \in Nat
  BY <1>1, LastTyped
<1>3. /\ host' = host /\ cb' = cb /\ up' = up /\ run' = run /\ host = 0 /\ thr[c].pc = "prepare"
      /\ attempts' = Append(attempts, new)
      /\ intents' = [intents EXCEPT ![thr[c].intent].succ = n + 1]
      /\ thr' = [thr EXCEPT ![c].pc = "mark", ![c].att = n + 1]
      /\ Resume!OwnsNewest(c) /\ n = intents[thr[c].intent].pred
  BY DEF Resume!Prepare, Resume!MayPrepare, Resume!KeepRest, Resume!Last, Resume!MyIntent
<1>4. \A a \in 1 .. n : ~Live(a) /\ attempts[a].lease # TRUE
  BY <1>3, NoneLive
<1>5. \A d \in Commands : thr[d].pc \notin BeforeHost
  BY <1>3, NoneLive
<1>6. new \in AttemptRow /\ new.state = "starting" /\ new.launch = "pre"
  BY DEF AttemptRow, RowStates
<1> HIDE DEF new
<1>7. attempts' \in Seq(AttemptRow) /\ Len(attempts') = n + 1 /\ attempts'[n + 1] = new
      /\ \A a \in 1 .. n : attempts'[a] = attempts[a]
  BY <1>1, <1>3, <1>6
<1>8. thr[c].intent \in 1 .. Len(intents) /\ thr[c].att = 0
  BY <1>3, InRange DEF RunInv, Carries
<1>9. IntentsStay
  <2> DEFINE i == thr[c].intent
             r == [intents[i] EXCEPT !.succ = n + 1]
  <2> HIDE DEF n
  <2>1. intents[i] \in IntentRow
    BY <1>1, <1>8
  <2> HIDE DEF i
  <2>2. r \in IntentRow /\ r.pred = intents[i].pred
    BY <1>2, <2>1 DEF IntentRow
  <2>3. intents' = [intents EXCEPT ![i] = r]
    BY <1>1, <1>3, <2>1 DEF i
  <2> HIDE DEF r
  <2>4. QED
    BY <1>1, <2>2, <2>3, IntentsUpdated
<1> DEFINE t == [thr[c] EXCEPT !.pc = "mark", !.att = n + 1]
<1>10. t \in Threads /\ t.pc = "mark" /\ t.att = n + 1 /\ t.intent = thr[c].intent
  <2> DEFINE k == n + 1
  <2>1. k \in Nat
    BY <1>2
  <2> HIDE DEF n, k
  <2>2. "mark" \in BeforeHost
    BY DEF BeforeHost
  <2>3. [thr[c] EXCEPT !.pc = "mark", !.att = k] \in Threads
    BY <1>1, <2>1, <2>2 DEF Threads
  <2>4. QED
    BY <1>1, <2>3 DEF k, Threads
<1>11. thr' = [thr EXCEPT ![c] = t]
  BY <1>1, <1>3 DEF Threads
<1> HIDE DEF t
<1>12. thr' \in [Commands -> Threads] /\ thr'[c] = t /\ \A d \in Commands : d # c => thr'[d] = thr[d]
  BY <1>1, <1>10, <1>11
<1>13. RunTyped'
  <2>1. intents' \in Seq(IntentRow) /\ \A j \in 1 .. Len(intents') : intents'[j].pred \in 1 .. Len(attempts')
    <3>1. intents' \in Seq(IntentRow) /\ Len(intents') = Len(intents)
      BY <1>9 DEF IntentsStay
    <3>2. ASSUME NEW j \in 1 .. Len(intents') PROVE intents'[j].pred \in 1 .. Len(attempts')
      <4>1. intents'[j].pred = intents[j].pred /\ intents[j].pred \in 1 .. n
        BY <1>1, <1>9, <3>1 DEF IntentsStay, RunTyped, Is
      <4> HIDE DEF n
      <4>2. QED
        BY <1>2, <1>7, <4>1
    <3>3. QED
      BY <3>1, <3>2
  <2>2. cb.pc # "none" => cb.att \in 1 .. n /\ attempts[cb.att].launch # "pre"
    BY <1>1 DEF RunTyped, Is
  <2>3. cb'.pc # "none" => cb'.att \in 1 .. Len(attempts') /\ attempts'[cb'.att].launch # "pre"
    <3> HIDE DEF n
    <3>1. QED
      BY <1>2, <1>3, <1>7, <2>2
  <2>4. up' # FALSE
    BY <1>1, <1>3 DEF RunTyped
  <2>5. Len(attempts') > 0
    BY <1>2, <1>7
  <2>6. QED
    BY <1>1, <1>3, <1>7, <1>12, <2>1, <2>3, <2>4, <2>5 DEF RunTyped, Is
<1>14. Newly'
  <2>1. ASSUME NEW a \in 1 .. Len(attempts')
        PROVE  /\ attempts'[a].state \in {"starting", "running", "cancelling"} \/ host' = a => a = Len(attempts')
               /\ attempts'[a].lease = TRUE => attempts'[a].state \in {"starting", "running", "cancelling"}
    <3> HIDE DEF n
    <3>1. a = n + 1 \/ a \in 1 .. n
      BY <1>2, <1>7
    <3>2. CASE a = n + 1
      BY <1>6, <1>7, <3>2
    <3>3. CASE a \in 1 .. n
      <4>1. attempts'[a] = attempts[a] /\ ~Live(a) /\ attempts[a].lease # TRUE /\ host' # a
        <5>1. attempts'[a] = attempts[a]
          BY <1>7, <3>3
        <5>2. ~Live(a) /\ attempts[a].lease # TRUE
          BY <1>4, <3>3
        <5>3. host' = 0
          BY <1>3
        <5>4. a # 0
          BY <1>2, <3>3
        <5>5. QED
          BY <5>1, <5>2, <5>3, <5>4
      <4>2. QED
        BY <4>1 DEF Live
    <3>4. QED
      BY <3>1, <3>2, <3>3
  <2>2. QED
    BY <2>1 DEF Newly, Live
<1>15. Apart'
  <2>1. \A d \in Commands : thr[d].att \in Nat /\ thr[d].att <= n
    BY <1>1 DEF RunInv, Carries, Threads
  <2>2. \A d \in Commands : thr[d].att # n + 1
    <3> HIDE DEF n
    <3>1. QED
      BY <1>2, <2>1
  <2>3. QED
    BY <1>1, <1>10, <1>12, <2>2 DEF Apart
<1>16. ASSUME NEW d \in Commands PROVE Carries(d)'
  <2>1. Carries(d) /\ thr[d] \in Threads /\ Len(intents') = Len(intents)
    BY <1>1, <1>9 DEF RunInv, IntentsStay
  <2>2. CASE d = c
    <3>1. thr'[d].pc = "mark" /\ thr'[d].att = Len(attempts') /\ thr'[d].intent = thr[c].intent
          /\ attempts'[thr'[d].att].state = "starting" /\ attempts'[thr'[d].att].launch = "pre"
      BY <1>6, <1>7, <1>10, <1>12, <2>2
    <3>2. Len(attempts') > 0 /\ Len(attempts') <= Len(attempts')
      BY <1>2, <1>7
    <3>3. QED
      BY <1>8, <2>1, <3>1, <3>2 DEF Carries, Live
  <2>3. CASE d # c
    <3>1. thr'[d] = thr[d] /\ thr'[d].pc \notin BeforeHost /\ host' = 0
      BY <1>3, <1>5, <1>12, <2>3
    <3>2. thr'[d].att <= Len(attempts')
      <4>1. thr[d].att \in Nat /\ thr[d].att <= n
        BY <2>1 DEF Carries, Threads
      <4> HIDE DEF n
      <4>2. QED
        BY <1>2, <1>7, <3>1, <4>1
    <3>3. thr'[d].pc \in {"read", "prepare"} => attempts'[intents'[thr[d].intent].pred].state
                                                   \notin {"starting", "running", "cancelling"}
      <4>1. CASE thr[d].pc \in {"read", "prepare"}
        <5>1. thr[d].intent \in 1 .. Len(intents)
          BY <4>1, InRange
        <5>2. intents'[thr[d].intent].pred = intents[thr[d].intent].pred
              /\ intents[thr[d].intent].pred \in 1 .. n
          BY <1>1, <1>9, <5>1 DEF IntentsStay, RunTyped, Is
        <5>3. QED
          BY <1>4, <1>7, <5>2 DEF Live
      <4>2. QED
        BY <3>1, <4>1
    <3>4. QED
      BY <2>1, <3>1, <3>2, <3>3 DEF Carries, Live
  <2>4. QED
    BY <2>2, <2>3
<1>17. QED
  BY <1>13, <1>14, <1>15, <1>16 DEF RunInv

LEMMA SpawnKeeps ==
    ASSUME RunInv, NEW c \in Commands, Resume!Spawn(c)
    PROVE  RunInv'
<1>1. RunTyped /\ Newly /\ Apart /\ thr \in [Commands -> Threads] /\ attempts \in Seq(AttemptRow)
      /\ intents \in Seq(IntentRow) /\ thr[c] \in Threads /\ cb \in Calls
  BY DEF RunInv, RunTyped
<1> DEFINE m == thr[c].att
           n == Len(attempts)
           r == [attempts[m] EXCEPT !.launch = "host"]
<1>2. /\ cb' = cb /\ up' = up /\ run' = run /\ intents' = intents /\ host' = m
      /\ attempts' = [attempts EXCEPT ![m].launch = "host"]
      /\ thr' = [thr EXCEPT ![c].pc = "tail"] /\ thr[c].pc = "spawn"
  BY DEF Resume!Spawn, Resume!MyAtt, Resume!Goto
<1>3. m \in 1 .. n /\ m > 0 /\ Live(m) /\ m = n /\ thr[c].intent \in 1 .. Len(intents)
  <2>1. m > 0 /\ Live(m)
    BY <1>2 DEF RunInv, Carries, BeforeHost
  <2>2. m \in 1 .. n /\ thr[c].intent \in 1 .. Len(intents)
    BY <1>2, <2>1, InRange DEF Is
  <2>3. QED
    BY <1>1, <2>1, <2>2 DEF Newly
<1>4. attempts[m] \in AttemptRow
  BY <1>1, <1>3
<1>5. r \in AttemptRow /\ r.state = attempts[m].state /\ r.lease = attempts[m].lease /\ r.launch = "host"
  BY <1>4 DEF AttemptRow
<1>6. attempts' = [attempts EXCEPT ![m] = r]
  BY <1>2
<1> HIDE DEF r
<1>7. attempts' \in Seq(AttemptRow) /\ Len(attempts') = n /\ attempts'[m] = r
      /\ \A a \in 1 .. n : a # m => attempts'[a] = attempts[a]
  BY <1>1, <1>3, <1>5, <1>6
<1>8. \A a \in 1 .. n : attempts'[a].state = attempts[a].state /\ attempts'[a].lease = attempts[a].lease
                        /\ (attempts[a].launch # "pre" => attempts'[a].launch # "pre")
  BY <1>5, <1>7
<1>9. ASSUME NEW d \in Commands, d # c PROVE thr[d].pc \notin BeforeHost
  <2>1. ASSUME thr[d].pc \in BeforeHost PROVE FALSE
    <3>1. thr[d].att > 0 /\ Live(thr[d].att) /\ thr[d].pc # "idle"
      BY <2>1 DEF RunInv, Carries, BeforeHost
    <3>2. thr[d].att \in 1 .. n
      BY <3>1, InRange DEF Is
    <3>3. thr[d].att = n
      BY <1>1, <3>1, <3>2 DEF Newly
    <3>4. thr[d].att = thr[c].att => thr[d].att = 0
      BY <1>1, <1>9 DEF Apart
    <3>5. QED
      BY <1>3, <3>3, <3>4
  <2>2. QED
    BY <2>1
<1>10. "tail" \notin BeforeHost
  BY DEF BeforeHost
<1>11. thr' \in [Commands -> Threads] /\ thr'[c].pc = "tail" /\ thr'[c].att = thr[c].att
       /\ thr'[c].intent = thr[c].intent /\ \A d \in Commands : d # c => thr'[d] = thr[d]
  BY <1>1, <1>2 DEF Threads
<1>12. RunTyped'
  <2>1. intents' \in Seq(IntentRow) /\ \A i \in 1 .. Len(intents') : intents'[i].pred \in 1 .. Len(attempts')
    BY <1>1, <1>2, <1>7 DEF RunTyped, Is
  <2>2. host' \in Nat /\ host' \in 1 .. Len(attempts') /\ attempts'[host'].launch # "pre"
    BY <1>2, <1>3, <1>5, <1>7
  <2>3. cb'.pc # "none" => cb'.att \in 1 .. Len(attempts') /\ attempts'[cb'.att].launch # "pre"
    BY <1>1, <1>2, <1>7, <1>8 DEF RunTyped, Is
  <2>4. up' # FALSE
    BY <1>1, <1>2 DEF RunTyped
  <2>5. QED
    BY <1>1, <1>2, <1>7, <1>11, <2>1, <2>2, <2>3, <2>4 DEF RunTyped, Is
<1>13. Newly'
  BY <1>1, <1>2, <1>3, <1>7, <1>8 DEF Newly, Live
<1>14. Apart'
  BY <1>1, <1>11 DEF Apart
<1>15. ASSUME NEW d \in Commands PROVE Carries(d)'
  <2>1. Carries(d) /\ thr[d] \in Threads
    BY <1>1 DEF RunInv
  <2>2. CASE d = c
    <3>1. thr'[d].pc = "tail" /\ thr'[d].att = m /\ thr'[d].intent = thr[c].intent
      BY <1>11, <2>2
    <3>2. QED
      BY <1>2, <1>3, <1>7, <1>10, <2>1, <2>2, <3>1 DEF Carries, Live
  <2>3. CASE d # c
    <3>1. thr'[d] = thr[d] /\ thr'[d].pc \notin BeforeHost /\ Len(attempts') = Len(attempts) /\ intents' = intents
      BY <1>2, <1>7, <1>9, <1>11, <2>3
    <3>2. thr'[d].pc # "spawn"
      BY <3>1 DEF BeforeHost
    <3>3. thr'[d].pc \in {"read", "prepare"} => attempts'[intents'[thr[d].intent].pred].state
                                                   \notin {"starting", "running", "cancelling"}
      <4>1. CASE thr[d].pc \in {"read", "prepare"}
        <5>1. thr[d].intent \in 1 .. Len(intents)
          BY <4>1, InRange
        <5>2. intents[thr[d].intent].pred \in 1 .. n
          BY <1>1, <5>1 DEF RunTyped, Is
        <5>3. QED
          BY <1>8, <2>1, <3>1, <4>1, <5>2 DEF Carries, Live
      <4>2. QED
        BY <3>1, <4>1
    <3>4. QED
      BY <2>1, <3>1, <3>2, <3>3 DEF Carries, Live
  <2>4. QED
    BY <2>2, <2>3
<1>16. QED
  BY <1>12, <1>13, <1>14, <1>15 DEF RunInv

\* A committed resume names the newest attempt, which has ended.
LEMMA ResumesKeep ==
    ASSUME RunInv, NEW c \in Commands, Resume!ResumeTx(c)
    PROVE  RunInv'
<1>1. RunTyped /\ Newly /\ Apart /\ thr \in [Commands -> Threads] /\ attempts \in Seq(AttemptRow)
      /\ intents \in Seq(IntentRow) /\ thr[c] \in Threads
  BY DEF RunInv, RunTyped
<1> DEFINE n == Len(attempts)
           k == Len(intents) + 1
           new == Resume!Intent
           t == Resume!Successor
<1>2. n \in Nat \ {0} /\ Len(intents) \in Nat
  BY <1>1, LastTyped
<1>3. /\ attempts' = attempts /\ host' = host /\ cb' = cb /\ up' = up /\ run' = Resume!RunAfter
      /\ intents' = Append(intents, new) /\ thr[c].pc = "idle" /\ up = TRUE
      /\ thr' = thr \/ thr' = [thr EXCEPT ![c] = t]
      /\ attempts[n].state \notin {"starting", "running", "cancelling"}
  BY <1>1 DEF Resume!ResumeTx, Resume!Resumable, Resume!LiveAtt, Resume!LiveStates, Resume!Last, RunTyped
<1>4. run' \in RunWords
  BY <1>3 DEF Resume!RunAfter, RunWords, RowStates, Outcomes
<1>5. new \in IntentRow /\ new.pred = n
  BY <1>2 DEF Resume!Intent, IntentRow, Resume!Last
<1>6. t \in Threads /\ t.pc = "read" /\ t.intent = k /\ t.att = 0
  <2>1. k \in Nat
    BY <1>2
  <2>2. t = [Resume!Idle EXCEPT !.pc = "read", !.intent = k, !.scope = Resume!Eligible]
    BY DEF Resume!Successor, Resume!Newest
  <2>3. Resume!Eligible \in SUBSET Todos
    BY DEF Resume!Eligible
  <2>4. Resume!Idle \in Threads /\ Resume!Idle.att = 0
    BY DEF Resume!Idle, Threads
  <2> HIDE DEF t, k
  <2>5. QED
    BY <2>1, <2>2, <2>3, <2>4 DEF Threads
<1> HIDE DEF new, t, k
<1>7. intents' \in Seq(IntentRow) /\ Len(intents') = k /\ intents'[k] = new
      /\ \A i \in 1 .. Len(intents) : intents'[i] = intents[i]
  BY <1>1, <1>2, <1>3, <1>5 DEF k
<1>8. /\ thr' \in [Commands -> Threads] /\ \A d \in Commands : d # c => thr'[d] = thr[d]
      /\ thr'[c] \in {thr[c], t}
  BY <1>1, <1>3, <1>6
<1>9. RunTyped'
  <2>1. ASSUME NEW i \in 1 .. Len(intents') PROVE intents'[i].pred \in 1 .. n
    <3>1. i = k \/ i \in 1 .. Len(intents)
      BY <1>2, <1>7 DEF k
    <3>2. n \in 1 .. n
      BY <1>2
    <3>3. QED
      BY <1>1, <1>5, <1>7, <3>1, <3>2 DEF RunTyped, Is
  <2>2. QED
    BY <1>1, <1>3, <1>4, <1>7, <1>8, <2>1 DEF RunTyped, Is
<1>10. Newly'
  BY <1>1, <1>3 DEF Newly, Live
<1>11. \A d \in Commands : thr[d].intent \in Nat /\ thr[d].intent <= Len(intents) /\ thr[d].intent # k
  <2>1. \A d \in Commands : thr[d].intent \in Nat /\ thr[d].intent <= Len(intents)
    BY <1>1 DEF RunInv, Carries, Threads
  <2>2. QED
    BY <1>2, <2>1 DEF k
<1>12. thr[c].att = 0 /\ thr[c].intent = 0
  BY <1>3 DEF RunInv, Carries
<1>13. Apart'
  BY <1>1, <1>6, <1>8, <1>11, <1>12 DEF Apart
<1>14. ASSUME NEW d \in Commands PROVE Carries(d)'
  <2>1. Carries(d) /\ thr[d] \in Threads
    BY <1>1 DEF RunInv
  <2>2. CASE thr'[d] = thr[d]
    <3>1. thr[d].pc \in {"read", "prepare"} => intents'[thr[d].intent] = intents[thr[d].intent]
      <4>1. thr[d].pc \in {"read", "prepare"} => thr[d].intent \in 1 .. Len(intents)
        BY InRange
      <4>2. QED
        BY <1>7, <4>1
    <3>2. thr[d].intent <= Len(intents')
      BY <1>2, <1>7, <1>11 DEF k
    <3>3. QED
      BY <1>3, <2>1, <2>2, <3>1, <3>2 DEF Carries, Live
  <2>3. CASE d = c /\ thr'[c] = t
    <3>1. thr'[d].pc = "read" /\ thr'[d].intent = k /\ thr'[d].att = 0
      BY <1>6, <2>3
    <3>2. k > 0 /\ k <= Len(intents') /\ 0 <= Len(attempts') /\ "read" \notin BeforeHost
      BY <1>2, <1>3, <1>7 DEF k, BeforeHost
    <3>3. intents'[k].pred = n /\ attempts'[n].state \notin {"starting", "running", "cancelling"}
      BY <1>3, <1>5, <1>7
    <3> HIDE DEF n
    <3>4. QED
      BY <3>1, <3>2, <3>3 DEF Carries, Live
  <2>4. QED
    BY <1>8, <2>2, <2>3
<1>15. QED
  BY <1>9, <1>10, <1>13, <1>14 DEF RunInv

LEMMA StillKeeps ==
    ASSUME RunInv, UNCHANGED Resume!vars
    PROVE  RunInv'
<1>1. /\ run' = run /\ attempts' = attempts /\ intents' = intents /\ host' = host /\ thr' = thr
      /\ cb' = cb /\ up' = up
  BY DEF Resume!vars
<1>2. RunTyped' /\ Newly' /\ Apart'
  BY <1>1 DEF RunInv, RunTyped, Newly, Apart, Is, Live
<1>3. \A c \in Commands : Carries(c)'
  BY <1>1 DEF RunInv, Carries, Live
<1>4. QED
  BY <1>2, <1>3 DEF RunInv

LEMMA ResumeKeeps ==
    ASSUME Resume!ResumeAssumption, RunInv, [Resume!Next]_(Resume!vars)
    PROVE  RunInv'
<1>1. CASE UNCHANGED Resume!vars
  BY <1>1, StillKeeps
<1>2. ASSUME NEW c \in Commands, Resume!ResumeTx(c) PROVE RunInv'
  BY <1>2, ResumesKeep
<1>3. ASSUME NEW c \in Commands, Resume!Step(c) PROVE RunInv'
  <2>1. CASE \/ Resume!ReadRun(c) \/ Resume!PrepareRefused(c) \/ Resume!MarkRun(c)
             \/ Resume!CleanupGate(c) \/ Resume!Launch(c) \/ Resume!Handoff(c) \/ Resume!ReadAttempt(c)
             \/ Resume!TellRun(c) \/ Resume!RecoverNow(c)
    BY <1>3, <2>1, QuietStepsKeep
  <2>2. CASE Resume!ReadIntent(c) \/ Resume!Dispatched(c) \/ Resume!FailIntent(c) \/ Resume!AfterFailure(c)
    BY <1>3, <2>2, IntentStepsKeep
  <2>3. CASE Resume!LaunchCancelled(c) \/ Resume!LaunchHuman(c) \/ Resume!LaunchFailed(c)
    BY <1>3, <2>3, FailedStartsKeep
  <2>4. CASE Resume!Prepare(c)
    BY <1>3, <2>4, PrepareKeeps
  <2>5. CASE Resume!MarkAttempt(c)
    BY <1>3, <2>5, MarksKeep
  <2>6. CASE Resume!Spawn(c)
    BY <1>3, <2>6, SpawnKeeps
  <2>7. QED
    BY <1>3, <2>1, <2>2, <2>3, <2>4, <2>5, <2>6 DEF Resume!Step
<1>4. CASE Resume!Takeover \/ Resume!CancelRun
  BY <1>4, ControlsKeep
<1>5. CASE \/ Resume!ReleaseTakeover \/ Resume!Deliver \/ Resume!Watchdog \/ Resume!HostEnds \/ Resume!Cleanup
           \/ Resume!Accept \/ Resume!GiveBack \/ Resume!Resumed \/ \E t \in Todos : Resume!HostTodo(t)
  BY <1>5, CallbacksKeep
<1>6. CASE Resume!Result \/ Resume!Crash \/ Resume!Startup
  BY <1>6, ResultKeeps, CrashKeeps, StartupKeeps
<1>7. QED
  BY <1>1, <1>2, <1>3, <1>4, <1>5, <1>6 DEF Resume!Next, Resume!Callback

\* However many resumes race, one attempt of the run is live, it is the newest,
\* only it holds the Host, and no desktop lease outlives its attempt.
LEMMA OnlyTheNewestLives ==
    ASSUME RunInv PROVE Resume!OneLive
<1>1. attempts \in Seq(AttemptRow) /\ DOMAIN attempts = 1 .. Len(attempts) /\ Newly
  <2>1. attempts \in Seq(AttemptRow) /\ Newly
    BY DEF RunInv, RunTyped
  <2>2. QED
    BY <2>1
<1>2. \A a \in 1 .. Len(attempts) : attempts[a].lease \in BOOLEAN
  <2>1. \A a \in 1 .. Len(attempts) : attempts[a] \in AttemptRow
    BY <1>1
  <2>2. QED
    BY <2>1 DEF AttemptRow
<1>3. QED
  BY <1>1, <1>2 DEF Resume!OneLive, Resume!LiveAtt, Resume!LiveStates, Resume!Last, Newly, Live

-----------------------------------------------------------------------------
(* Outside a batch: a start reaches the Host, and a reservation stays, for   *)
(* the newest intent only.                                                   *)

\* A thread about to start the Host carries the newest intent, which waits for
\* this attempt.
ReadyToSpawn(c) ==
    thr[c].pc = "spawn" => /\ thr[c].intent = Len(intents)
                           /\ intents[Len(intents)].state = "successor_pending"
                           /\ intents[Len(intents)].succ = thr[c].att

\* The newest intent replaces the newest attempt, and what it was to execute is
\* still there to be executed.
Reserved(c) ==
    (thr[c].pc \in {"read", "prepare"} /\ thr[c].intent = Len(intents)
       /\ intents[Len(intents)].state = "successor_pending")
      => /\ intents[Len(intents)].pred = Len(attempts)
         /\ \E t \in Todos : todo[t] = "pending"
         /\ \A t \in Todos : todo[t] \in {"pending", "completed"}

SoloInv == cb.pc # "resumed" /\ controls \in Nat /\ \A c \in Commands : ReadyToSpawn(c) /\ Reserved(c)

LEMMA SoloStarts ==
    ASSUME Resume!Init PROVE SoloInv
<1>1. cb.pc = "none" /\ controls = 0 /\ \A c \in Commands : thr[c].pc = "idle"
  BY DEF Resume!Init, Resume!NoCall, Resume!Idle
<1>2. QED
  BY <1>1 DEF SoloInv, ReadyToSpawn, Reserved

\* The steps that write an intent.
IntentWriter(d) == Resume!ResumeTx(d) \/ Resume!Prepare(d) \/ Resume!Dispatched(d) \/ Resume!FailIntent(d)

LEMMA WritersOfIntents ==
    ASSUME ~Resume!InBatch, SoloInv, [Resume!Next]_(Resume!vars)
    PROVE  \/ intents' = intents \/ \E d \in Commands : IntentWriter(d)
           \/ Resume!CancelPending \/ Resume!Startup
<1>1. CASE UNCHANGED Resume!vars
  BY <1>1 DEF Resume!vars
<1>2. ASSUME NEW d \in Commands, Resume!Step(d) PROVE intents' = intents \/ IntentWriter(d)
  BY <1>2 DEF Resume!Step, IntentWriter, Resume!ReadRun, Resume!PrepareRefused, Resume!MarkAttempt, Resume!MarkRun,
     Resume!CleanupGate, Resume!Launch, Resume!Handoff, Resume!Spawn, Resume!ReadAttempt, Resume!TellRun,
     Resume!ReadIntent, Resume!LaunchCancelled, Resume!LaunchHuman, Resume!LaunchFailed, Resume!RecoverNow,
     Resume!AfterFailure
<1>3. CASE Resume!Callback \/ Resume!HostEnds \/ \E t \in Todos : Resume!HostTodo(t)
  BY <1>3 DEF Resume!Callback, Resume!Cleanup, Resume!Result, Resume!Accept, Resume!GiveBack, Resume!Resumed,
     Resume!HostEnds, Resume!HostTodo, Resume!KeepHost, SoloInv
<1>4. CASE Resume!Takeover \/ Resume!ReleaseTakeover \/ Resume!CancelRun \/ Resume!Deliver \/ Resume!Watchdog
           \/ Resume!Crash \/ Resume!Startup
  BY <1>4 DEF Resume!Takeover, Resume!ReleaseTakeover, Resume!CancelRun, Resume!CancelLive, Resume!Deliver,
     Resume!Watchdog, Resume!Crash
<1>5. QED
  BY <1>1, <1>2, <1>3, <1>4 DEF Resume!Next, IntentWriter

LEMMA LiveIsNewest ==
    ASSUME RunInv, NEW d \in Commands, thr[d].pc \in BeforeHost
    PROVE  /\ thr[d].att = Len(attempts) /\ Resume!LiveAtt(Len(attempts))
           /\ thr[d].att \in 1 .. Len(attempts) /\ thr[d].pc # "idle"
<1>1. thr[d].att > 0 /\ thr[d].pc # "idle" /\ Live(thr[d].att)
  BY DEF RunInv, Carries, BeforeHost
<1>2. thr[d].att \in 1 .. Len(attempts)
  BY <1>1, InRange DEF Is
<1>3. thr[d].att = Len(attempts)
  BY <1>1, <1>2 DEF RunInv, Newly
<1>4. QED
  BY <1>1, <1>2, <1>3 DEF Live, Resume!LiveAtt, Resume!LiveStates

\* Nothing touches the intent of a thread that is about to start the Host.
LEMMA SpawnUndisturbed ==
    ASSUME RunInv, ~Resume!InBatch, SoloInv, [Resume!Next]_(Resume!vars), NEW c \in Commands, thr[c].pc = "spawn"
    PROVE  Len(intents') = Len(intents) /\ intents'[thr[c].intent] = intents[thr[c].intent]
<1>1. RunTyped /\ Apart /\ intents \in Seq(IntentRow) /\ up # FALSE
  BY DEF RunInv, RunTyped
<1>2. Resume!LiveAtt(Len(attempts)) /\ thr[c].intent \in 1 .. Len(intents)
  BY LiveIsNewest, InRange DEF BeforeHost
<1>3. CASE intents' = intents
  BY <1>3
<1>4. CASE Resume!CancelPending
  BY <1>2, <1>4 DEF Resume!CancelPending, Resume!Last
<1>5. CASE Resume!Startup
  BY <1>1, <1>5 DEF Resume!Startup, RunTyped
<1>6. ASSUME NEW d \in Commands, IntentWriter(d), intents' # intents
      PROVE  Len(intents') = Len(intents) /\ intents'[thr[c].intent] = intents[thr[c].intent]
  <2>1. CASE Resume!ResumeTx(d)
    BY <1>2, <2>1 DEF Resume!ResumeTx, Resume!Resumable, Resume!Last
  <2>2. CASE Resume!Prepare(d)
    <3>1. thr[d].pc = "prepare" /\ Resume!OwnsNewest(d) /\ Len(attempts) = intents[thr[d].intent].pred
      BY <2>2 DEF Resume!Prepare, Resume!MayPrepare, Resume!Last, Resume!MyIntent
    <3>2. thr[c].pc \notin BeforeHost
      BY <1>6, <3>1, NoneLive
    <3>3. QED
      BY <3>2 DEF BeforeHost
  <2>3. CASE Resume!FailIntent(d)
    BY <2>3 DEF Resume!FailIntent, Resume!LockFree
  <2>4. CASE Resume!Dispatched(d)
    <3>1. thr[d].pc = "dispatched" /\ d # c
      BY <2>4 DEF Resume!Dispatched
    <3>2. thr[d].intent \in 1 .. Len(intents) /\ thr[d].intent # 0
      BY <1>1, <1>6, <3>1, InRange
    <3>3. thr[d].intent # thr[c].intent
      BY <1>1, <1>2, <1>6, <3>1, <3>2 DEF Apart
    <3>4. DOMAIN intents' = DOMAIN intents /\ intents'[thr[c].intent] = intents[thr[c].intent]
      BY <1>1, <1>2, <2>4, <3>3 DEF Resume!Dispatched, Resume!MyIntent
    <3>5. intents' \in Seq(IntentRow)
      <4>1. RunInv'
        BY <1>6, <2>4, IntentStepsKeep
      <4>2. QED
        BY <4>1 DEF RunInv, RunTyped
    <3>6. QED
      BY <1>1, <3>4, <3>5
  <2>5. QED
    BY <1>6, <2>1, <2>2, <2>3, <2>4 DEF IntentWriter
<1>7. QED
  BY <1>3, <1>4, <1>5, <1>6, WritersOfIntents

\* No step makes an intent pending, except the resume that appends it.
LEMMA NothingPends ==
    ASSUME RunInv, ~Resume!InBatch, SoloInv, [Resume!Next]_(Resume!vars), NEW i \in 1 .. Len(intents),
           intents'[i].state = "successor_pending"
    PROVE  intents[i].state = "successor_pending"
<1>1. intents \in Seq(IntentRow) /\ DOMAIN intents = 1 .. Len(intents) /\ intents[i] \in IntentRow
  <2>1. intents \in Seq(IntentRow)
    BY DEF RunInv, RunTyped
  <2>2. QED
    BY <2>1
<1>2. CASE intents' = intents
  BY <1>2
<1>3. CASE Resume!CancelPending
  BY <1>1, <1>3 DEF Resume!CancelPending, IntentRow
<1>4. CASE Resume!Startup
  BY <1>1, <1>4 DEF Resume!Startup, IntentRow
<1>5. ASSUME NEW d \in Commands, IntentWriter(d) PROVE intents[i].state = "successor_pending"
  <2>1. CASE Resume!ResumeTx(d)
    <3>1. intents' = Append(intents, Resume!Intent)
      BY <2>1 DEF Resume!ResumeTx
    <3>2. intents'[i] = intents[i]
      BY <1>1, <3>1
    <3>3. QED
      BY <3>2
  <2>2. CASE Resume!Prepare(d)
    BY <1>1, <2>2 DEF Resume!Prepare, IntentRow
  <2>3. CASE Resume!FailIntent(d)
    <3>1. intents' = intents \/ intents' = [intents EXCEPT ![thr[d].intent].state = "successor_failed"]
      BY <2>3 DEF Resume!FailIntent, Resume!MyIntent
    <3>2. QED
      BY <1>1, <3>1 DEF IntentRow
  <2>4. CASE Resume!Dispatched(d)
    <3>1. intents' = [intents EXCEPT ![thr[d].intent].state = "successor_dispatched",
                                     ![thr[d].intent].succ = thr[d].att]
      BY <2>4 DEF Resume!Dispatched, Resume!MyIntent, Resume!MyAtt
    <3>2. CASE i = thr[d].intent
      <4>1. intents'[i] = [intents[i] EXCEPT !.state = "successor_dispatched", !.succ = thr[d].att]
        BY <1>1, <3>1, <3>2
      <4>2. QED
        BY <1>1, <4>1 DEF IntentRow
    <3>3. CASE i # thr[d].intent
      BY <1>1, <3>1, <3>3
    <3>4. QED
      BY <3>2, <3>3
  <2>5. QED
    BY <1>5, <2>1, <2>2, <2>3, <2>4 DEF IntentWriter
<1>6. QED
  BY <1>2, <1>3, <1>4, <1>5, WritersOfIntents

\* Only a preparation appends an attempt.
LEMMA AttemptsKeepTheirNumber ==
    ASSUME Resume!ResumeAssumption, RunInv, [Resume!Next]_(Resume!vars), \A d \in Commands : ~Resume!Prepare(d)
    PROVE  Len(attempts') = Len(attempts)
<1>1. DOMAIN attempts' = DOMAIN attempts
  <2>1. CASE UNCHANGED Resume!vars
    BY <2>1 DEF Resume!vars
  <2>2. ASSUME NEW d \in Commands, Resume!Step(d) PROVE DOMAIN attempts' = DOMAIN attempts
    BY <2>2 DEF Resume!Step, Resume!ReadRun, Resume!PrepareRefused, Resume!MarkAttempt, Resume!MarkRun,
       Resume!CleanupGate, Resume!Launch, Resume!Handoff, Resume!Spawn, Resume!ReadAttempt, Resume!TellRun,
       Resume!ReadIntent, Resume!LaunchCancelled, Resume!LaunchHuman, Resume!LaunchFailed, Resume!RecoverNow,
       Resume!AfterFailure, Resume!Dispatched, Resume!FailIntent, Resume!Ended, Resume!EndLease
  <2>3. CASE Resume!Callback \/ Resume!HostEnds \/ \E t \in Todos : Resume!HostTodo(t)
    BY <2>3 DEF Resume!Callback, Resume!Cleanup, Resume!Result, Resume!Accept, Resume!GiveBack, Resume!Resumed,
       Resume!HostEnds, Resume!HostTodo, Resume!KeepHost, Resume!Ended, Resume!EndLease
  <2>4. CASE Resume!Takeover \/ Resume!ReleaseTakeover \/ Resume!CancelRun \/ Resume!Deliver \/ Resume!Watchdog
             \/ Resume!Crash \/ Resume!Startup
    BY <2>4 DEF Resume!Takeover, Resume!ReleaseTakeover, Resume!CancelRun, Resume!CancelLive, Resume!CancelPending,
       Resume!Deliver, Resume!Watchdog, Resume!Crash, Resume!Startup, Resume!EndLease
  <2>5. CASE \E d \in Commands : Resume!ResumeTx(d)
    BY <2>5 DEF Resume!ResumeTx
  <2>6. QED
    BY <2>1, <2>2, <2>3, <2>4, <2>5 DEF Resume!Next
<1>2. attempts \in Seq(AttemptRow) /\ attempts' \in Seq(AttemptRow)
  <2>1. RunInv'
    BY ResumeKeeps
  <2>2. QED
    BY <2>1 DEF RunInv, RunTyped
<1>3. QED
  BY <1>1, <1>2

\* While the newest attempt has ended, the Todos move only under a person.
LEMMA TodosRest ==
    ASSUME RunInv, [Resume!Next]_(Resume!vars), ~Live(Len(attempts)), up # FALSE,
           \A t \in Todos : todo[t] \in {"pending", "completed"}, \E t \in Todos : todo[t] = "pending"
    PROVE  (\A t \in Todos : todo'[t] \in {"pending", "completed"}) /\ \E t \in Todos : todo'[t] = "pending"
<1>1. RunTyped /\ Newly
  BY DEF RunInv
<1>2. CASE todo' = todo
  BY <1>2
<1>3. CASE Resume!ReleaseTakeover
  <2>1. \A t \in Todos : todo'[t] = todo[t]
    BY <1>3 DEF Resume!ReleaseTakeover
  <2>2. QED
    BY <2>1
<1>4. ASSUME NEW t \in Todos, Resume!HostTodo(t) PROVE FALSE
  <2>1. host # 0 /\ Live(host)
    BY <1>4 DEF Resume!HostTodo, Resume!LiveAtt, Resume!LiveStates, Live
  <2>2. host = Len(attempts)
    BY <1>1, <2>1 DEF RunTyped, Newly, Is
  <2>3. QED
    BY <2>1, <2>2
<1>5. CASE Resume!Result
  <2>1. cb.att \in 1 .. Len(attempts)
    BY <1>1, <1>5 DEF Resume!Result, RunTyped, Is
  <2>2. ~Resume!LiveAtt(cb.att)
    BY <1>1, <2>1 DEF Newly, Live, Resume!LiveAtt, Resume!LiveStates
  <2>3. todo' = todo
    BY <1>5, <2>2 DEF Resume!Result
  <2>4. QED
    BY <2>3
<1>6. \/ todo' = todo \/ Resume!ReleaseTakeover \/ Resume!Result \/ \E t \in Todos : Resume!HostTodo(t)
  <2>1. CASE UNCHANGED Resume!vars
    BY <2>1 DEF Resume!vars
  <2>2. ASSUME NEW d \in Commands, Resume!Step(d) PROVE todo' = todo
    BY <2>2 DEF Resume!Step, Resume!ReadRun, Resume!PrepareRefused, Resume!MarkAttempt, Resume!MarkRun,
       Resume!CleanupGate, Resume!Launch, Resume!Handoff, Resume!Spawn, Resume!ReadAttempt, Resume!TellRun,
       Resume!ReadIntent, Resume!LaunchCancelled, Resume!LaunchHuman, Resume!LaunchFailed, Resume!RecoverNow,
       Resume!AfterFailure, Resume!Dispatched, Resume!FailIntent, Resume!Prepare, Resume!KeepRest
  <2>3. CASE Resume!Callback \/ Resume!HostEnds
    BY <2>3 DEF Resume!Callback, Resume!Cleanup, Resume!Accept, Resume!GiveBack, Resume!Resumed,
       Resume!HostEnds, Resume!KeepHost
  <2>4. CASE Resume!Takeover \/ Resume!CancelRun \/ Resume!Deliver \/ Resume!Watchdog
             \/ Resume!Crash
    BY <2>4 DEF Resume!Takeover, Resume!CancelRun, Resume!Deliver, Resume!Watchdog, Resume!Crash
  <2>5. CASE \E d \in Commands : Resume!ResumeTx(d)
    BY <2>5 DEF Resume!ResumeTx
  <2>6. ~Resume!Startup
    BY <1>1 DEF Resume!Startup, RunTyped
  <2>7. QED
    BY <2>1, <2>2, <2>3, <2>4, <2>5, <2>6 DEF Resume!Next
<1>7. QED
  BY <1>2, <1>3, <1>4, <1>5, <1>6

LEMMA StepLeavesOthers ==
    ASSUME RunInv, NEW c \in Commands, NEW d \in Commands, Resume!Step(d), c # d
    PROVE  thr'[c] = thr[c]
<1>1. thr \in [Commands -> Threads]
  BY DEF RunInv, RunTyped
<1>2. CASE thr' = thr
  BY <1>2
<1>3. CASE \/ Resume!ReadRun(d) \/ Resume!PrepareRefused(d) \/ Resume!Prepare(d) \/ Resume!MarkRun(d)
           \/ Resume!MarkAttempt(d) \/ Resume!Spawn(d) \/ Resume!ReadAttempt(d) \/ Resume!TellRun(d)
  BY <1>1, <1>3 DEF Resume!ReadRun, Resume!PrepareRefused, Resume!Prepare, Resume!MarkRun, Resume!MarkAttempt,
     Resume!Spawn, Resume!ReadAttempt, Resume!TellRun, Resume!Goto
<1>4. CASE \/ Resume!CleanupGate(d) \/ Resume!Launch(d) \/ Resume!Handoff(d)
           \/ Resume!LaunchCancelled(d) \/ Resume!LaunchHuman(d) \/ Resume!LaunchFailed(d) \/ Resume!RecoverNow(d)
           \/ Resume!FailIntent(d)
  BY <1>1, <1>4 DEF Resume!CleanupGate, Resume!Launch, Resume!Handoff, Resume!LaunchCancelled, Resume!LaunchHuman,
     Resume!LaunchFailed, Resume!RecoverNow, Resume!FailIntent, Resume!Goto
<1>5. CASE Resume!ReadIntent(d) \/ Resume!Dispatched(d) \/ Resume!AfterFailure(d)
  BY <1>1, <1>5 DEF Resume!ReadIntent, Resume!Dispatched, Resume!AfterFailure
<1>6. QED
  BY <1>3, <1>4, <1>5 DEF Resume!Step

LEMMA GoesTo ==
    ASSUME RunInv, NEW c \in Commands, NEW P, NEW p \in P, thr' = [thr EXCEPT ![c].pc = p]
    PROVE  thr'[c].pc \in P /\ thr'[c].intent = thr[c].intent /\ thr'[c].att = thr[c].att
<1>1. thr \in [Commands -> Threads] /\ thr[c] \in Threads
  BY DEF RunInv, RunTyped
<1>2. QED
  BY <1>1 DEF Threads

\* Where the steps of a thread bring it.
LEMMA StepPc ==
    ASSUME RunInv, Resume!ResumeAssumption, NEW c \in Commands
    PROVE  /\ Resume!PrepareRefused(c) => thr'[c].pc \in {"fail"}
           /\ Resume!Prepare(c) => thr'[c].pc \in {"mark"}
           /\ Resume!MarkAttempt(c) => thr'[c].pc \in {"write", "rewrite", "fail", "failed"}
           /\ Resume!MarkRun(c) => thr'[c].pc \in {"again", "gate"}
           /\ Resume!CleanupGate(c) => thr'[c].pc \in {"cancelled", "human", "launch"}
           /\ Resume!Launch(c) => thr'[c].pc \in {"cancelled", "handoff", "human", "failed"}
           /\ Resume!Handoff(c) => thr'[c].pc \in {"cancelled", "failed", "spawn"}
           /\ Resume!Spawn(c) => thr'[c].pc \in {"tail"}
           /\ Resume!TellRun(c) => thr'[c].pc \in {"settle"}
<1>1. thr \in [Commands -> Threads] /\ thr[c] \in Threads
  BY DEF RunInv, RunTyped
<1>2. ASSUME Resume!PrepareRefused(c) PROVE thr'[c].pc \in {"fail"}
  <2>1. PICK p \in {"fail"} : thr' = [thr EXCEPT ![c].pc = p]
    BY <1>2 DEF Resume!PrepareRefused, Resume!Goto
  <2>2. QED
    BY <2>1, GoesTo
<1>3. ASSUME Resume!Prepare(c) PROVE thr'[c].pc \in {"mark"}
  <2>1. thr' = [thr EXCEPT ![c].pc = "mark", ![c].att = Resume!Last + 1]
    BY <1>3 DEF Resume!Prepare
  <2> DEFINE k == Resume!Last + 1
  <2> HIDE DEF k
  <2>2. thr' = [thr EXCEPT ![c].pc = "mark", ![c].att = k]
    BY <2>1 DEF k
  <2>3. QED
    BY <1>1, <2>2 DEF Threads
<1>4. ASSUME Resume!MarkAttempt(c) PROVE thr'[c].pc \in {"write", "rewrite", "fail", "failed"}
  <2>1. PICK p \in {"write", "rewrite", "fail", "failed"} : thr' = [thr EXCEPT ![c].pc = p]
    BY <1>4 DEF Resume!MarkAttempt, Resume!Goto
  <2>2. QED
    BY <2>1, GoesTo
<1>5. ASSUME Resume!MarkRun(c) PROVE thr'[c].pc \in {"again", "gate"}
  <2>1. PICK p \in {"again", "gate"} : thr' = [thr EXCEPT ![c].pc = p]
    BY <1>5 DEF Resume!MarkRun, Resume!Goto
  <2>2. QED
    BY <2>1, GoesTo
<1>6. ASSUME Resume!CleanupGate(c) PROVE thr'[c].pc \in {"cancelled", "human", "launch"}
  <2>1. PICK p \in {"cancelled", "human", "launch"} : thr' = [thr EXCEPT ![c].pc = p]
    BY <1>6 DEF Resume!CleanupGate, Resume!QueueClosed, Resume!Goto
  <2>2. QED
    BY <2>1, GoesTo
<1>7. ASSUME Resume!Launch(c) PROVE thr'[c].pc \in {"cancelled", "handoff", "human", "failed"}
  <2>1. Startable \subseteq {"launched", "refused", "human", "failed"}
    BY DEF Resume!ResumeAssumption, Resume!LaunchEnds
  <2>2. PICK p \in {"cancelled", "handoff", "human", "failed"} : thr' = [thr EXCEPT ![c].pc = p]
    BY <1>7, <2>1 DEF Resume!Launch, Resume!Goto
  <2>3. QED
    BY <2>2, GoesTo
<1>8. ASSUME Resume!Handoff(c) PROVE thr'[c].pc \in {"cancelled", "failed", "spawn"}
  <2>1. PICK p \in {"cancelled", "failed", "spawn"} : thr' = [thr EXCEPT ![c].pc = p]
    BY <1>8 DEF Resume!Handoff, Resume!Goto
  <2>2. QED
    BY <2>1, GoesTo
<1>9. ASSUME Resume!Spawn(c) PROVE thr'[c].pc \in {"tail"}
  <2>1. PICK p \in {"tail"} : thr' = [thr EXCEPT ![c].pc = p]
    BY <1>9 DEF Resume!Spawn, Resume!Goto
  <2>2. QED
    BY <2>1, GoesTo
<1>10. ASSUME Resume!TellRun(c) PROVE thr'[c].pc \in {"settle"}
  <2>1. PICK p \in {"settle"} : thr' = [thr EXCEPT ![c].pc = p]
    BY <1>10 DEF Resume!TellRun, Resume!Goto
  <2>2. QED
    BY <2>1, GoesTo
<1>11. QED
  BY <1>2, <1>3, <1>4, <1>5, <1>6, <1>7, <1>8, <1>9, <1>10

LEMMA IdleThread == Resume!Idle.pc = "idle" /\ Resume!Successor.pc = "read"
BY DEF Resume!Idle, Resume!Successor

\* How a thread gets where a reservation or a Host start is before it.
LEMMA Arrivals ==
    ASSUME RunInv, Resume!ResumeAssumption, [Resume!Next]_(Resume!vars), NEW c \in Commands,
           thr'[c].pc \in {"read", "prepare", "spawn"}
    PROVE  thr'[c] = thr[c] \/ Resume!ReadRun(c) \/ Resume!ResumeTx(c) \/ Resume!Handoff(c)
<1>1. thr \in [Commands -> Threads] /\ thr[c] \in Threads
  BY DEF RunInv, RunTyped
<1>2. CASE UNCHANGED Resume!vars
  BY <1>2 DEF Resume!vars
<1>3. ASSUME Resume!Step(c) PROVE thr'[c] = thr[c] \/ Resume!ReadRun(c) \/ Resume!ResumeTx(c) \/ Resume!Handoff(c)
  <2>1. CASE \/ Resume!PrepareRefused(c) \/ Resume!Prepare(c) \/ Resume!MarkRun(c)
             \/ Resume!MarkAttempt(c) \/ Resume!Spawn(c) \/ Resume!TellRun(c)
    BY <2>1, StepPc
  <2>2. CASE Resume!ReadAttempt(c)
    BY <1>1, <2>2 DEF Resume!ReadAttempt, Threads
  <2>3. CASE \/ Resume!LaunchCancelled(c) \/ Resume!LaunchHuman(c) \/ Resume!LaunchFailed(c) \/ Resume!RecoverNow(c)
             \/ Resume!FailIntent(c)
    BY <1>1, <2>3 DEF Resume!LaunchCancelled, Resume!LaunchHuman,
       Resume!LaunchFailed, Resume!RecoverNow, Resume!FailIntent, Resume!Goto, Threads
  <2>4. CASE Resume!CleanupGate(c) \/ Resume!Launch(c)
    BY <2>4, StepPc
  <2>5. CASE Resume!ReadIntent(c) \/ Resume!Dispatched(c) \/ Resume!AfterFailure(c)
    <3>1. Resume!Idle.pc = "idle"
      BY DEF Resume!Idle
    <3>2. QED
      BY <1>1, <2>5, <3>1 DEF Resume!ReadIntent, Resume!Dispatched, Resume!AfterFailure, Threads
  <2>6. QED
    BY <1>3, <2>1, <2>2, <2>3, <2>4, <2>5 DEF Resume!Step
<1>4. ASSUME NEW d \in Commands, d # c, Resume!Step(d) \/ Resume!ResumeTx(d) PROVE thr'[c] = thr[c]
  <2>1. CASE Resume!Step(d)
    BY <1>4, <2>1, StepLeavesOthers
  <2>2. CASE Resume!ResumeTx(d)
    BY <1>1, <1>4, <2>2 DEF Resume!ResumeTx
  <2>3. QED
    BY <1>4, <2>1, <2>2
<1>5. CASE Resume!Callback \/ Resume!HostEnds \/ \E t \in Todos : Resume!HostTodo(t)
  BY <1>5 DEF Resume!Callback, Resume!Cleanup, Resume!Result, Resume!Accept, Resume!GiveBack, Resume!Resumed,
     Resume!HostEnds, Resume!HostTodo, Resume!KeepHost
<1>6. CASE Resume!Takeover \/ Resume!ReleaseTakeover \/ Resume!CancelRun \/ Resume!Deliver \/ Resume!Watchdog
           \/ Resume!Startup
  BY <1>6 DEF Resume!Takeover, Resume!ReleaseTakeover, Resume!CancelRun, Resume!Deliver, Resume!Watchdog, Resume!Startup
<1>7. ~Resume!Crash
  <2>1. Resume!Crash => thr'[c] = Resume!Idle
    BY DEF Resume!Crash
  <2>2. QED
    BY <2>1, IdleThread
<1>8. QED
  BY <1>2, <1>3, <1>4, <1>5, <1>6, <1>7 DEF Resume!Next

\* What is committed is what is there to be executed.
LEMMA ExecutesTodos ==
    ASSUME Resume!Executes
    PROVE  (\E t \in Todos : todo[t] = "pending") /\ \A t \in Todos : todo[t] \in {"pending", "completed"}
BY DEF Resume!Executes, Resume!Eligible, Resume!Deferred

LEMMA TodosExecute ==
    ASSUME ~Resume!InBatch, \E t \in Todos : todo[t] = "pending", \A t \in Todos : todo[t] \in {"pending", "completed"}
    PROVE  Resume!Executes
BY DEF Resume!Executes, Resume!Eligible, Resume!Deferred

LEMMA ReservedKeeps ==
    ASSUME Resume!ResumeAssumption, RunInv, ~Resume!InBatch, SoloInv, [Resume!Next]_(Resume!vars), NEW c \in Commands
    PROVE  Reserved(c)'
<1> DEFINE n == Len(intents)
<1>1. SUFFICES ASSUME thr'[c].pc \in {"read", "prepare"}, thr'[c].intent = Len(intents'),
                      intents'[Len(intents')].state = "successor_pending"
               PROVE  /\ intents'[Len(intents')].pred = Len(attempts')
                      /\ \E t \in Todos : todo'[t] = "pending"
                      /\ \A t \in Todos : todo'[t] \in {"pending", "completed"}
  BY DEF Reserved
<1>2. RunTyped /\ RunTyped' /\ intents \in Seq(IntentRow) /\ n \in Nat /\ Len(attempts) \in Nat
      /\ thr[c] \in Threads /\ up \in BOOLEAN
  <2>1. RunInv'
    BY ResumeKeeps
  <2>2. RunTyped /\ RunTyped' /\ intents \in Seq(IntentRow)
    BY <2>1 DEF RunInv, RunTyped
  <2>3. QED
    BY <2>2, LastTyped DEF RunTyped
<1>3. CASE Resume!ResumeTx(c)
  <2>1. /\ thr[c].pc = "idle" /\ intents' = Append(intents, Resume!Intent) /\ attempts' = attempts /\ todo' = todo
        /\ thr' = IF Resume!Executes THEN [thr EXCEPT ![c] = Resume!Successor] ELSE thr
    BY <1>3 DEF Resume!ResumeTx
  <2>2. Resume!Executes
    BY <1>1, <2>1
  <2>3. Resume!Intent.pred = Len(attempts)
    BY DEF Resume!Intent, Resume!Last
  <2>4. intents'[Len(intents')] = Resume!Intent
    BY <1>2, <2>1
  <2>5. QED
    BY <2>1, <2>2, <2>3, <2>4, ExecutesTodos
<1>4. CASE ~Resume!ResumeTx(c)
  <2>1. thr'[c] = thr[c] \/ Resume!ReadRun(c)
    <3>1. ~Resume!Handoff(c)
      <4>1. Resume!Handoff(c) => thr'[c].pc \in {"cancelled", "failed", "spawn"}
        BY StepPc
      <4>2. QED
        BY <1>1, <4>1
    <3>2. QED
      BY <1>1, <1>4, <3>1, Arrivals
  <2>2. thr[c].pc \in {"read", "prepare"} /\ thr[c].intent = thr'[c].intent
    <3>1. CASE thr'[c] = thr[c]
      BY <1>1, <3>1
    <3>2. CASE Resume!ReadRun(c)
      <4>1. thr[c].pc = "read" /\ thr' = [thr EXCEPT ![c].pc = "prepare", ![c].seen = run]
        BY <3>2 DEF Resume!ReadRun
      <4>2. QED
        BY <1>2, <4>1 DEF RunTyped, Threads
    <3>3. QED
      BY <2>1, <3>1, <3>2
  <2>3. thr[c].intent \in 1 .. n
    BY <2>2, InRange
  <2>4. \A d \in Commands : ~Resume!ResumeTx(d)
    <3>1. ASSUME NEW d \in Commands, Resume!ResumeTx(d) PROVE FALSE
      <4>1. intents' = Append(intents, Resume!Intent)
        BY <3>1 DEF Resume!ResumeTx
      <4>2. Len(intents') = n + 1
        BY <1>2, <4>1
      <4>3. QED
        BY <1>1, <1>2, <2>2, <2>3, <4>2
    <3>2. QED
      BY <3>1
  <2>5. DOMAIN intents' = DOMAIN intents
    <3>1. CASE intents' = intents
      BY <3>1
    <3>2. CASE Resume!CancelPending \/ Resume!Startup
      BY <3>2 DEF Resume!CancelPending, Resume!Startup
    <3>3. ASSUME NEW d \in Commands, IntentWriter(d) PROVE DOMAIN intents' = DOMAIN intents
      BY <2>4, <3>3 DEF IntentWriter, Resume!Prepare, Resume!Dispatched, Resume!FailIntent
    <3>4. QED
      BY <3>1, <3>2, <3>3, WritersOfIntents
  <2>6. Len(intents') = n
    <3>1. intents' \in Seq(IntentRow)
      BY <1>2 DEF RunTyped
    <3>2. QED
      BY <1>2, <2>5, <3>1
  <2>7. thr[c].intent = n /\ n \in 1 .. Len(intents) /\ intents[n].state = "successor_pending"
    <3>1. thr[c].intent = n
      BY <1>1, <2>2, <2>6
    <3>2. QED
      BY <1>1, <2>3, <2>6, <3>1, NothingPends
  <2>8. /\ intents[n].pred = Len(attempts)
        /\ \E t \in Todos : todo[t] = "pending"
        /\ \A t \in Todos : todo[t] \in {"pending", "completed"}
    BY <2>2, <2>7 DEF SoloInv, Reserved
  <2>9. ~Live(Len(attempts)) /\ up # FALSE
    BY <1>2, <2>2, <2>7, <2>8 DEF RunInv, Carries, RunTyped
  <2>10. \A d \in Commands : ~Resume!Prepare(d)
    <3>1. ASSUME NEW d \in Commands, Resume!Prepare(d) PROVE FALSE
      <4>1. thr[d].pc = "prepare" /\ thr[d].intent = n
        BY <3>1 DEF Resume!Prepare, Resume!MayPrepare, Resume!OwnsNewest, Resume!MyIntent, Resume!Newest
      <4>2. d = c
        BY <2>3, <2>7, <4>1 DEF RunInv, Apart
      <4>3. thr'[c].pc = "mark"
        BY <1>2, <3>1, <4>2 DEF Resume!Prepare, RunTyped, Threads
      <4>4. QED
        BY <1>1, <4>3
    <3>2. QED
      BY <3>1
  <2>11. Len(attempts') = Len(attempts)
    BY <2>10, AttemptsKeepTheirNumber
  <2>12. intents'[n].pred = intents[n].pred
    <3>1. CASE intents' = intents
      BY <3>1
    <3>2. CASE Resume!CancelPending
      BY <1>2, <2>7, <3>2 DEF Resume!CancelPending, IntentRow
    <3>3. ~Resume!Startup
      BY <1>2, <2>9 DEF Resume!Startup
    <3>4. ASSUME NEW d \in Commands, IntentWriter(d) PROVE intents'[n].pred = intents[n].pred
      <4>1. IntentsStay
        <5>1. CASE Resume!Dispatched(d)
          BY <3>4, <5>1, DispatchedStays
        <5>2. CASE Resume!FailIntent(d)
          <6>1. intents' = intents \/ intents' = [intents EXCEPT ![thr[d].intent].state = "successor_failed"]
            BY <5>2 DEF Resume!FailIntent, Resume!MyIntent
          <6>2. QED
            BY <1>2, <6>1, NothingUpdated, IntentsSettled
        <5>3. QED
          BY <2>4, <2>10, <3>4, <5>1, <5>2 DEF IntentWriter
      <4>2. QED
        BY <2>7, <4>1 DEF IntentsStay
    <3>5. QED
      BY <3>1, <3>2, <3>3, <3>4, WritersOfIntents
  <2>13. (\A t \in Todos : todo'[t] \in {"pending", "completed"}) /\ \E t \in Todos : todo'[t] = "pending"
    BY <2>8, <2>9, TodosRest
  <2>14. QED
    BY <2>6, <2>8, <2>11, <2>12, <2>13
<1>5. QED
  BY <1>3, <1>4

LEMMA ReadyKeeps ==
    ASSUME Resume!ResumeAssumption, RunInv, ~Resume!InBatch, SoloInv, [Resume!Next]_(Resume!vars), NEW c \in Commands
    PROVE  ReadyToSpawn(c)'
<1>1. SUFFICES ASSUME thr'[c].pc = "spawn"
               PROVE  /\ thr'[c].intent = Len(intents') /\ intents'[Len(intents')].state = "successor_pending"
                      /\ intents'[Len(intents')].succ = thr'[c].att
  BY DEF ReadyToSpawn
<1>2. thr \in [Commands -> Threads] /\ thr[c] \in Threads
  BY DEF RunInv, RunTyped
<1>3. ~Resume!ReadRun(c) /\ ~Resume!ResumeTx(c)
  <2>1. Resume!ReadRun(c) => thr'[c].pc = "prepare"
    BY <1>2 DEF Resume!ReadRun, Threads
  <2>2. Resume!ResumeTx(c) => thr'[c].pc \in {"idle", "read"}
    BY <1>2, IdleThread DEF Resume!ResumeTx
  <2>3. QED
    BY <1>1, <2>1, <2>2
<1>4. CASE Resume!Handoff(c)
  <2>1. thr' = [thr EXCEPT ![c].pc = "spawn"] /\ intents' = intents
    BY <1>1, <1>2, <1>4 DEF Resume!Handoff, Resume!Goto, Threads
  <2>2. Resume!OwnsNewest(c) /\ intents[thr[c].intent].succ = thr[c].att
    BY <1>1, <1>2, <1>4 DEF Resume!Handoff, Resume!Goto, Resume!MyIntent, Resume!MyAtt, Threads
  <2>3. thr'[c].intent = thr[c].intent /\ thr'[c].att = thr[c].att
    BY <1>2, <2>1 DEF Threads
  <2>4. QED
    BY <2>1, <2>2, <2>3 DEF Resume!OwnsNewest, Resume!MyIntent, Resume!Newest
<1>5. CASE thr'[c] = thr[c]
  <2>1. thr[c].pc = "spawn" /\ ReadyToSpawn(c)
    BY <1>1, <1>5 DEF SoloInv
  <2>2. Len(intents') = Len(intents) /\ intents'[thr[c].intent] = intents[thr[c].intent]
    BY <2>1, SpawnUndisturbed
  <2>3. QED
    BY <1>5, <2>1, <2>2 DEF ReadyToSpawn
<1>6. QED
  BY <1>1, <1>3, <1>4, <1>5, Arrivals

LEMMA SoloKeeps ==
    ASSUME Resume!ResumeAssumption, RunInv, ~Resume!InBatch, SoloInv, [Resume!Next]_(Resume!vars)
    PROVE  SoloInv'
<1>1. cb.pc # "resumed" /\ controls \in Nat /\ cb \in Calls
  BY DEF SoloInv, RunInv, RunTyped
<1>2. cb'.pc # "resumed" /\ controls' \in Nat
  <2>1. CASE UNCHANGED Resume!vars
    BY <1>1, <2>1 DEF Resume!vars
  <2>2. ASSUME NEW d \in Commands, Resume!Step(d) PROVE cb' = cb /\ controls' = controls
    BY <2>2 DEF Resume!Step, Resume!ReadRun, Resume!PrepareRefused, Resume!MarkAttempt, Resume!MarkRun,
       Resume!CleanupGate, Resume!Launch, Resume!Handoff, Resume!Spawn, Resume!ReadAttempt, Resume!TellRun,
       Resume!ReadIntent, Resume!LaunchCancelled, Resume!LaunchHuman, Resume!LaunchFailed, Resume!RecoverNow,
       Resume!AfterFailure, Resume!Dispatched, Resume!FailIntent, Resume!Prepare, Resume!KeepRest
  <2>3. CASE Resume!Cleanup \/ Resume!Result \/ Resume!Accept \/ Resume!HostEnds
    <3>1. controls' = controls
      BY <2>3 DEF Resume!Cleanup, Resume!Result, Resume!Accept, Resume!HostEnds, Resume!KeepHost
    <3>2. cb'.pc # "resumed"
      <4>1. CASE Resume!HostEnds
        BY <4>1 DEF Resume!HostEnds, Resume!NoCall
      <4>2. CASE Resume!Cleanup
        BY <1>1, <4>2 DEF Resume!Cleanup, Calls
      <4>3. CASE Resume!Accept
        BY <1>1, <4>3 DEF Resume!Accept, Calls
      <4>4. CASE Resume!Result
        <5>1. PICK p \in {"handoff", "accept"}, r \in {cb.res, "ignored"} : cb' = [cb EXCEPT !.pc = p, !.res = r]
          <6>1. CASE cb' = [cb EXCEPT !.pc = "handoff", !.res = "ignored"]
            BY <6>1
          <6>2. CASE cb' = [cb EXCEPT !.pc = "handoff"] \/ cb' = [cb EXCEPT !.pc = "accept"]
            <7>1. \A p \in {"handoff", "accept"} : [cb EXCEPT !.pc = p] = [cb EXCEPT !.pc = p, !.res = cb.res]
              BY <1>1 DEF Calls
            <7>2. QED
              BY <6>2, <7>1
          <6>3. QED
            BY <4>4, <6>1, <6>2 DEF Resume!Result
        <5>2. QED
          BY <1>1, <5>1 DEF Calls
      <4>5. QED
        BY <2>3, <4>1, <4>2, <4>3, <4>4
    <3>3. QED
      BY <1>1, <3>1, <3>2
  <2>4. CASE Resume!GiveBack \/ Resume!Resumed
    <3>1. controls' = controls /\ cb' = Resume!NoCall
      BY <1>1, <2>4 DEF Resume!GiveBack, Resume!Resumed, Resume!KeepHost
    <3>2. QED
      BY <1>1, <3>1 DEF Resume!NoCall
  <2>5. CASE Resume!Takeover \/ Resume!ReleaseTakeover \/ Resume!CancelRun
    <3>1. cb' = cb /\ controls' = controls + 1
      BY <2>5 DEF Resume!Takeover, Resume!ReleaseTakeover, Resume!CancelRun, Resume!CanControl
    <3>2. QED
      BY <1>1, <3>1
  <2>6. CASE Resume!Deliver \/ Resume!Watchdog \/ Resume!Startup \/ (\E t \in Todos : Resume!HostTodo(t))
             \/ \E d \in Commands : Resume!ResumeTx(d)
    BY <1>1, <2>6 DEF Resume!Deliver, Resume!Watchdog, Resume!Startup, Resume!HostTodo, Resume!KeepHost, Resume!ResumeTx
  <2>7. CASE Resume!Crash
    BY <1>1, <2>7 DEF Resume!Crash, Resume!NoCall
  <2>8. QED
    BY <1>1, <2>1, <2>2, <2>3, <2>4, <2>5, <2>6, <2>7 DEF Resume!Next, Resume!Callback
<1>3. \A c \in Commands : ReadyToSpawn(c)' /\ Reserved(c)'
  BY ReadyKeeps, ReservedKeeps
<1>4. QED
  BY <1>2, <1>3 DEF SoloInv

\* A Host is started only for the newest intent, which still waits for this very
\* attempt.
LEMMA StartsForTheNewest ==
    ASSUME RunInv, ~Resume!InBatch, SoloInv, [Resume!Next]_(Resume!vars)
    PROVE  Resume!StartStep
<1>1. CASE host' = host \/ host' = 0
  BY <1>1 DEF Resume!StartStep
<1>2. ASSUME NEW c \in Commands, Resume!Spawn(c) PROVE Resume!StartStep
  <2>1. host' = thr[c].att /\ thr[c].pc = "spawn"
    BY <1>2 DEF Resume!Spawn, Resume!MyAtt
  <2>2. QED
    BY <2>1 DEF SoloInv, ReadyToSpawn, Resume!StartStep, Resume!Newest
<1>3. host' = host \/ host' = 0 \/ \E c \in Commands : Resume!Spawn(c)
  <2>1. CASE UNCHANGED Resume!vars
    BY <2>1 DEF Resume!vars
  <2>2. ASSUME NEW d \in Commands, Resume!Step(d), ~Resume!Spawn(d) PROVE host' = host
    BY <2>2 DEF Resume!Step, Resume!ReadRun, Resume!PrepareRefused, Resume!MarkAttempt, Resume!MarkRun,
       Resume!CleanupGate, Resume!Launch, Resume!Handoff, Resume!ReadAttempt, Resume!TellRun,
       Resume!ReadIntent, Resume!LaunchCancelled, Resume!LaunchHuman, Resume!LaunchFailed, Resume!RecoverNow,
       Resume!AfterFailure, Resume!Dispatched, Resume!FailIntent, Resume!Prepare, Resume!KeepRest
  <2>3. CASE Resume!Callback \/ Resume!HostEnds \/ \E t \in Todos : Resume!HostTodo(t)
    BY <2>3 DEF Resume!Callback, Resume!Cleanup, Resume!Result, Resume!Accept, Resume!GiveBack, Resume!Resumed,
       Resume!HostEnds, Resume!HostTodo
  <2>4. CASE Resume!Takeover \/ Resume!ReleaseTakeover \/ Resume!CancelRun \/ Resume!Deliver \/ Resume!Watchdog
             \/ Resume!Crash \/ Resume!Startup \/ \E d \in Commands : Resume!ResumeTx(d)
    BY <2>4 DEF Resume!Takeover, Resume!ReleaseTakeover, Resume!CancelRun, Resume!Deliver, Resume!Watchdog,
       Resume!Crash, Resume!Startup, Resume!ResumeTx
  <2>5. QED
    BY <2>1, <2>2, <2>3, <2>4 DEF Resume!Next
<1>4. QED
  BY <1>1, <1>2, <1>3

\* What a step may write over a reservation that its thread still carries: no
\* state but those the properties except, and "cancelling" by a start that read
\* its attempt while it was being cancelled.
LEMMA ReservationsKept ==
    ASSUME RunInv, ~Resume!InBatch, SoloInv, [Resume!Next]_(Resume!vars), run = "pending_execution",
           run' \notin {"pending_execution", "running", "human_required"}, controls' = controls,
           NEW c \in Commands, Resume!OwnsNewest(c), thr[c].pc \in {"read", "prepare"}
    PROVE  \E d \in Commands : Resume!TellRun(d) /\ thr[d].seen = "cancelling"
<1> DEFINE n == Len(intents)
<1>1. RunTyped /\ Newly /\ controls \in Nat /\ cb.pc # "resumed"
  BY DEF RunInv, SoloInv
<1>2. thr[c].intent = n /\ intents[n].state = "successor_pending"
  BY DEF Resume!OwnsNewest, Resume!MyIntent, Resume!Newest
<1>3. /\ intents[n].pred = Len(attempts)
      /\ \E t \in Todos : todo[t] = "pending"
      /\ \A t \in Todos : todo[t] \in {"pending", "completed"}
  BY <1>2 DEF SoloInv, Reserved
<1>4. ~Live(Len(attempts)) /\ ~Resume!LiveAtt(Len(attempts))
  BY <1>2, <1>3 DEF RunInv, Carries, Live, Resume!LiveAtt, Resume!LiveStates
<1>5. \A d \in Commands : thr[d].pc \notin BeforeHost
  BY <1>4, LiveIsNewest
<1>6. ~Resume!Orphan
  <2>1. intents[n].state # "successor_failed"
    BY <1>2
  <2>2. QED
    BY <2>1 DEF Resume!Orphan, Resume!Newest
<1>7. CASE run' = run
  BY <1>7
<1>8. ASSUME NEW d \in Commands, Resume!ResumeTx(d) PROVE FALSE
  <2>1. run' = Resume!RunAfter
    BY <1>8 DEF Resume!ResumeTx
  <2>2. Resume!Executes
    BY <1>3, TodosExecute
  <2>3. QED
    BY <2>1, <2>2 DEF Resume!RunAfter
<1>9. ASSUME NEW d \in Commands, Resume!Step(d), run' # run PROVE Resume!TellRun(d) /\ thr[d].seen = "cancelling"
  <2>1. CASE Resume!MarkRun(d)
    BY <2>1 DEF Resume!MarkRun
  <2>2. CASE Resume!TellRun(d)
    BY <2>2 DEF Resume!TellRun
  <2>3. CASE Resume!LaunchCancelled(d) \/ Resume!LaunchHuman(d) \/ Resume!LaunchFailed(d)
    BY <1>5, <1>9, <2>3 DEF Resume!LaunchCancelled, Resume!LaunchHuman, Resume!LaunchFailed, BeforeHost
  <2>4. CASE Resume!RecoverNow(d)
    BY <1>6, <1>9, <2>4 DEF Resume!RecoverNow
  <2>5. CASE Resume!AfterFailure(d)
    BY <1>9, <2>5 DEF Resume!AfterFailure
  <2>6. QED
    BY <1>9, <2>1, <2>2, <2>3, <2>4, <2>5 DEF Resume!Step, Resume!ReadRun, Resume!PrepareRefused, Resume!MarkAttempt,
       Resume!CleanupGate, Resume!Launch, Resume!Handoff, Resume!Spawn, Resume!ReadAttempt,
       Resume!ReadIntent, Resume!Dispatched, Resume!FailIntent, Resume!Prepare
<1>10. CASE Resume!Result
  <2>1. cb.att \in 1 .. Len(attempts)
    BY <1>1, <1>10 DEF Resume!Result, RunTyped, Is
  <2>2. ~Resume!LiveAtt(cb.att)
    BY <1>1, <1>4, <2>1 DEF Newly, Live, Resume!LiveAtt, Resume!LiveStates
  <2>3. run' = run
    BY <1>10, <2>2 DEF Resume!Result
  <2>4. QED
    BY <2>3
<1>11. ~Resume!Takeover /\ ~Resume!ReleaseTakeover /\ ~Resume!CancelRun
  <2>1. ~Resume!CanControl
    BY <1>1 DEF Resume!CanControl
  <2>2. QED
    BY <2>1 DEF Resume!Takeover, Resume!ReleaseTakeover, Resume!CancelRun
<1>12. ~Resume!Startup
  BY <1>1 DEF Resume!Startup, RunTyped
<1>13. CASE \/ Resume!Cleanup \/ Resume!Accept \/ Resume!GiveBack \/ Resume!Resumed \/ Resume!HostEnds
            \/ Resume!Deliver \/ Resume!Watchdog \/ Resume!Crash \/ UNCHANGED Resume!vars
            \/ \E t \in Todos : Resume!HostTodo(t)
  BY <1>1, <1>6, <1>13 DEF Resume!Cleanup, Resume!Accept, Resume!GiveBack, Resume!Resumed, Resume!HostEnds,
     Resume!Deliver, Resume!Watchdog, Resume!Crash, Resume!HostTodo, Resume!vars
<1>14. QED
  BY <1>7, <1>8, <1>9, <1>10, <1>11, <1>12, <1>13 DEF Resume!Next, Resume!Callback

\* Where no one may cancel, nothing is ever being cancelled.
UncancelledInv ==
    /\ \A a \in 1 .. Len(attempts) : attempts[a].state # "cancelling"
    /\ \A c \in Commands : thr[c].pc = "tell" => thr[c].seen # "cancelling"

LEMMA UncancelledStarts ==
    ASSUME Resume!Init PROVE UncancelledInv
<1>1. PICK s \in {"failed", "completed", "human_required"}, l \in {"human", "host"} :
          attempts = <<[state |-> s, launch |-> l, lease |-> FALSE]>>
  BY DEF Resume!Init
<1>2. \A c \in Commands : thr[c].pc = "idle"
  BY DEF Resume!Init, Resume!Idle
<1>3. QED
  BY <1>1, <1>2 DEF UncancelledInv

LEMMA EndsAreOutcomes ==
    ASSUME RunTyped, Newly, NEW a \in 1 .. Len(attempts), NEW s \in Outcomes, NEW l,
           NEW b \in 1 .. Len(attempts), Resume!Ended(a, s, l)[b].state = "cancelling"
    PROVE  attempts[b].state = "cancelling"
<1>1. attempts \in Seq(AttemptRow) /\ attempts[a] \in AttemptRow /\ DOMAIN attempts = 1 .. Len(attempts)
  <2>1. attempts \in Seq(AttemptRow)
    BY DEF RunTyped
  <2>2. QED
    BY <2>1
<1>2. CASE b = a
  <2>1. Resume!Ended(a, s, l)[a].state = IF Live(a) THEN s ELSE attempts[a].state
    BY <1>1 DEF Resume!Ended, Resume!EndLease, Resume!LiveAtt, Resume!LiveStates, Live, AttemptRow
  <2>2. QED
    BY <1>2, <2>1 DEF Outcomes
<1>3. CASE b # a
  BY <1>1, <1>3 DEF Resume!Ended, Resume!EndLease
<1>4. QED
  BY <1>2, <1>3

LEMMA UncancelledAttempts ==
    ASSUME RunInv, UncancelledInv, SoloInv, controls' = 0, [Resume!Next]_(Resume!vars)
    PROVE  \A a \in 1 .. Len(attempts') : attempts'[a].state # "cancelling"
<1>1. RunTyped /\ Newly /\ attempts \in Seq(AttemptRow) /\ DOMAIN attempts = 1 .. Len(attempts)
      /\ \A a \in 1 .. Len(attempts) : attempts[a] \in AttemptRow
  <2>1. RunTyped /\ Newly /\ attempts \in Seq(AttemptRow)
    BY DEF RunInv, RunTyped
  <2>2. QED
    BY <2>1
<1>2. ~Resume!Takeover /\ ~Resume!ReleaseTakeover /\ ~Resume!CancelRun
  <2>1. ~Resume!CanControl
    BY DEF Resume!CanControl, SoloInv
  <2>2. QED
    BY <2>1 DEF Resume!Takeover, Resume!ReleaseTakeover, Resume!CancelRun
<1>3. CASE attempts' = attempts
  BY <1>3 DEF UncancelledInv
<1>4. ASSUME NEW d \in Commands, Resume!Prepare(d)
      PROVE  \A a \in 1 .. Len(attempts') : attempts'[a].state # "cancelling"
  <2> DEFINE new == [state |-> "starting", launch |-> "pre", lease |-> TRUE]
  <2>1. attempts' = Append(attempts, new) /\ new.state # "cancelling"
    BY <1>4 DEF Resume!Prepare
  <2> HIDE DEF new
  <2>2. QED
    BY <1>1, <2>1 DEF UncancelledInv
<1>5. ASSUME NEW d \in Commands, Resume!MarkAttempt(d) \/ Resume!Spawn(d)
      PROVE  \A a \in 1 .. Len(attempts') : attempts'[a].state # "cancelling"
  <2>1. \/ attempts' = attempts \/ attempts' = [attempts EXCEPT ![thr[d].att].state = "running"]
        \/ attempts' = [attempts EXCEPT ![thr[d].att].launch = "host"]
    BY <1>5 DEF Resume!MarkAttempt, Resume!Spawn, Resume!MyAtt
  <2>2. DOMAIN attempts' = DOMAIN attempts /\ Len(attempts') = Len(attempts)
    <3>1. RunInv'
      BY <1>5, MarksKeep, SpawnKeeps
    <3>2. attempts' \in Seq(AttemptRow)
      BY <3>1 DEF RunInv, RunTyped
    <3>3. DOMAIN attempts' = DOMAIN attempts
      BY <2>1
    <3>4. QED
      BY <1>1, <3>2, <3>3
  <2>3. ASSUME NEW a \in 1 .. Len(attempts) PROVE attempts'[a].state \in {attempts[a].state, "running"}
    BY <1>1, <2>1 DEF AttemptRow
  <2>4. QED
    BY <2>2, <2>3 DEF UncancelledInv
<1>6. ASSUME NEW m \in 1 .. Len(attempts), NEW s \in Outcomes, attempts' = Resume!Ended(m, s, "")
                                                        \/ attempts' = Resume!Ended(m, s, "human")
      PROVE  \A a \in 1 .. Len(attempts') : attempts'[a].state # "cancelling"
  <2>1. PICK l \in LaunchMarks : attempts' = Resume!Ended(m, s, l)
    BY <1>6 DEF LaunchMarks
  <2>2. Len(attempts') = Len(attempts)
    BY <1>1, <1>6, <2>1, EndedRow DEF AttemptsStay
  <2>3. \A a \in 1 .. Len(attempts) : attempts'[a].state = "cancelling" => attempts[a].state = "cancelling"
    BY <1>1, <2>1, EndsAreOutcomes
  <2>4. QED
    BY <2>2, <2>3 DEF UncancelledInv
<1>7. ASSUME NEW d \in Commands, Resume!LaunchCancelled(d) \/ Resume!LaunchHuman(d) \/ Resume!LaunchFailed(d)
      PROVE  \A a \in 1 .. Len(attempts') : attempts'[a].state # "cancelling"
  <2>1. thr[d].pc \in BeforeHost
    BY <1>7 DEF Resume!LaunchCancelled, Resume!LaunchHuman, Resume!LaunchFailed, BeforeHost
  <2>2. thr[d].att \in 1 .. Len(attempts)
    BY <2>1, LiveIsNewest
  <2>3. \E s \in Outcomes : attempts' = Resume!Ended(thr[d].att, s, "") \/ attempts' = Resume!Ended(thr[d].att, s, "human")
    BY <1>7, GateWords DEF Resume!LaunchCancelled, Resume!LaunchHuman, Resume!LaunchFailed, Resume!MyAtt, Outcomes
  <2>4. QED
    BY <1>6, <2>2, <2>3
<1>8. CASE Resume!Result
  <2>1. cb.att \in 1 .. Len(attempts) /\ cb.res \in Outcomes /\ cb \in Calls
    BY <1>1, <1>8 DEF Resume!Result, RunTyped, Is
  <2>2. CASE attempts' = attempts
    BY <1>3, <2>2
  <2>3. CASE attempts' # attempts
    <3> DEFINE g == IF Resume!Gate(cb.att) # "none" THEN Resume!Gate(cb.att) ELSE cb.control
               s == IF g = "none" THEN cb.res ELSE g
    <3>1. attempts' = Resume!Ended(cb.att, s, "")
      BY <1>8, <2>3 DEF Resume!Result
    <3>2. g \in {"human_required", "cancelled", "none"}
      BY <2>1, GateWords DEF Calls
    <3> HIDE DEF g
    <3>3. s \in Outcomes
      BY <2>1, <3>2 DEF Outcomes
    <3> HIDE DEF s
    <3>4. QED
      BY <1>6, <2>1, <3>1, <3>3
  <2>4. QED
    BY <2>2, <2>3
<1>9. CASE Resume!Startup
  <2>1. "review_required" \in Outcomes
    BY DEF Outcomes
  <2>2. Len(attempts') = Len(attempts)
    <3>1. attempts' \in Seq(AttemptRow)
      BY <1>9, StartupKeeps DEF RunInv, RunTyped
    <3>2. DOMAIN attempts' = DOMAIN attempts
      BY <1>9 DEF Resume!Startup
    <3>3. QED
      BY <1>1, <3>1, <3>2
  <2>3. ASSUME NEW a \in 1 .. Len(attempts), attempts'[a].state = "cancelling" PROVE attempts[a].state = "cancelling"
    <3>1. attempts'[a] = attempts[a] \/ attempts'[a] = Resume!Ended(a, "review_required", "")[a]
      BY <1>1, <1>9 DEF Resume!Startup
    <3>2. QED
      BY <1>1, <2>1, <2>3, <3>1, EndsAreOutcomes
  <2>4. QED
    BY <2>2, <2>3 DEF UncancelledInv
<1>10. CASE UNCHANGED Resume!vars
  BY <1>3, <1>10 DEF Resume!vars
<1>11. ASSUME NEW d \in Commands, Resume!Step(d)
       PROVE  \/ attempts' = attempts \/ Resume!Prepare(d) \/ Resume!MarkAttempt(d) \/ Resume!Spawn(d)
              \/ Resume!LaunchCancelled(d) \/ Resume!LaunchHuman(d) \/ Resume!LaunchFailed(d)
  BY <1>11 DEF Resume!Step, Resume!ReadRun, Resume!PrepareRefused, Resume!MarkRun,
     Resume!CleanupGate, Resume!Launch, Resume!Handoff, Resume!ReadAttempt, Resume!TellRun,
     Resume!ReadIntent, Resume!RecoverNow, Resume!AfterFailure, Resume!Dispatched, Resume!FailIntent
<1>12. CASE \/ Resume!Cleanup \/ Resume!Accept \/ Resume!GiveBack \/ Resume!Resumed \/ Resume!HostEnds
            \/ Resume!Deliver \/ Resume!Watchdog \/ Resume!Crash
            \/ (\E t \in Todos : Resume!HostTodo(t)) \/ \E d \in Commands : Resume!ResumeTx(d)
  <2>1. attempts' = attempts
    BY <1>12 DEF Resume!Cleanup, Resume!Accept, Resume!GiveBack, Resume!Resumed, Resume!HostEnds,
       Resume!Deliver, Resume!Watchdog, Resume!Crash, Resume!HostTodo, Resume!ResumeTx
  <2>2. QED
    BY <1>3, <2>1
<1>13. QED
  BY <1>2, <1>3, <1>4, <1>5, <1>7, <1>8, <1>9, <1>10, <1>11, <1>12 DEF Resume!Next, Resume!Callback

\* Only the reading of the attempt brings a thread to write the run after it.
LEMMA TellArrivals ==
    ASSUME RunInv, Resume!ResumeAssumption, [Resume!Next]_(Resume!vars), NEW c \in Commands,
           thr'[c].pc = "tell"
    PROVE  thr'[c] = thr[c] \/ Resume!ReadAttempt(c)
<1>1. thr \in [Commands -> Threads] /\ thr[c] \in Threads
  BY DEF RunInv, RunTyped
<1>2. CASE UNCHANGED Resume!vars
  BY <1>2 DEF Resume!vars
<1>3. ASSUME Resume!Step(c) PROVE thr'[c] = thr[c] \/ Resume!ReadAttempt(c)
  <2>1. CASE \/ Resume!PrepareRefused(c) \/ Resume!Prepare(c) \/ Resume!MarkRun(c)
             \/ Resume!MarkAttempt(c) \/ Resume!Spawn(c) \/ Resume!TellRun(c)
    BY <2>1, StepPc
  <2>2. CASE Resume!ReadRun(c) \/ Resume!Handoff(c)
    <3>1. Resume!ReadRun(c) => thr'[c].pc = "prepare"
      BY <1>1 DEF Resume!ReadRun, Threads
    <3>2. QED
      BY <2>2, <3>1, StepPc
  <2>3. CASE \/ Resume!LaunchCancelled(c) \/ Resume!LaunchHuman(c) \/ Resume!LaunchFailed(c) \/ Resume!RecoverNow(c)
             \/ Resume!FailIntent(c)
    BY <1>1, <2>3 DEF Resume!LaunchCancelled, Resume!LaunchHuman,
       Resume!LaunchFailed, Resume!RecoverNow, Resume!FailIntent, Resume!Goto, Threads
  <2>4. CASE Resume!CleanupGate(c) \/ Resume!Launch(c)
    BY <2>4, StepPc
  <2>5. CASE Resume!ReadIntent(c) \/ Resume!Dispatched(c) \/ Resume!AfterFailure(c)
    <3>1. Resume!Idle.pc = "idle"
      BY DEF Resume!Idle
    <3>2. QED
      BY <1>1, <2>5, <3>1 DEF Resume!ReadIntent, Resume!Dispatched, Resume!AfterFailure, Threads
  <2>6. QED
    BY <1>3, <2>1, <2>2, <2>3, <2>4, <2>5 DEF Resume!Step
<1>4. ASSUME NEW d \in Commands, d # c, Resume!Step(d) \/ Resume!ResumeTx(d) PROVE thr'[c] = thr[c]
  <2>1. CASE Resume!Step(d)
    BY <1>4, <2>1, StepLeavesOthers
  <2>2. CASE Resume!ResumeTx(d)
    BY <1>1, <1>4, <2>2 DEF Resume!ResumeTx
  <2>3. QED
    BY <1>4, <2>1, <2>2
<1>5. CASE Resume!ResumeTx(c)
  <2>1. Resume!Successor.pc = "read"
    BY DEF Resume!Successor, Resume!Idle
  <2>2. QED
    BY <1>1, <1>5, <2>1 DEF Resume!ResumeTx
<1>6. CASE Resume!Callback \/ Resume!HostEnds \/ \E t \in Todos : Resume!HostTodo(t)
  BY <1>6 DEF Resume!Callback, Resume!Cleanup, Resume!Result, Resume!Accept, Resume!GiveBack, Resume!Resumed,
     Resume!HostEnds, Resume!HostTodo, Resume!KeepHost
<1>7. CASE Resume!Takeover \/ Resume!ReleaseTakeover \/ Resume!CancelRun \/ Resume!Deliver \/ Resume!Watchdog
           \/ Resume!Startup
  BY <1>7 DEF Resume!Takeover, Resume!ReleaseTakeover, Resume!CancelRun, Resume!Deliver, Resume!Watchdog, Resume!Startup
<1>8. ~Resume!Crash
  <2>1. Resume!Crash => thr'[c] = Resume!Idle
    BY DEF Resume!Crash
  <2>2. QED
    BY <2>1, IdleThread
<1>9. QED
  BY <1>2, <1>3, <1>4, <1>6, <1>7, <1>8, <1>5 DEF Resume!Next

LEMMA UncancelledKeeps ==
    ASSUME Resume!ResumeAssumption, RunInv, UncancelledInv, SoloInv, controls' = 0, [Resume!Next]_(Resume!vars)
    PROVE  UncancelledInv'
<1>1. ASSUME NEW c \in Commands, thr'[c].pc = "tell" PROVE thr'[c].seen # "cancelling"
  <2>1. thr \in [Commands -> Threads] /\ thr[c] \in Threads
    BY DEF RunInv, RunTyped
  <2>2. CASE thr'[c] = thr[c]
    BY <1>1, <2>2 DEF UncancelledInv
  <2>3. CASE Resume!ReadAttempt(c)
    <3>1. thr'[c].seen = attempts[thr[c].att].state
      BY <2>1, <2>3 DEF Resume!ReadAttempt, Resume!MyAtt, Threads
    <3>2. thr[c].att \in 1 .. Len(attempts)
      <4>1. thr[c].pc = "tail"
        BY <2>3 DEF Resume!ReadAttempt
      <4>2. thr[c].att > 0
        BY <4>1 DEF RunInv, Carries
      <4>3. QED
        BY <4>1, <4>2, InRange DEF Is
    <3>3. QED
      BY <3>1, <3>2 DEF UncancelledInv
  <2>4. thr'[c] = thr[c] \/ Resume!ReadAttempt(c)
    BY <1>1, TellArrivals
  <2>5. QED
    BY <2>2, <2>3, <2>4
<1>2. QED
  BY <1>1, UncancelledAttempts DEF UncancelledInv

LEMMA ReservationOrTell ==
    ASSUME RunInv, ~Resume!InBatch, SoloInv, [Resume!Next]_(Resume!vars)
    PROVE  Resume!StartStep /\ (Resume!ReservationStep \/ StaleTell)
<1>1. Resume!StartStep
  BY StartsForTheNewest
<1>2. ASSUME ~Resume!ReservationStep PROVE StaleTell
  <2>1. run = "pending_execution" /\ run' \notin {"pending_execution", "running", "human_required"}
        /\ controls' = controls
    BY <1>2 DEF Resume!ReservationStep
  <2>2. PICK c \in Commands : Resume!OwnsNewest(c) /\ thr[c].pc \in {"read", "prepare"}
    BY <1>2 DEF Resume!ReservationStep
  <2>3. QED
    BY <2>1, <2>2, ReservationsKept DEF StaleTell
<1>3. QED
  BY <1>1, <1>2

\* What the membership of the run may be; a run does not change whether it has one.
MemberRow == [state : {"none", "terminal", "active", "resume_pending", "reconciliation_required", "cancelled"},
              intent : Nat, att : Nat]

LEMMA MembershipStays ==
    ASSUME RunInv, member \in MemberRow, ~Resume!InBatch => SoloInv, [Resume!Next]_(Resume!vars)
    PROVE  member' \in MemberRow /\ Resume!InBatch' = Resume!InBatch
<1>1. /\ Len(attempts) \in Nat /\ Len(intents) \in Nat /\ cb \in Calls
      /\ \A c \in Commands : thr[c] \in Threads
  <2>1. attempts \in Seq(AttemptRow) /\ intents \in Seq(IntentRow) /\ cb \in Calls
        /\ thr \in [Commands -> Threads]
    BY DEF RunInv, RunTyped
  <2>2. QED
    BY <2>1
<1>2. \A n \in Nat : LET m == [member EXCEPT !.state = "terminal", !.att = n] IN
                       m \in MemberRow /\ m.state = "terminal"
  BY DEF MemberRow
<1>3. \A x \in {"terminal", "reconciliation_required"} :
         LET m == [member EXCEPT !.state = x] IN m \in MemberRow /\ m.state = x
  BY DEF MemberRow
<1>4. \A n \in Nat : LET m == [member EXCEPT !.state = "active", !.att = n] IN
                       m \in MemberRow /\ m.state = "active"
  BY DEF MemberRow
<1>5. ASSUME NEW a \in Nat, member' = Resume!TerminalMember(a)
      PROVE  member' \in MemberRow /\ Resume!InBatch' = Resume!InBatch
  BY <1>2, <1>5 DEF Resume!TerminalMember, Resume!InBatch
<1>6. CASE member' = member
  BY <1>6 DEF Resume!InBatch
<1>7. ASSUME NEW c \in Commands, Resume!ResumeTx(c)
      PROVE  member' \in MemberRow /\ Resume!InBatch' = Resume!InBatch
  BY <1>1, <1>7 DEF Resume!ResumeTx, Resume!MemberAfter, Resume!InBatch, Resume!Newest, Resume!Last, MemberRow
<1>8. ASSUME NEW c \in Commands, Resume!Prepare(c)
      PROVE  member' \in MemberRow /\ Resume!InBatch' = Resume!InBatch
  <2>1. \/ member' = member
        \/ /\ member.state # "none"
           /\ member' = [member EXCEPT !.state = "active", !.att = Len(attempts) + 1]
    BY <1>8 DEF Resume!Prepare, Resume!Last
  <2>2. Len(attempts) + 1 \in Nat
    BY <1>1
  <2>3. QED
    BY <1>4, <1>6, <2>1, <2>2 DEF Resume!InBatch
<1>9. ASSUME NEW c \in Commands,
             Resume!LaunchCancelled(c) \/ Resume!LaunchHuman(c) \/ Resume!LaunchFailed(c)
      PROVE  member' \in MemberRow /\ Resume!InBatch' = Resume!InBatch
  <2>1. thr[c].att \in Nat /\ member' = Resume!TerminalMember(thr[c].att)
    BY <1>1, <1>9 DEF Resume!LaunchCancelled, Resume!LaunchHuman, Resume!LaunchFailed, Resume!MyAtt, Threads
  <2>2. QED
    BY <1>5, <2>1
<1>10. ASSUME NEW c \in Commands, Resume!FailIntent(c)
      PROVE  member' \in MemberRow /\ Resume!InBatch' = Resume!InBatch
  BY <1>3, <1>10 DEF Resume!FailIntent, Resume!InBatch
<1>11. CASE Resume!Result
  <2>1. cb.att \in Nat /\ (member' = member \/ member' = Resume!TerminalMember(cb.att))
    BY <1>1, <1>11 DEF Resume!Result, Calls
  <2>2. QED
    BY <1>5, <1>6, <2>1
<1>12. CASE Resume!InBatch /\ Resume!FinishBatch
  <2>1. \/ member' = member
        \/ member' = [member EXCEPT !.state = "reconciliation_required"]
        \/ member' = [member EXCEPT !.state = "terminal", !.att = Len(attempts)]
    BY <1>12 DEF Resume!FinishBatch, Resume!Last
  <2>2. QED
    BY <1>1, <1>2, <1>3, <1>12, <2>1 DEF Resume!InBatch
<1>13. ASSUME NEW c \in Commands, Resume!AfterFailure(c)
      PROVE  member' \in MemberRow /\ Resume!InBatch' = Resume!InBatch
  BY <1>6, <1>12, <1>13 DEF Resume!AfterFailure
<1>14. CASE Resume!Resumed
  BY <1>12, <1>14 DEF Resume!Resumed, SoloInv
<1>15. ASSUME NEW c \in Commands, Resume!Step(c)
      PROVE  member' \in MemberRow /\ Resume!InBatch' = Resume!InBatch
  <2>1. CASE \/ Resume!ReadRun(c) \/ Resume!PrepareRefused(c) \/ Resume!MarkAttempt(c) \/ Resume!MarkRun(c)
             \/ Resume!CleanupGate(c) \/ Resume!Launch(c) \/ Resume!Handoff(c) \/ Resume!Spawn(c)
             \/ Resume!ReadAttempt(c) \/ Resume!TellRun(c) \/ Resume!ReadIntent(c) \/ Resume!Dispatched(c)
             \/ Resume!RecoverNow(c)
    BY <1>6, <2>1 DEF Resume!ReadRun, Resume!PrepareRefused, Resume!MarkAttempt, Resume!MarkRun,
       Resume!CleanupGate, Resume!Launch, Resume!Handoff, Resume!Spawn, Resume!ReadAttempt, Resume!TellRun,
       Resume!ReadIntent, Resume!Dispatched, Resume!RecoverNow, Resume!batchVars
  <2>2. QED
    BY <1>8, <1>9, <1>10, <1>13, <1>15, <2>1 DEF Resume!Step
<1>16. CASE \/ Resume!Takeover \/ Resume!ReleaseTakeover \/ Resume!CancelRun \/ Resume!Deliver
            \/ Resume!HostEnds \/ Resume!Cleanup \/ Resume!Accept \/ Resume!GiveBack
            \/ Resume!Watchdog \/ Resume!Crash \/ Resume!Startup \/ \E t \in Todos : Resume!HostTodo(t)
  BY <1>6, <1>16 DEF Resume!Takeover, Resume!ReleaseTakeover, Resume!CancelRun, Resume!Deliver, Resume!HostTodo,
     Resume!HostEnds, Resume!Cleanup, Resume!Accept, Resume!GiveBack, Resume!Watchdog, Resume!Crash,
     Resume!Startup, Resume!batchVars
<1>17. CASE UNCHANGED Resume!vars
  BY <1>6, <1>17 DEF Resume!vars
<1>18. QED
  BY <1>7, <1>11, <1>14, <1>15, <1>16, <1>17 DEF Resume!Next, Resume!Callback

\* The whole of what is kept: of a run outside a batch more is known, and more
\* again while no control command has come.
ResumeInv ==
    /\ RunInv /\ member \in MemberRow /\ controls \in Nat
    /\ ~Resume!InBatch => SoloInv /\ (controls = 0 => UncancelledInv)

LEMMA ResumeInvStarts == ASSUME Resume!ResumeAssumption, Resume!Init PROVE ResumeInv
<1>1. RunInv /\ SoloInv /\ UncancelledInv
  BY ResumeStarts, SoloStarts, UncancelledStarts
<1>2. member \in MemberRow /\ controls \in Nat
  BY DEF Resume!Init, MemberRow
<1>3. QED
  BY <1>1, <1>2 DEF ResumeInv

LEMMA ControlsCount ==
    ASSUME controls \in Nat, [Resume!Next]_(Resume!vars)
    PROVE  controls' \in Nat /\ (controls' = 0 => controls = 0)
<1>1. controls' = controls \/ Resume!CanControl
  BY DEF Resume!Next, Resume!vars, Resume!ResumeTx, Resume!Step, Resume!Callback, Resume!KeepRest, Resume!KeepHost,
     Resume!ReadRun, Resume!Prepare, Resume!PrepareRefused, Resume!MarkAttempt, Resume!MarkRun,
     Resume!CleanupGate, Resume!Launch, Resume!Handoff, Resume!Spawn, Resume!ReadAttempt, Resume!TellRun,
     Resume!ReadIntent, Resume!Dispatched, Resume!LaunchCancelled, Resume!LaunchHuman, Resume!LaunchFailed,
     Resume!FailIntent, Resume!RecoverNow, Resume!AfterFailure, Resume!Takeover, Resume!ReleaseTakeover,
     Resume!CancelRun, Resume!Deliver, Resume!HostTodo, Resume!HostEnds, Resume!Cleanup, Resume!Result,
     Resume!Accept, Resume!GiveBack, Resume!Resumed, Resume!Watchdog, Resume!Crash, Resume!Startup
<1>2. QED
  BY <1>1 DEF Resume!CanControl

LEMMA ResumeInvKeeps ==
    ASSUME Resume!ResumeAssumption, ResumeInv, [Resume!Next]_(Resume!vars)
    PROVE  ResumeInv'
<1>1. RunInv' /\ member' \in MemberRow /\ Resume!InBatch' = Resume!InBatch /\ controls' \in Nat
  BY ResumeKeeps, MembershipStays, ControlsCount DEF ResumeInv
<1>2. ~Resume!InBatch => SoloInv'
  BY SoloKeeps DEF ResumeInv
<1>3. ~Resume!InBatch /\ controls' = 0 => UncancelledInv'
  BY UncancelledKeeps, ControlsCount DEF ResumeInv
<1>4. QED
  BY <1>1, <1>2, <1>3 DEF ResumeInv

LEMMA SoloSteps ==
    ASSUME ResumeInv, [Resume!Next]_(Resume!vars), ~Resume!InBatch
    PROVE  Resume!StartStep /\ (Resume!ReservationStep \/ (StaleTell /\ controls # 0))
<1>1. Resume!StartStep /\ (Resume!ReservationStep \/ StaleTell)
  BY ReservationOrTell DEF ResumeInv
<1>2. controls = 0 => ~StaleTell
  BY DEF ResumeInv, UncancelledInv, StaleTell, Resume!TellRun
<1>3. QED
  BY <1>1, <1>2

\* Of any commands, Todos and launches, in a batch or outside one: one attempt of
\* the run is live, the newest.  Outside a batch a Host is started only for the
\* newest intent, and a reservation whose thread still carries it is taken back by
\* nothing but a start that saw its attempt being cancelled; without control
\* commands by nothing.
THEOREM ResumeIsSafe ==
    ASSUME Resume!ResumeAssumption
    PROVE  Resume!Spec => ResumeSafe
<1>1. Resume!Init => ResumeInv
  BY ResumeInvStarts
<1>2. ResumeInv /\ [Resume!Next]_(Resume!vars) => ResumeInv'
  BY ResumeInvKeeps
<1>3. ResumeInv => Resume!OneLive
  BY OnlyTheNewestLives DEF ResumeInv
<1>4. ResumeInv /\ [Resume!Next]_(Resume!vars)
        => [~Resume!InBatch => /\ Resume!StartStep
                               /\ Resume!ReservationStep \/ (StaleTell /\ controls # 0)]_(Resume!vars)
  BY SoloSteps
<1>5. QED
  BY <1>1, <1>2, <1>3, <1>4, PTL DEF Resume!Spec, ResumeSafe
=============================================================================
