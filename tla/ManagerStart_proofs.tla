------------------------- MODULE ManagerStart_proofs -------------------------
(***************************************************************************)
(* Ownership of the PID record, for every number of hosts, starters,       *)
(* restarts and crashes.  A publication reads the record and writes it in  *)
(* two steps, and between them other hosts are launched, leave and die.    *)
(* What keeps a running host from being replaced is that the mutex of the  *)
(* record encloses the two steps (Mutex), that the record it has approved  *)
(* cannot come to life again (Approved), and that a host removes its own   *)
(* entry only.                                                             *)
(***************************************************************************)
EXTENDS ManagerStart, FiniteSetTheorems, TLAPS

Shape == host \in [Hosts -> HostSteps] /\ recordLock \in Hosts \cup {NoOne}
Mutex == \A h \in Hosts : host[h] \in {"locked", "approved", "removing"} <=> recordLock = h
Approved == \A h \in Hosts : host[h] = "approved" => ~Recorded
Written  == record \in Hosts => host[record] # "none"
IInv == Shape /\ Mutex /\ Approved /\ Written /\ RecordNamesOwner

hostAndRecord == <<host, recordLock, record>>

(* Nothing of the invariant is owned by a starter: only Recheck touches a  *)
(* host, and it creates one.                                               *)
Launches(h) ==
    /\ h \in Hosts /\ host[h] = "none" /\ host' = [host EXCEPT ![h] = "launched"]
    /\ UNCHANGED <<recordLock, record>>

LEMMA StarterStep ==
  ASSUME NEW s \in Starters, Starting(s) \/ StarterCrash(s)
  PROVE  UNCHANGED hostAndRecord \/ \E h \in Hosts : Launches(h)
<1>1. CASE Recheck(s)
  BY <1>1 DEF Recheck, hostVars, hostAndRecord, Launches
<1>2. CASE Start(s) \/ Check(s) \/ LaunchLock(s)
  BY <1>2 DEF Start, Check, LaunchLock, StartUnchanged, hostVars, hostAndRecord
<1>3. CASE Published(s) \/ PublicationTimesOut(s) \/ BecomesHealthy(s) \/ HealthTimesOut(s)
  BY <1>3 DEF Published, PublicationTimesOut, BecomesHealthy, HealthTimesOut,
              StartUnchanged, hostVars, hostAndRecord
<1>4. CASE StarterCrash(s)
  BY <1>4 DEF StarterCrash, hostVars, hostAndRecord
<1> QED
  BY <1>1, <1>2, <1>3, <1>4 DEF Starting

LEMMA Unchanged ==
  ASSUME IInv, UNCHANGED hostAndRecord
  PROVE  IInv'
BY DEF IInv, Shape, Mutex, Approved, Written, RecordNamesOwner, hostAndRecord, Recorded, Alive, Owners

LEMMA LaunchStep ==
  ASSUME IInv, NEW h \in Hosts, Launches(h)
  PROVE  IInv'
BY DEF IInv, Shape, Mutex, Approved, Written, RecordNamesOwner, Launches, Recorded, Alive,
       Owners, HostSteps

LEMMA Locks ==
  ASSUME ManagerStartAssumption, IInv, NEW h \in Hosts, LockRecord(h)
  PROVE  IInv'
BY DEF ManagerStartAssumption, IInv, Shape, Mutex, Approved, Written, RecordNamesOwner,
       LockRecord, LockFree, Recorded, Alive, Owners, HostSteps

LEMMA Reads ==
  ASSUME ManagerStartAssumption, IInv, NEW h \in Hosts, ReadRecord(h)
  PROVE  IInv'
BY DEF ManagerStartAssumption, IInv, Shape, Mutex, Approved, Written, RecordNamesOwner,
       ReadRecord, Refused, Recorded, Alive, Owners, HostSteps

LEMMA Writes ==
  ASSUME ManagerStartAssumption, IInv, NEW h \in Hosts, WriteRecord(h)
  PROVE  IInv'
<1>1. Owners = {}
  BY DEF IInv, Shape, Approved, RecordNamesOwner, WriteRecord, Recorded, Alive, Owners
<1> QED
  BY <1>1 DEF ManagerStartAssumption, IInv, Shape, Mutex, Approved, Written, RecordNamesOwner,
       WriteRecord, Recorded, Alive, Owners, HostSteps

LEMMA Removes ==
  ASSUME ManagerStartAssumption, IInv, NEW h \in Hosts, RemoveRecord(h)
  PROVE  IInv'
BY DEF ManagerStartAssumption, IInv, Shape, Mutex, Approved, Written, RecordNamesOwner,
       RemoveRecord, Recorded, Alive, Owners, HostSteps

LEMMA Leaves ==
  ASSUME ManagerStartAssumption, IInv, NEW h \in Hosts,
         ManagerExits(h) \/ HostCrash(h) \/ Listens(h) \/ OrphanEnds(h)
  PROVE  IInv'
<1>1. CASE ManagerExits(h)
  BY <1>1 DEF ManagerStartAssumption, IInv, Shape, Mutex, Approved, Written, RecordNamesOwner,
       ManagerExits, Recorded, Alive, Owners, HostSteps
<1>2. CASE HostCrash(h)
  BY <1>2 DEF ManagerStartAssumption, IInv, Shape, Mutex, Approved, Written, RecordNamesOwner,
       HostCrash, Recorded, Alive, Owners, HostSteps
<1>3. CASE Listens(h) \/ OrphanEnds(h)
  BY <1>3, Unchanged DEF Listens, OrphanEnds, hostAndRecord
<1> QED
  BY <1>1, <1>2, <1>3

LEMMA Inductive ==
  ASSUME ManagerStartAssumption, IInv, [Next]_vars
  PROVE  IInv'
<1>1. CASE \E s \in Starters : Starting(s) \/ StarterCrash(s)
  BY <1>1, StarterStep, Unchanged, LaunchStep
<1>2. CASE \E h \in Hosts : Hosting(h)
  BY <1>2, Locks, Reads, Writes, Removes, Leaves DEF Hosting
<1>3. CASE FileAges \/ Ensure \/ StopStranger \/ ExitTimesOut \/ Pair
  BY <1>3, Unchanged DEF FileAges, Ensure, StopStranger, ExitTimesOut, Pair, StartUnchanged,
     hostVars, hostAndRecord
<1>4. CASE UNCHANGED vars
  BY <1>4, Unchanged DEF vars, hostVars, hostAndRecord
<1> QED
  BY <1>1, <1>2, <1>3, <1>4 DEF Next

LEMMA Starts ==
  ASSUME ManagerStartAssumption, Init
  PROVE  IInv
BY DEF ManagerStartAssumption, Init, IInv, Shape, Mutex, Approved, Written, RecordNamesOwner,
       Recorded, Alive, Owners, HostSteps

(* The record names the host that runs a Manager, in every reachable       *)
(* state: publish_manager_pid_record and                                   *)
(* remove_manager_pid_record_if_owned never hide a running host.           *)
THEOREM RecordOwned == Spec => []RecordNamesOwner
<1>1. Init => IInv
  BY Starts, ManagerStartAssumption
<1>2. IInv /\ [Next]_vars => IInv'
  BY Inductive, ManagerStartAssumption
<1>3. IInv => RecordNamesOwner
  BY DEF IInv
<1> QED
  BY <1>1, <1>2, <1>3, PTL DEF Spec

(* Hence two hosts never keep a Manager running at the same time.          *)
THEOREM OwnerIsAlone == Spec => []OneOwner
<1>1. RecordNamesOwner => OneOwner
  <2>1. SUFFICES ASSUME RecordNamesOwner PROVE OneOwner
    OBVIOUS
  <2>2. Owners = {} \/ Owners = {record}
    BY <2>1 DEF RecordNamesOwner, Owners
  <2>3. Cardinality({}) = 0 /\ Cardinality({record}) = 1
    BY FS_EmptySet, FS_Singleton
  <2> QED
    BY <2>2, <2>3 DEF OneOwner
<1> QED
  BY <1>1, RecordOwned, PTL

---------------------------------------------------------------------------
(* The launch file.  It is created and removed under the lifecycle lock,   *)
(* so what has to be shown is who is between the two: the starters that    *)
(* hold the lock are exactly those inside start() (Held), and of those     *)
(* the file can be there only after _launch_lock.                          *)

StartShape ==
    /\ starter \in [Starters -> Steps]
    /\ crashes \in [host : Nat, starter : Nat]
Inside == {"check", "lockfile", "recheck", "publish", "health"}
Held   == \A s \in Starters : starter[s] \in Inside <=> lifecycle = s
FInv   == StartShape /\ Held /\ LaunchFileIsHeld

LEMMA StarterMoves ==
  ASSUME ManagerStartAssumption, FInv, NEW s \in Starters, Starting(s)
  PROVE  FInv'
<1> USE ManagerStartAssumption
    DEF FInv, StartShape, Held, LaunchFileIsHeld, Inside, Steps, LeaveStart,
        Released, FileRemoved, StartUnchanged
<1>1. CASE Start(s)
  BY <1>1 DEF Start
<1>2. CASE Check(s)
  BY <1>2 DEF Check
<1>3. CASE LaunchLock(s)
  BY <1>3 DEF LaunchLock
<1>4. CASE Recheck(s)
  BY <1>4 DEF Recheck
<1>5. CASE Published(s)
  BY <1>5 DEF Published
<1>6. CASE PublicationTimesOut(s)
  BY <1>6 DEF PublicationTimesOut
<1>7. CASE BecomesHealthy(s)
  BY <1>7 DEF BecomesHealthy
<1>8. CASE HealthTimesOut(s)
  BY <1>8 DEF HealthTimesOut
<1> QED
  BY <1>1, <1>2, <1>3, <1>4, <1>5, <1>6, <1>7, <1>8 DEF Starting

(* A killed starter may leave the file, and frees or abandons the lock.    *)
LEMMA StarterDies ==
  ASSUME ManagerStartAssumption, FInv, NEW s \in Starters, StarterCrash(s)
  PROVE  FInv'
BY ManagerStartAssumption DEF FInv, StartShape, Held, LaunchFileIsHeld, Inside, Steps,
   StarterCrash

(* The tray moves between its own steps, all outside start().              *)
LEMMA TrayMoves ==
  ASSUME ManagerStartAssumption, FInv, Ensure \/ StopStranger \/ ExitTimesOut \/ Pair
  PROVE  FInv'
<1> USE ManagerStartAssumption
    DEF FInv, StartShape, Held, LaunchFileIsHeld, Inside, Steps, TrayGoes, StartUnchanged
<1>1. CASE Ensure
  BY <1>1 DEF Ensure
<1>2. CASE StopStranger
  BY <1>2 DEF StopStranger
<1>3. CASE ExitTimesOut
  BY <1>3 DEF ExitTimesOut
<1>4. CASE Pair
  BY <1>4 DEF Pair, NextRound
<1> QED
  BY <1>1, <1>2, <1>3, <1>4

(* No host touches the lock or the file.                                   *)
LEMMA HostsKeepFile ==
  ASSUME FInv, NEW h \in Hosts, Hosting(h)
  PROVE  FInv'
<1>1. UNCHANGED <<lifecycle, launchFile, starter>> /\ (crashes' = crashes \/ HostCrash(h))
  BY DEF Hosting, LockRecord, ReadRecord, WriteRecord, RemoveRecord, Listens, OrphanEnds,
         ManagerExits, HostCrash, HostUnchanged, startVars
<1>2. crashes' \in [host : Nat, starter : Nat] /\ crashes'.starter = crashes.starter
  BY <1>1 DEF FInv, StartShape, HostCrash
<1> QED
  BY <1>1, <1>2 DEF FInv, StartShape, Held, LaunchFileIsHeld

LEMMA FileInductive ==
  ASSUME ManagerStartAssumption, FInv, [Next]_vars
  PROVE  FInv'
<1>1. CASE \E s \in Starters : Starting(s) \/ StarterCrash(s)
  BY <1>1, StarterMoves, StarterDies
<1>2. CASE \E h \in Hosts : Hosting(h)
  BY <1>2, HostsKeepFile
<1>3. CASE Ensure \/ StopStranger \/ ExitTimesOut \/ Pair
  BY <1>3, TrayMoves
<1>4. CASE FileAges
  BY <1>4 DEF FileAges, FInv, StartShape, Held, LaunchFileIsHeld
<1>5. CASE UNCHANGED vars
  BY <1>5 DEF vars, startVars, FInv, StartShape, Held, LaunchFileIsHeld
<1> QED
  BY <1>1, <1>2, <1>3, <1>4, <1>5 DEF Next

(* No starter goes on past start() and leaves manager-launch.lock behind,  *)
(* unless one was killed: every return of start() after _launch_lock       *)
(* removes the file, and no other starter gets past the lifecycle lock in  *)
(* the meantime.                                                           *)
THEOREM LaunchFileOwned == Spec => []LaunchFileIsHeld
<1>1. Init => FInv
  BY ManagerStartAssumption DEF Init, FInv, StartShape, Held, LaunchFileIsHeld, Inside, Steps
<1>2. FInv /\ [Next]_vars => FInv'
  BY FileInductive, ManagerStartAssumption
<1>3. FInv => LaunchFileIsHeld
  BY DEF FInv
<1> QED
  BY <1>1, <1>2, <1>3, PTL DEF Spec

(* The safety of the start as a whole: one host owns the Manager of the    *)
(* desktop, it is the one on record, and the launch file is nobody's who   *)
(* has gone on.                                                            *)
THEOREM StartIsSafe == Spec => []StartSafe
<1>1. RecordNamesOwner /\ OneOwner /\ LaunchFileIsHeld => StartSafe
  BY DEF StartSafe
<1> QED
  BY <1>1, RecordOwned, OwnerIsAlone, LaunchFileOwned, PTL
=============================================================================
