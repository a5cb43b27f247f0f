---------------------------- MODULE ManagerStart ----------------------------
(***************************************************************************)
(* Starting the local Manager: the lifecycle lock, the launch lock and the *)
(* PID record (process_control.py, lifecycle_lock.py), and the host        *)
(* process that keeps the Manager running (manager_host.py).               *)
(*                                                                         *)
(* A starter (the tray or the command line) holds the lifecycle lock while *)
(* it checks that nothing runs, launches a host and waits until the host   *)
(* has published itself in the PID record.  A host that was waited for too *)
(* long is not killed: it may publish when another one has been launched.  *)
(* The tray pairs itself with the Manager by a secret its host inherits,   *)
(* and asks a Manager that does not know it to stop.                       *)
(*                                                                         *)
(* A host stands for one process birth (PID and creation time).            *)
(***************************************************************************)
EXTENDS Naturals, FiniteSets

CONSTANTS Starters, Tray,   \* Tray is the starter that pairs itself
          Hosts,            \* the processes that may be launched
          MaxRestarts,      \* a Manager may ask for (the code's 3 in a minute)
          MaxHostCrashes, MaxStarterCrashes,   \* bounds
          NoOne, Junk       \* Junk: a record that cannot be trusted

ASSUME ManagerStartAssumption ==
    /\ IsFiniteSet(Hosts) /\ {MaxRestarts, MaxHostCrashes, MaxStarterCrashes} \subseteq Nat
    /\ NoOne \notin Starters \cup Hosts /\ Junk \notin Hosts
    /\ Tray \in Starters /\ {"free", "abandoned"} \cap Starters = {}

VARIABLES host,        \* of each host: what it is doing
          manager,     \* the Manager it has started
          secret,      \* the hosts that were given the tray's secret
          restarts,
          record,      \* manager-process.json
          recordLock,  \* the mutex of its mutations
          lifecycle,   \* the install lifecycle mutex: free, held or abandoned
          launchFile,  \* manager-launch.lock: absent, or how old it is
          starter,     \* of each starter: its step in start()
          launched,    \* the host it has launched
          round,       \* of the tray: round of ensure_bootstrap_ready, 0 outside
          crashes

hostVars == <<host, manager, restarts, record, recordLock>>
startVars == <<secret, lifecycle, launchFile, starter, launched, round>>
vars == <<hostVars, startVars, crashes>>

HostSteps == {"none", "launched", "locked", "approved", "running", "leaving", "removing", "gone"}
Managers  == {"none", "starting", "listening", "closing"}
Steps     == {"idle", "check", "lockfile", "recheck", "publish", "health", "pair", "stop", "start", "exit"}

Alive(h)   == host[h] \notin {"none", "gone"}
Owners     == {h \in Hosts : host[h] \in {"running", "leaving", "removing"}}
Healthy    == \E h \in Hosts : manager[h] = "listening"
PortOpen   == Healthy
Paired     == \E h \in secret : manager[h] = "listening"
Recorded   == record \in Hosts /\ Alive(record)

TypeOK ==
    /\ host \in [Hosts -> HostSteps] /\ manager \in [Hosts -> Managers]
    /\ record \in Hosts \cup {NoOne, Junk} /\ recordLock \in Hosts \cup {NoOne}
    /\ starter \in [Starters -> Steps] /\ launched \in [Starters -> Hosts \cup {NoOne}]
    /\ lifecycle \in Starters \cup {"free", "abandoned"} /\ round \in 0..2
    /\ launchFile \in {"absent", "fresh", "stale"}
    /\ \A s \in Starters : starter[s] \in Steps \ {"idle", "pair", "stop", "start", "exit"} <=> lifecycle = s

Init ==
    /\ host = [h \in Hosts |-> "none"] /\ manager = [h \in Hosts |-> "none"]
    /\ secret = {} /\ restarts = [h \in Hosts |-> 0]
    /\ record \in {NoOne, Junk} /\ recordLock = NoOne
    /\ lifecycle = "free" /\ launchFile = "absent"
    /\ starter = [s \in Starters |-> "idle"] /\ launched = [s \in Starters |-> NoOne]
    /\ round = 0 /\ crashes = [host |-> 0, starter |-> 0]

---------------------------------------------------------------------------
(* start()                                                                 *)

StartUnchanged == UNCHANGED <<hostVars, crashes>>

(* InstallLifecycleLock does not wait.  An abandoned lock is refused once  *)
(* and free after that.                                                    *)
Start(s) ==
    /\ starter[s] \in IF s = Tray /\ round > 0 THEN {"start", "exit"} ELSE {"idle"}
    /\ starter[s] = "exit" => ~Healthy /\ ~Recorded /\ ~PortOpen
    /\ IF lifecycle = "free"
       THEN lifecycle' = s /\ starter' = [starter EXCEPT ![s] = "check"] /\ UNCHANGED round
       ELSE /\ lifecycle' = IF lifecycle = "abandoned" THEN "free" ELSE lifecycle
            /\ starter' = [starter EXCEPT ![s] = "idle"]
            /\ round' = IF s = Tray THEN 0 ELSE round
    /\ StartUnchanged /\ UNCHANGED <<secret, launchFile, launched>>

StillHeld   == lifecycle
Released    == "free"
FileStays   == launchFile
FileRemoved == "absent"

(* Every way out of start() frees what it holds; the tray goes on pairing  *)
(* after a healthy result and gives up after an error.                     *)
LeaveStart(s, healthy, file) ==
    /\ lifecycle' = Released /\ launchFile' = file
    /\ launched' = [launched EXCEPT ![s] = NoOne]
    /\ starter' = [starter EXCEPT ![s] = IF s = Tray /\ round > 0 /\ healthy THEN "pair" ELSE "idle"]
    /\ round' = IF s = Tray /\ ~healthy THEN 0 ELSE round
    /\ UNCHANGED secret

Occupied == Recorded \/ PortOpen \/ record = Junk
Check(s) ==
    /\ starter[s] = "check" /\ StartUnchanged
    /\ IF Healthy \/ Occupied THEN LeaveStart(s, Healthy, launchFile)
       ELSE /\ starter' = [starter EXCEPT ![s] = "lockfile"]
            /\ UNCHANGED <<secret, lifecycle, launchFile, launched, round>>

(* _launch_lock: a file older than a minute is taken over.                 *)
LaunchLock(s) ==
    /\ starter[s] = "lockfile" /\ StartUnchanged
    /\ IF launchFile = "fresh" THEN LeaveStart(s, FALSE, launchFile)
       ELSE /\ launchFile' = "fresh" /\ starter' = [starter EXCEPT ![s] = "recheck"]
            /\ UNCHANGED <<secret, lifecycle, launched, round>>

Recheck(s) ==
    /\ starter[s] = "recheck" /\ UNCHANGED crashes
    /\ IF Healthy \/ Occupied
       THEN LeaveStart(s, Healthy, FileRemoved) /\ UNCHANGED hostVars
       ELSE \/ LeaveStart(s, FALSE, FileRemoved) /\ UNCHANGED hostVars  \* no process
            \/ \E h \in {x \in Hosts : host[x] = "none"} :
              /\ host' = [host EXCEPT ![h] = "launched"]
              /\ secret' = IF s = Tray THEN secret \cup {h} ELSE secret
              /\ launched' = [launched EXCEPT ![s] = h]
              /\ starter' = [starter EXCEPT ![s] = "publish"]
              /\ UNCHANGED <<manager, restarts, record, recordLock, lifecycle, launchFile, round>>

(* _wait_for_manager_pid_record_publication, or its timeout; then wait for *)
(* health, or for the host's end, or the timeout.                          *)
Published(s) ==
    /\ starter[s] = "publish" /\ StartUnchanged
    /\ record = launched[s] /\ Alive(record)
    /\ starter' = [starter EXCEPT ![s] = "health"] /\ launchFile' = FileRemoved
    /\ UNCHANGED <<secret, lifecycle, launched, round>>
HostEnded(s)      == ~Alive(launched[s])
DeadlinePassed(s) == TRUE
PublicationTimesOut(s) ==
    starter[s] = "publish" /\ DeadlinePassed(s) /\ StartUnchanged /\ LeaveStart(s, FALSE, FileRemoved)
BecomesHealthy(s) ==
    starter[s] = "health" /\ Healthy /\ StartUnchanged /\ LeaveStart(s, TRUE, launchFile)
HealthTimesOut(s) ==
    starter[s] = "health" /\ StartUnchanged /\ LeaveStart(s, FALSE, launchFile)

FileAges ==
    /\ launchFile = "fresh" /\ launchFile' = "stale"
    /\ UNCHANGED <<hostVars, secret, lifecycle, starter, launched, round, crashes>>

(* The starter is killed: the file stays, and so does the mutex while      *)
(* another process has it open.                                            *)
StarterCrash(s) ==
    /\ crashes.starter < MaxStarterCrashes /\ starter[s] # "idle"
    /\ crashes' = [crashes EXCEPT !.starter = @ + 1]
    /\ lifecycle' \in IF lifecycle = s THEN {"abandoned", "free"} ELSE {lifecycle}
    /\ starter' = [starter EXCEPT ![s] = "idle"] /\ launched' = [launched EXCEPT ![s] = NoOne]
    /\ round' = IF s = Tray THEN 0 ELSE round
    /\ UNCHANGED <<hostVars, secret, launchFile>>

---------------------------------------------------------------------------
(* ensure_bootstrap_ready: at most two rounds.                             *)

TrayGoes(step, r) ==
    /\ starter' = [starter EXCEPT ![Tray] = step] /\ round' = r
    /\ UNCHANGED <<secret, lifecycle, launchFile, launched>>

Ensure == starter[Tray] = "idle" /\ round = 0 /\ StartUnchanged /\ TrayGoes("stop", 1)

(* Ready: return.  Healthy but strange: ask it to stop and wait for the    *)
(* end of host and listener.  Otherwise start.                             *)
StopStranger ==
    /\ starter[Tray] = "stop" /\ UNCHANGED crashes
    /\ IF Paired THEN TrayGoes("idle", 0) /\ UNCHANGED hostVars
       ELSE /\ TrayGoes(IF Healthy THEN "exit" ELSE "start", round)
            /\ manager' = [h \in Hosts |-> IF manager[h] = "listening" THEN "closing" ELSE manager[h]]
            /\ UNCHANGED <<host, restarts, record, recordLock>>
ExitTimesOut == starter[Tray] = "exit" /\ StartUnchanged /\ TrayGoes("idle", 0)

NextRound(r) == IF r < 2 THEN "stop" ELSE "idle"
Pair ==
    /\ starter[Tray] = "pair" /\ StartUnchanged
    /\ IF Paired \/ NextRound(round) = "idle" THEN TrayGoes("idle", 0)
       ELSE TrayGoes(NextRound(round), IF round < 2 THEN round + 1 ELSE round)

---------------------------------------------------------------------------
(* manager_host.main                                                       *)

HostUnchanged == UNCHANGED <<startVars, crashes>>

Unlocked == TRUE
LockFree == recordLock = NoOne
LockRecord(h) ==
    /\ host[h] \in {"launched", "leaving"} /\ LockFree
    /\ recordLock' = h
    /\ host' = [host EXCEPT ![h] = IF @ = "launched" THEN "locked" ELSE "removing"]
    /\ UNCHANGED <<manager, restarts, record>> /\ HostUnchanged

(* publish_manager_pid_record: a record of a live process, or one that     *)
(* cannot be trusted, refuses the publication.                             *)
Distrusted == record = Junk
Refused    == Recorded \/ record = Junk
ReadRecord(h) ==
    /\ host[h] = "locked"
    /\ IF Refused
       THEN host' = [host EXCEPT ![h] = "gone"] /\ recordLock' = NoOne
       ELSE host' = [host EXCEPT ![h] = "approved"] /\ UNCHANGED recordLock
    /\ UNCHANGED <<manager, restarts, record>> /\ HostUnchanged

WriteRecord(h) ==
    /\ host[h] = "approved" /\ record' = h /\ recordLock' = NoOne
    /\ host' = [host EXCEPT ![h] = "running"] /\ manager' = [manager EXCEPT ![h] = "starting"]
    /\ UNCHANGED restarts /\ HostUnchanged

(* The Manager is external: it listens, or ends at any time.               *)
Listens(h) ==
    /\ manager[h] = "starting" /\ ~PortOpen /\ manager' = [manager EXCEPT ![h] = "listening"]
    /\ UNCHANGED <<host, restarts, record, recordLock>> /\ HostUnchanged
OrphanEnds(h) ==
    /\ manager[h] # "none" /\ host[h] = "gone" /\ manager' = [manager EXCEPT ![h] = "none"]
    /\ UNCHANGED <<host, restarts, record, recordLock>> /\ HostUnchanged

(* run_manager: exit code 75 starts it again, up to a bound.               *)
ManagerExits(h) ==
    /\ manager[h] # "none" /\ host[h] = "running" /\ UNCHANGED <<record, recordLock>>
    /\ \/ /\ restarts[h] < MaxRestarts
          /\ restarts' = [restarts EXCEPT ![h] = @ + 1]
          /\ manager' = [manager EXCEPT ![h] = "starting"] /\ UNCHANGED host
       \/ /\ manager' = [manager EXCEPT ![h] = "none"]
          /\ host' = [host EXCEPT ![h] = "leaving"] /\ UNCHANGED restarts
    /\ HostUnchanged

(* remove_manager_pid_record_if_owned                                      *)
RemoveRecord(h) ==
    /\ host[h] = "removing" /\ host' = [host EXCEPT ![h] = "gone"]
    /\ record' = IF record = h THEN NoOne ELSE record
    /\ recordLock' = NoOne
    /\ UNCHANGED <<manager, restarts>> /\ HostUnchanged

(* The host is killed; its Manager is not.                                 *)
HostCrash(h) ==
    /\ Alive(h) /\ crashes.host < MaxHostCrashes
    /\ crashes' = [crashes EXCEPT !.host = @ + 1]
    /\ host' = [host EXCEPT ![h] = "gone"]
    /\ recordLock' = IF recordLock = h THEN NoOne ELSE recordLock
    /\ UNCHANGED <<manager, restarts, record, startVars>>

Starting(s) ==
    \/ Start(s) \/ Check(s) \/ LaunchLock(s) \/ Recheck(s)
    \/ Published(s) \/ PublicationTimesOut(s) \/ BecomesHealthy(s) \/ HealthTimesOut(s)
InStart(s) ==
    \/ Check(s) \/ LaunchLock(s) \/ Recheck(s) \/ PublicationTimesOut(s) \/ HealthTimesOut(s)
Hosting(h) ==
    \/ LockRecord(h) \/ ReadRecord(h) \/ WriteRecord(h) \/ RemoveRecord(h)
    \/ Listens(h) \/ OrphanEnds(h) \/ ManagerExits(h) \/ HostCrash(h)

Next ==
    \/ \E s \in Starters : Starting(s) \/ StarterCrash(s)
    \/ \E h \in Hosts : Hosting(h)
    \/ FileAges \/ Ensure \/ StopStranger \/ ExitTimesOut \/ Pair

Spec == Init /\ [][Next]_vars

(* The steps of a starter are bounded by their timeouts.                   *)
FairSpec ==
    /\ Spec
    /\ \A s \in Starters : WF_vars(InStart(s))
    /\ WF_vars(starter[Tray] = "start" /\ Start(Tray)) /\ WF_vars(StopStranger) /\ WF_vars(ExitTimesOut) /\ WF_vars(Pair)

---------------------------------------------------------------------------
(* Two hosts never both keep a Manager running, however late a launched    *)
(* host publishes itself, and whoever is killed in between.                *)
OneOwner == Cardinality(Owners) <= 1

(* The record names the host that is running: no other host, late or       *)
(* leaving, replaces or removes it.                                        *)
RecordNamesOwner == \A h \in Owners : record = h

(* The launch file is held only by the starter that holds the lifecycle    *)
(* lock, or is left by a starter that was killed.                          *)
LaunchFileIsHeld ==
    launchFile # "absent" =>
       \/ crashes.starter > 0
       \/ \E s \in Starters : lifecycle = s /\ starter[s] \in {"recheck", "publish"}

(* One host owns the desktop's Manager and is the one on record, and the   *)
(* launch file is nobody's who has gone on (start, manager_host.main).     *)
StartSafe == RecordNamesOwner /\ OneOwner /\ LaunchFileIsHeld

(* Every start, and every pairing of the tray, comes to its end: nobody    *)
(* keeps the lifecycle lock, also when hosts die and Managers hang.        *)
StartsEnd == \A s \in Starters : starter[s] # "idle" ~> starter[s] = "idle"
=============================================================================
