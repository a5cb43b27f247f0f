-------------------------- MODULE PackagePromotion --------------------------
(***************************************************************************)
(* How one game's execution package becomes executable, and how it is      *)
(* executed: the installer script that puts a candidate into the module's  *)
(* directory, the Manager's promote_candidate that verifies it and swaps   *)
(* in a promoted copy, execute() that verifies a promoted package and      *)
(* starts the Fixed Host, and the Host, which loads the package again.     *)
(*                                                                         *)
(* A promotion runs inside one database transaction (run_idempotent keeps  *)
(* the write scope around the operation) and, while it touches the         *)
(* directory, under the execution lock.  The installer takes neither.      *)
(* The directory survives a crash; the transaction does not.               *)
(***************************************************************************)
EXTENDS Naturals, FiniteSets

CONSTANTS
  Builds,          \* the contents a package can be built with
  Unsafe,          \* those whose manifest enables a denied action
  Legacy,          \* the compatibility package's content
  LegacyPromoted,  \* whether that package is promoted and supports the game
  MaxPromotions, MaxInstalls, MaxRuns, MaxFaults, MaxDamage, MaxCrashes

PromotionAssumption ==
  /\ Unsafe \subseteq Builds /\ Legacy \notin Builds
  /\ LegacyPromoted \in BOOLEAN
  /\ {MaxPromotions, MaxInstalls, MaxRuns, MaxFaults, MaxDamage, MaxCrashes} \subseteq Nat

VARIABLES
  live,      \* the module's directory
  evidence,  \* the build the fixed candidate-test-evidence.json binds
  ledger,    \* committed promotion receipts
  promo,     \* the promotion command
  exec,      \* the thread in execute()
  host,      \* the Fixed Host's process
  runActive, \* whether the ledger holds a run that occupies execution
  install,   \* the installer script
  budget,    \* what is left of the bounds
  proven     \* history: builds that ever had test evidence

vars == <<live, evidence, ledger, promo, exec, host, runActive, install, budget, proven>>

Damaged == "damaged"
None == "none"
\* content: what the files hold; declared: what the manifest's hashes say;
\* bound: promotion.payloadDigest
Missing == [content |-> None, declared |-> None, bound |-> None, status |-> None, receipt |-> 0]
Candidate(b) == [content |-> b, declared |-> b, bound |-> b, status |-> "candidate", receipt |-> 0]
LegacyPackage ==
  [Candidate(Legacy) EXCEPT !.status = IF LegacyPromoted THEN "promoted" ELSE "candidate"]

NoPromo == [pc |-> "idle", build |-> None, id |-> 0, incoming |-> Missing,
            backup |-> Missing, before |-> Missing]
NoExec == [pc |-> "idle", root |-> None, seen |-> Missing]
NoHost == [pc |-> None, root |-> None, content |-> None]

Init ==
  /\ live \in {Candidate(b) : b \in Builds}
  /\ evidence \in {None, live.declared}
  /\ ledger = {[id |-> 0, build |-> Legacy]}
  /\ promo = NoPromo /\ exec = NoExec /\ host = NoHost
  /\ runActive = FALSE
  /\ install = [pc |-> "idle", build |-> None]
  /\ budget = [promotions |-> MaxPromotions, installs |-> MaxInstalls, runs |-> MaxRuns,
               faults |-> MaxFaults, damage |-> MaxDamage, crashes |-> MaxCrashes]
  /\ proven = {evidence, Legacy}

Spend(what) == budget[what] > 0 /\ budget' = [budget EXCEPT ![what] = @ - 1]

----------------------------------------------------------------------------
(* Verification                                                            *)

\* every declared file is there with its size and hash, and nothing else
FilesIntact(p) == p # Missing /\ p.content = p.declared

\* game scope, forbidden classes, bindings, limits and the three security flags
ManifestSafe(p) == p.declared \notin Unsafe

PayloadBound(p) == p.bound = p.declared

CandidateOk(p) == /\ FilesIntact(p) /\ ManifestSafe(p) /\ PayloadBound(p)
                  /\ p.status = "candidate"

\* the receipt file and, through the resolver, the ledger's row
ReceiptOk(p, rows) == [id |-> p.receipt, build |-> p.declared] \in rows

PromotedOk(p, rows) == /\ FilesIntact(p) /\ ManifestSafe(p) /\ PayloadBound(p)
                       /\ p.status = "promoted" /\ ReceiptOk(p, rows)

EvidenceForAnyBuild == evidence # None
EvidenceOk == evidence = live.declared

\* the Host has the receipt file but not the Manager's ledger; a receipt file
\* is only ever written into a copy made by a promotion
HostAccepts(p) == FilesIntact(p) /\ ManifestSafe(p) /\ PayloadBound(p) /\ p.status = "promoted"

----------------------------------------------------------------------------
(* promote_candidate                                                       *)

InTransaction == promo.pc # "idle"
HoldsExecutionLock == promo.pc \in {"issued", "copied", "swappedOut", "swappedIn"}

HostBusyIgnored == FALSE
HostBusy == host.pc # None

\* request_adapter_governance: occupancy, then the store's write scope
Begin ==
  /\ ~InTransaction /\ ~runActive /\ ~HostBusy
  /\ Spend("promotions")
  /\ promo' = [NoPromo EXCEPT !.pc = "begun", !.id = MaxPromotions - budget.promotions + 1]
  /\ UNCHANGED <<live, evidence, ledger, exec, host, runActive, install, proven>>

Abort == promo' = NoPromo /\ UNCHANGED ledger

\* execution lock, candidate, test evidence, canary and receipt rows
VerifyCandidate ==
  /\ promo.pc = "begun"
  /\ IF ~HostBusy /\ CandidateOk(live) /\ EvidenceOk
     THEN /\ promo' = [promo EXCEPT !.pc = "issued", !.build = live.declared, !.before = live]
          /\ UNCHANGED ledger
     ELSE Abort
  /\ UNCHANGED <<live, evidence, exec, host, runActive, install, budget, proven>>

CopyStaysCandidate == [live EXCEPT !.bound = promo.build, !.receipt = promo.id]
PromotedCopy ==
  [live EXCEPT !.bound = promo.build, !.status = "promoted", !.receipt = promo.id]

\* copytree, then the copy's manifest and receipt are written for the build
\* that was verified
CopyCandidate ==
  /\ promo.pc = "issued"
  /\ IF live = Missing THEN Abort
     ELSE /\ promo' = [promo EXCEPT !.pc = "copied", !.incoming = PromotedCopy]
          /\ UNCHANGED ledger
  /\ UNCHANGED <<live, evidence, exec, host, runActive, install, budget, proven>>

OwnRows == ledger \cup {[id |-> promo.id, build |-> promo.build]}

\* the copy is verified, then the first rename
SwapOut ==
  /\ promo.pc = "copied"
  /\ \/ /\ PromotedOk(promo.incoming, OwnRows) /\ live # Missing
        /\ promo' = [promo EXCEPT !.pc = "swappedOut", !.backup = live]
        /\ live' = Missing
        /\ UNCHANGED <<ledger, budget>>
     \/ /\ ~PromotedOk(promo.incoming, OwnRows) \/ live = Missing
        /\ Abort /\ UNCHANGED <<live, budget>>
     \/ Spend("faults") /\ Abort /\ UNCHANGED live
  /\ UNCHANGED <<evidence, exec, host, runActive, install, proven>>

RestoreNothing == UNCHANGED live
RestoreBackup == live' = IF live = Missing THEN promo.backup ELSE live

\* the second rename; a directory that has appeared meanwhile makes it fail
SwapIn ==
  /\ promo.pc = "swappedOut"
  /\ \/ /\ live = Missing
        /\ live' = promo.incoming
        /\ promo' = [promo EXCEPT !.pc = "swappedIn"]
        /\ UNCHANGED <<ledger, budget>>
     \/ live # Missing /\ RestoreBackup /\ Abort /\ UNCHANGED budget
     \/ Spend("faults") /\ RestoreBackup /\ Abort
  /\ UNCHANGED <<evidence, exec, host, runActive, install, proven>>

\* the package is renamed away and the backup put back; both need a package
RollBack == live' = IF live = Missing THEN Missing ELSE promo.backup

\* the installed package and the Host's own manifest are verified in place
VerifyLive ==
  /\ promo.pc = "swappedIn"
  /\ \/ /\ PromotedOk(live, OwnRows)
        /\ promo' = [promo EXCEPT !.pc = "installed"]
        /\ UNCHANGED <<live, ledger, budget>>
     \/ /\ ~PromotedOk(live, OwnRows)
        /\ RollBack /\ Abort /\ UNCHANGED budget
     \/ Spend("faults") /\ RollBack /\ Abort
  /\ UNCHANGED <<evidence, exec, host, runActive, install, proven>>

\* the lock is released; governance row, metadata, idempotency row and COMMIT
Commit ==
  /\ promo.pc = "installed"
  /\ \/ ledger' = OwnRows /\ promo' = NoPromo /\ UNCHANGED budget
     \/ Spend("faults") /\ Abort
  /\ UNCHANGED <<live, evidence, exec, host, runActive, install, proven>>

----------------------------------------------------------------------------
(* execute                                                                 *)

\* a run is started; its thread passes the start guard
StartRun ==
  /\ ~InTransaction /\ exec.pc = "idle" /\ ~runActive
  /\ Spend("runs")
  /\ runActive' = TRUE
  /\ exec' = [NoExec EXCEPT !.pc = "guarded"]
  /\ UNCHANGED <<live, evidence, ledger, promo, host, install, proven>>

\* the ledger's run is cancelled; the thread learns of it only later
CancelRun ==
  /\ ~InTransaction /\ runActive
  /\ runActive' = FALSE
  /\ UNCHANGED <<live, evidence, ledger, promo, exec, host, install, budget, proven>>

ResolvedRoot == IF live # Missing THEN "module" ELSE "legacy"
PackageAt(root) == IF root = "module" THEN live ELSE LegacyPackage

\* package_root, for the Host's environment
ChooseRoot ==
  /\ exec.pc = "guarded"
  /\ exec' = [exec EXCEPT !.pc = "rooted", !.root = ResolvedRoot]
  /\ UNCHANGED <<live, evidence, ledger, promo, host, runActive, install, budget, proven>>

\* _verified_execution_manifest resolves the root once more and reads it
ReadManifest ==
  /\ exec.pc = "rooted"
  /\ exec' = [exec EXCEPT !.pc = "read", !.seen = PackageAt(ResolvedRoot)]
  /\ UNCHANGED <<live, evidence, ledger, promo, host, runActive, install, budget, proven>>

Unavailable == exec' = NoExec /\ runActive' = FALSE /\ UNCHANGED host

\* the receipt resolver waits for the store's lock
ResolveReceipt ==
  /\ exec.pc = "read" /\ ~InTransaction
  /\ IF PromotedOk(exec.seen, ledger)
     THEN exec' = [exec EXCEPT !.pc = "ready"] /\ UNCHANGED <<runActive, host>>
     ELSE Unavailable
  /\ UNCHANGED <<live, evidence, ledger, promo, install, budget, proven>>

\* under the execution lock; the run is not looked at again
StartHost ==
  /\ exec.pc = "ready" /\ ~HoldsExecutionLock
  /\ IF host.pc # None THEN Unavailable
     ELSE /\ host' = [NoHost EXCEPT !.pc = "starting", !.root = exec.root]
          /\ exec' = [exec EXCEPT !.pc = "started"]
          /\ UNCHANGED runActive
  /\ UNCHANGED <<live, evidence, ledger, promo, install, budget, proven>>

\* the Host verifies the package it was pointed at and starts its runner
HostLoads ==
  /\ host.pc = "starting"
  /\ IF HostAccepts(PackageAt(host.root))
     THEN host' = [host EXCEPT !.pc = "running", !.content = PackageAt(host.root).content]
     ELSE host' = NoHost
  /\ UNCHANGED <<live, evidence, ledger, promo, exec, runActive, install, budget, proven>>

HostExits ==
  /\ host.pc = "running"
  /\ host' = NoHost
  /\ UNCHANGED <<live, evidence, ledger, promo, exec, runActive, install, budget, proven>>

\* the watcher's completion
RunEnds ==
  /\ exec.pc = "started" /\ host.pc = None /\ ~InTransaction
  /\ exec' = NoExec /\ runActive' = FALSE
  /\ UNCHANGED <<live, evidence, ledger, promo, host, install, budget, proven>>

----------------------------------------------------------------------------
(* The installer script, damage on disk, and a crash of the Manager        *)

\* no runner.exe under the module; the candidate is copied and verified
InstallBegin(b) ==
  /\ install.pc = "idle" /\ host.pc # "running"
  /\ Spend("installs")
  /\ install' = [pc |-> "staged", build |-> b]
  /\ UNCHANGED <<live, evidence, ledger, promo, exec, host, runActive, proven>>

InstallMovesOut ==
  /\ install.pc = "staged" /\ host.pc # "running"
  /\ live' = Missing
  /\ install' = [install EXCEPT !.pc = "moved"]
  /\ UNCHANGED <<evidence, ledger, promo, exec, host, runActive, budget, proven>>

\* a directory that has appeared meanwhile makes the move fail
InstallMovesIn ==
  /\ install.pc = "moved"
  /\ IF live = Missing
     THEN live' = Candidate(install.build) /\ install' = [install EXCEPT !.pc = "evidence"]
     ELSE UNCHANGED live /\ install' = [pc |-> "idle", build |-> None]
  /\ UNCHANGED <<evidence, ledger, promo, exec, host, runActive, budget, proven>>

\* the script may end before this, which leaves the previous build's evidence
InstallEvidence ==
  /\ install.pc = "evidence"
  /\ \/ evidence' = install.build /\ proven' = proven \cup {install.build}
     \/ UNCHANGED <<evidence, proven>>
  /\ install' = [pc |-> "idle", build |-> None]
  /\ UNCHANGED <<live, ledger, promo, exec, host, runActive, budget>>

DamageFile ==
  /\ live # Missing /\ host.pc # "running"
  /\ Spend("damage")
  /\ live' = [live EXCEPT !.content = Damaged]
  /\ UNCHANGED <<evidence, ledger, promo, exec, host, runActive, install, proven>>

\* the Manager ends while no Host runs: the transaction is gone
Crash ==
  /\ host.pc = None
  /\ Spend("crashes")
  /\ promo' = NoPromo /\ exec' = NoExec /\ runActive' = FALSE
  /\ UNCHANGED <<live, evidence, ledger, host, install, proven>>

Promote == Begin \/ VerifyCandidate \/ CopyCandidate \/ SwapOut \/ SwapIn \/ VerifyLive \/ Commit
Execute == \/ StartRun \/ CancelRun \/ ChooseRoot \/ ReadManifest \/ ResolveReceipt
           \/ StartHost \/ HostLoads \/ HostExits \/ RunEnds
Install == (\E b \in Builds : InstallBegin(b)) \/ InstallMovesOut \/ InstallMovesIn \/ InstallEvidence

Next == Promote \/ Execute \/ Install \/ DamageFile \/ Crash

Spec == Init /\ [][Next]_vars

----------------------------------------------------------------------------
(* Properties                                                              *)

Package == [content : Builds \cup {Damaged, None, Legacy}, declared : Builds \cup {None, Legacy},
            bound : Builds \cup {None, Legacy}, status : {"candidate", "promoted", None},
            receipt : 0..MaxPromotions]

\* The shapes of the directory, the receipts and the actors' records.
TypeOK ==
  /\ \A p \in {live, promo.incoming, promo.backup, promo.before, exec.seen} :
       p \in Package /\ (p.receipt # 0 => p.status = "promoted")
  /\ evidence \in Builds \cup {None}
  /\ ledger \subseteq [id : 0..MaxPromotions, build : Builds \cup {Legacy}]
  /\ promo.pc \in {"idle", "begun", "issued", "copied", "swappedOut", "swappedIn", "installed"}
  /\ exec.pc \in {"idle", "guarded", "rooted", "read", "ready", "started"}
  /\ host.pc \in {None, "starting", "running"}
  /\ install.pc \in {"idle", "staged", "moved", "evidence"}

\* Whatever the installer, damage on disk, a failed step or a crash does
\* between the verification of a candidate, its copy, the two renames and the
\* Host's own loading, a runner only ever starts from content that had test
\* evidence and a safe manifest.
ProvenRuns == host.pc = "running" => host.content \in proven \ Unsafe

\* promote_candidate never moves the module's directory under a Host that has
\* been started: neither one that loads the package nor one that runs it.
SwapWhileIdle ==
  [][(promo.pc \in {"copied", "swappedOut", "swappedIn"} /\ promo' # promo /\ live' # live)
     => (host.pc = None)]_vars

\* When the install step of a promotion fails anywhere, the candidate that
\* was there is there again.
RestoresStep ==
  (promo.pc \in {"copied", "swappedOut", "swappedIn"} /\ promo'.pc = "idle")
     => (live' = promo.before)
FailureRestores == [][RestoresStep]_vars

\* Outside a promotion a promoted module has its receipt in the Manager's
\* ledger; without it the package can neither run nor be promoted again.
PromotedIsLedgered ==
  (~InTransaction /\ live.status = "promoted")
    => [id |-> live.receipt, build |-> live.bound] \in ledger

\* "The live package changes through one directory swap while the same lock
\* that fences execution is held": an execution of a game whose module is
\* installed never falls back to the compatibility package.
ModuleExecutes == host.pc = "running" => host.root = "module"
=============================================================================
