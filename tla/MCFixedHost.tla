---------------------------- MODULE MCFixedHost ----------------------------
(***************************************************************************)
(* The fixed Host executable and the packages it is given, checked in one  *)
(* run.  subject names the part that moves in a behaviour and the corner   *)
(* of its bounds it stays in; the other part rests where it began.         *)
(***************************************************************************)
EXTENDS Integers, Sequences, FiniteSets

CONSTANTS
  RunnerTodos, MaxLines, MaxCancels, Controls, MayFault,
  Builds, Unsafe, Legacy, LegacyPromoted, MaxPromotions, MaxInstalls, MaxRuns, MaxFaults,
  MaxDamage, MaxCrashes

VARIABLES subject,
  runner, pipe, job, host, out, relay, over, files, stdin, left,
  live, evidence, ledger, promo, exec, packageHost, runActive, install, budget, proven

Relay == INSTANCE HostRelay WITH Todos <- RunnerTodos
Package == INSTANCE PackagePromotion WITH host <- packageHost

\* The same where no compatibility package is promoted.
Module == INSTANCE PackagePromotion WITH LegacyPromoted <- FALSE, host <- packageHost

relayVs == <<runner, pipe, job, host, out, relay, over, files, stdin, left>>
packageVs == <<live, evidence, ledger, promo, exec, packageHost, runActive, install, budget, proven>>

Relays == {"lines", "cancelled", "controlled"}
Packages == {"package", "module", "alone"}

MCInit ==
  /\ subject \in Relays \cup Packages
  /\ Relay!Init /\ Package!Init
  /\ subject \in Relays => evidence = "none" /\ live.content = CHOOSE b \in Builds : TRUE

\* A runner of three lines that says hello, completes a Todo and ends; one of two
\* lines and a cancellation; one of one line, two cancellations and control lines.
Forwards ==
  /\ Relay!Next
  /\ subject # "controlled" => stdin' = stdin
  /\ subject = "lines" => left'.cancels = MaxCancels
  /\ subject = "cancelled" => left'.lines > 0 /\ left'.cancels > 0
  /\ subject = "controlled" => left'.lines > 1

\* A module beside a promoted compatibility package, with faults and a crash; a
\* module alone, more often installed, without faults; a module alone, without an
\* installer, and a step that fails.
Spares(names) == \A f \in names : budget'[f] > 0
Whole(names) == \A f \in names : budget'[f] = budget[f]
Promotes ==
  \/ /\ subject = "package" /\ Package!Next
     /\ Spares({"promotions", "installs", "runs"})
  \/ /\ subject = "module" /\ Module!Next
     /\ Spares({"promotions", "runs"}) /\ Whole({"faults", "crashes"})
  \/ /\ subject = "alone" /\ Module!Next
     /\ Whole({"installs", "damage", "crashes"})

MCNext ==
  \/ subject \in Relays /\ Forwards /\ UNCHANGED <<subject, packageVs>>
  \/ Promotes /\ UNCHANGED <<subject, relayVs>>

MCSpec == MCInit /\ [][MCNext]_<<subject, relayVs, packageVs>>

ASSUME FixedHostAssumption ==
  Relay!RelayAssumption /\ Package!PromotionAssumption

---------------------------------------------------------------------------
(* What the fixed Host forwards to the Manager is one truthful end, and    *)
(* nothing of a runner survives it (YeYuGamerAdapterHost.cs).              *)
RelayHonest == Relay!Honest

\* No step of a promotion has failed and no Manager has died; nobody else has
\* touched the directory.
Unfailed == budget.faults = MaxFaults /\ budget.crashes = MaxCrashes
Undisturbed ==
  budget.installs = MaxInstalls /\ budget.damage = MaxDamage /\ budget.crashes = MaxCrashes

(* Only content with test evidence runs, no directory is moved under a     *)
(* Host, a promoted module has its receipt in the ledger until a step      *)
(* fails, and a failed promotion leaves the candidate of a directory that  *)
(* nobody else has touched (promote_candidate).                            *)
PromotionSafe ==
  /\ [](Package!TypeOK /\ Package!ProvenRuns /\ (Unfailed => Package!PromotedIsLedgered))
  /\ Package!SwapWhileIdle
  /\ [][Undisturbed' => Package!RestoresStep]_(Package!vars)
=============================================================================
