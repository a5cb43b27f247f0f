----------------------------- MODULE MCDesktop -----------------------------
(***************************************************************************)
(* Who has the desktop and what is done on it, checked in one run: the     *)
(* ledger of controller leases, the resume that waits for a lease, and the *)
(* launch and the end of a game.  subject names the part that moves in a   *)
(* behaviour and the corner of its bounds it stays in; the others rest     *)
(* where they began.                                                       *)
(***************************************************************************)
EXTENDS ControllerLease, Sequences, FiniteSets, Integers

CONSTANTS
  None,
  Commands, Todos, Memberships, Startable, MaxAttempts, MaxIntents, MaxControls, MaxCrashes,
  Pids, MaxBorn, Modes,
  Kinds, Existing, MaxAppeared, StartPolls, ReadyPolls, CapPolls, UiPolls, MaxActions, MaxRecycles,
  MaxRestores

VARIABLES subject,
  run, attempts, intents, todo, takeover, member, ready, host, stop, owed, thr, cb, closed, up,
  controls, crashes,
  table, born, handle, pc, mode, pass, bound, targets, listing, asOf, remaining, baseline,
  preexisting, launched, cancelled, killed, receipt,
  kind, procs, appeared, step, branch, running, before, wait, startLeft, wanted, recycles, surface,
  reactivated, abandoned, gate, atGate, recycled, cleaned, clicks, late, beside, outcome

\* The successors of one run, the end of its client, and the launch of one.
Resume == INSTANCE ResumeRun
Closing == INSTANCE GameClose
Launching == INSTANCE GameLaunch WITH MaxBorn <- MaxAppeared,
  born <- appeared, pc <- step, baseline <- before, targets <- wanted, cancelled <- abandoned,
  killed <- recycled

\* A WW launcher that is waited for, and one that is replaced: other deadlines.
Waited == INSTANCE GameLaunch WITH Kinds <- {"ww"}, Existing <- {}, MaxBorn <- 2,
  StartPolls <- 1, ReadyPolls <- 4, CapPolls <- 4, UiPolls <- 1, MaxActions <- 1, MaxRecycles <- 1,
  MaxRestores <- 0,
  born <- appeared, pc <- step, baseline <- before, targets <- wanted, cancelled <- abandoned,
  killed <- recycled
Replaced == INSTANCE GameLaunch WITH Kinds <- {"ww"}, Existing <- {}, MaxBorn <- 3,
  StartPolls <- 1, ReadyPolls <- 1, CapPolls <- 1, UiPolls <- 1, MaxActions <- 1, MaxRecycles <- 1,
  MaxRestores <- 0,
  born <- appeared, pc <- step, baseline <- before, targets <- wanted, cancelled <- abandoned,
  killed <- recycled

resumeVs == <<run, attempts, intents, todo, takeover, member, ready, host, stop, owed, thr, cb,
  closed, up, controls, crashes>>
closeVs == <<table, born, handle, pc, mode, pass, bound, targets, listing, asOf, remaining,
  baseline, preexisting, launched, cancelled, killed, receipt>>
launchVs == <<kind, procs, appeared, step, branch, running, before, wait, startLeft, wanted,
  recycles, surface, reactivated, abandoned, gate, atGate, recycled, cleaned, clicks, late,
  beside, outcome>>

InResume == {"alone", "crashed", "member", "controlled"}
InLaunch == {"waited", "replaced", "others"}
InClose == {"pair", "reused", "started"}
Parts == {"lease"} \cup InClose \cup InResume \cup InLaunch

MCInit ==
  /\ subject \in Parts
  /\ Init /\ Resume!Init /\ Closing!Init /\ Launching!Init
  /\ ready = (subject \in {"member", "controlled"})
  /\ mode = IF subject = "started" THEN "started" ELSE "queue"
  /\ (kind # "ww") = (subject = "others")
  /\ subject \notin InResume => todo = [t \in Todos |-> "pending"] /\ run = "failed"

\* The two threads are interchangeable: the second only begins beside the first.
First == CHOOSE c \in Commands : TRUE
InOrder == \A c \in Commands \ {First} : thr[c].pc = "idle" /\ thr'[c].pc # "idle" => thr[First].pc # "idle"

\* Two resumes of one run beside a control command; beside a crash; of the
\* member of a batch; and one resume beside two control commands and a crash.
Resumes ==
  /\ subject \in InResume
  /\ Resume!Next /\ InOrder
  /\ subject = "alone" => Len(attempts') <= 2 /\ controls' <= 1 /\ crashes' = 0
  /\ subject \in {"crashed", "member"} => controls' = 0
  /\ subject = "controlled" => Len(intents') <= 1

\* The queue and two clients; an identifier that is handed out three times;
\* a launch that cleans up among three processes.
Only == CHOOSE p \in Pids : TRUE
Closes ==
  /\ subject \in InClose
  /\ Closing!Next
  /\ subject = "pair" => born' <= 2
  /\ subject = "reused" => \A p \in Pids \ {Only} : table'[p] = None

\* A WW launcher that is waited for, one that is replaced, and the other games.
Launches ==
  \/ subject = "waited" /\ Waited!Next
  \/ subject = "replaced" /\ Replaced!Next
  \/ subject = "others" /\ Launching!Next /\ appeared' <= 2

MCNext ==
  \/ subject = "lease" /\ Next /\ UNCHANGED <<subject, resumeVs, closeVs, launchVs>>
  \/ Resumes /\ UNCHANGED <<subject, vars, closeVs, launchVs>>
  \/ Closes /\ UNCHANGED <<subject, vars, resumeVs, launchVs>>
  \/ Launches /\ UNCHANGED <<subject, vars, resumeVs, closeVs>>

MCSpec == MCInit /\ [][MCNext]_<<subject, vars, resumeVs, closeVs, launchVs>>

ASSUME DesktopAssumption ==
  Resume!ResumeAssumption /\ Closing!GameCloseAssumption /\ Launching!GameLaunchAssumption

ASSUME Waited!GameLaunchAssumption /\ Replaced!GameLaunchAssumption

---------------------------------------------------------------------------
(* Every variable of every part has the shape its comment says.            *)
TypesOK == TypeOK /\ Resume!TypeOK /\ Closing!TypeOK /\ Launching!TypeOK

\* The one step that may take back a reservation whose thread still carries it:
\* a start that read its attempt while it was being cancelled, and writes the
\* run after another successor was committed.
StaleTell == \E c \in Commands : Resume!TellRun(c) /\ thr[c].seen = "cancelling"

(* However many resumes race, one attempt of the run is live.  Outside a   *)
(* batch only the newest intent starts a Host, and nothing but a stale     *)
(* "cancelling" takes its reservation back, without a control command      *)
(* nothing at all (create_run_control_request, _prepare_run_attempt).      *)
ResumeSafe ==
  /\ []Resume!OneLive
  /\ [][~Resume!InBatch => /\ Resume!StartStep
                           /\ Resume!ReservationStep \/ (StaleTell /\ controls # 0)]_(Resume!vars)

(* What is terminated is a client that was bound or that this launch       *)
(* started, at most one after a cancellation, and a receipt that lets the  *)
(* queue go on is true of the machine (game_launcher.py).                  *)
CloseSafe == Closing!KillsSafely

(* A recycle spares a live WW client, clicks are bounded, a cancellation   *)
(* or a gate for a person leaves the scene, and an error cleans up what    *)
(* this launch started (_ensure_started, _wait_until_ready).               *)
LaunchSafe == Launching!KindSafe /\ (kind \notin Existing => Launching!RecycleSparesLive)
=============================================================================
