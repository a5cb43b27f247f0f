------------------------------ MODULE GameLaunch -----------------------------
(***************************************************************************)
(* GameLaunchService.ensure_started: bring one game client to a stable     *)
(* window before the official tool may touch it.  Two branches start it:   *)
(* a client or launcher that is already running is waited for, otherwise   *)
(* the executable is started and waited for; both share _wait_until_ready, *)
(* which drives the official launcher by bounded audited actions.  A WW    *)
(* launcher that never shows a usable surface is recycled: its processes   *)
(* are ended and a fresh one is started.                                   *)
(*                                                                         *)
(* Time is the number of polls left until each deadline.  What a probe of  *)
(* the launcher reports, when a process appears, gets a window or ends, and*)
(* what ending a process achieves are the machine's choice.                *)
(***************************************************************************)
EXTENDS Naturals

CONSTANTS
    Kinds,          \* which of {"ww", "endfield", "nikke", "plain"} a run looks at
    Existing,       \* the kinds of which something may run before the launch
    MaxBorn,        \* bound: processes ever created
    StartPolls,     \* START_TIMEOUT_SECONDS, in polls
    ReadyPolls,     \* READY_TIMEOUT_SECONDS
    CapPolls,       \* LAUNCHER_UPDATE_HARD_CAP_SECONDS
    UiPolls,        \* WW_LAUNCHER_UI_READY_SECONDS and its siblings
    MaxActions,     \* the MAX_*_ACTIONS of one wait
    MaxRecycles,    \* WW_LAUNCHER_MAX_RECYCLE_RESTARTS
    MaxRestores     \* MAX_OFF_SCREEN_RESTORES

GameLaunchAssumption ==
    /\ Kinds \subseteq {"ww", "endfield", "nikke", "plain"}
    /\ Existing \subseteq Kinds
    /\ MaxBorn \in Nat /\ StartPolls \in Nat /\ ReadyPolls \in Nat \ {0} /\ CapPolls \in Nat /\ UiPolls \in Nat
    /\ MaxActions \in Nat /\ MaxRecycles \in Nat /\ MaxRestores \in Nat
    /\ ReadyPolls <= CapPolls

VARIABLES
    kind,       \* the game's launch surface
    procs,      \* Windows: the running processes under the expected names
    born,
    pc,
    branch,     \* "none", "existing" (waits for what runs), "started"
    running,    \* the listing the current step works on
    baseline,   \* the listing before the start
    wait,       \* the local state of the current _wait_until_ready
    startLeft,  \* polls left of the active start deadline
    targets,    \* what the recycle will end
    recycles,   \* ww_launcher_recycles
    surface,    \* nikke_wegame_actions of the start loop
    reactivated, \* the headless Endfield launcher was activated instead of driven
    cancelled,  \* the durable cancellation behind cancel_requested
    gate,       \* the reason of the gate being handled
    atGate,     \* the processes as they were when that gate was raised
    killed,     \* what the processes a recycle ended were when the gate was raised
    cleaned,    \* whether close_started ran
    clicks,     \* audited actions dispatched
    late,       \* executables started after the cancellation
    beside,     \* a launcher was started beside one the recycle meant to end
    outcome     \* "none", "ready", "human", "error", "exited" (during the delay), "cancelled"

machine == <<procs, born>>
ghosts == <<atGate, killed, clicks, late, beside>>
locals == <<branch, running, baseline, wait, startLeft, targets, recycles, surface, reactivated, gate, cleaned>>
vars == <<kind, machine, pc, locals, cancelled, ghosts, outcome>>

\* A launcher, or a client: a shell without window and memory, one that is up
\* without a usable window, one with its window.  An opaque process cannot be
\* opened by the Manager (it runs elevated).
Process == [id : 1 .. MaxBorn, phase : {"launcher", "shell", "live", "window"}, opaque : BOOLEAN]

NoWait == [left |-> 0, cap |-> 0, ui |-> 0, invoked |-> FALSE, acts |-> 0, idle |-> 0, stable |-> FALSE,
           restores |-> 0, blank |-> FALSE]
FreshWait == [NoWait EXCEPT !.left = ReadyPolls, !.cap = CapPolls, !.ui = UiPolls]

Clients(ps) == {p \in ps : p.phase # "launcher"}
Alive(ids) == {p \in procs : p.id \in ids}
Ids(ps) == {p.id : p \in ps}

Init ==
    /\ kind \in Kinds
    /\ procs \in {{}} \cup (IF kind \in Existing THEN {{[id |-> 1, phase |-> f, opaque |-> FALSE]} :
                                                       f \in {"launcher", "shell", "live"}}
                           ELSE {})
    /\ born = IF procs = {} THEN 0 ELSE 1
    /\ pc = "enter" /\ branch = "none"
    /\ running = {} /\ baseline = {} /\ wait = NoWait /\ startLeft = 0
    /\ targets = {} /\ recycles = 0 /\ surface = 0 /\ reactivated = FALSE
    /\ cancelled = FALSE /\ gate = "none" /\ atGate = {} /\ killed = {}
    /\ cleaned = FALSE /\ clicks = 0 /\ late = 0 /\ beside = FALSE
    /\ outcome = "none"

----------------------------------------------------------------------------
(* The machine.                                                            *)

\* A launcher that runs starts a client or another launcher process.
Appear ==
    /\ born < MaxBorn
    /\ procs # {}
    /\ \E f \in {"shell", "launcher"} :
        procs' = procs \cup {[id |-> born + 1, phase |-> f, opaque |-> FALSE]}
    /\ born' = born + 1
    /\ UNCHANGED <<kind, pc, locals, cancelled, ghosts, outcome>>

Grow ==
    /\ \E p \in procs :
        /\ p.phase \in {"shell", "live"}
        /\ procs' = (procs \ {p}) \cup {[p EXCEPT !.phase = IF p.phase = "shell" THEN "live" ELSE "window"]}
    /\ UNCHANGED <<kind, born, pc, locals, cancelled, ghosts, outcome>>

Exit ==
    /\ \E p \in procs : procs' = procs \ {p}
    /\ UNCHANGED <<kind, born, pc, locals, cancelled, ghosts, outcome>>

Cancel ==
    /\ ~cancelled /\ outcome = "none"
    /\ cancelled' = TRUE
    /\ UNCHANGED <<kind, machine, pc, locals, ghosts, outcome>>

----------------------------------------------------------------------------
(* The ends of a launch.                                                   *)

Finish(result) ==
    /\ pc' = "done"
    /\ outcome' = result

\* GameLaunchCancelled leaves everything where it is.
NeverAsks == FALSE
CancelRequested == cancelled

Raised ==
    /\ pc \in {"enter", "loop", "poll", "probe", "handoff"}
    /\ CancelRequested
    /\ Finish("cancelled")
    /\ UNCHANGED <<kind, machine, locals, cancelled, ghosts>>

\* A gate that is a person's to decide keeps the scene.
KeepForHuman == Finish("human")

\* Any other failure of the wait.  For WW it becomes a gate; otherwise, in the
\* started branch, close_started takes down what runs outside the baseline.
CleanupNever == FALSE
CleanupOnFailure == kind # "ww" /\ branch = "started"

FailCleansFirst ==
    /\ cleaned' = TRUE /\ procs' = Alive(Ids(baseline))
    /\ IF kind = "ww" \/ reactivated THEN KeepForHuman ELSE Finish("error")

Fail ==
    IF kind = "ww" \/ reactivated THEN KeepForHuman /\ UNCHANGED <<procs, cleaned>>
    ELSE /\ Finish("error")
         /\ IF CleanupOnFailure
            THEN /\ cleaned' = TRUE
                 /\ \E rest \in SUBSET Alive(Ids(procs) \ Ids(baseline)) :
                     procs' = Alive(Ids(baseline)) \cup rest
            ELSE UNCHANGED <<procs, cleaned>>

----------------------------------------------------------------------------
(* _ensure_started.                                                        *)

\* The listing before anything is started.  What may be recycled is decided on
\* this listing in the existing branch.
Launcher(p) == p.phase = "launcher"
Disposable(p) == p.phase \in {"launcher", "shell"}
RecycleTargets(ps) == IF \A p \in ps : Disposable(p) THEN Ids(ps) ELSE {}

Enter ==
    /\ pc = "enter"
    /\ ~CancelRequested
    /\ baseline' = procs
    /\ running' = procs
    /\ IF procs # {}
       THEN /\ branch' = "existing"
            /\ targets' = IF kind = "ww" THEN RecycleTargets(procs) ELSE {}
            /\ wait' = FreshWait
            /\ pc' = "poll"
       ELSE /\ branch' = "started"
            /\ targets' = {}
            /\ wait' = NoWait
            /\ pc' = "start"
    /\ UNCHANGED <<kind, machine, startLeft, recycles, surface, reactivated, cancelled, gate, cleaned, ghosts, outcome>>

\* _reactivate_headless_endfield_launcher: one verified launcher without a
\* window and no client is activated once; the wait that follows only watches.
\* Several launchers, or one that cannot be verified, are a person's.
Reactivate ==
    /\ pc = "poll" /\ kind = "endfield" /\ branch = "existing" /\ wait = FreshWait /\ ~reactivated
    /\ ~CancelRequested
    /\ baseline # {} /\ Clients(baseline) = {}
    /\ \/ /\ (\E p \in baseline : baseline = {p}) /\ Clients(procs) = {}
          /\ reactivated' = TRUE
          /\ UNCHANGED <<pc, outcome>>
       \/ KeepForHuman /\ UNCHANGED reactivated
    /\ UNCHANGED <<kind, machine, branch, running, baseline, wait, startLeft, targets, recycles, surface, cancelled, gate,
                   cleaned, ghosts>>

\* _start_launch_executable, and the start deadline it gets (its own after a
\* recycle).  The start may fail: GameLaunchError.
Start ==
    /\ pc = "start"
    /\ \/ /\ born < MaxBorn
          /\ \E f \in (IF kind = "ww" THEN {"launcher"} ELSE {"launcher", "shell"}), o \in BOOLEAN :
              procs' = procs \cup {[id |-> born + 1, phase |-> f, opaque |-> o]}
          /\ born' = born + 1
          /\ late' = IF cancelled THEN late + 1 ELSE late
          /\ beside' = (beside \/ Alive(targets) # {})
          /\ startLeft' = StartPolls
          /\ targets' = {}
          /\ pc' = "loop"
          /\ UNCHANGED outcome
       \/ /\ IF kind = "ww" THEN KeepForHuman ELSE Finish("error")
          /\ UNCHANGED <<machine, late, beside, startLeft, targets>>
    /\ UNCHANGED <<kind, branch, running, baseline, wait, recycles, surface, reactivated, cancelled, gate, cleaned, atGate, killed,
                   clicks>>

\* The loop of the started branch lists until something registered runs.
LoopLists ==
    /\ pc = "loop" /\ startLeft > 0
    /\ ~CancelRequested
    /\ procs # {}
    /\ running' = procs
    /\ wait' = FreshWait
    /\ pc' = "poll"
    /\ UNCHANGED <<kind, machine, branch, baseline, startLeft, targets, recycles, surface, reactivated, cancelled, gate, cleaned,
                   ghosts, outcome>>

LoopSleeps ==
    /\ pc = "loop" /\ startLeft > 0
    /\ ~CancelRequested
    /\ procs = {} /\ kind # "nikke"
    /\ startLeft' = startLeft - 1
    /\ UNCHANGED <<kind, machine, pc, branch, running, baseline, wait, targets, recycles, surface, reactivated, cancelled, gate, cleaned,
                   ghosts, outcome>>

\* _drive_nikke_wegame_surface: WeGame owns the start action, so its surface is
\* driven while no client runs.
SurfaceUnbounded == TRUE
MaySurfaceAct == surface < MaxActions

LoopDrivesWeGame ==
    /\ pc = "loop" /\ startLeft > 0
    /\ ~CancelRequested
    /\ procs = {} /\ kind = "nikke"
    /\ \/ /\ MaySurfaceAct      \* clicked, or clicked with no effect
          /\ surface' = surface + 1
          /\ clicks' = clicks + 1
          /\ startLeft' = startLeft - 1
          /\ \/ /\ born < MaxBorn
                /\ procs' = {[id |-> born + 1, phase |-> "shell", opaque |-> FALSE]}
                /\ born' = born + 1
             \/ UNCHANGED machine
          /\ UNCHANGED <<pc, outcome>>
       \/ /\ startLeft' = startLeft - 1    \* not ready, not allowed, blocked
          /\ UNCHANGED <<machine, surface, clicks, pc, outcome>>
       \/ /\ KeepForHuman                  \* a prompt, or the surface wait is over
          /\ UNCHANGED <<machine, surface, clicks, startLeft>>
    /\ UNCHANGED <<kind, branch, running, baseline, wait, targets, recycles, reactivated, cancelled, gate, cleaned,
                   atGate, killed, late, beside>>

LoopExpires ==
    /\ pc = "loop" /\ startLeft = 0
    /\ IF kind = "ww" THEN KeepForHuman ELSE Finish("error")
    /\ UNCHANGED <<kind, machine, locals, cancelled, ghosts>>

\* NTE and ZZZ style delay before a client this launch started is handed over:
\* _handoff_started_game watches whether it still runs.
ClientGone == Clients(procs) = {}
Handoff ==
    /\ pc = "handoff"
    /\ ~CancelRequested
    /\ IF ClientGone THEN Finish("exited") ELSE Finish("ready")
    /\ UNCHANGED <<kind, machine, locals, cancelled, ghosts>>

----------------------------------------------------------------------------
(* _wait_until_ready: one poll lists, looks for the window, drives the      *)
(* launcher and sleeps until the next.                                      *)

Windowed == {p \in procs : p.phase = "window"}

\* The window kept its size for the interval, is not blank, is on the screen (or
\* has been put back as often as allowed): ready.
PollReady ==
    /\ pc = "poll" /\ wait.left > 0
    /\ ~CancelRequested
    /\ Windowed # {} /\ wait.stable
    /\ \/ /\ \/ branch = "started" /\ pc' = "handoff" /\ UNCHANGED outcome
             \/ Finish("ready")
          /\ UNCHANGED wait
       \/ /\ wait' = [wait EXCEPT !.stable = FALSE, !.blank = TRUE, !.left = @ - 1, !.cap = @ - 1]
          /\ UNCHANGED <<pc, outcome>>
       \/ /\ wait.restores < MaxRestores
          /\ wait' = [wait EXCEPT !.stable = FALSE, !.restores = @ + 1, !.left = @ - 1, !.cap = @ - 1]
          /\ UNCHANGED <<pc, outcome>>
    /\ UNCHANGED <<kind, machine, branch, running, baseline, startLeft, targets, recycles, surface, reactivated, cancelled, gate,
                   cleaned, ghosts>>

PollWindow ==
    /\ pc = "poll" /\ wait.left > 0
    /\ ~CancelRequested
    /\ Windowed # {} /\ ~wait.stable
    /\ wait' = [wait EXCEPT !.stable = TRUE, !.left = @ - 1, !.cap = @ - 1]
    /\ UNCHANGED <<kind, machine, pc, branch, running, baseline, startLeft, targets, recycles, surface, reactivated, cancelled, gate,
                   cleaned, ghosts, outcome>>

PollNothing ==
    /\ pc = "poll" /\ wait.left > 0
    /\ ~CancelRequested
    /\ Windowed = {}
    /\ running' = procs
    /\ IF kind \in {"ww", "endfield"} /\ ~reactivated
       THEN pc' = "probe" /\ wait' = [wait EXCEPT !.stable = FALSE]
       ELSE /\ pc' = "poll"
            /\ wait' = [wait EXCEPT !.stable = FALSE, !.left = @ - 1, !.cap = @ - 1]
    /\ UNCHANGED <<kind, machine, branch, baseline, startLeft, targets, recycles, surface, reactivated, cancelled, gate, cleaned, ghosts,
                   outcome>>

\* A dialog or a failed enumeration ends the wait with GameLaunchError.
PollFails ==
    /\ pc = "poll" /\ wait.left > 0
    /\ Fail
    /\ UNCHANGED <<kind, born, branch, running, baseline, wait, startLeft, targets, recycles, surface, reactivated, cancelled, gate,
                   ghosts>>

NextPoll(w) ==
    /\ wait' = [w EXCEPT !.left = IF @ > 0 THEN @ - 1 ELSE 0, !.cap = IF @ > 0 THEN @ - 1 ELSE 0,
                         !.ui = IF @ > 0 THEN @ - 1 ELSE 0]
    /\ pc' = "poll"

\* GameLaunchHumanRequired inside the wait.  A WW gate that proves an unusable
\* surface may be recycled; the others are a person's.
RaiseGate(reason) ==
    /\ gate' = reason
    /\ atGate' = procs
    /\ pc' = "gate"

\* The probe found the launcher working on something: the deadline moves, but
\* never past the hard cap.
ExtendFreely(w) == [w EXCEPT !.ui = UiPolls + 1, !.left = ReadyPolls + 1]
Extend(w) ==
    [w EXCEPT !.ui = UiPolls + 1,
              !.left = LET wanted == IF w.left > ReadyPolls + 1 THEN w.left ELSE ReadyPolls + 1
                       IN  IF wanted < w.cap THEN wanted ELSE w.cap]

\* Whether the probe may press the launcher's start button.
MayInvokeAlways == Clients(running) = {}
MayInvoke == ~wait.invoked /\ Clients(running) = {}

ProbeWW ==
    /\ pc = "probe" /\ kind = "ww"
    /\ ~CancelRequested
    /\ \/ /\ MayInvoke                                  \* invoked:ww-enter-game
          /\ clicks' = clicks + 1
          /\ NextPoll([wait EXCEPT !.invoked = TRUE])
          /\ UNCHANGED <<gate, atGate, outcome>>
       \/ /\ MayInvoke                                  \* invoked:ww-update, ww-retry
          /\ clicks' = clicks + 1
          /\ IF wait.acts + 1 > MaxActions
             THEN KeepForHuman /\ UNCHANGED wait
             ELSE NextPoll([wait EXCEPT !.acts = @ + 1, !.ui = UiPolls + 1]) /\ UNCHANGED outcome
          /\ UNCHANGED <<gate, atGate>>
       \/ /\ NextPoll(Extend(wait))                     \* waiting:ww-busy and the like
          /\ UNCHANGED <<gate, atGate, clicks, outcome>>
       \/ /\ IF wait.invoked \/ wait.ui > 0             \* nothing usable yet, or a read fault
             THEN NextPoll(wait) /\ UNCHANGED <<gate, atGate>>
             ELSE RaiseGate("unusable") /\ UNCHANGED wait
          /\ UNCHANGED <<clicks, outcome>>
       \/ /\ \E reason \in {"person", "unusable"} :     \* human:*
              RaiseGate(reason)
          /\ UNCHANGED <<wait, clicks, outcome>>
    /\ UNCHANGED <<kind, machine, branch, running, baseline, startLeft, targets, recycles, surface, reactivated, cancelled, cleaned,
                   killed, late, beside>>

\* acted, no effect, covered by another window, or not ready for too long.
ProbeEndfield ==
    /\ pc = "probe" /\ kind = "endfield"
    /\ ~CancelRequested
    /\ \/ /\ clicks' = clicks + 1
          /\ IF wait.acts + 1 > MaxActions
             THEN Fail /\ UNCHANGED wait
             ELSE NextPoll([wait EXCEPT !.acts = @ + 1, !.idle = 0]) /\ UNCHANGED <<procs, cleaned, outcome>>
       \/ /\ clicks' = clicks + 1
          /\ IF wait.idle + 1 >= MaxActions
             THEN Fail /\ UNCHANGED wait
             ELSE NextPoll([wait EXCEPT !.idle = @ + 1]) /\ UNCHANGED <<procs, cleaned, outcome>>
       \/ Fail /\ UNCHANGED <<wait, clicks>>
       \/ /\ wait.ui > 0
          /\ NextPoll(wait)
          /\ UNCHANGED <<procs, cleaned, clicks, outcome>>
    /\ UNCHANGED <<kind, born, branch, running, baseline, startLeft, targets, recycles, surface, reactivated, cancelled, gate, atGate,
                   killed, late, beside>>

\* The deadline.  WW raises the recyclable gate, a blank window and WeGame a
\* gate for a person, anything else fails.
WaitExpires ==
    /\ pc = "poll" /\ wait.left = 0
    /\ IF kind = "ww" THEN RaiseGate("unusable") /\ UNCHANGED <<procs, cleaned, outcome>>
       ELSE /\ IF wait.blank \/ kind = "nikke" \/ reactivated THEN KeepForHuman /\ UNCHANGED <<procs, cleaned>> ELSE Fail
            /\ UNCHANGED <<gate, atGate>>
    /\ UNCHANGED <<kind, born, branch, running, baseline, wait, startLeft, targets, recycles, surface, reactivated, cancelled, killed,
                   clicks, late, beside>>

----------------------------------------------------------------------------
(* Recycling a wedged WW launcher.                                         *)

\* The existing branch uses the targets of its listing before the wait.  The
\* started branch lists again and judges every client as it is now; one that has
\* exited cannot be judged and counts as live.
StaleGateTargets == IF branch = "existing" THEN targets ELSE RecycleTargets(running)
GateTargets ==
    IF branch = "existing" THEN targets
    ELSE LET seen == Ids(running) \cup Ids(procs)
         IN  IF \A i \in seen : \/ \E p \in running : p.id = i /\ Launcher(p)
                               \/ \E p \in procs : p.id = i /\ Disposable(p)
             THEN seen ELSE {}

MayRecycle == recycles < MaxRecycles

HandleGate ==
    /\ pc = "gate"
    /\ \E ids \in {GateTargets} :
        IF gate = "unusable" /\ ids # {} /\ MayRecycle
        THEN /\ targets' = ids
             /\ recycles' = IF MayRecycle THEN recycles + 1 ELSE recycles
             /\ pc' = "recycle"
             /\ wait' = NoWait
             /\ UNCHANGED outcome
        ELSE KeepForHuman /\ UNCHANGED <<targets, recycles, wait>>
    /\ UNCHANGED <<kind, machine, branch, running, baseline, startLeft, surface, reactivated, cancelled, gate, cleaned,
                   ghosts>>

\* WM_CLOSE, taskkill, taskkill /F on the targets.  A process that cannot be
\* opened counts as gone.
Survivors(ended) == {p \in Alive(targets) \ ended : ~p.opaque}

\* Survivors keep the gate; else the existing branch lists again and waits for
\* what it finds, the started branch starts.
Recycle ==
    /\ pc = "recycle"
    /\ \E ended \in SUBSET {p \in Alive(targets) : ~p.opaque} :
        LET now == procs \ ended
        IN  /\ procs' = now
            /\ killed' = killed \cup {a.phase : a \in {b \in atGate : b.id \in Ids(ended)}}
            /\ atGate' = {} /\ gate' = "none"
            /\ IF Survivors(ended) # {}
               THEN KeepForHuman /\ UNCHANGED <<branch, running, baseline, wait, targets>>
               ELSE /\ UNCHANGED outcome
                    /\ IF branch = "existing" /\ now # {}
                       THEN /\ baseline' = now /\ running' = now
                            /\ targets' = RecycleTargets(now)
                            /\ wait' = FreshWait
                            /\ pc' = "poll"
                            /\ UNCHANGED branch
                       ELSE /\ branch' = "started"
                            /\ baseline' = IF branch = "existing" THEN now ELSE baseline
                            /\ pc' = "start"
                            /\ UNCHANGED <<running, wait, targets>>
    /\ UNCHANGED <<kind, born, startLeft, recycles, surface, reactivated, cancelled, cleaned, clicks, late, beside>>

----------------------------------------------------------------------------

\* Nothing of a launch is left to say once it has ended.
Machine == pc # "done" /\ (Appear \/ Grow \/ Exit \/ Cancel)

Launch ==
    \/ Raised \/ Enter \/ Reactivate \/ Start
    \/ LoopLists \/ LoopSleeps \/ LoopDrivesWeGame \/ LoopExpires \/ Handoff
    \/ PollReady \/ PollWindow \/ PollNothing \/ PollFails
    \/ ProbeWW \/ ProbeEndfield \/ WaitExpires
    \/ HandleGate \/ Recycle

Next == Machine \/ Launch

Spec == Init /\ [][Next]_vars

\* The launch runs on the worker thread of the batch, which nothing else holds.
FairSpec == Spec /\ WF_vars(Launch)

----------------------------------------------------------------------------

TypeOK ==
    /\ kind \in Kinds /\ procs \subseteq Process /\ born \in 0 .. MaxBorn
    /\ running \subseteq Process /\ baseline \subseteq Process /\ targets \subseteq 1 .. MaxBorn
    /\ startLeft \in 0 .. StartPolls /\ recycles \in 0 .. MaxRecycles /\ surface \in 0 .. MaxActions
    /\ wait.left \in 0 .. CapPolls /\ wait.cap \in 0 .. CapPolls /\ wait.ui \in 0 .. UiPolls
    /\ wait.acts \in 0 .. MaxActions /\ wait.idle \in 0 .. MaxActions /\ wait.restores \in 0 .. MaxRestores
    /\ outcome \in {"none", "ready", "human", "error", "exited", "cancelled"}

\* "A *live* game client is never recyclable -- it may hold a live, signed-in
\* session -- so any live client suppresses recycling entirely": what a recycle
\* ends was a launcher or an empty shell when its gate was raised.
RecycleSparesLive == killed \subseteq {"launcher", "shell"}

\* A launcher that asks for the same update for ever, and one that has to be
\* replaced again and again, are pressed a bounded number of times in all.  The
\* no-effect counter of Endfield begins again with every action that acted.
PressesPerWait ==
    IF kind = "ww" THEN MaxActions + 2
    ELSE IF kind = "endfield" THEN MaxActions * (MaxActions + 1) + 1
    ELSE MaxActions
ClicksBounded == clicks <= (1 + recycles) * PressesPerWait

\* Cancelling a launch leaves the scene: nothing is cleaned up, and at most the
\* executable that was about to start is still started.
CancelLeavesScene == late <= 1 /\ (outcome = "cancelled" => ~cleaned)

\* A gate for a person preserves what is on the screen: the failure path that
\* closes what the launch started is never taken on the way to it.
HumanKeepsScene == outcome = "human" => ~cleaned

\* "Do not leak a windowless client or launcher after the gate fails": once a
\* client this launch started was waited for, an error that the queue moves on
\* from leaves only after close_started.
FailureCleans == outcome = "error" /\ wait # NoWait /\ branch = "started" => cleaned

KindSafe == ClicksBounded /\ CancelLeavesScene /\ HumanKeepsScene /\ FailureCleans

\* _ensure_started, line 2343 -- "rather than launching a second launcher beside
\* it": no launcher is started while one the recycle meant to end still runs.
NoSecondLauncher == ~beside

\* Whatever the launcher reports, a launch comes to an end.
LaunchEnds == <>(outcome # "none")

=============================================================================
