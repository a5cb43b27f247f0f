-------------------------- MODULE ExecutionControl --------------------------
(***************************************************************************)
(* The rules of desktop input (services/execution_control.py over the      *)
(* facts of domain/execution_control.py), on one desktop.                  *)
(*                                                                         *)
(* A controller lease is bound to a window, a focus lease is granted on    *)
(* the binding, screenshots are accepted under the focus, and an action is *)
(* recorded between two of them.  Each function is given the facts that    *)
(* were accepted and a candidate, and accepts the candidate or refuses it. *)
(*                                                                         *)
(* A fact is known by the index at which it was accepted: an id, an        *)
(* artifact or a fencing identity that is known is refused, and so is a    *)
(* generation that is not above the earlier ones.  Of a candidate's        *)
(* references (scope, ids, generation, fingerprint, process) only the ones *)
(* that agree with the facts it is checked against are modelled, because   *)
(* any other is refused.  no_effect is treated like failed.                *)
(* A clock runs; facts are dated at most Late before they are accepted,    *)
(* leases end at the time they are ended.                                  *)
(***************************************************************************)
EXTENDS Naturals, Sequences, FiniteSets

CONSTANTS Requests,      \* action requests
          MaxTime, Late, \* bounds: clock, age of a fact
          ControllerLife, FocusLives,  \* lengths of the leases
          MaxFacts,      \* bound: accepted facts of each kind
          Open           \* no end time

ExecutionControlAssumption ==
    /\ MaxTime \in Nat /\ Late \in Nat /\ MaxFacts \in Nat
    /\ ControllerLife \in Nat \ {0} /\ FocusLives \subseteq Nat \ {0}
    /\ Open \notin Nat

VARIABLES now, controllers, bindings, focuses, frames, receipts, replays

vars == <<now, controllers, bindings, focuses, frames, receipts, replays>>

Times   == 0..MaxTime
Recent  == {t \in Times : t <= now /\ now <= t + Late}
Phase   == {"before_action", "after_action"}
Results == {"succeeded", "failed", "unknown"}

Live(x)     == x.end = Open
Ends(s)     == {s[i].end : i \in DOMAIN s} \ {Open}
Follows(t, s) == \A e \in Ends(s) : e <= t
Within(x, t)  == Live(x) /\ x.from <= t /\ t < x.until
Room(s)     == Len(s) < MaxFacts

(* The facts as they are accepted: leases with a time to end, a window, a  *)
(* screenshot of an action, the receipt of the action.                     *)
ControllerLease(t)    == [from |-> t, until |-> t + ControllerLife, end |-> Open]
WindowBinding(c, t)   == [controller |-> c, from |-> t, end |-> Open]
FocusLease(b, t, l)   == [binding |-> b, from |-> t, until |-> t + l, end |-> Open]
Observation(f, r, ph, t) == [focus |-> f, request |-> r, phase |-> ph, at |-> t]
ActionReceipt(f, r, x, y, result, retry) ==
    [request |-> r, focus |-> f, before |-> x, after |-> y, result |-> result, retry |-> retry]

TypeOK ==
    /\ now \in Times
    /\ \A c \in DOMAIN controllers :
          /\ controllers[c].from < controllers[c].until
          /\ Live(controllers[c]) \/ controllers[c].from <= controllers[c].end
    /\ \A f \in DOMAIN focuses :
          /\ focuses[f].binding \in DOMAIN bindings
          /\ focuses[f].until <= controllers[bindings[focuses[f].binding].controller].until
          /\ bindings[focuses[f].binding].from <= focuses[f].from
    /\ \A o \in DOMAIN frames : frames[o].focus \in DOMAIN focuses
    /\ replays \subseteq DOMAIN receipts

Init ==
    /\ now = 0 /\ controllers = <<>> /\ bindings = <<>> /\ focuses = <<>>
    /\ frames = <<>> /\ receipts = <<>> /\ replays = {}

Tick ==
    /\ now < MaxTime /\ now' = now + 1
    /\ UNCHANGED <<controllers, bindings, focuses, frames, receipts, replays>>

---------------------------------------------------------------------------
(* One live controller, whose generation grows and whose time does not go  *)
(* back before the end of another.                                         *)
GrantController ==
    \E t \in Recent :
       LET c == ControllerLease(t)
       IN /\ Room(controllers) /\ Within(c, now)
          /\ \A i \in DOMAIN controllers : ~Live(controllers[i])
          /\ Follows(t, controllers)
          /\ controllers' = Append(controllers, c)
          /\ UNCHANGED <<now, bindings, focuses, frames, receipts, replays>>

(* released or revoked at any time, expired not before the lease does.     *)
EndController ==
    \E c \in DOMAIN controllers :
       /\ Live(controllers[c])
       /\ controllers' = [controllers EXCEPT ![c].end = now]
       /\ UNCHANGED <<now, bindings, focuses, frames, receipts, replays>>

BindingsOf(c) == SelectSeq(bindings, LAMBDA b : b.controller = c)
RegisterWindow ==
    \E c \in DOMAIN controllers, t \in Recent :
       /\ Room(bindings) /\ Within(controllers[c], t)
       /\ \A i \in DOMAIN BindingsOf(c) : ~Live(BindingsOf(c)[i])
       /\ Follows(t, BindingsOf(c))
       /\ bindings' = Append(bindings, WindowBinding(c, t))
       /\ UNCHANGED <<now, controllers, focuses, frames, receipts, replays>>

EndWindow ==
    \E b \in DOMAIN bindings :
       /\ Live(bindings[b])
       /\ bindings' = [bindings EXCEPT ![b].end = now]
       /\ UNCHANGED <<now, controllers, focuses, frames, receipts, replays>>

ControllerOf(b) == controllers[bindings[b].controller]
FocusMayOverlap(t) == TRUE
FocusMayFollow(t) == Follows(t, focuses)
FitsWindow(b, t, l) == bindings[b].from <= t
FitsController(b, t, l) == bindings[b].from <= t /\ t + l <= ControllerOf(b).until
GrantFocus ==
    \E b \in DOMAIN bindings, t \in Recent, l \in FocusLives :
       LET f == FocusLease(b, t, l)
       IN /\ Room(focuses)
          /\ Within(ControllerOf(b), now) /\ Live(bindings[b]) /\ Within(f, now)
          /\ FitsController(b, t, l)
          /\ \A i \in DOMAIN focuses : ~Live(focuses[i])
          /\ FocusMayFollow(t)
          /\ focuses' = Append(focuses, f)
          /\ UNCHANGED <<now, controllers, bindings, frames, receipts, replays>>

EndFocus ==
    \E f \in DOMAIN focuses :
       /\ Live(focuses[f])
       /\ focuses' = [focuses EXCEPT ![f].end = now]
       /\ UNCHANGED <<now, controllers, bindings, frames, receipts, replays>>

---------------------------------------------------------------------------
(* _validate_observation_context: controller, binding and focus are live,  *)
(* and the time lies in both leases.                                       *)
InLifetimes(f, t) ==
    LET b == focuses[f].binding
    IN /\ ControllerOf(b).from <= t /\ t < ControllerOf(b).until
       /\ focuses[f].from <= t /\ t < focuses[f].until
InContext(f, t) ==
    LET b == focuses[f].binding
    IN Within(ControllerOf(b), t) /\ Live(bindings[b]) /\ Within(focuses[f], t)

Observe ==
    \E f \in DOMAIN focuses, r \in Requests, ph \in Phase, t \in Recent :
       /\ Room(frames) /\ InContext(f, t)
       /\ frames' = Append(frames, Observation(f, r, ph, t))
       /\ UNCHANGED <<now, controllers, bindings, focuses, receipts, replays>>

(* An action lies between a frame before and a newer frame after it, both  *)
(* of its request and taken under the focus it was sent under.             *)
AnyRequest(r) == TRUE
UnrecordedRequest(r) == \A i \in DOMAIN receipts : receipts[i].request # r
FramesEnclose(x, y) == x.at < y.at /\ y.at <= now
RecordAction ==
    \E x, y \in DOMAIN frames, result \in Results, retry \in BOOLEAN :
       LET f == frames[x].focus
           r == frames[x].request
       IN /\ Room(receipts) /\ frames[y].focus = f /\ frames[y].request = r
          /\ InContext(f, frames[x].at)
          /\ InContext(f, frames[y].at)
          /\ frames[x].phase = "before_action" /\ frames[y].phase = "after_action"
          /\ FramesEnclose(frames[x], frames[y])
          /\ (retry => result = "failed")
          /\ UnrecordedRequest(r)
          /\ receipts' = Append(receipts, ActionReceipt(f, r, x, y, result, retry))
          /\ UNCHANGED <<now, controllers, bindings, focuses, frames, replays>>

(* authorize_action_replay asks for the controller, binding and focus of   *)
(* the receipt, still live at the time.                                    *)
RetryAllowed(r) == receipts[r].retry /\ receipts[r].result = "failed"
SameController(r) ==
    LET f == receipts[r].focus IN Within(ControllerOf(focuses[f].binding), now)
HoldsStill(r) ==
    LET f == receipts[r].focus
        b == focuses[f].binding
    IN Within(ControllerOf(b), now) /\ Live(bindings[b]) /\ Within(focuses[f], now)
Replay ==
    \E r \in DOMAIN receipts :
       /\ RetryAllowed(r) /\ HoldsStill(r) /\ replays' = replays \cup {r}
       /\ UNCHANGED <<now, controllers, bindings, focuses, frames, receipts>>

Next ==
    \/ Tick \/ GrantController \/ EndController \/ RegisterWindow \/ EndWindow
    \/ GrantFocus \/ EndFocus \/ Observe \/ RecordAction \/ Replay

Spec == Init /\ [][Next]_vars

---------------------------------------------------------------------------
(* Screenshots follow the fence: what was seen under a later controller or *)
(* a later focus was not taken before what was seen under an earlier one,  *)
(* although facts may be accepted late and are dated by their reporter.    *)
FramesFollowFencing ==
    \A x, y \in DOMAIN frames :
       frames[x].focus < frames[y].focus => frames[x].at <= frames[y].at

(* The whole of an action, from the frame before to the frame after, lies  *)
(* in one uninterrupted hold: its controller and its focus had been granted*)
(* by then and did not end earlier, also when they end afterwards.         *)
ActionInOneHold ==
    \A r \in DOMAIN receipts :
       LET f == focuses[receipts[r].focus]
           c == ControllerOf(f.binding)
           x == frames[receipts[r].before]
           y == frames[receipts[r].after]
       IN \A h \in {f, c} :
             h.from <= x.at /\ y.at < h.until /\ (Live(h) \/ y.at <= h.end)

(* No screenshot proves two actions, and the frames of two actions of one  *)
(* request are never both taken.                                           *)
FrameProvesOne ==
    \A q, r \in DOMAIN receipts :
       q # r => {receipts[q].before, receipts[q].after} \cap {receipts[r].before, receipts[r].after} = {}

Fenced == FramesFollowFencing /\ ActionInOneHold /\ FrameProvesOne

(* An action is sent again only while nobody else has touched the desktop: *)
(* no focus was granted after its own, and its controller is the last one. *)
ReplayStep ==
    \A r \in replays' \ replays :
       /\ receipts[r].focus = Len(focuses)
       /\ bindings[focuses[receipts[r].focus].binding].controller = Len(controllers)
       /\ receipts[r].result \notin {"succeeded", "unknown"}
ReplayIsUndisturbed == [][ReplayStep]_vars
=============================================================================
