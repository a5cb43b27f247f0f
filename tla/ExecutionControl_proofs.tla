---------------------- MODULE ExecutionControl_proofs ----------------------
(***************************************************************************)
(* The rules of services/execution_control.py.  First those of desktop     *)
(* input, for every clock, every length of a lease and any number of       *)
(* facts; then, as Evidence, what is proven of a Todo and what stops it,   *)
(* for any number of checkpoints, blockers and revisions.  The constants   *)
(* are those of the assumptions that the instances are checked for.        *)
(***************************************************************************)
EXTENDS ExecutionControl, TLAPS

Controllers == [from : Nat, until : Nat, end : Nat \cup {Open}]
Bindings    == [controller : Nat, from : Nat, end : Nat \cup {Open}]
Focuses     == [binding : Nat, from : Nat, until : Nat, end : Nat \cup {Open}]
Frames      == [focus : Nat, request : Requests, phase : Phase, at : Nat]
Receipts    == [request : Requests, focus : Nat, before : Nat, after : Nat,
                result : Results, retry : BOOLEAN]

Shape ==
    /\ now \in Nat /\ controllers \in Seq(Controllers) /\ bindings \in Seq(Bindings)
    /\ focuses \in Seq(Focuses) /\ frames \in Seq(Frames) /\ receipts \in Seq(Receipts)

\* Every fact names facts that were accepted before.
References ==
    /\ \A b \in DOMAIN bindings : bindings[b].controller \in DOMAIN controllers
    /\ \A f \in DOMAIN focuses : focuses[f].binding \in DOMAIN bindings
    /\ \A o \in DOMAIN frames : frames[o].focus \in DOMAIN focuses
    /\ \A r \in DOMAIN receipts : receipts[r].before \in DOMAIN frames
                                  /\ receipts[r].after \in DOMAIN frames

\* Only the last controller and the last focus may live, and a focus begins
\* when those before it have ended.
InTurn ==
    /\ \A c, d \in DOMAIN controllers : c < d => ~Live(controllers[c])
    /\ \A f, g \in DOMAIN focuses :
          f < g => ~Live(focuses[f]) /\ focuses[f].end <= focuses[g].from

TakenUnder(h, t) == h.from <= t /\ t < h.until /\ (Live(h) \/ t <= h.end)

\* Every screenshot was taken inside the hold of its focus and its controller.
Taken ==
    \A o \in DOMAIN frames :
       /\ frames[o].at <= now
       /\ TakenUnder(focuses[frames[o].focus], frames[o].at)
       /\ TakenUnder(ControllerOf(focuses[frames[o].focus].binding), frames[o].at)

\* A receipt agrees with its screenshots, and a request has one receipt.
Recorded ==
    /\ \A r \in DOMAIN receipts :
          \A o \in {receipts[r].before, receipts[r].after} :
             frames[o].focus = receipts[r].focus /\ frames[o].request = receipts[r].request
    /\ \A q, r \in DOMAIN receipts : q # r => receipts[q].request # receipts[r].request

IInv == Shape /\ References /\ InTurn /\ Taken /\ Recorded

LEMMA Appended ==
    ASSUME NEW S, NEW s \in Seq(S), NEW x \in S, NEW t, t = Append(s, x)
    PROVE  /\ t \in Seq(S) /\ Len(s) + 1 \notin DOMAIN s
           /\ DOMAIN t = DOMAIN s \cup {Len(s) + 1}
           /\ \A i \in DOMAIN s : t[i] = s[i] /\ i \in Nat /\ i < Len(s) + 1
           /\ t[Len(s) + 1] = x
<1>1. DOMAIN s = 1 .. Len(s) /\ DOMAIN t = 1 .. Len(s) + 1 /\ Len(s) \in Nat
  OBVIOUS
<1>2. QED
  BY <1>1

LEMMA Changed ==
    ASSUME NEW S, NEW s \in Seq(S), NEW i \in DOMAIN s, NEW x \in S, NEW t, t = [s EXCEPT ![i] = x]
    PROVE  /\ t \in Seq(S) /\ DOMAIN t = DOMAIN s /\ t[i] = x
           /\ \A j \in DOMAIN s \ {i} : t[j] = s[j]
OBVIOUS

LEMMA RecentIsNat ==
    ASSUME ExecutionControlAssumption, now \in Nat
    PROVE  \A t \in Recent : t \in Nat /\ t <= now
BY DEF ExecutionControlAssumption, Recent, Times

LEMMA InitInv == Init => IInv
BY DEF Init, IInv, Shape, References, InTurn, Taken, Recorded

LEMMA StepInv ==
    ASSUME ExecutionControlAssumption, IInv, [Next]_vars
    PROVE  IInv'
<1> USE DEF ExecutionControlAssumption
<1>1. CASE Tick
  <2>1. now' = now + 1 /\ UNCHANGED <<controllers, bindings, focuses, frames, receipts>>
    BY <1>1 DEF Tick
  <2>2. Shape' /\ References' /\ InTurn' /\ Recorded'
    BY <2>1 DEF IInv, Shape, References, InTurn, Recorded
  <2>3. \A o \in DOMAIN frames : frames[o].at \in Nat
    <3>1. \A o \in DOMAIN frames : frames[o] \in Frames
      BY DEF IInv, Shape
    <3>2. QED
      BY <3>1 DEF Frames
  <2>4. Taken'
    BY <2>1, <2>3 DEF IInv, Shape, Taken, ControllerOf
  <2>5. QED
    BY <2>2, <2>4 DEF IInv
<1>2. CASE GrantController
  <2>1. PICK t \in Recent :
           /\ \A i \in DOMAIN controllers : ~Live(controllers[i])
           /\ controllers' = Append(controllers, ControllerLease(t))
    BY <1>2 DEF GrantController
  <2>2. UNCHANGED <<now, bindings, focuses, frames, receipts>>
    BY <1>2 DEF GrantController
  <2>3. ControllerLease(t) \in Controllers
    BY RecentIsNat DEF ControllerLease, Controllers, IInv, Shape
  <2>4. /\ controllers' \in Seq(Controllers)
        /\ DOMAIN controllers' = DOMAIN controllers \cup {Len(controllers) + 1}
        /\ \A i \in DOMAIN controllers : /\ controllers'[i] = controllers[i]
                                         /\ i \in Nat /\ i < Len(controllers) + 1
        /\ Len(controllers) + 1 \in Nat
    BY <2>1, <2>3, Appended DEF IInv, Shape
  <2>5. Shape' /\ References' /\ Recorded'
    BY <2>2, <2>4 DEF IInv, Shape, References, Recorded
  <2>6. InTurn'
    BY <2>1, <2>2, <2>4 DEF IInv, InTurn, Live
  <2>7. Taken'
    BY <2>2, <2>4 DEF IInv, Taken, References, ControllerOf, TakenUnder
  <2>8. QED
    BY <2>5, <2>6, <2>7 DEF IInv
<1>3. CASE EndController
  <2>1. PICK c \in DOMAIN controllers :
           Live(controllers[c]) /\ controllers' = [controllers EXCEPT ![c].end = now]
    BY <1>3 DEF EndController
  <2>2. UNCHANGED <<now, bindings, focuses, frames, receipts>>
    BY <1>3 DEF EndController
  <2> DEFINE x == [controllers[c] EXCEPT !.end = now]
  <2>3. controllers[c] \in Controllers
    BY DEF IInv, Shape
  <2>4. x \in Controllers /\ x.from = controllers[c].from /\ x.until = controllers[c].until /\ x.end = now
    BY <2>3 DEF Controllers, IInv, Shape
  <2>5. controllers' = [controllers EXCEPT ![c] = x]
    BY <2>1
  <2> HIDE DEF x
  <2>6. /\ controllers' \in Seq(Controllers) /\ DOMAIN controllers' = DOMAIN controllers
        /\ controllers'[c] = x
        /\ \A j \in DOMAIN controllers \ {c} : controllers'[j] = controllers[j]
    BY <2>4, <2>5, Changed DEF IInv, Shape
  <2>7. Shape' /\ References' /\ Recorded'
    BY <2>2, <2>6 DEF IInv, Shape, References, Recorded
  <2>8. InTurn'
    BY <2>1, <2>2, <2>4, <2>6 DEF IInv, InTurn, Live, Shape
  <2>9. Taken'
    <3> SUFFICES ASSUME NEW o \in DOMAIN frames
                 PROVE  /\ frames[o].at <= now
                        /\ TakenUnder(focuses[frames[o].focus], frames[o].at)
                        /\ TakenUnder(controllers'[bindings[focuses[frames[o].focus].binding].controller],
                                      frames[o].at)
      BY <2>2 DEF Taken, ControllerOf
    <3>1. QED
      BY <2>1, <2>4, <2>6 DEF IInv, Taken, References, ControllerOf, TakenUnder, Live, Shape
  <2>10. QED
    BY <2>7, <2>8, <2>9 DEF IInv
<1>4. CASE RegisterWindow
  <2>1. PICK c \in DOMAIN controllers, t \in Recent :
           bindings' = Append(bindings, WindowBinding(c, t))
    BY <1>4 DEF RegisterWindow
  <2>2. UNCHANGED <<now, controllers, focuses, frames, receipts>>
    BY <1>4 DEF RegisterWindow
  <2>3. WindowBinding(c, t) \in Bindings /\ WindowBinding(c, t).controller = c
    BY RecentIsNat DEF WindowBinding, Bindings, IInv, Shape
  <2>4. /\ bindings' \in Seq(Bindings)
        /\ DOMAIN bindings' = DOMAIN bindings \cup {Len(bindings) + 1}
        /\ \A i \in DOMAIN bindings : bindings'[i] = bindings[i]
        /\ bindings'[Len(bindings) + 1] = WindowBinding(c, t)
    BY <2>1, <2>3, Appended DEF IInv, Shape
  <2>5. Shape' /\ References' /\ Recorded' /\ InTurn'
    BY <2>2, <2>3, <2>4 DEF IInv, Shape, References, Recorded, InTurn
  <2>6. Taken'
    BY <2>2, <2>4 DEF IInv, Taken, References, ControllerOf
  <2>7. QED
    BY <2>5, <2>6 DEF IInv
<1>5. CASE EndWindow
  <2>1. PICK b \in DOMAIN bindings : bindings' = [bindings EXCEPT ![b].end = now]
    BY <1>5 DEF EndWindow
  <2>2. UNCHANGED <<now, controllers, focuses, frames, receipts>>
    BY <1>5 DEF EndWindow
  <2> DEFINE x == [bindings[b] EXCEPT !.end = now]
  <2>3. bindings[b] \in Bindings
    BY DEF IInv, Shape
  <2>4. x \in Bindings /\ x.controller = bindings[b].controller
    BY <2>3 DEF Bindings, IInv, Shape
  <2>5. bindings' = [bindings EXCEPT ![b] = x]
    BY <2>1
  <2> HIDE DEF x
  <2>6. /\ bindings' \in Seq(Bindings) /\ DOMAIN bindings' = DOMAIN bindings
        /\ \A j \in DOMAIN bindings : bindings'[j].controller = bindings[j].controller
    BY <2>4, <2>5, Changed DEF IInv, Shape
  <2>7. Shape' /\ References' /\ Recorded' /\ InTurn'
    BY <2>2, <2>6 DEF IInv, Shape, References, Recorded, InTurn
  <2>8. Taken'
    BY <2>2, <2>6 DEF IInv, Taken, References, ControllerOf
  <2>9. QED
    BY <2>7, <2>8 DEF IInv
<1>6. CASE GrantFocus
  <2>1. PICK b \in DOMAIN bindings, t \in Recent, l \in FocusLives :
           /\ \A i \in DOMAIN focuses : ~Live(focuses[i])
           /\ Follows(t, focuses)
           /\ focuses' = Append(focuses, FocusLease(b, t, l))
    BY <1>6 DEF GrantFocus, FocusMayFollow
  <2>2. UNCHANGED <<now, controllers, bindings, frames, receipts>>
    BY <1>6 DEF GrantFocus
  <2>3. /\ FocusLease(b, t, l) \in Focuses
        /\ FocusLease(b, t, l).binding = b /\ FocusLease(b, t, l).from = t
    BY RecentIsNat DEF FocusLease, Focuses, IInv, Shape
  <2>4. /\ focuses' \in Seq(Focuses)
        /\ DOMAIN focuses' = DOMAIN focuses \cup {Len(focuses) + 1}
        /\ \A i \in DOMAIN focuses : focuses'[i] = focuses[i] /\ i \in Nat /\ i < Len(focuses) + 1
        /\ focuses'[Len(focuses) + 1] = FocusLease(b, t, l)
        /\ Len(focuses) + 1 \in Nat
    BY <2>1, <2>3, Appended DEF IInv, Shape
  <2>5. Shape' /\ References' /\ Recorded'
    BY <2>2, <2>3, <2>4 DEF IInv, Shape, References, Recorded
  <2>6. InTurn'
    <3>1. \A i \in DOMAIN focuses : focuses[i].end <= t
      BY <2>1 DEF Follows, Ends, Live
    <3>2. QED
      BY <2>1, <2>2, <2>3, <2>4, <3>1 DEF IInv, InTurn, Live
  <2>7. Taken'
    BY <2>2, <2>4 DEF IInv, Taken, References, ControllerOf
  <2>8. QED
    BY <2>5, <2>6, <2>7 DEF IInv
<1>7. CASE EndFocus
  <2>1. PICK f \in DOMAIN focuses : Live(focuses[f]) /\ focuses' = [focuses EXCEPT ![f].end = now]
    BY <1>7 DEF EndFocus
  <2>2. UNCHANGED <<now, controllers, bindings, frames, receipts>>
    BY <1>7 DEF EndFocus
  <2> DEFINE x == [focuses[f] EXCEPT !.end = now]
  <2>3. focuses[f] \in Focuses
    BY DEF IInv, Shape
  <2>4. /\ x \in Focuses /\ x.binding = focuses[f].binding /\ x.from = focuses[f].from
        /\ x.until = focuses[f].until /\ x.end = now
    BY <2>3 DEF Focuses, IInv, Shape
  <2>5. focuses' = [focuses EXCEPT ![f] = x]
    BY <2>1
  <2> HIDE DEF x
  <2>6. /\ focuses' \in Seq(Focuses) /\ DOMAIN focuses' = DOMAIN focuses /\ focuses'[f] = x
        /\ \A j \in DOMAIN focuses \ {f} : focuses'[j] = focuses[j]
    BY <2>4, <2>5, Changed DEF IInv, Shape
  <2>7. \A j \in DOMAIN focuses : focuses'[j].binding = focuses[j].binding
    BY <2>4, <2>6
  <2>8. Shape' /\ References' /\ Recorded'
    BY <2>2, <2>6, <2>7 DEF IInv, Shape, References, Recorded
  <2>9. InTurn'
    BY <2>1, <2>2, <2>4, <2>6 DEF IInv, InTurn, Live
  <2>10. Taken'
    <3> SUFFICES ASSUME NEW o \in DOMAIN frames
                 PROVE  /\ frames[o].at <= now
                        /\ TakenUnder(focuses'[frames[o].focus], frames[o].at)
                        /\ TakenUnder(ControllerOf(focuses'[frames[o].focus].binding), frames[o].at)
      BY <2>2 DEF Taken, ControllerOf
    <3>1. focuses'[frames[o].focus].binding = focuses[frames[o].focus].binding
      BY <2>7 DEF IInv, References
    <3>2. QED
      BY <2>1, <2>4, <2>6, <3>1 DEF IInv, Taken, References, TakenUnder, Live
  <2>11. QED
    BY <2>8, <2>9, <2>10 DEF IInv
<1>8. CASE Observe
  <2>1. PICK f \in DOMAIN focuses, r \in Requests, ph \in Phase, t \in Recent :
           InContext(f, t) /\ frames' = Append(frames, Observation(f, r, ph, t))
    BY <1>8 DEF Observe
  <2>2. UNCHANGED <<now, controllers, bindings, focuses, receipts>>
    BY <1>8 DEF Observe
  <2>3. /\ Observation(f, r, ph, t) \in Frames
        /\ Observation(f, r, ph, t).focus = f /\ Observation(f, r, ph, t).at = t
    BY RecentIsNat DEF Observation, Frames, IInv, Shape
  <2>4. /\ frames' \in Seq(Frames)
        /\ DOMAIN frames' = DOMAIN frames \cup {Len(frames) + 1}
        /\ \A i \in DOMAIN frames : frames'[i] = frames[i]
        /\ frames'[Len(frames) + 1] = Observation(f, r, ph, t)
    BY <2>1, <2>3, Appended DEF IInv, Shape
  <2>5. Shape' /\ References' /\ InTurn'
    BY <2>2, <2>3, <2>4 DEF IInv, Shape, References, InTurn
  <2>6. Recorded'
    BY <2>2, <2>4 DEF IInv, Recorded, References
  <2>7. Taken'
    <3>1. t <= now /\ TakenUnder(focuses[f], t) /\ TakenUnder(ControllerOf(focuses[f].binding), t)
      BY <2>1, RecentIsNat DEF InContext, Within, TakenUnder, IInv, Shape
    <3>2. QED
      BY <2>2, <2>3, <2>4, <3>1 DEF IInv, Taken, ControllerOf
  <2>8. QED
    BY <2>5, <2>6, <2>7 DEF IInv
<1>9. CASE RecordAction
  <2>1. PICK x \in DOMAIN frames, y \in DOMAIN frames, result \in Results, retry \in BOOLEAN :
           /\ frames[y].focus = frames[x].focus /\ frames[y].request = frames[x].request
           /\ UnrecordedRequest(frames[x].request)
           /\ receipts' = Append(receipts, ActionReceipt(frames[x].focus, frames[x].request,
                                                         x, y, result, retry))
    BY <1>9 DEF RecordAction
  <2>2. UNCHANGED <<now, controllers, bindings, focuses, frames>>
    BY <1>9 DEF RecordAction
  <2> DEFINE n == ActionReceipt(frames[x].focus, frames[x].request, x, y, result, retry)
  <2>3. frames[x] \in Frames
    BY DEF IInv, Shape
  <2>4. /\ n \in Receipts /\ n.focus = frames[x].focus /\ n.request = frames[x].request
        /\ n.before = x /\ n.after = y
    BY <2>3 DEF ActionReceipt, Receipts, Frames, IInv, Shape
  <2>5. receipts' = Append(receipts, n)
    BY <2>1
  <2> HIDE DEF n
  <2>6. /\ receipts' \in Seq(Receipts)
        /\ DOMAIN receipts' = DOMAIN receipts \cup {Len(receipts) + 1}
        /\ \A i \in DOMAIN receipts : receipts'[i] = receipts[i]
        /\ receipts'[Len(receipts) + 1] = n
    BY <2>4, <2>5, Appended DEF IInv, Shape
  <2>7. Shape' /\ References' /\ InTurn' /\ Taken'
    BY <2>2, <2>4, <2>6 DEF IInv, Shape, References, InTurn, Taken, ControllerOf
  <2>8. Recorded'
    BY <2>1, <2>2, <2>4, <2>6 DEF IInv, Recorded, UnrecordedRequest
  <2>9. QED
    BY <2>7, <2>8 DEF IInv
<1>10. CASE Replay \/ UNCHANGED vars
  <2>1. UNCHANGED <<now, controllers, bindings, focuses, frames, receipts>>
    BY <1>10 DEF Replay, vars
  <2>2. Shape' /\ References' /\ InTurn' /\ Recorded'
    BY <2>1 DEF IInv, Shape, References, InTurn, Recorded
  <2>3. Taken'
    BY <2>1 DEF IInv, Taken, ControllerOf
  <2>4. QED
    BY <2>2, <2>3 DEF IInv
<1>11. QED
  BY <1>1, <1>2, <1>3, <1>4, <1>5, <1>6, <1>7, <1>8, <1>9, <1>10 DEF Next

LEMMA InvHolds == ASSUME ExecutionControlAssumption PROVE Spec => []IInv
<1>1. IInv /\ [Next]_vars => IInv'
  BY StepInv
<1> QED BY <1>1, InitInv, PTL DEF Spec

\* Screenshots follow the fence, an action lies in one hold and no screenshot
\* proves two actions (_validate_observation_context, record_action_receipt).
THEOREM InputIsFenced == ASSUME ExecutionControlAssumption PROVE Spec => []Fenced
<1>1. IInv => FramesFollowFencing
  <2> SUFFICES ASSUME IInv, NEW x \in DOMAIN frames, NEW y \in DOMAIN frames,
                      frames[x].focus < frames[y].focus
               PROVE  frames[x].at <= frames[y].at
    BY DEF FramesFollowFencing
  <2> DEFINE f == focuses[frames[x].focus]
             g == focuses[frames[y].focus]
  <2>1. ~Live(f) /\ f.end <= g.from
    BY DEF IInv, InTurn, References
  <2>2. frames[x].at <= f.end /\ g.from <= frames[y].at
    BY <2>1 DEF IInv, Taken, TakenUnder
  <2>3. f \in Focuses /\ g \in Focuses /\ frames[x] \in Frames /\ frames[y] \in Frames
    BY DEF IInv, Shape, References
  <2>4. f.end \in Nat /\ g.from \in Nat /\ frames[x].at \in Nat /\ frames[y].at \in Nat
    BY <2>1, <2>3 DEF Focuses, Frames, Live
  <2>5. QED
    BY <2>1, <2>2, <2>4
<1>2. IInv => ActionInOneHold
  <2> SUFFICES ASSUME IInv, NEW r \in DOMAIN receipts
               PROVE  LET f == focuses[receipts[r].focus]
                          c == ControllerOf(f.binding)
                          x == frames[receipts[r].before]
                          y == frames[receipts[r].after]
                      IN \A h \in {f, c} :
                            h.from <= x.at /\ y.at < h.until /\ (Live(h) \/ y.at <= h.end)
    BY DEF ActionInOneHold
  <2>1. /\ receipts[r].before \in DOMAIN frames /\ receipts[r].after \in DOMAIN frames
        /\ frames[receipts[r].before].focus = receipts[r].focus
        /\ frames[receipts[r].after].focus = receipts[r].focus
    BY DEF IInv, References, Recorded
  <2>2. QED
    BY <2>1 DEF IInv, Taken, TakenUnder
<1>3. IInv => FrameProvesOne
  BY DEF IInv, Recorded, References, FrameProvesOne
<1>4. IInv => Fenced
  BY <1>1, <1>2, <1>3 DEF Fenced
<1> QED BY <1>4, InvHolds, PTL

\* An action is sent again only while nobody else has touched the desktop
\* (authorize_action_replay).
THEOREM ReplaysAreUndisturbed == ASSUME ExecutionControlAssumption PROVE Spec => ReplayIsUndisturbed
<1>1. IInv /\ [Next]_vars => [ReplayStep]_vars
  <2> SUFFICES ASSUME IInv, Next, NEW r \in replays' \ replays
               PROVE  /\ receipts[r].focus = Len(focuses)
                      /\ bindings[focuses[receipts[r].focus].binding].controller = Len(controllers)
                      /\ receipts[r].result \notin {"succeeded", "unknown"}
    BY DEF ReplayStep
  <2>1. Replay
    BY DEF Next, Tick, GrantController, EndController, RegisterWindow, EndWindow, GrantFocus,
           EndFocus, Observe, RecordAction
  <2>2. r \in DOMAIN receipts /\ RetryAllowed(r) /\ HoldsStill(r)
    BY <2>1 DEF Replay
  <2> DEFINE f == receipts[r].focus
             c == bindings[focuses[f].binding].controller
  <2>3. f \in DOMAIN focuses /\ c \in DOMAIN controllers
    BY <2>2 DEF IInv, References, Recorded
  <2>4. Live(focuses[f]) /\ Live(controllers[c])
    BY <2>2 DEF HoldsStill, Within, ControllerOf
  <2>5. f = Len(focuses)
    <3>1. f \in 1 .. Len(focuses) /\ Len(focuses) \in DOMAIN focuses /\ Len(focuses) \in Nat
      BY <2>3 DEF IInv, Shape
    <3>2. QED
      BY <3>1, <2>3, <2>4 DEF IInv, InTurn
  <2>6. c = Len(controllers)
    <3>1. c \in 1 .. Len(controllers) /\ Len(controllers) \in DOMAIN controllers /\ Len(controllers) \in Nat
      BY <2>3 DEF IInv, Shape
    <3>2. QED
      BY <3>1, <2>3, <2>4 DEF IInv, InTurn
  <2>7. QED
    BY <2>2, <2>5, <2>6 DEF RetryAllowed
<1> QED BY <1>1, InvHolds, PTL DEF Spec, ReplayIsUndisturbed

\* Screenshots follow the fence, an action lies in one hold of the desktop and
\* has its own screenshots, and it is sent again only while nobody else has
\* touched the desktop (services/execution_control.py).
InputFenced == []Fenced /\ ReplayIsUndisturbed

\* Both hold together, for every clock and every length of a lease.
THEOREM InputIsFencedAndUndisturbed ==
    ASSUME ExecutionControlAssumption PROVE Spec => InputFenced
BY InputIsFenced, ReplaysAreUndisturbed DEF InputFenced

-----------------------------------------------------------------------------
(* The chain of checkpoints and the life of the blockers (TodoEvidence), by *)
(* the same clock, for any number of checkpoints, blockers and revisions.   *)

CONSTANTS Codes, MaxProgress, MaxChain, MaxBlockers, MaxRevisions
VARIABLES unknown, chain, blockers

Evidence == INSTANCE TodoEvidence

Links == [valid : BOOLEAN, progress : Nat, at : Nat]
Revised == [code : Codes, ambiguous : BOOLEAN, active : BOOLEAN, receipt : BOOLEAN, at : Nat]

\* No link of the chain goes back, and a valid one goes beyond all before it.
Climbs ==
    /\ chain \in Seq(Links)
    /\ \A i, j \in DOMAIN chain :
          i < j => /\ chain[i].progress <= chain[j].progress
                   /\ chain[j].valid => chain[i].progress < chain[j].progress

\* Every revision of a blocker keeps the ambiguity of the first one, and the
\* first one names an action that was recorded by then.
Rooted ==
    /\ blockers \in Seq(Seq(Revised))
    /\ \A b \in DOMAIN blockers :
          /\ blockers[b] # <<>>
          /\ \A k \in DOMAIN blockers[b] : blockers[b][k].ambiguous = blockers[b][1].ambiguous
          /\ blockers[b][1].ambiguous => \E t \in unknown : t <= blockers[b][1].at

EvidenceInv == now \in Nat /\ Climbs /\ Rooted

LEMMA LastOf == ASSUME NEW S, NEW s \in Seq(S), s # <<>>
                PROVE  Evidence!Last(s) \in S /\ Len(s) \in DOMAIN s /\ 1 \in DOMAIN s
                       /\ Evidence!Last(s) = s[Len(s)]
BY DEF Evidence!Last

LEMMA ChainGrows ==
    ASSUME Evidence!TodoEvidenceAssumption, EvidenceInv, Evidence!RecordCheckpoint \/ Evidence!Invalidate
    PROVE  Climbs'
<1>1. chain # <<>> => Evidence!Last(chain) \in Links
  BY LastOf DEF EvidenceInv, Climbs
<1>2. chain # <<>> => Evidence!Last(chain).progress \in Nat
  BY <1>1 DEF Links
<1>3. \E x \in Links : /\ chain' = Append(chain, x)
                       /\ chain # <<>> => /\ Evidence!Last(chain).progress <= x.progress
                                          /\ x.valid => Evidence!Last(chain).progress < x.progress
  <2>1. CASE Evidence!RecordCheckpoint
    <3>1. PICK p \in 0 .. MaxProgress :
              /\ chain' = Append(chain, [valid |-> TRUE, progress |-> p, at |-> now])
              /\ chain # <<>> => Evidence!Last(chain).progress < p
      BY <2>1 DEF Evidence!RecordCheckpoint, Evidence!Progresses
    <3>2. p \in Nat /\ now \in Nat
      BY DEF Evidence!TodoEvidenceAssumption, EvidenceInv
    <3> DEFINE x == [valid |-> TRUE, progress |-> p, at |-> now]
    <3>3. x \in Links
      BY <3>2 DEF Links
    <3>4. chain # <<>> => Evidence!Last(chain).progress <= x.progress
      BY <3>1, <3>2, <1>2
    <3>5. QED
      BY <3>1, <3>3, <3>4
  <2>2. CASE Evidence!Invalidate
    <3> DEFINE x == [valid |-> FALSE, progress |-> Evidence!Last(chain).progress, at |-> now]
    <3>1. chain # <<>> /\ chain' = Append(chain, x)
      BY <2>2 DEF Evidence!Invalidate
    <3>2. Evidence!Last(chain).progress \in Nat /\ now \in Nat
      BY <3>1, <1>2 DEF EvidenceInv
    <3>3. x \in Links
      BY <3>2 DEF Links
    <3>4. QED
      BY <3>1, <3>2, <3>3
  <2>3. QED
    BY <2>1, <2>2
<1>4. PICK x \in Links : /\ chain' = Append(chain, x)
                         /\ chain # <<>> => /\ Evidence!Last(chain).progress <= x.progress
                                            /\ x.valid => Evidence!Last(chain).progress < x.progress
  BY <1>3
<1> DEFINE n == Len(chain) + 1
<1>5. /\ chain' \in Seq(Links) /\ DOMAIN chain' = DOMAIN chain \cup {n} /\ n \notin DOMAIN chain
      /\ \A i \in DOMAIN chain : chain'[i] = chain[i] /\ i \in Nat /\ i < n
      /\ chain'[n] = x
  BY <1>4, Appended DEF EvidenceInv, Climbs
<1>6. \A i \in DOMAIN chain : /\ chain[i].progress <= x.progress
                              /\ x.valid => chain[i].progress < x.progress
  <2> SUFFICES ASSUME NEW i \in DOMAIN chain
               PROVE  chain[i].progress <= x.progress /\ (x.valid => chain[i].progress < x.progress)
    OBVIOUS
  <2>1. /\ chain \in Seq(Links) /\ chain # <<>> /\ i \in 1 .. Len(chain)
        /\ Len(chain) \in Nat /\ chain[i] \in Links
    BY DEF EvidenceInv, Climbs
  <2>2. Len(chain) \in DOMAIN chain /\ Evidence!Last(chain) = chain[Len(chain)] /\ chain[Len(chain)] \in Links
    BY <2>1, LastOf
  <2>3. i = Len(chain) \/ chain[i].progress <= chain[Len(chain)].progress
    BY <2>1, <2>2 DEF EvidenceInv, Climbs
  <2>4. chain[i].progress \in Nat /\ chain[Len(chain)].progress \in Nat /\ x.progress \in Nat
    BY <2>1, <2>2 DEF Links
  <2>5. QED
    BY <1>4, <2>1, <2>2, <2>3, <2>4
<1>7. ASSUME NEW i \in DOMAIN chain', NEW j \in DOMAIN chain', i < j
      PROVE  /\ chain'[i].progress <= chain'[j].progress
             /\ chain'[j].valid => chain'[i].progress < chain'[j].progress
  <2>1. i \in DOMAIN chain
    BY <1>5, <1>7
  <2>2. CASE j = n
    BY <2>1, <2>2, <1>5, <1>6
  <2>3. CASE j \in DOMAIN chain
    BY <2>1, <2>3, <1>5, <1>7 DEF EvidenceInv, Climbs
  <2>4. QED
    BY <2>2, <2>3, <1>5
<1>8. QED
  BY <1>5, <1>7 DEF Climbs

LEMMA BlockerRaised ==
    ASSUME EvidenceInv, Evidence!Raise
    PROVE  Rooted'
<1>1. PICK code \in Codes, ambiguous \in BOOLEAN, named \in BOOLEAN :
          /\ Evidence!Ambiguity(ambiguous, named) /\ Evidence!ReceiptFits(named)
          /\ blockers' = Append(blockers, <<[code |-> code, ambiguous |-> ambiguous, active |-> TRUE,
                                             receipt |-> named, at |-> now]>>)
          /\ unknown' = unknown
  BY DEF Evidence!Raise
<1> DEFINE x == [code |-> code, ambiguous |-> ambiguous, active |-> TRUE, receipt |-> named, at |-> now]
           n == Len(blockers) + 1
<1>2. x \in Revised /\ <<x>> \in Seq(Revised)
  BY DEF EvidenceInv, Revised
<1>3. PICK y \in Seq(Revised) : y = <<x>> /\ blockers' = Append(blockers, y)
  BY <1>1, <1>2
<1>4. /\ blockers' \in Seq(Seq(Revised)) /\ DOMAIN blockers' = DOMAIN blockers \cup {n}
      /\ \A b \in DOMAIN blockers : blockers'[b] = blockers[b]
      /\ blockers'[n] = y
  <2> DEFINE S == Seq(Revised)
  <2>1. blockers \in Seq(S) /\ y \in S /\ blockers' = Append(blockers, y)
    BY <1>3 DEF EvidenceInv, Rooted
  <2> HIDE DEF S
  <2>2. /\ blockers' \in Seq(S) /\ DOMAIN blockers' = DOMAIN blockers \cup {n}
        /\ \A b \in DOMAIN blockers : blockers'[b] = blockers[b]
        /\ blockers'[n] = y
    BY <2>1, Appended
  <2>3. QED
    BY <2>2 DEF S
<1>5. y # <<>> /\ y[1] = x /\ DOMAIN y = {1}
  BY <1>3
<1>6. ambiguous => \E t \in unknown : t <= now
  BY <1>1 DEF Evidence!Ambiguity, Evidence!ReceiptFits
<1>7. ASSUME NEW b \in DOMAIN blockers'
      PROVE  /\ blockers'[b] # <<>>
             /\ \A k \in DOMAIN blockers'[b] : blockers'[b][k].ambiguous = blockers'[b][1].ambiguous
             /\ blockers'[b][1].ambiguous => \E t \in unknown' : t <= blockers'[b][1].at
  <2>1. CASE b \in DOMAIN blockers
    BY <2>1, <1>1, <1>4 DEF EvidenceInv, Rooted
  <2>2. CASE blockers'[b] = y
    BY <2>2, <1>1, <1>6, <1>5
  <2>3. QED
    BY <2>1, <2>2, <1>4
<1>8. QED
  BY <1>4, <1>7 DEF Rooted

LEMMA BlockerRevised ==
    ASSUME EvidenceInv, NEW b \in DOMAIN blockers, NEW active \in BOOLEAN, Evidence!Revise(b, active)
    PROVE  Rooted'
<1>1. PICK named \in BOOLEAN :
          /\ blockers' = [blockers EXCEPT ![b] =
                Append(@, [Evidence!Last(@) EXCEPT !.active = active, !.receipt = named, !.at = now])]
          /\ unknown' = unknown
  BY DEF Evidence!Revise
<1> DEFINE s == blockers[b]
           x == [Evidence!Last(s) EXCEPT !.active = active, !.receipt = named, !.at = now]
<1>2. s \in Seq(Revised) /\ s # <<>>
  BY DEF EvidenceInv, Rooted
<1>3. /\ Evidence!Last(s) \in Revised /\ Len(s) \in DOMAIN s /\ 1 \in DOMAIN s
      /\ Evidence!Last(s) = s[Len(s)]
  BY <1>2, LastOf
<1>4. x \in Revised /\ x.ambiguous = s[1].ambiguous
  BY <1>3 DEF EvidenceInv, Rooted, Revised
<1>5. PICK t \in Seq(Revised) :
          /\ blockers' = [blockers EXCEPT ![b] = t]
          /\ t # <<>> /\ t[1] = s[1] /\ \A k \in DOMAIN t : t[k].ambiguous = s[1].ambiguous
  <2> DEFINE u == Append(s, x)
  <2> HIDE DEF x
  <2>1. /\ u \in Seq(Revised) /\ DOMAIN u = DOMAIN s \cup {Len(s) + 1}
        /\ \A k \in DOMAIN s : u[k] = s[k]
        /\ u[Len(s) + 1] = x
    BY <1>2, <1>4, Appended
  <2>2. u # <<>> /\ u[1] = s[1] /\ \A k \in DOMAIN u : u[k].ambiguous = s[1].ambiguous
    BY <2>1, <1>2, <1>3, <1>4 DEF EvidenceInv, Rooted
  <2>3. blockers' = [blockers EXCEPT ![b] = u]
    BY <1>1 DEF x
  <2>4. QED
    BY <2>1, <2>2, <2>3
<1>6. /\ blockers' \in Seq(Seq(Revised)) /\ DOMAIN blockers' = DOMAIN blockers /\ blockers'[b] = t
      /\ \A c \in DOMAIN blockers \ {b} : blockers'[c] = blockers[c]
  BY <1>5, Changed DEF EvidenceInv, Rooted
<1>7. ASSUME NEW c \in DOMAIN blockers'
      PROVE  /\ blockers'[c] # <<>>
             /\ \A k \in DOMAIN blockers'[c] : blockers'[c][k].ambiguous = blockers'[c][1].ambiguous
             /\ blockers'[c][1].ambiguous => \E u \in unknown' : u <= blockers'[c][1].at
  <2>1. CASE c # b
    BY <2>1, <1>1, <1>6 DEF EvidenceInv, Rooted
  <2>2. CASE c = b
    <3>1. blockers[b][1].ambiguous => \E u \in unknown : u <= blockers[b][1].at
      BY DEF EvidenceInv, Rooted
    <3>2. QED
      BY <2>2, <3>1, <1>1, <1>5, <1>6
  <2>3. QED
    BY <2>1, <2>2
<1>8. QED
  BY <1>6, <1>7 DEF Rooted

LEMMA EvidenceStep ==
    ASSUME Evidence!TodoEvidenceAssumption, EvidenceInv, [Evidence!Next]_(Evidence!vars)
    PROVE  EvidenceInv'
<1>1. CASE Evidence!Tick
  BY <1>1 DEF Evidence!Tick, EvidenceInv, Climbs, Rooted
<1>2. CASE Evidence!RecordUnknown
  BY <1>2 DEF Evidence!RecordUnknown, EvidenceInv, Climbs, Rooted
<1>3. CASE Evidence!RecordCheckpoint \/ Evidence!Invalidate
  <2>1. UNCHANGED <<now, unknown, blockers>>
    BY <1>3 DEF Evidence!RecordCheckpoint, Evidence!Invalidate
  <2>2. QED
    BY <1>3, <2>1, ChainGrows DEF EvidenceInv, Rooted
<1>4. CASE Evidence!Raise
  <2>1. UNCHANGED <<now, chain>>
    BY <1>4 DEF Evidence!Raise
  <2>2. QED
    BY <1>4, <2>1, BlockerRaised DEF EvidenceInv, Climbs
<1>5. CASE Evidence!Resolve \/ Evidence!Reopen
  <2>1. PICK b \in DOMAIN blockers, active \in BOOLEAN : Evidence!Revise(b, active)
    BY <1>5 DEF Evidence!Resolve, Evidence!Reopen, Evidence!Active
  <2>2. UNCHANGED <<now, chain>>
    BY <2>1 DEF Evidence!Revise
  <2>3. QED
    BY <2>1, <2>2, BlockerRevised DEF EvidenceInv, Climbs
<1>6. CASE UNCHANGED Evidence!vars
  BY <1>6 DEF Evidence!vars, EvidenceInv, Climbs, Rooted
<1>7. QED
  BY <1>1, <1>2, <1>3, <1>4, <1>5, <1>6 DEF Evidence!Next

\* What is proven of a Todo only grows, however often it is invalidated, and an
\* ambiguous blocker goes back to an action of unknown effect that was recorded
\* before it was raised (services/execution_control.py).
EvidenceSound == Evidence!Sound

\* The chain and the blockers stay sound for every bound of the model, from the
\* invariant that adds the invalidated links and the first revisions.
THEOREM EvidenceIsSound ==
    ASSUME Evidence!TodoEvidenceAssumption
    PROVE  Evidence!Spec => []EvidenceSound
<1>1. Evidence!Init => EvidenceInv
  BY DEF Evidence!Init, EvidenceInv, Climbs, Rooted
<1>2. EvidenceInv /\ [Evidence!Next]_(Evidence!vars) => EvidenceInv'
  BY EvidenceStep
<1>3. EvidenceInv => EvidenceSound
  <2> SUFFICES ASSUME EvidenceInv PROVE Evidence!ProvenProgressGrows /\ Evidence!AmbiguityHasOrigin
    BY DEF EvidenceSound, Evidence!Sound
  <2>1. Evidence!ProvenProgressGrows
    BY DEF EvidenceInv, Climbs, Evidence!ProvenProgressGrows
  <2>2. \A b \in DOMAIN blockers : Evidence!Current(b).ambiguous = blockers[b][1].ambiguous
    BY LastOf DEF EvidenceInv, Rooted, Evidence!Current
  <2>3. QED
    BY <2>1, <2>2 DEF EvidenceInv, Rooted, Evidence!AmbiguityHasOrigin
<1> QED BY <1>1, <1>2, <1>3, PTL DEF Evidence!Spec
=============================================================================
