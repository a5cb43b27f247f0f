------------------------- MODULE ArtifactImport_proofs -------------------------
(***************************************************************************)
(* The import of artifacts, for any number of Todos, staging files,        *)
(* contents, events, rewrites and changes from outside: the ledger, the    *)
(* journal and the Manager's files agree, what ends a Todo cites its own   *)
(* evidence, and nothing is committed of an attempt that has ended.        *)
(*                                                                         *)
(* ArtifactsSafe speaks about what was committed.  It is kept because of   *)
(* what the handler of an event has established before it commits; that    *)
(* is Handler below.  The sums of sizes (BytesKept) are folds and stay     *)
(* with TLC.                                                               *)
(***************************************************************************)
EXTENDS ArtifactImport, FiniteSetTheorems, TLAPS

\* An event at work is one the stream offers, and there is room for it.
Offer ==
    pc # "idle" =>
       /\ Len(journal) < MaxEvents
       /\ ev \in Events
       /\ ev.type # "hello" => ev.todo \in Todos
       /\ ev.type \in Artifacts => ev.name \in Names /\ ev.content \in Contents
       /\ ev.type = "terminal" => ev.result \in Results
       /\ ev.type \in After => ~Seen("terminal", ev.todo)

\* A frame was only taken of a boundary.
FrameAsked ==
    pc # "idle" /\ frame # None => Boundary(ev) # "none" /\ ev.type \notin Artifacts

\* What is checked, placed and about to be committed.
Importing ==
    /\ pc \in {"read", "check", "place"} => ev.type \in Artifacts
    /\ pc \in {"read", "check", "place", "placed"} /\ ev.type \in Artifacts =>
          Usage(ev.todo) < MaxPerTodo
    /\ pc = "place" => got = ev.content
    /\ pc = "placed" =>
          /\ ev.type \in Artifacts \/ frame # None
          /\ files[Number] = IF ev.type \in Artifacts THEN ev.content ELSE frame

Handler == Offer /\ FrameAsked /\ Importing

\* An ended attempt of a Todo ended with a committed event.
EndedBySeen == \A t \in Todos : try[t] \in Results => Seen("terminal", t)

\* TypeOK by the variables that change together.
LedgerTyped ==
    /\ attempt \in [state : Live \cup {"ended"}, at : 0..MaxEvents] /\ aside \in BOOLEAN
    /\ try \in [Todos -> Results \cup {"none", "running", "closed"}]
    /\ refs \in [Todos -> SUBSET (1..MaxEvents)]
    /\ journal \in Seq(Events) /\ Len(journal) <= MaxEvents /\ rows \subseteq Rows
HandlerTyped ==
    /\ open \in BOOLEAN /\ pc \in {"idle", "begin", "read", "check", "place", "placed"}
    /\ ev \in Events \cup {None} /\ (pc # "idle" => ev \in Events)
    /\ frame \in Images \cup {None} /\ got \in Contents \cup {None, Torn} /\ seen \in 0..MaxWrites
FilesTyped == files \in [1..MaxEvents -> Contents \cup {None, Torn}]
ProfileTyped == profile \in Profiles /\ edited \in Profiles \cup {None} /\ cycled \in BOOLEAN
OutsideTyped ==
    /\ staged \in [Names -> [content : Contents \cup {None}, time : 0..MaxWrites]]
    /\ served \subseteq (1..MaxEvents) \X (Contents \cup {Torn})
    /\ foreign \subseteq 1..MaxEvents /\ writes \in 0..MaxWrites

IInv == TypeOK /\ IsFiniteSet(rows) /\ Handler /\ EndedBySeen /\ ArtifactsSafe

-----------------------------------------------------------------------------
(* What the parser lets through. *)

LEMMA OfferedShape ==
    ASSUME ImportAssumption, TypeOK, NEW e \in Offered, FromStream(e)
    PROVE  /\ e \in Events
           /\ e.type # "hello" => e.todo \in Todos
           /\ e.type \in Artifacts => e.name \in Names /\ e.content \in Contents
           /\ e.type = "terminal" => e.result \in Results
           /\ e.type \in After => ~Seen("terminal", e.todo)
<1> DEFINE Good == /\ e \in Events
                   /\ e.type # "hello" => e.todo \in Todos
                   /\ e.type \in Artifacts => e.name \in Names /\ e.content \in Contents
                   /\ e.type = "terminal" => e.result \in Results
           From(y, t, n, c, x, k, p) ==
               [type : {y}, todo : {t}, name : {n}, content : {c}, result : {x}, cites : {k}, next : {p}]
<1>1. ASSUME NEW y, NEW t
      PROVE  /\ Event(y, t) \in From(y, t, None, None, None, {}, Frozen)
             /\ \A n, c : Import(y, t, n, c) \in From(y, t, n, c, None, {}, Frozen)
             /\ \A p : Cycle(t, p) \in From("cycle", t, None, None, None, {}, p)
             /\ \A x, s : Terminal(t, x, s) \in From("terminal", t, None, None, x, s, Frozen)
  <2>1. \A z : Event(z, t) \in From(z, t, None, None, None, {}, Frozen)
    BY DEF Event
  <2>2. ASSUME NEW n, NEW c PROVE Import(y, t, n, c) \in From(y, t, n, c, None, {}, Frozen)
    <3>1. PICK b \in From(y, t, None, None, None, {}, Frozen) : b = Event(y, t)
      BY <2>1
    <3>2. Import(y, t, n, c) = [b EXCEPT !.name = n, !.content = c]
      BY <3>1, Zenon DEF Import
    <3>3. QED
      BY <3>2
  <2>3. ASSUME NEW p PROVE Cycle(t, p) \in From("cycle", t, None, None, None, {}, p)
    <3>1. PICK b \in From("cycle", t, None, None, None, {}, Frozen) : b = Event("cycle", t)
      BY <2>1
    <3>2. Cycle(t, p) = [b EXCEPT !.next = p]
      BY <3>1, Zenon DEF Cycle
    <3>3. QED
      BY <3>2
  <2>4. ASSUME NEW x, NEW s PROVE Terminal(t, x, s) \in From("terminal", t, None, None, x, s, Frozen)
    <3>1. PICK b \in From("terminal", t, None, None, None, {}, Frozen) : b = Event("terminal", t)
      BY <2>1
    <3>2. Terminal(t, x, s) = [b EXCEPT !.result = x, !.cites = s]
      BY <3>1, Zenon DEF Terminal
    <3>3. QED
      BY <3>2
  <2>5. QED
    BY <2>1, <2>2, <2>3, <2>4
<1>2. Frozen \in Profiles
  BY DEF ImportAssumption
<1>3. \A t : Cited(t) \subseteq 1..MaxEvents
  BY DEF ImportAssumption, TypeOK, Cited, Staged
<1>4. ASSUME e = Event("hello", None) PROVE Good
  <2>1. e \in From("hello", None, None, None, None, {}, Frozen)
    BY <1>1, <1>4
  <2>2. QED
    BY <1>2, <2>1 DEF Events, Types, Artifacts
<1>5. ASSUME NEW y \in {"started", "returned"}, NEW t \in Todos, e = Event(y, t) PROVE Good
  <2>1. e \in From(y, t, None, None, None, {}, Frozen)
    BY <1>1, <1>5
  <2>2. QED
    BY <1>2, <2>1 DEF Events, Types, Artifacts
<1>6. ASSUME NEW y \in Artifacts, NEW t \in Todos, NEW n \in Names, NEW c \in Contents,
             e = Import(y, t, n, c)
      PROVE  Good
  <2>1. e \in From(y, t, n, c, None, {}, Frozen)
    BY <1>1, <1>6
  <2>2. QED
    BY <1>2, <2>1 DEF Events, Types, Artifacts
<1>7. ASSUME NEW t \in Todos, NEW p \in Profiles, e = Cycle(t, p) PROVE Good
  <2>1. e \in From("cycle", t, None, None, None, {}, p)
    BY <1>1, <1>7
  <2>2. QED
    BY <1>2, <2>1 DEF Events, Types, Artifacts
<1>8. ASSUME NEW t \in Todos, NEW x \in Results, NEW s \in SUBSET Cited(t), e = Terminal(t, x, s)
      PROVE  Good
  <2>1. e \in From("terminal", t, None, None, x, s, Frozen)
    BY <1>1, <1>8
  <2>2. QED
    BY <1>2, <1>3, <2>1 DEF Events, Types, Artifacts
<1>9. Good
  <2> HIDE DEF Good
  <2>1. CASE \E t \in Todos : e \in {Terminal(t, x, s) : x \in Results, s \in SUBSET Cited(t)}
    BY <1>8, <2>1
  <2>2. QED
    BY <1>4, <1>5, <1>6, <1>7, <2>1 DEF Offered
<1>10. e.type \in After => ~Seen("terminal", e.todo)
  BY DEF FromStream, After
<1>11. QED
  BY <1>9, <1>10

-----------------------------------------------------------------------------
(* Types *)

LEMMA TypeParts == TypeOK <=> LedgerTyped /\ HandlerTyped /\ FilesTyped /\ ProfileTyped /\ OutsideTyped
BY DEF TypeOK, LedgerTyped, HandlerTyped, FilesTyped, ProfileTyped, OutsideTyped

LEMMA Bounds ==
    ASSUME ImportAssumption
    PROVE  MaxPerTodo \in Nat /\ MaxEvents \in Nat /\ MaxWrites \in Nat /\ Frozen \in Profiles
BY DEF ImportAssumption

LEMMA InitInv == ASSUME ImportAssumption, Init PROVE IInv
<1> USE Bounds DEF Init
<1>1. TypeOK
  <2>1. LedgerTyped
    <3>1. attempt \in [state : Live \cup {"ended"}, at : 0..MaxEvents]
      BY DEF Live
    <3>2. journal \in Seq(Events) /\ Len(journal) <= MaxEvents
      OBVIOUS
    <3>3. QED
      BY <3>1, <3>2 DEF LedgerTyped
  <2>2. HandlerTyped /\ FilesTyped /\ ProfileTyped
    <3>1. HandlerTyped
      BY DEF HandlerTyped
    <3>2. FilesTyped
      BY DEF FilesTyped
    <3>3. ProfileTyped
      BY DEF ProfileTyped
    <3>4. QED
      BY <3>1, <3>2, <3>3
  <2>3. OutsideTyped
    BY DEF OutsideTyped
  <2>4. QED
    BY <2>1, <2>2, <2>3, TypeParts
<1>2. IsFiniteSet(rows) /\ Cardinality(rows) = 0
  BY FS_EmptySet
<1>3. Handler
  BY DEF Handler, Offer, FrameAsked, Importing
<1>4. EndedBySeen
  BY DEF EndedBySeen, Results
<1>5. WithinQuota
  <2>1. \A t \in Todos : {r \in rows : r.todo = t /\ r.phase = "none"} = {}
    OBVIOUS
  <2>2. QED
    BY <2>1, FS_EmptySet DEF WithinQuota
<1>6. ArtifactsSafe
  BY <1>5 DEF ArtifactsSafe, Journalled, WholeFiles, FramesAreFirst, EvidenceOwn, Fenced,
              ServedIsDeclared, EditKept, Results
<1>7. QED
  BY <1>1, <1>2, <1>3, <1>4, <1>6 DEF IInv

\* The row a commit adds, where there is one.
LEMMA RowTyped ==
    ASSUME ImportAssumption, TypeOK, Handler, pc = "placed"
    PROVE  Row \in Rows /\ Row.seq = Number
<1>1. Number \in 1..MaxEvents
  BY DEF ImportAssumption, TypeOK, Handler, Offer, Number
<1>2. Boundary(ev) \in {"none", "before", "after"}
  BY DEF Boundary
<1>3. CASE ev.type \in Artifacts
  BY <1>1, <1>3 DEF Row, Rows, Handler, Offer, Artifacts
<1>4. CASE ev.type \notin Artifacts
  <2>1. frame \in Contents /\ Boundary(ev) # "none"
    BY <1>4 DEF TypeOK, Handler, FrameAsked, Importing, Contents
  <2>2. ev.type # "hello"
    BY <2>1 DEF Boundary, After
  <2>3. QED
    BY <1>1, <1>2, <1>4, <2>1, <2>2 DEF Row, Rows, Handler, Offer
<1>5. QED
  BY <1>3, <1>4

LEMMA NewRowsTyped ==
    ASSUME ImportAssumption, TypeOK, Handler, IsFiniteSet(rows)
    PROVE  NewRows \subseteq Rows /\ IsFiniteSet(NewRows)
<1>1. CASE pc = "placed"
  <2>1. NewRows = rows \cup {Row}
    BY <1>1 DEF NewRows
  <2>2. Row \in Rows /\ rows \subseteq Rows
    BY <1>1, RowTyped DEF TypeOK
  <2>3. IsFiniteSet(rows \cup {Row})
    BY FS_AddElement
  <2>4. QED
    BY <2>1, <2>2, <2>3
<1>2. CASE pc # "placed"
  BY <1>2 DEF NewRows, TypeOK
<1>3. QED
  BY <1>1, <1>2

LEMMA EvidenceTyped ==
    ASSUME ImportAssumption, TypeOK, Handler, pc # "idle", NEW R \in SUBSET Rows
    PROVE  Evidence(ev, R) \subseteq 1..MaxEvents
BY DEF Handler, Offer, Events, Evidence, Rows

LEMMA AttemptTyped ==
    ASSUME ImportAssumption, LedgerTyped
    PROVE  /\ [attempt EXCEPT !.state = "running"] \in [state : Live \cup {"ended"}, at : 0..MaxEvents]
           /\ [attempt EXCEPT !.state = "cancelling"] \in [state : Live \cup {"ended"}, at : 0..MaxEvents]
           /\ [state |-> "ended", at |-> Len(journal)] \in [state : Live \cup {"ended"}, at : 0..MaxEvents]
           /\ Closed \in [Todos -> Results \cup {"none", "running", "closed"}]
<1>1. [attempt EXCEPT !.state = "running"] \in [state : Live \cup {"ended"}, at : 0..MaxEvents]
  BY DEF LedgerTyped, Live
<1>2. [attempt EXCEPT !.state = "cancelling"] \in [state : Live \cup {"ended"}, at : 0..MaxEvents]
  BY DEF LedgerTyped, Live
<1>3. [state |-> "ended", at |-> Len(journal)] \in [state : Live \cup {"ended"}, at : 0..MaxEvents]
  <2>1. Len(journal) \in 0..MaxEvents
    BY Bounds DEF LedgerTyped
  <2>2. QED
    BY <2>1
<1>4. Closed \in [Todos -> Results \cup {"none", "running", "closed"}]
  BY DEF LedgerTyped, Closed
<1>5. QED
  BY <1>1, <1>2, <1>3, <1>4

LEMMA LedgerStep == ASSUME ImportAssumption, IInv, Next PROVE LedgerTyped'
<1>1. LedgerTyped /\ HandlerTyped
  BY TypeParts DEF IInv
<1>2. CASE UNCHANGED ledgerVars
  BY <1>1, <1>2 DEF LedgerTyped, ledgerVars
<1>3. CASE Commit
  <2>1. pc # "idle" /\ ev \in Events /\ Len(journal) < MaxEvents
    BY <1>3 DEF Commit, IInv, Handler, Offer
  <2>2. journal' \in Seq(Events) /\ Len(journal') <= MaxEvents
    BY <1>1, <1>3, <2>1, Bounds DEF Commit, LedgerTyped
  <2>3. rows' \subseteq Rows
    BY <1>3, NewRowsTyped DEF Commit, IInv
  <2>4. attempt' \in [state : Live \cup {"ended"}, at : 0..MaxEvents]
    BY <1>1, <1>3, AttemptTyped DEF Commit, LedgerTyped
  <2>5. try' \in [Todos -> Results \cup {"none", "running", "closed"}]
    BY <1>1, <1>3, <2>1 DEF Commit, LedgerTyped, IInv, Handler, Offer
  <2>6. refs' \in [Todos -> SUBSET (1..MaxEvents)]
    <3>1. Evidence(ev, NewRows) \subseteq 1..MaxEvents
      BY <2>1, EvidenceTyped, NewRowsTyped DEF IInv
    <3>2. QED
      BY <1>1, <1>3, <3>1 DEF Commit, LedgerTyped
  <2>7. aside' \in BOOLEAN
    BY <1>1, <1>3 DEF Commit, LedgerTyped
  <2>8. QED
    BY <2>2, <2>3, <2>4, <2>5, <2>6, <2>7 DEF LedgerTyped
<1>4. CASE Cancel \/ End \/ Crash
  <2>1. attempt' \in [state : Live \cup {"ended"}, at : 0..MaxEvents]
    BY <1>1, <1>4, AttemptTyped DEF Cancel, End, Crash, EndAttempt
  <2>2. try' \in [Todos -> Results \cup {"none", "running", "closed"}]
    BY <1>1, <1>4, AttemptTyped DEF Cancel, End, Crash, EndAttempt, LedgerTyped
  <2>3. aside' \in BOOLEAN /\ refs' = refs /\ journal' = journal /\ rows' = rows
    BY <1>1, <1>4 DEF Cancel, End, Crash, LedgerTyped
  <2>4. QED
    BY <1>1, <2>1, <2>2, <2>3 DEF LedgerTyped
<1>5. QED
  BY <1>2, <1>3, <1>4 DEF Next, Deliver, Look, Read, Check, Place, PlaceFrame, NoteFrame, Fail,
        EditProfile, Stage, Meddle, Serve

LEMMA HandlerTypeStep == ASSUME ImportAssumption, IInv, Next PROVE HandlerTyped'
<1>1. HandlerTyped /\ OutsideTyped
  BY TypeParts DEF IInv
<1>2. CASE UNCHANGED handlerVars
  BY <1>1, <1>2 DEF HandlerTyped, handlerVars
<1>3. CASE Deliver
  <2>1. ev' \in Events
    BY <1>3, OfferedShape DEF Deliver, IInv
  <2>2. QED
    BY <1>1, <1>3, <2>1 DEF Deliver, HandlerTyped
<1>4. CASE Rest /\ open' \in BOOLEAN
  BY <1>4, Bounds DEF HandlerTyped, Rest
<1>5. CASE Look \/ Read
  <2>1. ev \in Events /\ ev.name \in Names /\ pc # "idle"
    BY <1>5 DEF Look, Read, IInv, Handler, Offer, Importing
  <2>2. staged[ev.name].content \in Contents \cup {None} /\ staged[ev.name].time \in 0..MaxWrites
    BY <1>1, <2>1 DEF OutsideTyped
  <2>3. QED
    BY <1>1, <1>5, <2>1, <2>2 DEF Look, Read, HandlerTyped
<1>6. CASE Check \/ Place \/ PlaceFrame \/ NoteFrame
  BY <1>1, <1>6 DEF Check, Place, PlaceFrame, NoteFrame, HandlerTyped, outsideVars
<1>7. CASE Stage
  BY <1>1, <1>7 DEF Stage, HandlerTyped
<1>8. QED
  <2>1. open \in BOOLEAN
    BY <1>1 DEF HandlerTyped
  <2>2. CASE Commit \/ Fail \/ Crash
    BY <1>4, <2>1, <2>2 DEF Commit, Fail, Crash
  <2>3. CASE Cancel \/ End \/ EditProfile \/ Meddle \/ Serve
    BY <1>2, <2>3 DEF Cancel, End, EditProfile, Meddle, Serve
  <2>4. QED
    BY <1>3, <1>5, <1>6, <1>7, <2>2, <2>3 DEF Next

LEMMA FilesStep == ASSUME ImportAssumption, IInv, Next PROVE FilesTyped'
<1>1. FilesTyped /\ HandlerTyped
  BY TypeParts DEF IInv
<1>2. CASE UNCHANGED files
  BY <1>1, <1>2 DEF FilesTyped
<1>3. ASSUME NEW c \in Contents \cup {None, Torn}, files' = [files EXCEPT ![Number] = c] PROVE FilesTyped'
  BY <1>1, <1>3 DEF FilesTyped
<1>4. CASE Place \/ PlaceFrame
  BY <1>1, <1>3, <1>4 DEF Place, PlaceFrame, HandlerTyped, Contents
<1>5. CASE Fail
  BY <1>2, <1>3, <1>5 DEF Fail
<1>6. CASE Meddle
  BY <1>1, <1>6 DEF Meddle, FilesTyped
<1>7. QED
  BY <1>2, <1>4, <1>5, <1>6 DEF Next, Deliver, Look, Read, Check, NoteFrame, Commit, Cancel, End, Crash,
        EditProfile, Stage, Serve

LEMMA ProfileStep == ASSUME ImportAssumption, IInv, Next PROVE ProfileTyped'
<1>1. ProfileTyped
  BY TypeParts DEF IInv
<1>2. CASE UNCHANGED profileVars
  BY <1>1, <1>2 DEF ProfileTyped, profileVars
<1>3. CASE EditProfile
  BY <1>1, <1>3 DEF EditProfile, ProfileTyped
<1>4. CASE Commit
  <2>1. ev.next \in Profiles
    BY <1>4 DEF Commit, IInv, Handler, Offer, Events
  <2>2. QED
    BY <1>1, <1>2, <1>4, <2>1 DEF Commit, FollowCycle, ProfileTyped
<1>5. QED
  BY <1>2, <1>3, <1>4 DEF Next, Deliver, Look, Read, Check, Place, PlaceFrame, NoteFrame, Fail, Cancel, End,
        Crash, Stage, Meddle, Serve

LEMMA OutsideStep == ASSUME ImportAssumption, IInv, Next PROVE OutsideTyped'
<1>1. OutsideTyped /\ FilesTyped /\ LedgerTyped
  BY TypeParts DEF IInv
<1>2. CASE UNCHANGED outsideVars
  BY <1>1, <1>2 DEF OutsideTyped, outsideVars
<1>3. CASE Stage
  <2>1. writes' \in 0..MaxWrites
    BY <1>1, <1>3, Bounds DEF Stage, OutsideTyped
  <2>2. PICK n \in Names, c \in Contents, t \in 0..MaxWrites :
           staged' = [staged EXCEPT ![n] = [content |-> c, time |-> t]]
    BY <1>3 DEF Stage
  <2>3. QED
    BY <1>1, <1>3, <2>1, <2>2 DEF Stage, OutsideTyped
<1>4. CASE Meddle
  <2>1. DOMAIN journal \subseteq 1..MaxEvents
    BY <1>1, Bounds DEF LedgerTyped
  <2>2. foreign' \subseteq 1..MaxEvents
    BY <1>1, <1>4, <2>1 DEF Meddle, OutsideTyped
  <2>3. QED
    BY <1>1, <1>4, <2>2 DEF Meddle, OutsideTyped
<1>5. CASE Serve
  <2>1. PICK r \in rows : Intact(r, files[r.seq]) /\ served' = served \cup {<<r.seq, files[r.seq]>>}
    BY <1>5 DEF Serve
  <2>2. r.seq \in 1..MaxEvents
    BY <1>1 DEF LedgerTyped, Rows
  <2>3. files[r.seq] \in Contents \cup {Torn}
    BY <1>1, <2>1, <2>2 DEF FilesTyped, Intact
  <2>4. served' \subseteq (1..MaxEvents) \X (Contents \cup {Torn})
    BY <1>1, <2>1, <2>2, <2>3 DEF OutsideTyped
  <2>5. QED
    BY <1>1, <1>5, <2>4 DEF Serve, OutsideTyped
<1>6. QED
  BY <1>2, <1>3, <1>4, <1>5 DEF Next, Deliver, Look, Read, Check, Place, PlaceFrame, NoteFrame, Commit, Fail,
        Cancel, End, Crash, EditProfile

LEMMA TypeStep == ASSUME ImportAssumption, IInv, Next PROVE TypeOK'
BY LedgerStep, HandlerTypeStep, FilesStep, ProfileStep, OutsideStep
   DEF TypeOK, LedgerTyped, HandlerTyped, FilesTyped, ProfileTyped, OutsideTyped

-----------------------------------------------------------------------------
(* What a step that commits nothing leaves alone. *)

LEMMA Kept ==
    ASSUME ImportAssumption, IInv, Next, ~Commit
    PROVE  /\ UNCHANGED <<journal, rows, refs>>
           /\ \A t \in Todos : try'[t] \in Results => try'[t] = try[t]
           /\ attempt' = attempt \/ attempt'.at = Len(journal) \/ attempt'.state = "cancelling"
           /\ foreign \subseteq foreign'
           /\ \A k \in DOMAIN journal : k \in foreign' \/ files'[k] = files[k]
<1>1. /\ journal \in Seq(Events) /\ files \in [1..MaxEvents -> Contents \cup {None, Torn}]
      /\ attempt \in [state : Live \cup {"ended"}, at : 0..MaxEvents]
      /\ try \in [Todos -> Results \cup {"none", "running", "closed"}]
      /\ DOMAIN journal \subseteq 1..MaxEvents
  BY Bounds DEF IInv, TypeOK
<1>2. UNCHANGED <<journal, rows, refs>>
  BY DEF Next, Deliver, Look, Read, Check, Place, PlaceFrame, NoteFrame, Fail, Cancel, End, Crash,
         EditProfile, Stage, Meddle, Serve, ledgerVars
<1>3. UNCHANGED <<attempt, try>> \/ Cancel \/ End \/ Crash
  BY DEF Next, Deliver, Look, Read, Check, Place, PlaceFrame, NoteFrame, Fail,
         EditProfile, Stage, Meddle, Serve, ledgerVars
<1>4. \A t \in Todos : try'[t] \in Results => try'[t] = try[t]
  BY <1>1, <1>3 DEF Cancel, End, Crash, EndAttempt, Closed, Results
<1>5. attempt' = attempt \/ attempt'.at = Len(journal) \/ attempt'.state = "cancelling"
  BY <1>1, <1>3 DEF Cancel, End, Crash, EndAttempt
<1>6. Number \notin DOMAIN journal
  BY <1>1 DEF Number
<1>7. UNCHANGED <<files, foreign>> \/ Place \/ PlaceFrame \/ Fail \/ Meddle
  BY DEF Next, Deliver, Look, Read, Check, NoteFrame, Cancel, End, Crash,
         EditProfile, Stage, Serve, outsideVars
<1>8. foreign \subseteq foreign'
  BY <1>7 DEF Place, PlaceFrame, Fail, Meddle, outsideVars
<1>9. \A k \in DOMAIN journal : k \in foreign' \/ files'[k] = files[k]
  <2>1. CASE Place \/ PlaceFrame \/ Fail
    <3>1. files' = files \/ \E c : files' = [files EXCEPT ![Number] = c]
      BY <2>1 DEF Place, PlaceFrame, Fail
    <3>2. QED
      BY <1>1, <1>6, <3>1
  <2>2. CASE Meddle
    BY <1>1, <2>2 DEF Meddle
  <2>3. QED
    BY <1>7, <2>1, <2>2
<1>10. QED
  BY <1>2, <1>4, <1>5, <1>8, <1>9

LEMMA BoundaryOf ==
    ASSUME NEW e, Boundary(e) # "none"
    PROVE  /\ e.type \in {"started", "returned", "terminal"} /\ e.type \notin Artifacts
           /\ Boundary(e) = "before" => e.type = "started"
           /\ Boundary(e) \in {"before", "after"}
           /\ Boundary(e) = "after" =>
                 e.type \in After /\ \A type \in After : ~Seen(type, e.todo)
BY DEF Boundary, After, Artifacts

-----------------------------------------------------------------------------
(* What the handler establishes before it commits. *)

LEMMA HandlerStep == ASSUME ImportAssumption, IInv, Next PROVE Handler'
<1>1. Handler /\ LedgerTyped /\ HandlerTyped /\ FilesTyped
  BY TypeParts DEF IInv
<1>2. Number \notin DOMAIN journal
  BY <1>1 DEF Number, LedgerTyped
<1>3. CASE pc' = "idle"
  BY <1>3 DEF Handler, Offer, FrameAsked, Importing
<1>4. CASE Deliver
  <2>1. PICK e \in Offered :
           /\ FromStream(e) /\ ev' = e
           /\ frame' \in (IF Captures /\ Boundary(e) # "none" THEN Images ELSE {}) \cup {None}
    BY <1>4 DEF Deliver
  <2>2. UNCHANGED <<journal, rows>> /\ pc' = "begin" /\ Len(journal) < MaxEvents
    BY <1>4 DEF Deliver, ledgerVars
  <2>3. Offer'
    BY <2>1, <2>2, OfferedShape DEF Offer, Seen, IInv
  <2>4. frame' # None => Boundary(e) # "none"
    BY <2>1
  <2>5. Boundary(ev)' = Boundary(e)
    BY <2>1, <2>2 DEF Boundary, Seen
  <2>6. FrameAsked'
    BY <2>1, <2>4, <2>5, BoundaryOf DEF FrameAsked
  <2>7. Importing'
    BY <2>2 DEF Importing
  <2>8. QED
    BY <2>3, <2>6, <2>7 DEF Handler
<1>5. ASSUME UNCHANGED <<journal, rows, ev>>, frame' \in {frame, None}, pc # "idle"
      PROVE  Offer' /\ FrameAsked'
  <2>1. Offer'
    BY <1>1, <1>5 DEF Handler, Offer, Seen
  <2>2. Boundary(ev)' = Boundary(ev)
    BY <1>5 DEF Boundary, Seen
  <2>3. FrameAsked'
    BY <1>1, <1>5, <2>2 DEF Handler, FrameAsked
  <2>4. QED
    BY <2>1, <2>3
<1>6. CASE Look
  <2>1. UNCHANGED <<journal, rows, ev, frame>> /\ pc = "begin" /\ pc' = "read"
    BY <1>6 DEF Look, ledgerVars
  <2>2. Importing'
    BY <1>6, <2>1 DEF Look, UnderQuota, Importing, Usage
  <2>3. QED
    BY <1>5, <2>1, <2>2 DEF Handler
<1>7. CASE Read \/ Check
  <2>1. UNCHANGED <<journal, rows, ev, frame>> /\ pc \in {"read", "check"} /\ pc' \in {"check", "place"}
    BY <1>7 DEF Read, Check, ledgerVars
  <2>2. Importing'
    BY <1>1, <1>7, <2>1 DEF Read, Check, DigestAgrees, Handler, Importing, Usage
  <2>3. QED
    BY <1>5, <2>1, <2>2 DEF Handler
<1>8. CASE Place \/ PlaceFrame
  <2>1. UNCHANGED <<journal, rows, ev, frame>> /\ pc \in {"begin", "place"} /\ pc' = "placed"
    BY <1>8 DEF Place, PlaceFrame, ledgerVars
  <2>2. Number \in 1..MaxEvents /\ Number' = Number
    BY <1>1, <2>1, Bounds DEF Number, LedgerTyped, Handler, Offer
  <2>3. files' = [files EXCEPT ![Number] = IF ev.type \in Artifacts THEN ev.content ELSE frame]
    BY <1>1, <1>8, <2>1 DEF Place, PlaceFrame, Handler, Importing, FrameAsked
  <2>4. files'[Number] = IF ev.type \in Artifacts THEN ev.content ELSE frame
    BY <1>1, <2>2, <2>3 DEF FilesTyped
  <2>5. Usage(ev.todo)' = Usage(ev.todo)
    BY <2>1 DEF Usage
  <2>6. ev.type \in Artifacts \/ frame # None
    BY <1>1, <1>8 DEF Place, PlaceFrame, Handler, Importing
  <2>7. ev.type \in Artifacts => Usage(ev.todo) < MaxPerTodo
    BY <1>1, <1>8 DEF Place, PlaceFrame, Handler, Importing, FrameAsked
  <2>8. Importing'
    BY <2>1, <2>2, <2>4, <2>5, <2>6, <2>7 DEF Importing
  <2>9. QED
    BY <1>5, <2>1, <2>8 DEF Handler
<1>9. CASE NoteFrame
  <2>1. UNCHANGED <<journal, rows, ev, pc>> /\ frame' = None /\ pc = "begin"
    BY <1>9 DEF NoteFrame, ledgerVars
  <2>2. Importing'
    BY <2>1 DEF Importing
  <2>3. QED
    BY <1>5, <2>1, <2>2 DEF Handler
<1>10. CASE Cancel \/ End \/ EditProfile \/ Serve \/ Stage \/ Meddle
  <2>1. UNCHANGED <<journal, rows, ev, frame, pc>>
    BY <1>10 DEF Cancel, End, EditProfile, Serve, Stage, Meddle, ledgerVars, handlerVars
  <2>2. pc = "placed" => files'[Number] = files[Number]
    <3>1. files' = files \/ \E k \in DOMAIN journal, c \in Contents \cup {None} : files' = [files EXCEPT ![k] = c]
      BY <1>10 DEF Cancel, End, EditProfile, Serve, Stage, Meddle
    <3>2. pc = "placed" => Number \in 1..MaxEvents
      BY <1>1, Bounds DEF Number, LedgerTyped, Handler, Offer
    <3>3. QED
      BY <1>1, <1>2, <3>1, <3>2 DEF FilesTyped
  <2>3. pc = "place" => got' = got
    BY <1>10 DEF Cancel, End, EditProfile, Serve, Stage, Meddle, handlerVars
  <2>4. Number' = Number /\ Usage(ev.todo)' = Usage(ev.todo)
    BY <2>1 DEF Number, Usage
  <2>5. Importing'
    BY <1>1, <2>1, <2>2, <2>3, <2>4 DEF Importing, Handler
  <2>6. CASE pc # "idle"
    BY <1>5, <2>1, <2>5, <2>6 DEF Handler
  <2>7. QED
    BY <1>3, <2>1, <2>6
<1>11. QED
  BY <1>3, <1>4, <1>6, <1>7, <1>8, <1>9, <1>10 DEF Next, Commit, Fail, Crash, Rest

-----------------------------------------------------------------------------
(* A step that commits nothing keeps what was committed. *)

LEMMA SafeStepOthers == ASSUME ImportAssumption, IInv, Next, ~Commit PROVE ArtifactsSafe'
<1>1. ArtifactsSafe /\ LedgerTyped /\ FilesTyped /\ ProfileTyped
  BY TypeParts DEF IInv
<1>2. UNCHANGED <<journal, rows, refs>>
  BY Kept
<1>3. Journalled' /\ WithinQuota' /\ FramesAreFirst'
  BY <1>1, <1>2 DEF ArtifactsSafe, Journalled, WithinQuota, FramesAreFirst
<1>4. WholeFiles'
  <2>1. \A r \in rows : r.seq \in DOMAIN journal /\ (r.seq \in foreign \/ files[r.seq] = r.content)
    BY <1>1 DEF ArtifactsSafe, Journalled, WholeFiles
  <2>2. QED
    BY <1>2, <2>1, Kept DEF WholeFiles
<1>5. EvidenceOwn'
  <2>1. \A t \in Todos : try'[t] \in Results => try'[t] = try[t]
    BY Kept
  <2>2. QED
    BY <1>1, <1>2, <2>1 DEF ArtifactsSafe, EvidenceOwn
<1>6. Fenced'
  <2>1. attempt' = attempt \/ attempt'.at = Len(journal) \/ attempt'.state = "cancelling"
    BY Kept
  <2>2. QED
    BY <1>1, <1>2, <2>1 DEF ArtifactsSafe, Fenced
<1>7. ServedIsDeclared'
  <2>1. CASE UNCHANGED served
    BY <1>1, <1>2, <2>1 DEF ArtifactsSafe, ServedIsDeclared
  <2>2. CASE Serve
    <3>1. PICK r \in rows : Intact(r, files[r.seq]) /\ served' = served \cup {<<r.seq, files[r.seq]>>}
      BY <2>2 DEF Serve
    <3>2. r.seq \in DOMAIN journal /\ files[r.seq] = r.content
      BY <1>1, <3>1 DEF ArtifactsSafe, Journalled, Intact
    <3>3. ASSUME NEW p \in served' PROVE p[1] \in DOMAIN journal /\ \E q \in rows : q.seq = p[1] /\ q.content = p[2]
      BY <1>1, <3>1, <3>2, <3>3 DEF ArtifactsSafe, ServedIsDeclared
    <3>4. QED
      BY <1>2, <3>3 DEF ServedIsDeclared
  <2>3. QED
    BY <2>1, <2>2 DEF Next, Deliver, Look, Read, Check, Place, PlaceFrame, NoteFrame, Fail, Cancel, End,
          Crash, EditProfile, Stage, Meddle, outsideVars
<1>8. EditKept'
  <2>1. UNCHANGED profileVars \/ profile' = edited'
    BY DEF Next, Deliver, Look, Read, Check, Place, PlaceFrame, NoteFrame, Fail, Cancel, End,
           Crash, EditProfile, Stage, Meddle, Serve
  <2>2. QED
    BY <1>1, <2>1 DEF ArtifactsSafe, EditKept, profileVars
<1>9. QED
  BY <1>3, <1>4, <1>5, <1>6, <1>7, <1>8 DEF ArtifactsSafe

-----------------------------------------------------------------------------
(* A commit: the event, its artifact and what it ends, as one. *)

\* What a commit reads and writes.
LEMMA Committed ==
    ASSUME ImportAssumption, IInv, Commit
    PROVE  /\ pc \in {"begin", "placed"} /\ ev \in Events
           /\ journal' = Append(journal, ev) /\ rows' = NewRows
           /\ DOMAIN journal' = DOMAIN journal \cup {Number} /\ Number \notin DOMAIN journal
           /\ journal'[Number] = ev /\ \A k \in DOMAIN journal : journal'[k] = journal[k]
           /\ rows \subseteq rows' /\ \A r \in rows : r.seq \in DOMAIN journal
           /\ \A r \in rows' : r \in rows \/ (pc = "placed" /\ r = Row)
           /\ pc = "placed" => Row \in rows' /\ Row.seq = Number
<1>1. journal \in Seq(Events) /\ pc # "idle" /\ ev \in Events
  BY DEF IInv, TypeOK, Commit, Handler, Offer
<1>2. /\ journal' = Append(journal, ev) /\ rows' = NewRows /\ pc \in {"begin", "placed"}
  BY DEF Commit
<1>3. /\ DOMAIN journal' = DOMAIN journal \cup {Number} /\ Number \notin DOMAIN journal
      /\ journal'[Number] = ev /\ \A k \in DOMAIN journal : journal'[k] = journal[k]
  BY <1>1, <1>2 DEF Number
<1>4. \A r \in rows : r.seq \in DOMAIN journal
  BY DEF IInv, ArtifactsSafe, Journalled
<1>5. /\ rows \subseteq rows' /\ \A r \in rows' : r \in rows \/ (pc = "placed" /\ r = Row)
      /\ pc = "placed" => Row \in rows'
  <2>1. CASE pc = "placed"
    <3>1. rows' = rows \cup {Row}
      BY <1>2, <2>1 DEF NewRows
    <3>2. QED
      BY <2>1, <3>1
  <2>2. CASE pc # "placed"
    <3>1. rows' = rows
      BY <1>2, <2>2 DEF NewRows
    <3>2. QED
      BY <2>2, <3>1
  <2>3. QED
    BY <2>1, <2>2
<1>6. pc = "placed" => Row.seq = Number
  BY RowTyped DEF IInv
<1>7. QED
  BY <1>1, <1>2, <1>3, <1>4, <1>5, <1>6

\* The row of a commit: a declared artifact, or a frame of a first boundary.
LEMMA RowOf ==
    ASSUME ImportAssumption, IInv, Commit, pc = "placed"
    PROVE  /\ Row.todo = ev.todo /\ Row.own = (ev.type # "run_artifact")
           /\ ev.type \in Artifacts => Row.phase = "none" /\ Row.content = ev.content
           /\ ev.type \notin Artifacts => Row.phase = Boundary(ev) /\ Boundary(ev) # "none"
           /\ files[Number] = Row.content
<1>1. Handler
  BY DEF IInv
<1>2. /\ Row.todo = ev.todo /\ Row.own = (ev.type # "run_artifact")
      /\ Row.phase = (IF ev.type \in Artifacts THEN "none" ELSE Boundary(ev))
      /\ Row.content = (IF ev.type \in Artifacts THEN ev.content ELSE frame)
  BY DEF Row
<1>3. files[Number] = (IF ev.type \in Artifacts THEN ev.content ELSE frame)
  BY <1>1 DEF Handler, Importing
<1>4. ev.type \notin Artifacts => Boundary(ev) # "none"
  BY <1>1 DEF Handler, Importing, FrameAsked
<1>5. QED
  BY <1>2, <1>3, <1>4

LEMMA CommitJournalled == ASSUME ImportAssumption, IInv, Commit PROVE Journalled'
<1>1. Journalled
  BY DEF IInv, ArtifactsSafe
<1>2. ASSUME NEW r \in rows'
      PROVE  /\ r.seq \in DOMAIN journal' /\ r.todo = journal'[r.seq].todo
             /\ r.own = (journal'[r.seq].type # "run_artifact")
             /\ r.phase = "none" => journal'[r.seq].type \in Artifacts /\ r.content = journal'[r.seq].content
  <2>1. CASE r \in rows
    BY <1>1, <2>1, Committed DEF Journalled
  <2>2. CASE pc = "placed" /\ r = Row
    <3>1. r.seq = Number /\ Number \in DOMAIN journal' /\ journal'[Number] = ev
      BY <2>2, Committed
    <3>2. QED
      BY <2>2, <3>1, RowOf
  <2>3. QED
    BY <2>1, <2>2, Committed
<1>3. ASSUME NEW r \in rows', NEW s \in rows', r.seq = s.seq PROVE r = s
  <2>1. \A q \in rows : q.seq \in DOMAIN journal /\ q.seq # Number
    BY Committed
  <2>2. /\ r \in rows \/ (r = Row /\ r.seq = Number)
        /\ s \in rows \/ (s = Row /\ s.seq = Number)
    BY Committed
  <2>3. QED
    BY <1>1, <1>3, <2>1, <2>2 DEF Journalled
<1>4. ASSUME NEW k \in DOMAIN journal', journal'[k].type \in Artifacts PROVE \E r \in rows' : r.seq = k
  <2>1. CASE k \in DOMAIN journal
    BY <1>1, <1>4, <2>1, Committed DEF Journalled
  <2>2. CASE k = Number
    <3>1. pc = "placed"
      BY <1>4, <2>2, Committed DEF Commit
    <3>2. QED
      BY <2>2, <3>1, Committed
  <2>3. QED
    BY <2>1, <2>2, Committed
<1>5. QED
  BY <1>2, <1>3, <1>4 DEF Journalled

LEMMA CommitWithinQuota == ASSUME ImportAssumption, IInv, Commit PROVE WithinQuota'
<1> DEFINE Brought(t, R) == {r \in R : r.todo = t /\ r.phase = "none"}
<1>1. IsFiniteSet(rows) /\ MaxPerTodo \in Nat
  BY Bounds DEF IInv
<1>2. SUFFICES ASSUME NEW t \in Todos PROVE Cardinality(Brought(t, rows')) <= MaxPerTodo
  BY DEF WithinQuota
<1>3. Cardinality(Brought(t, rows)) <= MaxPerTodo
  BY DEF IInv, ArtifactsSafe, WithinQuota
<1>4. CASE pc = "placed" /\ ev.type \in Artifacts /\ ev.todo = t
  <2>1. Usage(t) < MaxPerTodo /\ Usage(t) = Cardinality({r \in rows : r.todo = t})
    BY <1>4 DEF IInv, Handler, Importing, Usage
  <2>2. IsFiniteSet({r \in rows : r.todo = t})
    BY <1>1, FS_Subset
  <2>3. Brought(t, rows') \subseteq {r \in rows : r.todo = t} \cup {Row}
    BY Committed
  <2>4. /\ IsFiniteSet({r \in rows : r.todo = t} \cup {Row})
        /\ Cardinality({r \in rows : r.todo = t} \cup {Row}) <= Usage(t) + 1
        /\ Usage(t) \in Nat
    <3>1. Usage(t) \in Nat
      BY <2>1, <2>2, FS_CardinalityType
    <3>2. /\ IsFiniteSet({r \in rows : r.todo = t} \cup {Row})
          /\ \/ Cardinality({r \in rows : r.todo = t} \cup {Row}) = Usage(t)
             \/ Cardinality({r \in rows : r.todo = t} \cup {Row}) = Usage(t) + 1
      BY <2>1, <2>2, FS_AddElement
    <3>3. QED
      BY <3>1, <3>2
  <2>5. IsFiniteSet(Brought(t, rows')) /\ Cardinality(Brought(t, rows')) <= Usage(t) + 1
    <3>1. /\ IsFiniteSet(Brought(t, rows'))
          /\ Cardinality(Brought(t, rows')) <= Cardinality({r \in rows : r.todo = t} \cup {Row})
      BY <2>3, <2>4, FS_Subset
    <3>2. Cardinality(Brought(t, rows')) \in Nat /\ Cardinality({r \in rows : r.todo = t} \cup {Row}) \in Nat
      BY <2>4, <3>1, FS_CardinalityType
    <3>3. QED
      BY <2>4, <3>1, <3>2
  <2>6. Cardinality(Brought(t, rows')) \in Nat
    BY <2>5, FS_CardinalityType
  <2>7. QED
    BY <1>1, <2>1, <2>4, <2>5, <2>6
<1>5. CASE ~(pc = "placed" /\ ev.type \in Artifacts /\ ev.todo = t)
  <2>1. pc = "placed" => ~(Row.todo = t /\ Row.phase = "none")
    BY <1>5, RowOf
  <2>2. Brought(t, rows') = Brought(t, rows)
    BY <2>1, Committed
  <2>3. QED
    BY <1>3, <2>2
<1>6. QED
  BY <1>4, <1>5

LEMMA CommitFramesAreFirst == ASSUME ImportAssumption, IInv, Commit PROVE FramesAreFirst'
<1>1. FramesAreFirst /\ journal \in Seq(Events)
  BY DEF IInv, ArtifactsSafe, TypeOK
<1>2. ASSUME NEW r \in rows'
      PROVE  /\ r.phase = "before" => journal'[r.seq].type = "started"
             /\ r.phase = "after" => journal'[r.seq].type \in After
             /\ r.phase = "after" => \A k \in 1..(r.seq - 1) :
                   ~(journal'[k].type \in After /\ journal'[k].todo = r.todo)
  <2>1. CASE r \in rows
    <3>1. r.seq \in DOMAIN journal /\ \A k \in 1..(r.seq - 1) : k \in DOMAIN journal
      BY <1>1, <2>1, Committed
    <3>2. QED
      BY <1>1, <2>1, <3>1, Committed DEF FramesAreFirst
  <2>2. CASE pc = "placed" /\ r = Row
    <3>1. r.seq = Number /\ journal'[Number] = ev /\ r.todo = ev.todo
      BY <2>2, Committed, RowOf
    <3>2. r.phase # "none" => r.phase = Boundary(ev) /\ Boundary(ev) # "none"
      BY <2>2, RowOf
    <3>3. \A k \in 1..(Number - 1) : k \in DOMAIN journal /\ journal'[k] = journal[k]
      BY <1>1, Committed DEF Number
    <3>4. ASSUME r.phase = "after"
          PROVE  \A k \in 1..(Number - 1) : ~(journal[k].type \in After /\ journal[k].todo = ev.todo)
      BY <3>2, <3>3, <3>4, BoundaryOf DEF Seen
    <3>5. QED
      BY <3>1, <3>2, <3>3, <3>4, BoundaryOf
  <2>3. QED
    BY <2>1, <2>2, Committed
<1>3. QED
  BY <1>2 DEF FramesAreFirst

LEMMA CommitEvidenceOwn == ASSUME ImportAssumption, IInv, Commit PROVE EvidenceOwn'
<1>1. /\ EvidenceOwn /\ EndedBySeen /\ Offer
      /\ try \in [Todos -> Results \cup {"none", "running", "closed"}]
      /\ refs \in [Todos -> SUBSET (1..MaxEvents)] /\ pc # "idle"
  BY DEF IInv, ArtifactsSafe, TypeOK, Handler, Commit
<1>2. SUFFICES ASSUME NEW t \in Todos, try'[t] \in Results
      PROVE  /\ \A k \in refs'[t] : \E r \in rows' : r.seq = k /\ r.own /\ r.todo = t
             /\ \A r \in rows' : r.todo = t /\ r.phase # "none" => r.seq \in refs'[t]
             /\ try'[t] = "completed" => refs'[t] # {}
  BY DEF EvidenceOwn
<1>3. CASE ev.type = "terminal" /\ ev.todo = t
  <2>1. MayFinish(ev, rows') /\ refs'[t] = Evidence(ev, rows') /\ try'[t] = ev.result
    BY <1>1, <1>3 DEF Commit
  <2>2. \A r \in rows' : r.todo = t /\ r.phase # "none" => r.seq \in Evidence(ev, rows')
    BY <1>3 DEF Evidence
  <2>3. QED
    BY <1>3, <2>1, <2>2 DEF MayFinish
<1>4. CASE ~(ev.type = "terminal" /\ ev.todo = t)
  <2>1. refs'[t] = refs[t]
    BY <1>1, <1>4 DEF Commit
  <2>2. try'[t] = try[t] /\ try[t] \in Results /\ ~(ev.type = "started" /\ ev.todo = t)
    BY <1>1, <1>2, <1>4 DEF Commit, Results
  <2>3. Seen("terminal", t)
    BY <1>1, <2>2 DEF EndedBySeen
  <2>4. ~(ev.todo = t /\ ev.type \in {"started", "returned", "terminal"})
    BY <1>1, <1>4, <2>2, <2>3 DEF Offer, After
  <2>5. pc = "placed" => ~(Row.todo = t /\ Row.phase # "none")
    BY <2>4, RowOf, BoundaryOf
  <2>6. QED
    BY <1>1, <2>1, <2>2, <2>5, Committed DEF EvidenceOwn
<1>5. QED
  BY <1>3, <1>4

LEMMA SafeStepCommit == ASSUME ImportAssumption, IInv, Commit PROVE ArtifactsSafe'
<1>1. ArtifactsSafe /\ attempt \in [state : Live \cup {"ended"}, at : 0..MaxEvents]
  BY DEF IInv, TypeOK
<1>2. WholeFiles'
  <2>1. UNCHANGED <<files, foreign>>
    BY DEF Commit, outsideVars
  <2>2. \A r \in rows : r.seq \in foreign \/ files[r.seq] = r.content
    BY <1>1 DEF ArtifactsSafe, WholeFiles
  <2>3. pc = "placed" => files[Row.seq] = Row.content
    BY Committed, RowOf
  <2>4. QED
    BY <2>1, <2>2, <2>3, Committed DEF WholeFiles
<1>3. Fenced'
  <2>1. attempt.state \in Live /\ attempt'.state \in {attempt.state, "running"}
    BY <1>1 DEF Commit, Admitted
  <2>2. QED
    BY <2>1 DEF Fenced, Live
<1>4. ServedIsDeclared'
  <2>1. UNCHANGED served /\ DOMAIN journal \subseteq DOMAIN journal' /\ rows \subseteq rows'
    BY Committed DEF Commit, outsideVars
  <2>2. QED
    BY <1>1, <2>1 DEF ArtifactsSafe, ServedIsDeclared
<1>5. EditKept'
  BY <1>1 DEF ArtifactsSafe, EditKept, Commit, FollowCycle, MayCycle, profileVars
<1>6. QED
  BY <1>2, <1>3, <1>4, <1>5, CommitJournalled, CommitWithinQuota, CommitFramesAreFirst, CommitEvidenceOwn
     DEF ArtifactsSafe

LEMMA EndedBySeenStep == ASSUME ImportAssumption, IInv, Next PROVE EndedBySeen'
<1>1. EndedBySeen
  BY DEF IInv
<1>2. CASE ~Commit
  BY <1>1, <1>2, Kept DEF EndedBySeen, Seen
<1>3. CASE Commit
  <2>1. /\ try \in [Todos -> Results \cup {"none", "running", "closed"}]
        /\ DOMAIN journal' = DOMAIN journal \cup {Number} /\ journal'[Number] = ev
        /\ \A k \in DOMAIN journal : journal'[k] = journal[k]
    BY <1>3, Committed DEF IInv, TypeOK
  <2>2. \A t \in Todos : Seen("terminal", t) => Seen("terminal", t)'
    BY <2>1 DEF Seen
  <2>3. ASSUME NEW t \in Todos, try'[t] \in Results PROVE Seen("terminal", t)'
    <3>1. CASE ev.type = "terminal" /\ ev.todo = t
      BY <2>1, <3>1 DEF Seen
    <3>2. CASE ~(ev.type = "terminal" /\ ev.todo = t)
      <4>1. try[t] \in Results
        BY <1>3, <2>1, <2>3, <3>2 DEF Commit, Results
      <4>2. QED
        BY <1>1, <2>2, <4>1 DEF EndedBySeen
    <3>3. QED
      BY <3>1, <3>2
  <2>4. QED
    BY <2>3 DEF EndedBySeen
<1>4. QED
  BY <1>2, <1>3

-----------------------------------------------------------------------------
(* Theorems *)

LEMMA InvHolds == ASSUME ImportAssumption PROVE Spec => []IInv
<1>1. Init => IInv
  BY InitInv
<1>2. IInv /\ [Next]_vars => IInv'
  <2>1. CASE IInv /\ Next
    <3>1. IsFiniteSet(rows')
      BY <2>1, NewRowsTyped, Kept DEF Commit, IInv
    <3>2. ArtifactsSafe'
      BY <2>1, SafeStepOthers, SafeStepCommit
    <3>3. QED
      BY <2>1, <3>1, <3>2, TypeStep, HandlerStep, EndedBySeenStep DEF IInv
  <2>2. CASE IInv /\ UNCHANGED vars
    BY <2>2 DEF vars, ledgerVars, handlerVars, profileVars, outsideVars, IInv, TypeOK, Handler, Offer,
       FrameAsked, Importing, EndedBySeen, Seen, Boundary, Usage, Number, ArtifactsSafe, Journalled,
       WholeFiles, WithinQuota, FramesAreFirst, EvidenceOwn, Fenced, ServedIsDeclared, EditKept
  <2>3. QED
    BY <2>1, <2>2
<1>3. QED
  BY <1>1, <1>2, PTL DEF Spec

\* However the runner rewrites its staging files while they are read, whatever
\* fails, crashes, is cancelled or edited meanwhile: the rows of the ledger are
\* what the committed events declared, a whole file of that content stands
\* behind each unless somebody else changed it, frames are of the first event
\* of their boundary, an ended Todo cites its own evidence, an ended attempt
\* takes no event, and a user's profile stays.
THEOREM ArtifactsAreSafe == ASSUME ImportAssumption PROVE Spec => []ArtifactsSafe
<1>1. IInv => ArtifactsSafe
  BY DEF IInv
<1>2. QED
  BY <1>1, InvHolds, PTL
=============================================================================
