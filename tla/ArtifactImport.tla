--------------------------- MODULE ArtifactImport ---------------------------
(***************************************************************************)
(* What becomes of the events of one run attempt in the ledger: the        *)
(* journal of events, the Todo attempts they start and end, the artifacts  *)
(* they stage and the frames the Manager captures at their boundaries.     *)
(*                                                                         *)
(* The reader thread of the Host handles one event at a time.  It captures *)
(* a frame first, then commits everything an event changes as one          *)
(* transaction, under the store's lock; the files it writes meanwhile are  *)
(* outside of it.  The runner may write its staging files at any moment,   *)
(* and two writes may carry the same time of change.  A content stands for *)
(* the bytes, their size and their digest; the event declares it.          *)
(***************************************************************************)
EXTENDS Naturals, Sequences, FiniteSets, FiniteSetsExt

CONSTANTS
    Todos,        \* the executable Todos of the run attempt
    Names,        \* names of staging files
    Images, Logs, \* contents of image and of text files
    Empty,        \* the contents of no byte; the others have one unit
    Profiles,     \* values of the game's profile in the configuration
    Frozen,       \* the profile the run attempt was planned with
    Captures,     \* the Manager captures the frames of a step
    MaxPerTodo, MaxRunBytes,                         \* limits of the manifest
    MaxEvents, MaxWrites, MaxForeign, MaxEdits,      \* bounds
    None, Torn

ImportAssumption ==
    /\ {MaxPerTodo, MaxRunBytes, MaxEvents, MaxWrites, MaxForeign, MaxEdits} \subseteq Nat
    /\ Captures \in BOOLEAN /\ Frozen \in Profiles /\ Empty \subseteq Logs \ Images
    /\ None \notin Images \cup Logs /\ Torn \notin Images \cup Logs \cup {None}
    /\ None \notin Todos \cup Profiles

VARIABLES
    attempt,      \* state of the run attempt, and the length of the journal it ended with
    aside,        \* a committed input recovery or a parked gate took the attempt over
    try,          \* of each Todo the state of its attempt
    refs,         \* of each Todo the evidence its ended attempt cites
    journal,      \* the events that were committed
    rows,         \* artifacts in the ledger, by the event that brought them
    files,        \* files of the Manager, by the event that brought them
    staged,       \* files of the runner with their time of change
    open,         \* the stream of events is not over
    pc, ev, frame, seen, got,       \* what the handler of an event is at
    profile, edited, cycled,        \* the configuration, a user's edit of it, the attempt's own
    served,       \* what readers were given as an artifact
    foreign,      \* files that somebody else changed
    writes        \* how often the runner wrote

ledgerVars == <<attempt, aside, try, refs, journal, rows>>
handlerVars == <<open, pc, ev, frame, seen, got>>
profileVars == <<profile, edited, cycled>>
outsideVars == <<staged, served, foreign, writes>>
vars == <<ledgerVars, handlerVars, profileVars, outsideVars, files>>

Live == {"starting", "running", "cancelling"}
Artifacts == {"artifact", "run_artifact"}
Results == {"completed", "blocked", "review_required", "human_required"}
Types == {"hello", "started", "returned", "cycle", "terminal"} \cup Artifacts
Contents == Images \cup Logs
Size(c) == IF c \in Empty THEN 0 ELSE 1

Events == [type : Types, todo : Todos \cup {None}, name : Names \cup {None},
           content : Contents \cup {None}, result : Results \cup {None},
           cites : SUBSET (1..MaxEvents), next : Profiles]

Rows == [seq : 1..MaxEvents, todo : Todos, own : BOOLEAN,
         phase : {"none", "before", "after"}, content : Contents]

TypeOK ==
    /\ attempt \in [state : Live \cup {"ended"}, at : 0..MaxEvents] /\ aside \in BOOLEAN
    /\ try \in [Todos -> Results \cup {"none", "running", "closed"}]
    /\ refs \in [Todos -> SUBSET (1..MaxEvents)]
    /\ journal \in Seq(Events) /\ Len(journal) <= MaxEvents
    /\ rows \subseteq Rows /\ files \in [1..MaxEvents -> Contents \cup {None, Torn}]
    /\ staged \in [Names -> [content : Contents \cup {None}, time : 0..MaxWrites]]
    /\ open \in BOOLEAN /\ pc \in {"idle", "begin", "read", "check", "place", "placed"}
    /\ ev \in Events \cup {None} /\ (pc # "idle" => ev \in Events)
    /\ frame \in Images \cup {None} /\ got \in Contents \cup {None, Torn}
    /\ seen \in 0..MaxWrites /\ profile \in Profiles /\ edited \in Profiles \cup {None}
    /\ cycled \in BOOLEAN /\ served \subseteq (1..MaxEvents) \X (Contents \cup {Torn})
    /\ foreign \subseteq 1..MaxEvents /\ writes \in 0..MaxWrites

Init ==
    /\ attempt = [state |-> "starting", at |-> 0] /\ aside = FALSE
    /\ try = [t \in Todos |-> "none"] /\ refs = [t \in Todos |-> {}]
    /\ journal = <<>> /\ rows = {} /\ files = [k \in 1..MaxEvents |-> None]
    /\ staged = [n \in Names |-> [content |-> None, time |-> 0]]
    /\ open = TRUE /\ pc = "idle" /\ ev = None /\ frame = None /\ seen = 0 /\ got = None
    /\ profile = Frozen /\ edited = None /\ cycled = FALSE
    /\ served = {} /\ foreign = {} /\ writes = 0

---------------------------------------------------------------------------
(* What the parser of the stream lets through.                             *)
Seen(type, t) == \E k \in DOMAIN journal : journal[k].type = type /\ journal[k].todo = t
Staged(t) == {k \in DOMAIN journal : journal[k].type \in Artifacts /\ journal[k].todo = t}
Bytes(S) == MapThenSumSet(LAMBDA k : Size(journal[k].content), S)

Event(type, t) ==
    [type |-> type, todo |-> t, name |-> None, content |-> None, result |-> None,
     cites |-> {}, next |-> Frozen]
Import(type, t, n, c) == [Event(type, t) EXCEPT !.name = n, !.content = c]
Cycle(t, p)           == [Event("cycle", t) EXCEPT !.next = p]
Terminal(t, x, s)     == [Event("terminal", t) EXCEPT !.result = x, !.cites = s]

\* A terminal cites artifacts of its attempt.
Cited(t) == {k \in Staged(t) : journal[k].type = "artifact"}
Offered ==
    {Event("hello", None)} \cup {Event(y, t) : y \in {"started", "returned"}, t \in Todos}
    \cup {Import(y, t, n, c) : y \in Artifacts, t \in Todos, n \in Names, c \in Contents}
    \cup {Cycle(t, p) : t \in Todos, p \in Profiles}
    \cup UNION {{Terminal(t, x, s) : x \in Results, s \in SUBSET Cited(t)} : t \in Todos}

FromStream(e) ==
    /\ (e.type = "hello") = (journal = <<>>)
    /\ e.type = "started" => ~Seen("started", e.todo)
    /\ e.type \in {"returned", "cycle", "terminal", "artifact"} =>
          Seen("started", e.todo) /\ ~Seen("terminal", e.todo)
    /\ e.type \in Artifacts =>
          /\ Cardinality(Staged(e.todo)) < MaxPerTodo
          /\ Bytes({k \in DOMAIN journal : journal[k].type \in Artifacts}) + Size(e.content) <= MaxRunBytes

---------------------------------------------------------------------------
(* Before the transaction: which frame the event asks for.                 *)

\* The first event of a Todo that ends its step takes the frame after it,
\* also when it could not be captured.
After == {"returned", "terminal"}
Boundary(e) ==
    CASE e.type = "started" /\ ~Seen("started", e.todo) -> "before"
      [] /\ e.type \in After
         /\ \A r \in rows : ~(r.own /\ r.todo = e.todo /\ r.phase = "after")
         /\ \A type \in After : ~Seen(type, e.todo) -> "after"
      [] OTHER -> "none"

Deliver ==
    /\ pc = "idle" /\ open /\ ~aside /\ Len(journal) < MaxEvents
    /\ \E e \in Offered :
          /\ FromStream(e) /\ ev' = e
          /\ frame' \in (IF Captures /\ Boundary(e) # "none" THEN Images ELSE {}) \cup {None}
    /\ pc' = "begin"
    /\ UNCHANGED <<ledgerVars, profileVars, outsideVars, files, open, seen, got>>

---------------------------------------------------------------------------
(* Inside the transaction.                                                 *)
Number == Len(journal) + 1
Rest == pc' = "idle" /\ ev' = None /\ frame' = None /\ seen' = 0 /\ got' = None

\* append_adapter_event, and what the event needs of the attempts.
Admitted ==
    /\ attempt.state \in Live
    /\ ev.type \in {"hello", "started"} => attempt.state # "cancelling"
    /\ ev.type = "started" => try[ev.todo] = "none"

\* An exception rolls the transaction back and ends the stream.  A file that
\* was placed stays, unless the import removes it.
Fail ==
    /\ pc # "idle" /\ Rest /\ open' = FALSE
    /\ files' \in {files} \cup
          (IF pc = "placed" THEN {[files EXCEPT ![Number] = None]} ELSE {})
    /\ UNCHANGED <<ledgerVars, profileVars, outsideVars>>

Usage(t) == Cardinality({r \in rows : r.todo = t})
UsedBytes == MapThenSumSet(LAMBDA r : Size(r.content), rows)
SizesValid == \A r \in rows : Size(r.content) >= 1
UnderQuota(e) ==
    /\ SizesValid
    /\ Usage(e.todo) < MaxPerTodo
    /\ UsedBytes + Size(e.content) <= MaxRunBytes

InScope(e) == attempt.state \in Live /\ (e.type = "artifact" => try[e.todo] = "running")
Found(e) == staged[e.name].content # None

Look ==
    /\ pc = "begin" /\ ev.type \in Artifacts /\ Admitted
    /\ InScope(ev) /\ UnderQuota(ev) /\ Found(ev)
    /\ Size(staged[ev.name].content) = Size(ev.content)
    /\ seen' = staged[ev.name].time /\ pc' = "read"
    /\ UNCHANGED <<ledgerVars, profileVars, outsideVars, files, open, ev, frame, got>>

Read ==
    /\ pc = "read" /\ staged[ev.name].time = seen
    /\ got' = staged[ev.name].content /\ pc' = "check"
    /\ UNCHANGED <<ledgerVars, profileVars, outsideVars, files, open, ev, frame, seen>>

DigestBySize == got \notin {None, Torn} /\ Size(got) = Size(ev.content)

DigestAgrees == got = ev.content
Check ==
    /\ pc = "check" /\ staged[ev.name].time = seen
    /\ DigestAgrees
    /\ pc' = "place"
    /\ UNCHANGED <<ledgerVars, profileVars, outsideVars, files, open, ev, frame, seen, got>>

\* A temporary file is written and renamed.
Place ==
    /\ pc = "place"
    /\ files' = [files EXCEPT ![Number] = got] /\ pc' = "placed"
    /\ UNCHANGED <<ledgerVars, profileVars, outsideVars, open, ev, frame, seen, got>>

\* The frame is written the same way; one that cannot be written is noted only.
PlaceFrame ==
    /\ pc = "begin" /\ frame # None /\ Admitted
    /\ files' = [files EXCEPT ![Number] = frame] /\ pc' = "placed"
    /\ UNCHANGED <<ledgerVars, profileVars, outsideVars, open, ev, frame, seen, got>>
NoteFrame ==
    /\ pc = "begin" /\ frame # None /\ Admitted
    /\ frame' = None
    /\ UNCHANGED <<ledgerVars, profileVars, outsideVars, files, open, pc, ev, seen, got>>

Row ==
    [seq |-> Number, todo |-> ev.todo, own |-> ev.type # "run_artifact",
     phase |-> IF ev.type \in Artifacts THEN "none" ELSE Boundary(ev),
     content |-> IF ev.type \in Artifacts THEN ev.content ELSE frame]
NewRows == rows \cup (IF pc = "placed" THEN {Row} ELSE {})

\* finish_todo_attempt: what is cited belongs to this attempt of the Todo, and
\* what is completed cites something.
Evidence(e, R) == e.cites \cup {r.seq : r \in {x \in R : x.todo = e.todo /\ x.phase # "none"}}
MayFinish(e, R) ==
    /\ try[e.todo] = "running"
    /\ \A k \in Evidence(e, R) : \E r \in R : r.seq = k /\ r.own /\ r.todo = e.todo
    /\ e.result = "completed" => Evidence(e, R) # {}

\* The profile follows the official result once, unless a user changed it.
MayCycle(e) ==
    /\ attempt.state = "running" /\ try[e.todo] = "running"
    /\ ~cycled /\ profile = Frozen
FollowCycle ==
    \/ UNCHANGED profileVars
    \/ /\ ev.type = "cycle" /\ MayCycle(ev)
       /\ profile' = ev.next /\ cycled' = TRUE /\ UNCHANGED edited

Commit ==
    /\ pc \in {"begin", "placed"} /\ Admitted
    /\ (pc = "placed") = (ev.type \in Artifacts \/ frame # None)
    /\ ev.type = "terminal" => MayFinish(ev, NewRows)
    /\ journal' = Append(journal, ev) /\ rows' = NewRows
    /\ attempt' = IF ev.type = "hello" THEN [attempt EXCEPT !.state = "running"] ELSE attempt
    /\ try' = CASE ev.type = "started" -> [try EXCEPT ![ev.todo] = "running"]
                [] ev.type = "terminal" -> [try EXCEPT ![ev.todo] = ev.result]
                [] OTHER -> try
    /\ refs' = IF ev.type = "terminal" THEN [refs EXCEPT ![ev.todo] = Evidence(ev, NewRows)] ELSE refs
    /\ FollowCycle /\ Rest
    /\ UNCHANGED <<aside, outsideVars, files, open>>

---------------------------------------------------------------------------
(* Everybody else.  The store's lock keeps them out of a transaction.      *)
StoreFree == pc \in {"idle", "begin"}

Cancel ==
    /\ StoreFree /\ attempt.state \in {"starting", "running"}
    /\ attempt' = [attempt EXCEPT !.state = "cancelling"]
    /\ UNCHANGED <<aside, try, refs, journal, rows, handlerVars, profileVars, outsideVars, files>>

Closed == [t \in Todos |-> IF try[t] = "running" THEN "closed" ELSE try[t]]
EndAttempt ==
    /\ attempt.state \in Live
    /\ attempt' = [state |-> "ended", at |-> Len(journal)] /\ try' = Closed

\* The completion callback, input recovery or the parking of a gate.
End ==
    /\ StoreFree /\ EndAttempt /\ aside' \in BOOLEAN
    /\ UNCHANGED <<refs, journal, rows, handlerVars, profileVars, outsideVars, files>>

\* The process dies, and the startup of the next one ends the attempt.
Crash ==
    /\ EndAttempt /\ open' = FALSE /\ Rest
    /\ UNCHANGED <<aside, refs, journal, rows, files, profileVars, outsideVars>>

EditProfile ==
    /\ StoreFree /\ edited = None /\ MaxEdits > 0
    /\ edited' \in Profiles /\ profile' = edited'
    /\ UNCHANGED <<cycled, ledgerVars, handlerVars, outsideVars, files>>

\* The runner writes while nobody, or somebody, reads.
Stage ==
    /\ open /\ writes < MaxWrites /\ writes' = writes + 1
    /\ \E n \in Names, c \in Contents, t \in 0..MaxWrites :
          /\ t = staged[n].time \/ t = writes + 1
          /\ staged' = [staged EXCEPT ![n] = [content |-> c, time |-> t]]
          /\ \/ UNCHANGED got
             \/ pc = "check" /\ ev.name = n /\ got' \in {c, Torn}
    /\ UNCHANGED <<ledgerVars, profileVars, files, served, foreign, open, pc, ev, frame, seen>>

\* Somebody changes or removes a file of the Manager.
Meddle ==
    /\ Cardinality(foreign) < MaxForeign
    /\ \E k \in DOMAIN journal, c \in Contents \cup {None} :
          /\ files[k] # None /\ files' = [files EXCEPT ![k] = c]
          /\ foreign' = foreign \cup {k}
    /\ UNCHANGED <<ledgerVars, handlerVars, profileVars, staged, served, writes>>

\* A reader of an artifact and every review of it open the file again (a
\* review takes nothing empty).
Intact(r, c) == c # None /\ c = r.content
Serve ==
    /\ StoreFree
    /\ \E r \in rows : Intact(r, files[r.seq]) /\ served' = served \cup {<<r.seq, files[r.seq]>>}
    /\ UNCHANGED <<ledgerVars, handlerVars, profileVars, files, staged, foreign, writes>>

Next ==
    \/ Deliver \/ Look \/ Read \/ Check \/ Place \/ PlaceFrame \/ NoteFrame \/ Commit \/ Fail
    \/ Cancel \/ End \/ Crash \/ EditProfile \/ Stage \/ Meddle \/ Serve

Spec == Init /\ [][Next]_vars

---------------------------------------------------------------------------
(* Properties *)

\* The ledger and the journal agree: an artifact is what its committed event
\* declared, for the Todo it named, and no event lost its artifact (the event
\* and the artifact are one transaction).
Journalled ==
    /\ \A r \in rows :
          /\ r.seq \in DOMAIN journal /\ r.todo = journal[r.seq].todo
          /\ r.own = (journal[r.seq].type # "run_artifact")
          /\ r.phase = "none" => journal[r.seq].type \in Artifacts /\ r.content = journal[r.seq].content
    /\ \A r, s \in rows : r.seq = s.seq => r = s
    /\ \A k \in DOMAIN journal : journal[k].type \in Artifacts => \E r \in rows : r.seq = k

\* Behind every artifact stands a whole file of the declared content, however
\* the runner rewrote its own meanwhile, an import failed or the process died,
\* unless somebody else changed the Manager's file.
WholeFiles == \A r \in rows : r.seq \in foreign \/ files[r.seq] = r.content

\* A runner brings no more artifacts of a Todo than its manifest allows.
WithinQuota ==
    \A t \in Todos : Cardinality({r \in rows : r.todo = t /\ r.phase = "none"}) <= MaxPerTodo
BytesKept == MapThenSumSet(LAMBDA r : Size(r.content), {r \in rows : r.phase = "none"}) <= MaxRunBytes

\* The frame of a boundary was taken at its first event, never made up for at
\* a later one, and each phase of a Todo has one.
FramesAreFirst ==
    \A r \in rows :
       /\ r.phase = "before" => journal[r.seq].type = "started"
       /\ r.phase = "after" => journal[r.seq].type \in After
       /\ r.phase = "after" => \A k \in 1..(r.seq - 1) :
             ~(journal[k].type \in After /\ journal[k].todo = r.todo)

\* What an ended attempt of a Todo cites are artifacts of that attempt, with
\* every frame of its boundaries, and what is completed cites something.
EvidenceOwn ==
    \A t \in Todos : try[t] \in Results =>
       /\ \A k \in refs[t] : \E r \in rows : r.seq = k /\ r.own /\ r.todo = t
       /\ \A r \in rows : r.todo = t /\ r.phase # "none" => r.seq \in refs[t]
       /\ try[t] = "completed" => refs[t] # {}

\* Nothing is committed of an attempt that has ended, also when its handler
\* was at work as it ended.
Fenced == attempt.state = "ended" => Len(journal) = attempt.at

\* What a reader gets as an artifact is what its event declared, and what a
\* user set in the profile stays, unless it is what the run was planned with.
ServedIsDeclared ==
    \A p \in served : p[1] \in DOMAIN journal /\ \E r \in rows : r.seq = p[1] /\ r.content = p[2]
EditKept == edited \notin {None, Frozen} => profile = edited

ArtifactsSafe ==
    /\ Journalled /\ WholeFiles /\ WithinQuota /\ FramesAreFirst
    /\ EvidenceOwn /\ Fenced /\ ServedIsDeclared /\ EditKept

\* "A 0-byte non-image artifact is legitimate" (adapter_artifacts.py:585): one
\* that was imported does not make the artifacts after it be refused.
EmptyIsLegitimate == pc = "begin" /\ ev.type \in Artifacts => SizesValid
=============================================================================
