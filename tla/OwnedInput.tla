------------------------------ MODULE OwnedInput ------------------------------
(* One owned input execution: a Windows Job that holds the fixed Host and    *)
(* every helper it starts, and the object that decides when all of it is     *)
(* quiet. The watcher and the Manager's input recovery may stop it at the    *)
(* same time, while the request writer, the readers and callbacks still run. *)
(* Source: backend/yeyu_gamer_manager/services/owned_input_execution.py and  *)
(* owned_host_job.py. Deadlines are choices: a wait may always give up.      *)
EXTENDS Naturals

CONSTANT MaxHelpers     \* bound: helper processes alive in the Job at a time

VARIABLES
    root,       \* the Host: "none", "outside" the Job, "member" or "dead"
    helpers,    \* helper processes alive in the Job
    bound,      \* _process: "no", "pinned" (_candidate_process) or "yes"
    writer,     \* the stdin writer: "none", "running", "ended", "failed"
    reader,     \* the reader thread: "none", "registered", "running", "ended"
    inside,     \* threads inside event_callback: SUBSET {"reader", "other"}
    gate,       \* [stopping, sealed, forced] of the execution
    receipt,    \* the quiet receipt was issued
    closed,     \* who closed the execution: "no", "watcher" or "recovery"
    final,      \* the finalizer: "none", "active" or "ended"
    stop        \* [Stoppers -> where stop_and_drain is, or its answer]

vars == <<root, helpers, bound, writer, reader, inside, gate, receipt, closed, final, stop>>

Stoppers == {"watcher", "recovery"}
Stopping == {"observe", "terminate", "join", "callbacks", "finalizer"}

Init ==
    /\ root = "none" /\ helpers = 0 /\ bound = "no" /\ writer = "none" /\ reader = "none"
    /\ inside = {} /\ gate = [stopping |-> FALSE, sealed |-> FALSE, forced |-> FALSE]
    /\ receipt = FALSE /\ closed = "no" /\ final = "none"
    /\ stop = [t \in Stoppers |-> "idle"]

Accepting == closed = "no" /\ ~gate.stopping      \* _require_active
JobQuiet == root \in {"none", "dead"} /\ helpers = 0
Answers(t, a) == stop' = [stop EXCEPT ![t] = a]

-----------------------------------------------------------------------------
(* The processes. The trusted Host joins the Job before it reads its request *)
(* or starts a helper.                                                       *)

ProcVars == <<bound, writer, reader, inside, gate, receipt, closed, final, stop>>

Popen == root = "none" /\ root' = "outside" /\ helpers' = helpers /\ UNCHANGED ProcVars
Joins == root = "outside" /\ root' = "member" /\ helpers' = helpers /\ UNCHANGED ProcVars
Ends  == root \in {"outside", "member"} /\ root' = "dead" /\ helpers' = helpers
         /\ UNCHANGED ProcVars
Spawn == root = "member" /\ helpers < MaxHelpers /\ helpers' = helpers + 1
         /\ root' = root /\ UNCHANGED ProcVars
HelperEnds == helpers > 0 /\ helpers' = helpers - 1 /\ root' = root /\ UNCHANGED ProcVars

-----------------------------------------------------------------------------
(* bind, dispatch and abort_before_dispatch, in the thread that starts it. *)

\* The exact root is pinned first and is the process only as a Job member.
Bind ==
    /\ Accepting /\ bound # "yes" /\ root # "none"
    /\ bound' = IF root = "member" THEN "yes" ELSE "pinned"
    /\ UNCHANGED <<root, helpers, writer, reader, inside, gate, receipt, closed, final, stop>>

DispatchUnstarted ==
    /\ Accepting /\ bound = "yes" /\ writer = "none"
    /\ writer' \in {"running", "unstarted"}
    /\ gate' = [gate EXCEPT !.stopping = writer' = "unstarted"]
    /\ UNCHANGED <<root, helpers, bound, reader, inside, receipt, closed, final, stop>>

\* The writer thread runs, or it cannot even be started.
Dispatch ==
    /\ Accepting /\ bound = "yes" /\ writer = "none"
    /\ \/ writer' = "running" /\ UNCHANGED gate
       \/ writer' = "failed" /\ gate' = [gate EXCEPT !.stopping = TRUE]
    /\ UNCHANGED <<root, helpers, bound, reader, inside, receipt, closed, final, stop>>

\* The write ends, or dispatch gives it up at its deadline and terminates the
\* Job, unless another thread holds the Job's lock (owner_lock_busy).
WriterEnds ==
    /\ writer = "running"
    /\ writer' = "ended"
    /\ UNCHANGED <<root, helpers, bound, reader, inside, gate, receipt, closed, final, stop>>

DispatchGivesUp ==
    /\ writer = "running" /\ ~gate.stopping
    /\ gate' = [gate EXCEPT !.stopping = TRUE, !.forced = TRUE]
    /\ \/ root' = "dead" /\ helpers' = 0
       \/ UNCHANGED <<root, helpers>>
    /\ UNCHANGED <<bound, writer, reader, inside, receipt, closed, final, stop>>

\* Startup failed before any writer: the pinned root and the Job are ended.
Abort ==
    /\ writer = "none" /\ root # "none" /\ ~receipt /\ closed = "no"
    /\ reader = "none" /\ inside = {}
    /\ gate' = [stopping |-> TRUE, sealed |-> TRUE, forced |-> TRUE]
    /\ bound' = IF bound = "no" THEN "pinned" ELSE bound
    /\ \/ root' = "dead" /\ helpers' = 0 /\ receipt' = TRUE
       \/ UNCHANGED <<root, helpers, receipt>>
    /\ UNCHANGED <<writer, reader, inside, closed, final, stop>>

-----------------------------------------------------------------------------
(* Readers and callbacks. *)

\* register_reader, then Thread.start; a stopped execution takes no reader.
Register ==
    /\ Accepting /\ writer = "ended" /\ reader = "none"
    /\ reader' = "registered"
    /\ UNCHANGED <<root, helpers, bound, writer, inside, gate, receipt, closed, final, stop>>

ReaderRuns ==
    /\ reader = "registered"
    /\ reader' = "running"
    /\ UNCHANGED <<root, helpers, bound, writer, inside, gate, receipt, closed, final, stop>>

\* End of file comes when no process holds the pipe.
ReaderEnds ==
    /\ reader = "running" /\ "reader" \notin inside /\ JobQuiet
    /\ reader' = "ended"
    /\ UNCHANGED <<root, helpers, bound, writer, inside, gate, receipt, closed, final, stop>>

\* event_callback: once stopping only a registered reader is let in, once
\* sealed nobody.
LetsIn(w) ==
    closed = "no" /\ ~gate.sealed /\ (gate.stopping => w = "reader")

Enter(w) ==
    /\ w \notin inside /\ (w = "reader" => reader = "running")
    /\ LetsIn(w)
    /\ inside' = inside \cup {w}
    /\ UNCHANGED <<root, helpers, bound, writer, reader, gate, receipt, closed, final, stop>>

Leave(w) ==
    /\ w \in inside
    /\ inside' = inside \ {w}
    /\ UNCHANGED <<root, helpers, bound, writer, reader, gate, receipt, closed, final, stop>>

-----------------------------------------------------------------------------
(* stop_and_drain, by two threads. "none" retains the owner for a retry.     *)

StopVars == <<bound, writer, reader, inside, closed, final>>

Begin(t) ==
    /\ stop[t] \in {"idle", "none"}
    /\ IF receipt THEN Answers(t, "finalizer") /\ UNCHANGED gate
       ELSE /\ gate' = [gate EXCEPT !.stopping = TRUE]
            /\ Answers(t, IF closed = "no" /\ bound = "yes" THEN "observe" ELSE "none")
    /\ UNCHANGED <<root, helpers, receipt>> /\ UNCHANGED StopVars

ObserveRoot(t) ==
    /\ stop[t] = "observe"
    /\ IF closed = "no"
       THEN /\ gate' = [gate EXCEPT !.forced = @ \/ root # "dead"]
            /\ Answers(t, "terminate")
       ELSE UNCHANGED gate /\ Answers(t, "none")
    /\ UNCHANGED <<root, helpers, receipt>> /\ UNCHANGED StopVars

Observe(t) ==
    /\ stop[t] = "observe"
    /\ IF closed = "no"
       THEN /\ gate' = [gate EXCEPT !.forced = @ \/ ~JobQuiet]
            /\ Answers(t, "terminate")
       ELSE UNCHANGED gate /\ Answers(t, "none")
    /\ UNCHANGED <<root, helpers, receipt>> /\ UNCHANGED StopVars

Terminate(t) ==
    /\ stop[t] = "terminate" /\ closed = "no"
    /\ root' = "dead" /\ helpers' = 0
    /\ Answers(t, "join")
    /\ UNCHANGED <<gate, receipt>> /\ UNCHANGED StopVars

JoinedEarly   == writer # "running"
JoinedWritten == writer = "ended" /\ reader \in {"none", "ended"}
\* The threads that existed when the stop began: the writer, if it ever
\* started, then the readers.
Joined == writer # "running" /\ reader \in {"none", "ended"}

Join(t) ==
    /\ stop[t] = "join"
    /\ Joined
    /\ gate' = [gate EXCEPT !.sealed = TRUE]
    /\ Answers(t, "callbacks")
    /\ UNCHANGED <<root, helpers, receipt>> /\ UNCHANGED StopVars

Issue(t) ==
    /\ stop[t] = "callbacks" /\ inside = {}
    /\ receipt' = TRUE
    /\ Answers(t, "finalizer")
    /\ UNCHANGED <<root, helpers, gate>> /\ UNCHANGED StopVars

\* _receipt_after_finalizer: nobody else overtakes the completion callback.
AfterFinalizer(t) ==
    /\ stop[t] = "finalizer"
    /\ IF final = "active" THEN t = "watcher" /\ Answers(t, "none") ELSE Answers(t, "receipt")
    /\ UNCHANGED <<root, helpers, gate, receipt>> /\ UNCHANGED StopVars

\* A deadline or a native error; what was done stays done.
GiveUp(t) ==
    /\ stop[t] \in Stopping
    /\ Answers(t, "none")
    /\ UNCHANGED <<root, helpers, gate, receipt>> /\ UNCHANGED StopVars

-----------------------------------------------------------------------------
(* The finalizer of the watcher, verify_receipt and close. *)

Finalize ==
    /\ stop["watcher"] = "receipt" /\ closed = "no" /\ receipt /\ final = "none"
    /\ final' = "active"
    /\ UNCHANGED <<root, helpers, bound, writer, reader, inside, gate, receipt, closed, stop>>

Finalized ==
    /\ final = "active"
    /\ final' = "ended"
    /\ UNCHANGED <<root, helpers, bound, writer, reader, inside, gate, receipt, closed, stop>>

VerifiesAnyone(t) == receipt
\* verify_receipt: while the finalizer runs, only for the finalizer itself.
Verifies(t) == receipt /\ (final = "active" => t = "watcher")

\* release_owned_execution: the handoff inside the finalizer, or the recovery.
\* The Job's handle is only closed when nothing is alive in it.
Release(t) ==
    /\ closed = "no"
    /\ IF t = "watcher" THEN final = "active" ELSE stop[t] = "receipt"
    /\ Verifies(t)
    /\ JobQuiet
    /\ closed' = t
    /\ UNCHANGED <<root, helpers, bound, writer, reader, inside, gate, receipt, final, stop>>

Stopper(t) ==
    Observe(t) \/ Terminate(t) \/ Join(t) \/ Issue(t) \/ AfterFinalizer(t)

Next ==
    \/ Popen \/ Joins \/ Ends \/ Spawn \/ HelperEnds
    \/ Bind \/ Dispatch \/ WriterEnds \/ DispatchGivesUp \/ Abort
    \/ Register \/ ReaderRuns \/ ReaderEnds
    \/ \E w \in {"reader", "other"} : Enter(w) \/ Leave(w)
    \/ \E t \in Stoppers : Begin(t) \/ Stopper(t) \/ GiveUp(t) \/ Release(t)
    \/ Finalize \/ Finalized

Spec == Init /\ [][Next]_vars

\* Threads and callbacks end, and what a dead Job left in its pipe is finite, so
\* that a reader does not process lines forever. The recovery retries: from some point on it is
\* not at its deadline at every single step (strong fairness of its steps).
Fairness ==
    /\ WF_vars(WriterEnds) /\ WF_vars(ReaderRuns) /\ SF_vars(ReaderEnds)
    /\ \A w \in {"reader", "other"} : WF_vars(Leave(w))
    /\ WF_vars(Finalized) /\ WF_vars(Begin("recovery"))
    /\ SF_vars(Observe("recovery")) /\ SF_vars(Terminate("recovery"))
    /\ SF_vars(Join("recovery")) /\ SF_vars(Issue("recovery"))

FairSpec == Spec /\ Fairness

-----------------------------------------------------------------------------
(* Properties *)

\* Every variable has the shape its comment says.
TypeOK ==
    /\ root \in {"none", "outside", "member", "dead"} /\ helpers \in 0 .. MaxHelpers
    /\ bound \in {"no", "pinned", "yes"} /\ writer \in {"none", "running", "ended", "failed"}
    /\ reader \in {"none", "registered", "running", "ended"}
    /\ inside \subseteq {"reader", "other"}
    /\ gate \in [stopping : BOOLEAN, sealed : BOOLEAN, forced : BOOLEAN]
    /\ receipt \in BOOLEAN /\ closed \in {"no", "watcher", "recovery"}
    /\ final \in {"none", "active", "ended"}
    /\ stop \in [Stoppers -> Stopping \cup {"idle", "none", "receipt"}]

\* A quiet receipt is the truth and stays the truth: no process of the Job, no
\* writer, no reader and no callback is left, and none comes back afterwards.
ReceiptIsQuiet ==
    receipt => /\ root = "dead" /\ helpers = 0
               /\ writer # "running" /\ reader \in {"none", "ended"}
               /\ inside = {}

\* The recovery never closes the execution under a running completion callback,
\* and neither thread closes it without a receipt.
FinalizerAlone ==
    closed = "no" /\ closed' # "no" =>
        receipt /\ (closed' = "recovery" => final # "active")

\* Output that was accepted although the execution had to be forced is not
\* silently a success: whoever lived in the Job when it was stopped is noted.
ForcedIsNoted ==
    (\E t \in Stoppers : stop[t] = "terminate" /\ stop'[t] = "join") /\ helpers > 0
        => gate'.forced
ReceiptStep == FinalizerAlone /\ ForcedIsNoted

\* Once stopped, a bound execution becomes quiet: the two threads that stop it
\* and the late readers and callbacks never wait for each other forever.
StopEnds == (gate.stopping /\ bound = "yes") ~> receipt
=============================================================================
