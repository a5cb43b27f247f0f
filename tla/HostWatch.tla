------------------------------ MODULE HostWatch ------------------------------
(* The fixed Adapter Host process and its watcher: the start under the       *)
(* execution lock, the stdout reader with the Manager's persistence          *)
(* callback, cancellation through a durable control file, the watcher's      *)
(* timeout, stop and drain, the result, and the one-use handoff with which   *)
(* the Manager gives the desktop back.                                       *)
(* Source: backend/yeyu_gamer_manager/services/adapter_host.py, with         *)
(* owned_input_execution.py and input_request_writer.py.                     *)
(* The lines the runner prints are "event", "terminal" and "bad" here; what  *)
(* the stream makes of them is AdapterStream's subject.                      *)
EXTENDS Naturals, Sequences

CONSTANTS
    Last,           \* bound: attempts 1 .. Last are executed one after another
    MaxLines,       \* bound: lines one runner prints
    Owned,          \* the game is qualified for owned input (a Windows Job)
    ControlFails    \* the control directory may refuse a write

HostConstants == Last \in Nat /\ MaxLines \in Nat
                        /\ Owned \in BOOLEAN /\ ControlFails \in BOOLEAN

Attempts == 1 .. Last

VARIABLES
    owner,      \* _active_process and _active_plan: the attempt, or 0
    control,    \* _cancel_requested, _cancel_sent, _cancel_writer
    file,       \* attempts whose durable cancel file was written
    proc,       \* [Attempts -> "none", "alive", "clean" or "dirty" exit]
    pipe,       \* [Attempts -> lines printed and not yet read]
    reader,     \* [Attempts -> the stdout reader thread]
    failure,    \* attempts with a recorded failure
    watch,      \* [Attempts -> the watcher thread and its locals]
    result,     \* [Attempts -> the AdapterRunResult]
    job,        \* [Attempts -> the owned execution: receipt, seal, closed]
    handed,     \* attempts whose handoff was acknowledged
    asked,      \* history: attempts somebody wanted stopped
    loose       \* history: attempts whose cancel writer ran when it was dropped

hostVars == <<owner, control, file, proc, pipe, reader, failure, watch, result, job,
              handed, asked, loose>>

FreshControl == [requested |-> FALSE, sent |-> FALSE, writer |-> "none", of |-> 0]
IdleReader   == [pc |-> "none", accepted |-> 0, stored |-> 0, ended |-> FALSE]
IdleWatch    == [pc |-> "none", timedOut |-> FALSE, cancelled |-> FALSE,
                 killed |-> FALSE]
NoJob        == [receipt |-> FALSE, forced |-> FALSE, closed |-> FALSE]

Init ==
    /\ owner = 0 /\ control = FreshControl /\ file = {}
    /\ proc = [a \in Attempts |-> "none"] /\ pipe = [a \in Attempts |-> <<>>]
    /\ reader = [a \in Attempts |-> IdleReader] /\ failure = {}
    /\ watch = [a \in Attempts |-> IdleWatch] /\ result = [a \in Attempts |-> "none"]
    /\ job = [a \in Attempts |-> NoJob] /\ handed = {} /\ asked = {}
    /\ loose = {}

Alive(a)      == proc[a] = "alive"
WritingFor(a) == control.writer = "running" /\ control.of = a
Pc(a, p)      == watch[a].pc = p
Goes(a, p)    == watch' = [watch EXCEPT ![a].pc = p]
DrainedAnyhow(a) == TRUE
Drained(a)    == reader[a].pc \in {"none", "done"}

-----------------------------------------------------------------------------
(* execute: everything up to the watcher happens under the execution lock. *)

Starts(a) == owner = 0 /\ Pc(a, "none") /\ \A b \in Attempts : b < a => ~Pc(b, "none")

Launch(a) ==
    /\ Starts(a)
    /\ owner' = a /\ control' = FreshControl
    /\ proc' = [proc EXCEPT ![a] = "alive"]
    /\ reader' = [reader EXCEPT ![a].pc = "reading"]
    /\ Goes(a, "watching")
    /\ UNCHANGED <<file, pipe, failure, result, job, handed, asked, loose>>

\* Popen fails and nothing is left behind; the plan of an owned execution that
\* cannot be closed is kept instead, without a process.
NotStarted(a) ==
    /\ Starts(a)
    /\ \/ owner' = 0
       \/ Owned /\ owner' = a
    /\ Goes(a, "refused")
    /\ UNCHANGED <<control, file, proc, pipe, reader, failure, result, job, handed, asked, loose>>

\* The request cannot be delivered: the Host is terminated and, when its exit,
\* the request writer and the owned Job are confirmed, the owner is cleared.
NotDelivered(a) ==
    /\ Starts(a)
    /\ control' = FreshControl
    /\ \E k \in {"alive", "dirty"} :
          /\ proc' = [proc EXCEPT ![a] = k]
          /\ owner' \in (IF k = "dirty" THEN {0, a} ELSE {a})
    /\ Goes(a, "refused")
    /\ UNCHANGED <<file, pipe, reader, failure, result, job, handed, asked, loose>>

-----------------------------------------------------------------------------
(* The runner. *)

PrintLine(a, l) ==
    /\ Alive(a) /\ reader[a].pc # "none"
    /\ Len(pipe[a]) + reader[a].accepted < MaxLines
    /\ pipe' = [pipe EXCEPT ![a] = Append(@, l)]
    /\ UNCHANGED <<owner, control, file, proc, reader, failure, watch, result, job, handed,
                   asked, loose>>

\* The process ends by itself, with the code it declared or another one.
Exits(a, k) ==
    /\ Alive(a)
    /\ proc' = [proc EXCEPT ![a] = k]
    /\ UNCHANGED <<owner, control, file, pipe, reader, failure, watch, result, job, handed,
                   asked, loose>>

-----------------------------------------------------------------------------
(* Cancellation. *)

\* _send_cancel_locked for attempt a: the durable write runs in a thread of its
\* own that is given a grace; "raised" says that its error is raised here.
SendCancel(a, raised) ==
    IF owner # a \/ ~Alive(a) \/ control.sent
    THEN ~raised /\ UNCHANGED <<control, file>>
    ELSE \/ /\ control.writer \in {"none", "ok"}        \* written within the grace
            /\ ~raised
            /\ control' = [control EXCEPT !.requested = TRUE, !.sent = TRUE, !.writer = "none",
                                          !.of = 0]
            /\ file' = file \cup {a}
         \/ /\ control.writer \in {"none", "error"}
            /\ ControlFails /\ raised
            /\ control' = [control EXCEPT !.requested = TRUE, !.writer = "none", !.of = 0]
            /\ UNCHANGED file
         \/ /\ control.writer \in {"none", "running"}   \* still writing after it
            /\ ~raised
            /\ control' = [control EXCEPT !.requested = TRUE, !.writer = "running", !.of = a]
            /\ UNCHANGED file

WriterEnds(w) ==
    /\ control.writer = "running"
    /\ w = "ok" \/ (w = "error" /\ ControlFails)
    /\ control' = [control EXCEPT !.writer = w]
    /\ file' = IF w = "ok" THEN file \cup {control.of} ELSE file
    /\ UNCHANGED <<owner, proc, pipe, reader, failure, watch, result, job, handed, asked, loose>>

CancelsAny(a) == owner # 0

\* cancel and cancel_run compare the scope with the active plan.
Cancels(a) == owner = a

\* The Manager cancels attempt a, at any time after its start, also late.
Cancel(a) ==
    /\ ~Pc(a, "none")
    /\ a \notin asked
    /\ asked' = asked \cup {a}
    /\ IF Cancels(a) THEN \E raised \in BOOLEAN : SendCancel(owner, raised)
                     ELSE UNCHANGED <<control, file>>
    /\ UNCHANGED <<owner, proc, pipe, reader, failure, watch, result, job, handed, loose>>

-----------------------------------------------------------------------------
(* read_stdout. *)

Refused(a, l) == l = "bad" \/ reader[a].ended

ReadLine(a) ==
    /\ reader[a].pc = "reading" /\ pipe[a] # <<>>
    /\ pipe' = [pipe EXCEPT ![a] = Tail(@)]
    /\ IF Refused(a, Head(pipe[a]))
       THEN /\ reader' = [reader EXCEPT ![a].pc = "failing"]
            /\ failure' = failure \cup {a}
       ELSE /\ reader' = [reader EXCEPT ![a].pc = "storing", ![a].accepted = @ + 1,
                                        ![a].ended = Head(pipe[a]) = "terminal"]
            /\ UNCHANGED failure
    /\ UNCHANGED <<owner, control, file, proc, watch, result, job, handed, asked, loose>>

\* on_event returned, or it raised and the failure is recorded.
Store(a) ==
    /\ reader[a].pc = "storing"
    /\ \/ /\ reader' = [reader EXCEPT ![a].pc = "reading", ![a].stored = @ + 1]
          /\ UNCHANGED failure
       \/ /\ reader' = [reader EXCEPT ![a].pc = "failing"]
          /\ failure' = failure \cup {a}
    /\ UNCHANGED <<owner, control, file, proc, pipe, watch, result, job, handed, asked, loose>>

\* The rest of record_failure: the runner is asked to stop, the thread ends.
ReportFailure(a) ==
    /\ reader[a].pc = "failing"
    /\ \E raised \in BOOLEAN : SendCancel(a, raised)
    /\ reader' = [reader EXCEPT ![a].pc = "done"]
    /\ asked' = asked \cup {a}
    /\ UNCHANGED <<owner, proc, pipe, failure, watch, result, job, handed, loose>>

\* End of file; a descendant of the Host may hold the pipe open for long.
EndOfPipe(a) ==
    /\ reader[a].pc = "reading" /\ pipe[a] = <<>> /\ ~Alive(a)
    /\ reader' = [reader EXCEPT ![a].pc = "done"]
    /\ UNCHANGED <<owner, control, file, proc, pipe, failure, watch, result, job, handed,
                   asked, loose>>

-----------------------------------------------------------------------------
(* _watch_execution_bound. *)

\* The loop ends: the process exited, or somebody wants it stopped.
Notice(a) ==
    /\ Pc(a, "watching")
    /\ \/ ~Alive(a) /\ Goes(a, "exited") /\ UNCHANGED asked
       \/ /\ Alive(a) /\ (control.requested \/ control.sent)
          /\ watch' = [watch EXCEPT ![a].pc = "stopping", ![a].cancelled = TRUE]
          /\ UNCHANGED asked
       \/ /\ Alive(a)
          /\ watch' = [watch EXCEPT ![a].pc = "stopping", ![a].timedOut = TRUE]
          /\ asked' = asked \cup {a}
       \/ /\ Alive(a) /\ a \in failure
          /\ Goes(a, "stopping") /\ UNCHANGED asked
    /\ UNCHANGED <<owner, control, file, proc, pipe, reader, failure, result, job, handed, loose>>

WaitNext == IF Owned THEN "job" ELSE "waiting"

\* Ask once more; an error of the writer ends the watcher's try block.
Stop(a) ==
    /\ Pc(a, "stopping")
    /\ IF Alive(a)
       THEN \E raised \in BOOLEAN :
               SendCancel(a, raised) /\ Goes(a, IF raised THEN "crashed" ELSE WaitNext)
       ELSE Goes(a, "exited") /\ UNCHANGED <<control, file>>
    /\ UNCHANGED <<owner, proc, pipe, reader, failure, result, job, handed, asked, loose>>

AfterWaitGivesUp == [waiting |-> "crashed", terminated |-> "killed", killed |-> "crashed"]
\* wait, terminate, wait, kill, wait: each wait has the grace as its timeout.
AfterWait == [waiting |-> "terminated", terminated |-> "killed", killed |-> "crashed"]

Wait(a) ==
    /\ watch[a].pc \in DOMAIN AfterWait
    /\ IF ~Alive(a) THEN Goes(a, "exited")
       ELSE watch' = [watch EXCEPT ![a].pc = AfterWait[@],
                                     ![a].killed = AfterWait[watch[a].pc] # "crashed" \/ @]
    /\ UNCHANGED <<owner, control, file, proc, pipe, reader, failure, result, job, handed,
                   asked, loose>>

\* The system carries out a termination that was asked for.
Dies(a) ==
    /\ Alive(a) /\ watch[a].killed
    /\ proc' = [proc EXCEPT ![a] = "dirty"]
    /\ UNCHANGED <<owner, control, file, pipe, reader, failure, watch, result, job, handed,
                   asked, loose>>

\* stop_and_drain: the Job is terminated; whoever lived in it was forced.
StopJob(a) ==
    /\ Pc(a, "job") \/ (Owned /\ Pc(a, "exited"))
    /\ ~job[a].receipt
    /\ \/ /\ proc' = [proc EXCEPT ![a] = IF Alive(a) THEN "dirty" ELSE @]
          /\ \E helpers \in BOOLEAN :
                job' = [job EXCEPT ![a].forced = @ \/ Alive(a) \/ helpers]
          /\ Goes(a, "joining")
       \/ Goes(a, "retained") /\ UNCHANGED <<proc, job>>
    /\ UNCHANGED <<owner, control, file, pipe, reader, failure, result, handed, asked, loose>>

\* ... then its writers and readers are joined, or the deadline is over.
JoinJob(a) ==
    /\ Pc(a, "joining")
    /\ \/ /\ Drained(a) /\ ~WritingFor(a)
          /\ job' = [job EXCEPT ![a].receipt = TRUE]
          /\ Goes(a, "exited")
       \/ ~(Drained(a) /\ ~WritingFor(a)) /\ Goes(a, "retained") /\ UNCHANGED job
    /\ UNCHANGED <<owner, control, file, proc, pipe, reader, failure, result, handed, asked, loose>>

MayDecideUnread(a) == TRUE
\* Both readers are joined before the result is drawn.
MayDecide(a) == Drained(a)

OutcomeForcedToo(a) ==
    CASE a \in failure -> "protocol_failure"
      [] a \notin failure /\ watch[a].timedOut -> "adapter_timeout"
      [] OTHER ->
            IF reader[a].ended /\ proc[a] = "clean"
            THEN "completed"
            ELSE IF watch[a].cancelled THEN "adapter_cancelled_without_terminal"
            ELSE "crashed"

OutcomeUnnamed(a) ==
    CASE a \in failure -> "protocol_failure"
      [] a \notin failure /\ watch[a].timedOut -> "adapter_timeout"
      [] OTHER ->
            IF reader[a].ended /\ proc[a] = "clean"
            THEN "completed"
            ELSE IF watch[a].cancelled THEN "cancelled"
            ELSE "crashed"

\* The order in which the outcome is decided.
Outcome(a) ==
    CASE a \in failure -> "protocol_failure"
      [] a \notin failure /\ watch[a].timedOut -> "adapter_timeout"
      [] OTHER ->
            IF reader[a].ended /\ proc[a] = "clean"
            THEN IF Owned /\ job[a].forced THEN "owned_input_forced_stop" ELSE "completed"
            ELSE IF watch[a].cancelled THEN "adapter_cancelled_without_terminal"
            ELSE "crashed"

Decide(a) ==
    /\ Pc(a, "exited") /\ (Owned => job[a].receipt)
    /\ IF MayDecide(a)
       THEN result' = [result EXCEPT ![a] = Outcome(a)] /\ Goes(a, "closing")
       ELSE Goes(a, "retained") /\ UNCHANGED result
    /\ UNCHANGED <<owner, control, file, proc, pipe, reader, failure, job, handed, asked, loose>>

\* The watcher's own exception becomes a result too.
Crashed(a) ==
    /\ Pc(a, "crashed")
    /\ result' = [result EXCEPT ![a] = "adapter_watcher_failed"]
    /\ Goes(a, "closing")
    /\ UNCHANGED <<owner, control, file, proc, pipe, reader, failure, job, handed, asked, loose>>

QuietButWriter(a) == ~Alive(a) /\ Drained(a)
\* What must be confirmed before the Manager hears of the end.
Quiet(a) == ~Alive(a) /\ Drained(a) /\ ~WritingFor(a)

\* finalization_callback refuses a closed execution or one without a receipt.
Finalizes(a) == Owned => job[a].receipt /\ ~job[a].closed

Close(a) ==
    /\ Pc(a, "closing")
    /\ Goes(a, IF ~Quiet(a) THEN "retained" ELSE IF Finalizes(a) THEN "completing" ELSE "done")
    /\ UNCHANGED <<owner, control, file, proc, pipe, reader, failure, result, job, handed,
                   asked, loose>>

AnyHandoff(a) == Pc(a, "completing")
\* The one-use handoff: only while the callback runs, once, and by the owner.
MayHandOff(a) == Pc(a, "completing") /\ a \notin handed /\ owner = a

\* Clearing the owner clears what belonged to it, and the control files.
Released(a) ==
    /\ owner' = 0 /\ control' = FreshControl
    /\ loose' = IF WritingFor(a) THEN loose \cup {a} ELSE loose
    /\ file' = file \ {a}
    /\ job' = [job EXCEPT ![a].closed = Owned]

HandOff(a) ==
    /\ MayHandOff(a)
    /\ Released(a)
    /\ handed' = handed \cup {a}
    /\ UNCHANGED <<proc, pipe, reader, failure, watch, result, asked>>

\* on_complete returns or raises, with or without the acknowledgement.
Completed(a) ==
    /\ Pc(a, "completing")
    /\ Goes(a, "done")
    /\ UNCHANGED <<owner, control, file, proc, pipe, reader, failure, result, job, handed,
                   asked, loose>>

\* release_owned_execution by the Manager's input recovery: the Job is stopped
\* and drained again by another thread, which must not overtake the finalizer.
Recover(a) ==
    /\ Owned /\ owner = a /\ ~Pc(a, "none") /\ ~Pc(a, "completing")
    /\ ~job[a].closed
    /\ \/ /\ ~job[a].receipt /\ Alive(a)
          /\ proc' = [proc EXCEPT ![a] = "dirty"]
          /\ job' = [job EXCEPT ![a].forced = TRUE]
          /\ UNCHANGED <<owner, control, file, loose>>
       \/ /\ ~job[a].receipt /\ ~Alive(a) /\ Drained(a) /\ ~WritingFor(a)
          /\ job' = [job EXCEPT ![a].receipt = TRUE]
          /\ UNCHANGED <<owner, control, file, proc, loose>>
       \/ /\ job[a].receipt
          /\ Released(a)
          /\ UNCHANGED proc
    /\ UNCHANGED <<pipe, reader, failure, watch, result, handed, asked>>

Watcher(a) ==
    \/ Notice(a) \/ Stop(a) \/ Wait(a) \/ StopJob(a) \/ JoinJob(a)
    \/ Decide(a) \/ Crashed(a) \/ Close(a) \/ Completed(a)

Reader(a) == ReadLine(a) \/ Store(a) \/ ReportFailure(a) \/ EndOfPipe(a)

Next ==
    \/ \E a \in Attempts :
          \/ Launch(a) \/ NotStarted(a) \/ NotDelivered(a)
          \/ \E l \in {"event", "terminal", "bad"} : PrintLine(a, l)
          \/ \E k \in {"clean", "dirty"} : Exits(a, k)
          \/ Dies(a) \/ Cancel(a) \/ Reader(a) \/ Watcher(a) \/ HandOff(a) \/ Recover(a)
    \/ \E w \in {"ok", "error"} : WriterEnds(w)

Spec == Init /\ [][Next]_hostVars

\* Threads run; the system carries out a termination. Nothing is assumed of the
\* runner, of the Manager's callback acknowledging, or of anyone cancelling.
Fairness ==
    /\ \A a \in Attempts : WF_hostVars(Watcher(a)) /\ WF_hostVars(Reader(a))
                           /\ WF_hostVars(Dies(a))
    /\ WF_hostVars(\E w \in {"ok", "error"} : WriterEnds(w))

FairSpec == Spec /\ Fairness

-----------------------------------------------------------------------------
(* Properties *)

\* Every variable has the shape its comment says.
TypeOK ==
    /\ owner \in Attempts \cup {0} /\ file \subseteq Attempts /\ failure \subseteq Attempts
    /\ handed \subseteq Attempts /\ asked \subseteq Attempts /\ loose \subseteq Attempts
    /\ control \in [requested : BOOLEAN, sent : BOOLEAN,
                    writer : {"none", "running", "ok", "error"}, of : Attempts \cup {0}]
    /\ proc \in [Attempts -> {"none", "alive", "clean", "dirty"}]
    /\ reader \in [Attempts -> [pc : {"none", "reading", "storing", "failing", "done"},
                      accepted : 0 .. MaxLines, stored : 0 .. MaxLines, ended : BOOLEAN]]
    /\ result \in [Attempts -> {"none", "completed", "crashed", "protocol_failure",
                      "adapter_timeout", "adapter_cancelled_without_terminal",
                      "adapter_watcher_failed", "owned_input_forced_stop"}]
    /\ job \in [Attempts -> [receipt : BOOLEAN, forced : BOOLEAN, closed : BOOLEAN]]

\* Whoever is not the owner any more is quiet: its process has ended, its
\* reader will store nothing more and no thread still writes for it. The next
\* game may only get the desktop then.
ReleasedIsQuiet ==
    \A a \in Attempts : owner # a =>
        /\ proc[a] # "alive" /\ reader[a].pc \in {"none", "done"}
        /\ ~(control.writer = "running" /\ control.of = a) /\ a \notin loose

\* A run is only reported completed when the process declared its end and
\* ended that way, every line it printed was read, every accepted event was
\* stored, and nothing went wrong or had to be forced before that.
CompletedIsWhole ==
    \A a \in Attempts : result[a] = "completed" =>
        /\ reader[a].ended /\ proc[a] = "clean" /\ pipe[a] = <<>>
        /\ reader[a].stored = reader[a].accepted
        /\ a \notin failure /\ ~watch[a].timedOut /\ ~(Owned /\ job[a].forced)

\* The desktop is given back by the attempt that owns it, once, and a late or
\* repeated acknowledgement never takes it from the next one.
OwnerStep ==
    owner # 0 /\ owner' # owner =>
          \/ owner \in handed' \ handed
          \/ Owned /\ job[owner].receipt
OwnerKept == [][OwnerStep]_hostVars

\* A stop reaches the attempt it was meant for and no other: the next attempt
\* starts without the flags, the writer or the file of the one before.
StopIsScoped ==
    /\ file \subseteq asked \cup failure
    /\ control.requested => owner \in asked \cup failure
    /\ control.writer # "none" => control.of = owner

Watched == ReleasedIsQuiet /\ CompletedIsWhole /\ StopIsScoped

\* A Host that timed out or was asked to stop ends, whatever the runner does
\* (test_timeout_requests_cancel_then_terminates_only_fixed_host,
\* test_cancel_terminates_non_cooperative_fixed_host_after_grace).
StoppedEnds ==
    \A a \in Attempts : (watch[a].timedOut \/ watch[a].cancelled) ~> ~Alive(a)
=============================================================================
