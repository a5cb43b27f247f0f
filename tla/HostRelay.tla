----------------------------- MODULE HostRelay -----------------------------
(***************************************************************************)
(* The Fixed Adapter Host (the C# process the Manager starts once per run  *)
(* attempt): it starts the package's runner inside a kill-on-close job,    *)
(* forwards the runner's events to the Manager after checking them, relays *)
(* a cancellation from its stdin or from the durable cancel file to the    *)
(* runner, ends a runner that overstays, and writes the terminal event     *)
(* itself when the runner did not.                                         *)
(*                                                                         *)
(* Three threads of the Host (Execute, RelayControls, RelayDurableCancel)  *)
(* interleave with the runner, with a helper process the runner starts     *)
(* and with the Manager, which writes the cancel file and may kill the     *)
(* Host.  The three deadlines (execution, cancel grace, output drain) are  *)
(* events that may happen any time after they are armed.                   *)
(***************************************************************************)
EXTENDS Naturals, Sequences, FiniteSets

CONSTANTS
  Todos,         \* the executable Todos of the request
  MaxLines,      \* lines the runner writes
  MaxCancels,    \* cancel files the Manager writes
  Controls,      \* control lines that reach the Host's stdin, a subset of ControlKinds
  MayFault       \* whether a file operation or a process kill may fail once

ControlKinds == {"good", "bad"}
RelayAssumption ==
  /\ IsFiniteSet(Todos) /\ MaxLines \in Nat /\ MaxCancels \in Nat
  /\ Controls \subseteq ControlKinds /\ MayFault \in BOOLEAN

VARIABLES
  runner,   \* the runner's process
  pipe,     \* its stdout
  job,      \* the kill-on-close job and the helper process
  host,     \* the Host's main thread
  out,      \* what the Host has written to its own stdout
  relay,    \* the two relay threads and the flags they share with the main thread
  over,     \* which deadlines have passed
  files,    \* the durable cancel file and its delivery receipt
  stdin,    \* control lines still to come
  left      \* what is left of the bounds

vars == <<runner, pipe, job, host, out, relay, over, files, stdin, left>>

\* The lines of the protocol: by names the writer of a terminal event, and what
\* its status says is apart from the exit code it declares.
Lines(kinds, todos) ==
  [kind : kinds, by : {"runner"}, todo : todos, status : {""}, done : {{}}, exit : {0}]
Terminal(by, status, done, exit) ==
  [kind |-> "terminal", by |-> by, todo |-> "", status |-> status, done |-> done, exit |-> exit]

\* "other" stands for every status that does not say completed or cancelled.
Statuses == {"completed", "other", "cancelled"}

Killed == 9
HostError == 70

Init ==
  /\ runner = [pc |-> "none", code |-> 0, own |-> Killed, told |-> 0]
  /\ pipe = <<>>
  /\ job = [pc |-> "none", holds |-> FALSE, helper |-> "none"]
  /\ host = [pc |-> "boot", hello |-> FALSE, terminal |-> FALSE, declared |-> Killed,
             started |-> {}, completed |-> {}, valid |-> TRUE, forced |-> "no", exit |-> 0]
  /\ out = <<>>
  /\ relay = [control |-> "off", durable |-> "off", failed |-> FALSE, cancel |-> FALSE]
  /\ over = [deadline |-> FALSE, grace |-> FALSE, drain |-> FALSE]
  /\ files = [pending |-> "none", delivered |-> FALSE]
  /\ stdin = Controls
  /\ left = [lines |-> MaxLines, cancels |-> MaxCancels, fault |-> MayFault]

HasExited == runner.pc = "exited"
Alive == runner.pc \in {"waiting", "running", "closed"}

----------------------------------------------------------------------------
(* Execute: the start of the runner                                        *)

StartRunner ==
  /\ host.pc = "boot"
  /\ \/ runner' = [runner EXCEPT !.pc = "waiting"] /\ host' = [host EXCEPT !.pc = "assign"]
     \/ host' = [host EXCEPT !.pc = "done", !.exit = HostError] /\ UNCHANGED runner
  /\ UNCHANGED <<pipe, job, out, relay, over, files, stdin, left>>

\* CreateKillOnCloseJob and AssignProcessToJobObject
AssignJob ==
  /\ host.pc = "assign"
  /\ job' = [job EXCEPT !.pc = "open", !.holds = TRUE]
  /\ host' = [host EXCEPT !.pc = "deliver"]
  /\ UNCHANGED <<runner, pipe, out, relay, over, files, stdin, left>>

\* the request line; the runner does nothing before it has it
DeliverRequest ==
  /\ host.pc = "deliver" /\ runner.pc = "waiting"
  /\ runner' = [runner EXCEPT !.pc = "running"]
  /\ host' = [host EXCEPT !.pc = "loop"]
  /\ relay' = [relay EXCEPT !.control = "read", !.durable = "read"]
  /\ UNCHANGED <<pipe, job, out, over, files, stdin, left>>

\* closing the job ends the helper that belongs to it
CloseJob == job' = [job EXCEPT !.pc = "closed", !.helper = IF @ = "fenced" THEN "none" ELSE @]

StartFails ==
  /\ host.pc \in {"assign", "deliver"} /\ left.fault
  /\ left' = [left EXCEPT !.fault = FALSE]
  /\ runner' = [runner EXCEPT !.pc = "exited", !.code = Killed]
  /\ CloseJob
  /\ host' = [host EXCEPT !.pc = "done", !.exit = HostError]
  /\ UNCHANGED <<pipe, out, relay, over, files, stdin>>

----------------------------------------------------------------------------
(* The runner, its helper and the Manager                                  *)

RunnerWrites(e) ==
  /\ runner.pc = "running" /\ left.lines > 0 /\ Len(pipe) < 2
  /\ pipe' = Append(pipe, e)
  /\ left' = [left EXCEPT !.lines = @ - 1]
  /\ UNCHANGED <<runner, job, host, out, relay, over, files, stdin>>

\* a helper belongs to the job its parent is in; it holds the stdout open
RunnerSpawns ==
  /\ runner.pc = "running" /\ job.helper = "none"
  /\ job' = [job EXCEPT !.helper = IF job.holds THEN "fenced" ELSE "escaped"]
  /\ UNCHANGED <<runner, pipe, host, out, relay, over, files, stdin, left>>

\* the process ends: its handles are closed first, then its object is signalled
RunnerCloses(code) ==
  /\ runner.pc = "running"
  /\ runner' = [runner EXCEPT !.pc = "closed", !.code = code, !.own = code]
  /\ UNCHANGED <<pipe, job, host, out, relay, over, files, stdin, left>>

RunnerExits ==
  /\ runner.pc = "closed"
  /\ runner' = [runner EXCEPT !.pc = "exited"]
  /\ UNCHANGED <<pipe, job, host, out, relay, over, files, stdin, left>>

HelperEnds ==
  /\ job.helper # "none"
  /\ job' = [job EXCEPT !.helper = "none"]
  /\ UNCHANGED <<runner, pipe, host, out, relay, over, files, stdin, left>>

\* _write_durable_cancel: nothing to write once the delivery receipt exists,
\* but the look and the write are two steps
ManagerCancels(kind) ==
  /\ left.cancels > 0 /\ (~files.delivered \/ left.cancels < MaxCancels)
  /\ files' = [files EXCEPT !.pending = kind]
  /\ left' = [left EXCEPT !.cancels = @ - 1]
  /\ UNCHANGED <<runner, pipe, job, host, out, relay, over, stdin>>

\* the Manager ends the Host; its job handle is closed by the system
HostKilled ==
  /\ host.pc \notin {"done", "killed"}
  /\ host' = [host EXCEPT !.pc = "killed"]
  /\ IF job.pc = "open"
     THEN CloseJob /\ runner' = [runner EXCEPT !.pc = "exited", !.code = Killed]
     ELSE UNCHANGED <<job, runner>>
  /\ relay' = [relay EXCEPT !.control = "off", !.durable = "off"]
  /\ UNCHANGED <<pipe, out, over, files, stdin, left>>

DeadlinePasses ==
  /\ host.pc = "loop" /\ ~over.deadline
  /\ over' = [over EXCEPT !.deadline = TRUE]
  /\ UNCHANGED <<runner, pipe, job, host, out, relay, files, stdin, left>>

GracePasses ==
  /\ host.pc = "loop" /\ relay.cancel /\ ~over.grace
  /\ over' = [over EXCEPT !.grace = TRUE]
  /\ UNCHANGED <<runner, pipe, job, host, out, relay, files, stdin, left>>

DrainPasses ==
  /\ host.pc = "loop" /\ HasExited /\ ~over.drain
  /\ over' = [over EXCEPT !.drain = TRUE]
  /\ UNCHANGED <<runner, pipe, job, host, out, relay, files, stdin, left>>

----------------------------------------------------------------------------
(* RelayControls and RelayDurableCancel                                    *)

\* WriteRunnerInput: under the input gate, and only to a runner that lives
CanTell == runner.pc \in {"running", "closed"}
Tell == runner' = [runner EXCEPT !.told = @ + 1]

ControlReads ==
  /\ relay.control = "read" /\ ~HasExited
  /\ \E k \in stdin \cup {"eof"} :
       /\ stdin' = stdin \ {k}
       /\ \/ k = "good" /\ CanTell /\ Tell /\ relay' = [relay EXCEPT !.control = "mark"]
          \/ k = "bad" /\ relay' = [relay EXCEPT !.control = "off", !.failed = TRUE] /\ UNCHANGED runner
          \/ k = "eof" /\ relay' = [relay EXCEPT !.control = "off"] /\ UNCHANGED runner
  /\ UNCHANGED <<pipe, job, host, out, over, files, left>>

\* MarkCancellationRequested, after the runner was told
ControlMarks ==
  /\ relay.control = "mark"
  /\ relay' = [relay EXCEPT !.control = "read", !.cancel = TRUE]
  /\ UNCHANGED <<runner, pipe, job, host, out, over, files, stdin, left>>

DurableReads ==
  /\ relay.durable = "read" /\ ~HasExited /\ ~relay.cancel /\ files.pending # "none"
  /\ \/ files.pending = "good" /\ relay' = [relay EXCEPT !.durable = "tell"]
     \/ files.pending = "bad" /\ relay' = [relay EXCEPT !.durable = "off", !.failed = TRUE]
  /\ UNCHANGED <<runner, pipe, job, host, out, over, files, stdin, left>>

DurableTells ==
  /\ relay.durable = "tell"
  /\ IF CanTell THEN Tell /\ relay' = [relay EXCEPT !.durable = "ack"]
     ELSE relay' = [relay EXCEPT !.durable = "off"] /\ UNCHANGED runner
  /\ UNCHANGED <<pipe, job, host, out, over, files, stdin, left>>

\* the pending file becomes the delivery receipt, then the request is marked
DurableAcks ==
  /\ relay.durable = "ack"
  /\ \/ /\ files' = [pending |-> "none", delivered |-> TRUE]
        /\ relay' = [relay EXCEPT !.durable = "off", !.cancel = TRUE]
        /\ UNCHANGED left
     \/ /\ left.fault /\ left' = [left EXCEPT !.fault = FALSE]
        /\ relay' = [relay EXCEPT !.durable = "off", !.failed = TRUE]
        /\ UNCHANGED files
  /\ UNCHANGED <<runner, pipe, job, host, out, over, stdin>>

----------------------------------------------------------------------------
(* Execute: the loop                                                       *)

Leave(reason) == host' = [host EXCEPT !.pc = "stop", !.forced = reason]

LoopStops ==
  /\ host.pc = "loop"
  /\ \/ relay.failed /\ Leave("adapter_control_invalid")
     \/ over.grace /\ Leave("runner_cancel_grace_exceeded")
     \/ over.deadline /\ Leave("runner_deadline_exceeded")
     \/ /\ over.drain
        /\ Leave(IF host.terminal THEN "no" ELSE "runner_exited_without_terminal")
  /\ UNCHANGED <<runner, pipe, job, out, relay, over, files, stdin, left>>

AtEof == runner.pc \in {"closed", "exited"} /\ job.helper = "none" /\ pipe = <<>>

LoopEnds ==
  /\ host.pc = "loop" /\ AtEof
  /\ Leave(IF HasExited THEN "no" ELSE "runner_output_closed_without_terminal")
  /\ UNCHANGED <<runner, pipe, job, out, relay, over, files, stdin, left>>

\* ValidateRunnerEvent
AcceptUnresolved(e) ==
  /\ ~host.terminal /\ e.kind # "junk" /\ host.hello # (e.kind = "hello")
  /\ e.kind = "terminal" => e.done = host.completed

Accepts(e) ==
  /\ ~host.terminal
  /\ e.kind # "junk"
  /\ host.hello # (e.kind = "hello")
  /\ e.kind = "terminal" =>
       e.done = host.completed /\ (e.status = "completed" => host.completed = Todos)

\* what an accepted event leaves in the Host's sets
Note(e) ==
  host' = [host EXCEPT !.hello = TRUE,
                       !.started = IF e.kind = "started" THEN @ \cup {e.todo} ELSE @,
                       !.completed = IF e.kind = "completed" THEN @ \cup {e.todo} ELSE @,
                       !.terminal = (e.kind = "terminal"),
                       !.declared = IF e.kind = "terminal" THEN e.exit ELSE @]

LoopForwards ==
  /\ host.pc = "loop" /\ pipe # <<>>
  /\ pipe' = Tail(pipe)
  /\ IF Accepts(Head(pipe))
     THEN Note(Head(pipe)) /\ out' = Append(out, Head(pipe))
     ELSE host' = [host EXCEPT !.pc = "stop", !.valid = FALSE] /\ UNCHANGED out
  /\ UNCHANGED <<runner, job, relay, over, files, stdin, left>>

----------------------------------------------------------------------------
(* Execute: the end                                                        *)

MustKill == ~host.valid \/ host.forced # "no"

\* ending a process that is already ending may throw
StopRunner ==
  /\ host.pc = "stop"
  /\ \/ /\ ~MustKill \/ HasExited
        /\ HasExited
        /\ host' = [host EXCEPT !.pc = "settle"] /\ UNCHANGED runner
     \/ /\ MustKill /\ Alive
        /\ runner' = [runner EXCEPT !.pc = "exited", !.code = Killed]
        /\ host' = [host EXCEPT !.pc = "settle"]
     \/ /\ MustKill /\ runner.pc = "closed"
        /\ runner' = [runner EXCEPT !.pc = "exited"]
        /\ host' = [host EXCEPT !.pc = "settle", !.valid = FALSE]
  /\ UNCHANGED <<pipe, job, out, relay, over, files, stdin, left>>

MaySynthesize == host.valid /\ host.hello /\ ~host.terminal

WasCancelled == relay.cancel

\* the terminal the runner did not write
Synthesize ==
  /\ host.pc = "settle"
  /\ IF MaySynthesize
     THEN \E code \in {IF WasCancelled THEN 0 ELSE HostError} :
            /\ out' = Append(out, Terminal("host", IF WasCancelled THEN "cancelled" ELSE "other",
                                           host.completed, code))
            /\ host' = [host EXCEPT !.pc = "close", !.terminal = TRUE, !.declared = code,
                                    !.exit = code]
     ELSE /\ host' = [host EXCEPT !.pc = "close", !.exit = runner.code]
          /\ UNCHANGED out
  /\ UNCHANGED <<runner, pipe, job, relay, over, files, stdin, left>>

ExitProven == host.valid /\ host.hello /\ host.terminal /\ host.declared = host.exit /\ ~relay.failed

Finish ==
  /\ host.pc = "close"
  /\ CloseJob
  /\ host' = [host EXCEPT !.pc = "done", !.exit = IF ExitProven THEN @ ELSE HostError]
  /\ relay' = [relay EXCEPT !.control = "off", !.durable = "off"]
  /\ UNCHANGED <<runner, pipe, out, over, files, stdin, left>>

HostStep == \/ StartRunner \/ AssignJob \/ DeliverRequest \/ LoopStops \/ LoopEnds
            \/ LoopForwards \/ StopRunner \/ Synthesize \/ Finish
RelayStep == ControlReads \/ ControlMarks \/ DurableReads \/ DurableTells \/ DurableAcks
Timers == DeadlinePasses \/ GracePasses \/ DrainPasses

\* "junk" stands for a line that is no event of the schema.
Events == Lines({"hello", "junk"}, {""}) \cup Lines({"started", "completed"}, Todos)
            \cup [kind : {"terminal"}, by : {"runner"}, todo : {""}, status : Statuses,
                  done : SUBSET Todos, exit : {0, 1}]
RunnerStep == \/ \E e \in Events : RunnerWrites(e)
              \/ RunnerSpawns \/ HelperEnds \/ RunnerExits
              \/ \E c \in {0, 1} : RunnerCloses(c)
ManagerStep == (\E k \in {"good", "bad"} : ManagerCancels(k)) \/ HostKilled

Next == HostStep \/ RelayStep \/ Timers \/ RunnerStep \/ ManagerStep \/ StartFails

Spec == Init /\ [][Next]_vars

\* The Host's threads run, time passes, and a process that is ending ends;
\* nothing is asked of the runner, its helper or the Manager.
LiveSpec == Spec /\ WF_vars(HostStep) /\ WF_vars(RelayStep)
                 /\ WF_vars(DeadlinePasses) /\ WF_vars(DrainPasses) /\ WF_vars(RunnerExits)

----------------------------------------------------------------------------
(* Properties                                                              *)

Ends == {i \in 1..Len(out) : out[i].kind = "terminal"}
ByHost(e) == e.kind = "terminal" /\ e.by = "host"

\* The Manager's parser sees at most one terminal event and nothing after it,
\* whoever wrote it: the runner, or the Host while the runner was still writing.
OneTerminalLast == \A i \in Ends : i = Len(out)

\* A terminal event, the runner's or the Host's, names exactly the Todos whose
\* completion was forwarded before it, and says completed only of all of them,
\* whatever exit code it declares.
TerminalHonest ==
  \A i \in Ends :
    LET reported == {out[j].todo : j \in {k \in 1..(i - 1) : out[k].kind = "completed"}} IN
    out[i].done = reported /\ (out[i].status = "completed" => reported = Todos)

\* An attempt the Host ends as cancelled was told so: the runner had the
\* cancellation on its stdin, however the file, the stdin line and the
\* runner's own end interleave.
CancelledWasTold ==
  (\E i \in Ends : ByHost(out[i]) /\ out[i].status = "cancelled") => runner.told > 0

\* "Closing the handle is the final cleanup fence: a leaked helper cannot
\* survive into the next selected game", also when the Host itself is killed.
HelpersFenced == host.pc \in {"done", "killed"} => job.helper = "none"

\* Exit code 0 reaches the Manager only with a terminal event that declares
\* it, from a runner that really ended so or from a cancellation.
ZeroIsProven ==
  host.pc = "done" /\ host.exit = 0 =>
    /\ Ends # {} /\ out[Len(out)].exit = 0
    /\ ByHost(out[Len(out)]) \/ (runner.own = 0 /\ runner.code = 0)

Honest == OneTerminalLast /\ TerminalHonest /\ CancelledWasTold /\ HelpersFenced /\ ZeroIsProven

\* Whatever runner, helper and relay threads do, the Host ends.
HostEnds == <>(host.pc \in {"done", "killed"})

\* A runner that reported its end, ended by itself with the code it declared
\* and was neither cancelled nor late keeps that code: the Host's reason
\* "runner_output_closed_without_terminal" is for a runner without one.
OwnEndKept ==
  (/\ host.pc = "done" /\ Ends # {} /\ out[Len(out)].exit = runner.own
   /\ pipe = <<>> /\ ~relay.failed /\ ~relay.cancel /\ ~over.deadline)
  => host.exit = runner.own
=============================================================================
