---------------------------- MODULE AdapterStream ----------------------------
(* The JSONL event stream of one execution attempt: what the Manager accepts *)
(* from the runner, what it remembers of it, and the result it draws when    *)
(* the process has ended.  The runner prints whatever it likes, the stdout   *)
(* reader consumes it line by line and stops at the first line it refuses.   *)
(* Source: backend/yeyu_gamer_manager/services/adapter_protocol.py,          *)
(* read_stdout and the end of _watch_execution_bound in adapter_host.py.     *)
EXTENDS Integers, FiniteSets

CONSTANTS
    Todos,          \* number of executable Todos of the plan, in plan order
    ArtifactIds,    \* artifact ids a runner may use
    MaxBytes,       \* manifest.max_artifact_bytes
    PerTodo,        \* manifest.max_artifacts_per_todo
    RunBytes,       \* MAX_RUN_ARTIFACT_BYTES
    Width           \* bits of a process exit code (32 on Windows)

ASSUME StreamConstants ==
    /\ Todos \in Nat \ {0} /\ PerTodo \in Nat \ {0}
    /\ MaxBytes \in Nat /\ RunBytes \in Nat
    /\ Width \in Nat \ {0}
    /\ 2^(Width - 1) \in Nat \ {0} /\ 2^Width = 2 * 2^(Width - 1)

Todo     == 1 .. Todos
Statuses == {"completed", "human_required", "failed"}
ExitCodes == -(2^(Width - 1)) .. 2^Width - 1           \* as the system reports them
Declared  == -(2^(Width - 1)) .. 2^(Width - 1) - 1     \* as a runner declares them

NoTerminal == [status |-> "none", evidence |-> {}, upstream |-> FALSE]
NoRun      == [status |-> "none", exit |-> 0]

\* run_artifact_byte_limit
RunByteLimit ==
    LET whole == Todos * PerTodo * MaxBytes
    IN  IF whole < RunBytes THEN whole ELSE RunBytes

\* A fresh AdapterEventStream. Of the failures of a Todo or a run that are
\* neither completed nor human_required one stands for all ("failed").
NewStream ==
    [hello |-> FALSE, started |-> {}, terminals |-> [t \in Todo |-> NoTerminal],
     artifacts |-> {}, bytes |-> 0, run |-> NoRun]

Ended(s, t)     == s.terminals[t].status # "none"
Completed(s)    == {t \in Todo : s.terminals[t].status = "completed"}
HumanStops(s)   == {t \in Todo : s.terminals[t].status = "human_required"}
Unresolved(s)   == Todo \ Completed(s)
Staged(s, t)    == {a \in s.artifacts : a.todo = t}

-----------------------------------------------------------------------------
(* The events. "bad" is a line refused for its own sake: not one JSON object *)
(* of the schema, of another attempt or fencing token, outside the lease, or *)
(* with a sequence number other than the next one, or with a value out of    *)
(* its range.                                                                *)

Event ==
    [type : {"bad", "hello", "run_progress"}]
      \cup [type : {"todo_attempt_started"}, todo : Todo, number : BOOLEAN]
      \cup [type : {"todo_progress"}, todo : Todo]
      \cup [type : {"artifact_staged", "run_artifact_staged"}, todo : Todo,
            id : ArtifactIds, size : 0 .. MaxBytes + 1, image : BOOLEAN]
      \cup [type : {"todo_terminal"}, todo : Todo, status : Statuses,
            evidence : SUBSET ArtifactIds, upstream : BOOLEAN, retryable : BOOLEAN]
      \cup [type : {"run_terminal"}, status : Statuses,
            attempted : SUBSET Todo, completed : SUBSET Todo,
            startup : BOOLEAN, exit : Declared]

\* blocking_predecessors: an earlier Todo ended human_required.
Blocked(s, t) == \E u \in HumanStops(s) : u < t

ActiveOnceStarted(s, t) == t \in s.started /\ ~Ended(s, t)

\* _require_active_todo
Active(s, t) == ~Blocked(s, t) /\ t \in s.started /\ ~Ended(s, t)

AcceptsStarted(s, e) ==
    /\ e.todo \notin s.started
    /\ ~Blocked(s, e.todo)
    /\ e.number                    \* attemptNo = prior_attempts + 1

AcceptsArtifactOfAnyBytes(s, e) ==
    /\ e.type = "artifact_staged" => Active(s, e.todo)
    /\ \A a \in s.artifacts : a.id # e.id
    /\ e.size \in (IF e.image THEN 1 ELSE 0) .. MaxBytes
    /\ Cardinality(Staged(s, e.todo)) < PerTodo

\* _consume_artifact: an image has content, another artifact may be empty.
AcceptsArtifact(s, e) ==
    /\ e.type = "artifact_staged" => Active(s, e.todo)
    /\ \A a \in s.artifacts : a.id # e.id
    /\ e.size \in (IF e.image THEN 1 ELSE 0) .. MaxBytes
    /\ Cardinality(Staged(s, e.todo)) < PerTodo
    /\ s.bytes + e.size <= RunByteLimit

EvidentOfAnyTodo(s, t, ids) ==
    \A id \in ids : \E a \in s.artifacts : a.id = id /\ ~a.runScoped

\* Evidence is what was staged for this Todo as this Todo's artifact.
Evident(s, t, ids) ==
    \A id \in ids : \E a \in Staged(s, t) : a.id = id /\ ~a.runScoped

AcceptsTerminal(s, e) ==
    /\ Active(s, e.todo)
    /\ e.status = "completed" => (e.evidence # {} \/ e.upstream) /\ ~e.retryable
    /\ e.status = "human_required" => ~e.retryable
    /\ Evident(s, e.todo, e.evidence)

\* _consume_run_terminal: the summary is the one the events add up to.
AcceptsRunAnyGate(s, e) ==
    /\ e.attempted = s.started
    /\ e.completed = Completed(s)
    /\ e.status = "completed" => Unresolved(s) = {}
    /\ e.startup => e.status = "human_required" /\ e.attempted = {}
    /\ e.status = "human_required" => HumanStops(s) # {} \/ e.startup

AcceptsRunUnlessAllDone(s, e) ==
    /\ AcceptsRunAnyGate(s, e)
    /\ HumanStops(s) # {} => e.status = "human_required"
    /\ e.status = "failed" => Unresolved(s) # {}

AcceptsRun(s, e) ==
    /\ AcceptsRunAnyGate(s, e)
    /\ HumanStops(s) # {} => e.status = "human_required"

\* consume_line
Accepts(s, e) ==
    /\ s.run = NoRun                     \* event_after_terminal
    /\ s.hello <=> e.type # "hello"      \* missing_hello, duplicate_hello
    /\ CASE e.type = "bad" -> FALSE
         [] e.type \in {"hello", "run_progress"} -> TRUE
         [] e.type = "todo_attempt_started" -> AcceptsStarted(s, e)
         [] e.type = "todo_progress" -> Active(s, e.todo)
         [] e.type \in {"artifact_staged", "run_artifact_staged"} -> AcceptsArtifact(s, e)
         [] e.type = "todo_terminal" -> AcceptsTerminal(s, e)
         [] e.type = "run_terminal" -> AcceptsRun(s, e)

\* What an accepted event adds to the stream.
Consumed(s, e) ==
    CASE e.type = "hello" -> [s EXCEPT !.hello = TRUE]
      [] e.type = "todo_attempt_started" -> [s EXCEPT !.started = @ \cup {e.todo}]
      [] e.type \in {"artifact_staged", "run_artifact_staged"} ->
            [s EXCEPT !.artifacts = @ \cup {[id |-> e.id, todo |-> e.todo,
                                    runScoped |-> e.type = "run_artifact_staged"]},
                      !.bytes = @ + e.size]
      [] e.type = "todo_terminal" ->
            [s EXCEPT !.terminals[e.todo] = [status |-> e.status, evidence |-> e.evidence,
                                             upstream |-> e.upstream]]
      [] e.type = "run_terminal" -> [s EXCEPT !.run = [status |-> e.status, exit |-> e.exit]]
      [] OTHER -> s

-----------------------------------------------------------------------------
(* The result of the attempt. *)

Result(status, code, valid, s, exit) ==
    [status |-> status, code |-> code, valid |-> valid,
     completed |-> Completed(s), exit |-> exit]

NoResult ==
    [status |-> "none", code |-> "none", valid |-> FALSE, completed |-> {}, exit |-> 0]

FailureCrashed(s, code, exit) == Result("crashed", code, FALSE, s, exit)

\* failure_result
Failure(s, code, exit) == Result("failed", code, FALSE, s, exit)

\* process_exit_code & 0xFFFFFFFF against the declared one.
SignedExit(a, b) == a = b
SameExit(a, b) == a % 2^Width = b % 2^Width

\* finish
Finish(s, exit) ==
    IF s.run = NoRun THEN Failure(s, "missing_run_terminal", exit)
    ELSE IF ~SameExit(exit, s.run.exit) THEN Failure(s, "process_exit_mismatch", exit)
    ELSE Result(s.run.status, "run_terminal", TRUE, s, exit)

-----------------------------------------------------------------------------
(* The attempt.                                                              *)

VARIABLES
    stream,     \* the AdapterEventStream
    failed,     \* the reader recorded a protocol failure and stopped
    result      \* the AdapterRunResult, NoResult while the process runs

vars == <<stream, failed, result>>

Init == stream = NewStream /\ failed = FALSE /\ result = NoResult

Reads == result = NoResult /\ ~failed

Accept(e) ==
    /\ Reads
    /\ Accepts(stream, e)
    /\ stream' = Consumed(stream, e)
    /\ UNCHANGED <<failed, result>>

\* The first AdapterProtocolError ends the reader; nothing of the line stays.
Refuse(e) ==
    /\ Reads
    /\ ~Accepts(stream, e)
    /\ failed' = TRUE
    /\ UNCHANGED <<stream, result>>

\* The process exits and the readers are drained.
Exit(code) ==
    /\ result = NoResult
    /\ result' = IF failed THEN Failure(stream, "protocol", code) ELSE Finish(stream, code)
    /\ UNCHANGED <<stream, failed>>

Next ==
    \/ \E e \in Event : Accept(e)
    \/ \E e \in Event : Refuse(e)
    \/ \E code \in ExitCodes : Exit(code)

Spec == Init /\ [][Next]_vars

-----------------------------------------------------------------------------
(* Properties *)

TerminalType ==
    [status : Statuses \cup {"none"}, evidence : SUBSET ArtifactIds, upstream : BOOLEAN]

\* The stream, the failure flag and the result have their shapes.
TypeOK ==
    /\ stream \in [hello : BOOLEAN, started : SUBSET Todo,
                   terminals : [Todo -> TerminalType],
                   artifacts : SUBSET [id : ArtifactIds, todo : Todo, runScoped : BOOLEAN],
                   bytes : Nat,
                   run : [status : Statuses \cup {"none"}, exit : Declared]]
    /\ failed \in BOOLEAN
    /\ result \in [status : Statuses \cup {"none"}, code : STRING,
                   valid : BOOLEAN, completed : SUBSET Todo, exit : ExitCodes]

\* A Todo counted as completed was started in this attempt and rests on an
\* upstream result or on an artifact staged for this very Todo; the account of
\* integration diagnostics never proves it (_consume_todo_terminal).
Proven(t) ==
    /\ t \in stream.started
    /\ stream.terminals[t].upstream
         \/ \E a \in Staged(stream, t) : ~a.runScoped /\ a.id \in stream.terminals[t].evidence

\* A run that is believed to be completed has every Todo proven, refused no
\* line on the way, and the process itself ended the way the runner said.
CompletedIsProven ==
    /\ \A t \in Completed(stream) : Proven(t)
    /\ result.valid /\ result.status = "completed"
         => ~failed /\ Completed(stream) = Todo

\* The artifact bytes a run makes the Manager store stay within what the
\* manifest allows for its Todos, whichever Todo and scope they are staged for.
BytesBounded ==
    /\ stream.bytes <= RunBytes
    /\ stream.bytes <= Todos * PerTodo * MaxBytes

\* No order of accepted events leaves a truthful runner without an accepted
\* way to end the run: it can report the human requirement if there is one and
\* otherwise a failure, also a failure of the run itself after every Todo
\* completed (the comment of _consume_run_terminal); and it can report success
\* when every Todo completed.
AlwaysClosable ==
    LET Summary(status) ==
            [type |-> "run_terminal", status |-> status, attempted |-> stream.started,
             completed |-> Completed(stream), startup |-> FALSE, exit |-> 0]
    IN  stream.hello /\ stream.run = NoRun =>
            /\ Accepts(stream, Summary(IF HumanStops(stream) # {} THEN "human_required"
                                                                 ELSE "failed"))
            /\ Completed(stream) = Todo => Accepts(stream, Summary("completed"))

\* The number of Width bits that a reported exit code stands for: Windows
\* reports a negative code as the unsigned DWORD of the same bits (finish).
Signed(x) == IF x >= 2^(Width - 1) THEN x - 2^Width ELSE x

\* The result says the process died outside its protocol exactly when it ended
\* with another code than it declared, however the system writes that code.
ExitRecognised ==
    result.code \in {"run_terminal", "process_exit_mismatch"} =>
        (result.code = "run_terminal" <=> Signed(result.exit) = stream.run.exit)

StreamSafe == BytesBounded /\ AlwaysClosable /\ ExitRecognised

\* The attempt keeps the promises of TodoRun.
phaseBar ==
    [t \in Todo |-> IF Ended(stream, t) THEN stream.terminals[t].status
                    ELSE IF t \in stream.started THEN "running" ELSE "idle"]
outcomeBar ==
    IF result = NoResult THEN "open" ELSE IF result.valid THEN result.status ELSE "void"

Abstract == INSTANCE TodoRun WITH phase <- phaseBar, outcome <- outcomeBar

RefinesTodoRun == Abstract!Spec
=============================================================================
