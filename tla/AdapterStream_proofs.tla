------------------------- MODULE AdapterStream_proofs -------------------------
(* Proofs about AdapterStream, for every number of Todos, every set of        *)
(* artifact ids, every limit and every width of an exit code; and, from       *)
(* MCFixedHost, as Relay about the Host that forwards the stream and as       *)
(* Package about the packages it is given.                                    *)
EXTENDS AdapterStream, MCFixedHost, TLAPS, Sequences, Integers, FiniteSets

\* What the inductive invariant needs of the shape of the state, field by
\* field: the prover is at its best without the sets of whole records.
Shape ==
    /\ DOMAIN stream = {"hello", "started", "terminals", "artifacts", "bytes", "run"}
    /\ stream.started \subseteq Todo
    /\ stream.terminals \in [Todo -> [status : Statuses \cup {"none"},
                                       evidence : SUBSET ArtifactIds, upstream : BOOLEAN]]
    /\ stream.bytes \in Int
    /\ failed \in BOOLEAN

\* Only a started Todo ends, and what completed is proven.
Rests ==
    /\ \A t \in Todo : Ended(stream, t) => t \in stream.started
    /\ \A t \in Completed(stream) : Proven(t)

\* What the run and the result say is what the Todos say.
Agrees ==
    /\ stream.run.status = "completed" => Completed(stream) = Todo
    /\ HumanStops(stream) # {} => stream.run.status \in {"none", "human_required"}
    /\ result.valid => ~failed /\ result.status = stream.run.status
                       /\ stream.run.status # "none"
    /\ result = NoResult \/ result.status # "none"
    /\ stream.run = NoRun \/ stream.run.status \in Statuses

IInv == Shape /\ Rests /\ Agrees /\ stream.bytes <= RunByteLimit

LEMMA InitIInv == Init => IInv
<1> SUFFICES ASSUME Init PROVE IInv
    OBVIOUS
<1>1. Shape
  <2>1. NoTerminal \in [status : Statuses \cup {"none"}, evidence : SUBSET ArtifactIds,
                         upstream : BOOLEAN]
    BY DEF NoTerminal, Statuses
  <2>2. [t \in Todo |-> NoTerminal] \in [Todo -> [status : Statuses \cup {"none"},
                                       evidence : SUBSET ArtifactIds, upstream : BOOLEAN]]
    BY <2>1
  <2>3. DOMAIN stream = {"hello", "started", "terminals", "artifacts", "bytes", "run"}
    BY DEF Init, NewStream
  <2>4. /\ stream.started = {} /\ stream.bytes = 0 /\ failed = FALSE
        /\ stream.terminals = [t \in Todo |-> NoTerminal]
    BY DEF Init, NewStream
  <2>5. stream.terminals \in [Todo -> [status : Statuses \cup {"none"},
                                       evidence : SUBSET ArtifactIds, upstream : BOOLEAN]]
    BY <2>2, <2>4, Zenon
  <2>6. stream.started \subseteq Todo /\ stream.bytes \in Int
    BY <2>4
  <2>7. failed \in BOOLEAN
    BY <2>4, Zenon
  <2> QED BY <2>3, <2>5, <2>6, <2>7, Zenon DEF Shape
<1>2. /\ Completed(stream) = {} /\ HumanStops(stream) = {}
      /\ \A t \in Todo : ~Ended(stream, t)
  <2>1. \A t \in Todo : stream.terminals[t].status = "none"
    BY DEF Init, NewStream, NoTerminal
  <2> QED BY <2>1 DEF Completed, HumanStops, Ended
<1>3. stream.bytes <= RunByteLimit
  BY StreamConstants DEF Init, NewStream, RunByteLimit
<1> QED BY <1>1, <1>2, <1>3 DEF IInv, Rests, Agrees, Init, NewStream, NoRun, NoResult

\* What an accepted event leaves behind, field by field.
Effect(e) ==
    /\ \/ /\ e.type \in {"hello", "run_progress", "todo_progress"}
          /\ stream'.started = stream.started
          /\ stream'.terminals = stream.terminals
          /\ stream'.artifacts = stream.artifacts
          /\ stream'.bytes = stream.bytes
          /\ stream'.run = stream.run
       \/ /\ e.type = "todo_attempt_started"
          /\ AcceptsStarted(stream, e)
          /\ stream'.started = stream.started \cup {e.todo}
          /\ stream'.terminals = stream.terminals
          /\ stream'.artifacts = stream.artifacts
          /\ stream'.bytes = stream.bytes
          /\ stream'.run = stream.run
       \/ /\ e.type \in {"artifact_staged", "run_artifact_staged"}
          /\ AcceptsArtifact(stream, e)
          /\ stream'.started = stream.started
          /\ stream'.terminals = stream.terminals
          /\ stream.artifacts \subseteq stream'.artifacts
          /\ stream'.bytes = stream.bytes + e.size
          /\ stream'.run = stream.run
       \/ /\ e.type = "todo_terminal"
          /\ AcceptsTerminal(stream, e)
          /\ stream'.started = stream.started
          /\ stream'.terminals = [stream.terminals EXCEPT ![e.todo] =
                [status |-> e.status, evidence |-> e.evidence, upstream |-> e.upstream]]
          /\ stream'.artifacts = stream.artifacts
          /\ stream'.bytes = stream.bytes
          /\ stream'.run = stream.run
       \/ /\ e.type = "run_terminal"
          /\ AcceptsRun(stream, e)
          /\ stream'.started = stream.started
          /\ stream'.terminals = stream.terminals
          /\ stream'.artifacts = stream.artifacts
          /\ stream'.bytes = stream.bytes
          /\ stream'.run = [status |-> e.status, exit |-> e.exit]
    /\ stream.run = NoRun
    /\ DOMAIN stream' = DOMAIN stream
    /\ result = NoResult /\ UNCHANGED <<failed, result>>

LEMMA Accepted == ASSUME NEW e \in Event, Accept(e), IInv PROVE Effect(e)
<1> USE DEF Accept, Reads, IInv, Shape, Effect
<1>1. CASE e.type \in {"hello", "run_progress", "todo_progress"}
  BY <1>1 DEF Accepts, Consumed
<1>2. CASE e.type = "todo_attempt_started"
  BY <1>2 DEF Accepts, Consumed
<1>3. CASE e.type \in {"artifact_staged", "run_artifact_staged"}
  BY <1>3 DEF Accepts, Consumed
<1>4. CASE e.type = "todo_terminal"
  BY <1>4 DEF Accepts, Consumed
<1>5. CASE e.type = "run_terminal"
  BY <1>5 DEF Accepts, Consumed
<1>6. CASE e.type = "bad"
  BY <1>6 DEF Accepts
<1> QED BY <1>1, <1>2, <1>3, <1>4, <1>5, <1>6 DEF Event

LEMMA AcceptKeeps == ASSUME NEW e \in Event, Accept(e), IInv PROVE IInv'
<1>1. Effect(e) /\ Shape /\ Rests /\ Agrees /\ stream.bytes <= RunByteLimit
  BY Accepted DEF IInv
<1>2. Shape'
  <2>1. CASE e.type = "todo_terminal"
    <3>1. [status |-> e.status, evidence |-> e.evidence, upstream |-> e.upstream] \in
              [status : Statuses \cup {"none"}, evidence : SUBSET ArtifactIds,
               upstream : BOOLEAN]
      BY <2>1 DEF Event
    <3> QED BY <2>1, <3>1, <1>1 DEF Effect, Shape
  <2>2. CASE e.type = "todo_attempt_started"
    BY <2>2, <1>1 DEF Effect, Shape, Event
  <2>3. CASE e.type \in {"artifact_staged", "run_artifact_staged"}
    <3>1. e.size \in Int
      BY <2>3, StreamConstants DEF Event
    <3> QED BY <2>3, <3>1, <1>1 DEF Effect, Shape
  <2>4. CASE e.type \in {"hello", "run_progress", "todo_progress", "run_terminal"}
    BY <2>4, <1>1 DEF Effect, Shape
  <2> QED BY <2>1, <2>2, <2>3, <2>4, <1>1 DEF Effect, Shape
<1>3. Rests'
  <2> USE DEF Rests, Completed, Ended, Proven, Staged
  <2>1. CASE e.type = "todo_terminal"
    <3>1. e.todo \in stream.started /\ ~Ended(stream, e.todo) /\ Evident(stream, e.todo, e.evidence)
      BY <2>1, <1>1 DEF Effect, Shape, AcceptsTerminal, Active
    <3>2. e.status = "completed" => e.upstream \/ e.evidence # {}
      BY <2>1, <1>1 DEF Effect, Shape, AcceptsTerminal
    <3>3. \A t \in Todo : t # e.todo => stream'.terminals[t] = stream.terminals[t]
      BY <2>1, <1>1 DEF Effect, Shape
    <3>4. e.todo \in Todo => stream'.terminals[e.todo] =
             [status |-> e.status, evidence |-> e.evidence, upstream |-> e.upstream]
      BY <2>1, <1>1 DEF Effect, Shape
    <3>5. stream'.started = stream.started /\ stream'.artifacts = stream.artifacts
      BY <2>1, <1>1 DEF Effect, Shape
    <3> QED BY <1>1, <3>1, <3>2, <3>3, <3>4, <3>5 DEF Evident
  <2>2. CASE e.type # "todo_terminal"
    <3>1. /\ stream'.terminals = stream.terminals /\ stream.started \subseteq stream'.started
          /\ stream.artifacts \subseteq stream'.artifacts
      BY <2>2, <1>1 DEF Effect, Shape
    <3> QED BY <1>1, <3>1
  <2> QED BY <2>1, <2>2
<1>4. Agrees'
  <2>1. stream.run.status = "none"
    BY <1>1 DEF Effect, Shape, NoRun
  <2>2. CASE e.type = "run_terminal"
    <3>1. Completed(stream)' = Completed(stream) /\ HumanStops(stream)' = HumanStops(stream)
      BY <2>2, <1>1 DEF Effect, Shape, Completed, HumanStops
    <3>2. stream'.run.status = e.status
      BY <2>2, <1>1 DEF Effect, Shape
    <3>3. e.status # "none" /\ e.status \in Statuses
      BY <2>2 DEF Event, Statuses
    <3>4. e.status = "completed" => Todo \ Completed(stream) = {}
      BY <2>2, <1>1 DEF Effect, Shape, AcceptsRun, AcceptsRunAnyGate, Unresolved
    <3>5. HumanStops(stream) # {} => e.status = "human_required"
      BY <2>2, <1>1 DEF Effect, Shape, AcceptsRun
    <3>6. Completed(stream) \subseteq Todo
      BY DEF Completed
    <3> QED BY <2>1, <3>1, <3>2, <3>4, <3>5, <3>6, <3>3, <1>1 DEF Effect, Shape, Agrees, NoResult
  <2>3. CASE e.type # "run_terminal"
    <3>1. stream'.run = stream.run
      BY <2>3, <1>1 DEF Effect, Shape
    <3> QED BY <2>1, <3>1, <1>1 DEF Effect, Shape, Agrees, NoResult
  <2> QED BY <2>2, <2>3
<1>5. stream'.bytes <= RunByteLimit
  <2>1. CASE e.type \in {"artifact_staged", "run_artifact_staged"}
    BY <2>1, <1>1 DEF Effect, Shape, AcceptsArtifact
  <2>2. CASE e.type \notin {"artifact_staged", "run_artifact_staged"}
    BY <2>2, <1>1 DEF Effect, Shape
  <2> QED BY <2>1, <2>2
<1> QED BY <1>2, <1>3, <1>4, <1>5 DEF IInv, RunByteLimit

LEMMA StepIInv == IInv /\ [Next]_vars => IInv'
<1> SUFFICES ASSUME IInv, [Next]_vars PROVE IInv'
    OBVIOUS
<1>1. ASSUME NEW e \in Event, Accept(e) PROVE IInv'
  BY <1>1, AcceptKeeps
<1>2. ASSUME NEW e \in Event, Refuse(e) PROVE IInv'
  <2>1. failed' \in BOOLEAN /\ UNCHANGED <<stream, result>> /\ result = NoResult
    BY <1>2 DEF Refuse, Reads
  <2> QED BY <2>1 DEF IInv, Shape, Rests, Agrees, NoResult, Proven, Completed, HumanStops,
                      Ended, Staged, RunByteLimit
<1>3. ASSUME NEW code \in ExitCodes, Exit(code) PROVE IInv'
  <2>1. UNCHANGED <<stream, failed>>
    BY <1>3 DEF Exit
  <2>2. result'.valid => ~failed /\ stream.run # NoRun /\ result'.status = stream.run.status
    BY <1>3 DEF Exit, Finish, Failure, Result
  <2>3. result'.status \in {"failed", stream.run.status}
    BY <1>3 DEF Exit, Finish, Failure, Result
  <2>4. Shape' /\ Rests' /\ (stream.bytes <= RunByteLimit)'
    BY <2>1 DEF IInv, Shape, Rests, Proven, Completed, Ended, Staged, RunByteLimit
  <2>5. stream.run.status # "none" \/ result'.status = "failed"
    BY <1>3 DEF Exit, Finish, Failure, Result, IInv, Agrees, Statuses
  <2>6. Agrees'
    BY <2>1, <2>2, <2>3, <2>5 DEF IInv, Agrees, Completed, HumanStops
  <2> QED BY <2>4, <2>6 DEF IInv
<1>4. CASE UNCHANGED vars
  BY <1>4 DEF vars, IInv, Shape, Rests, Agrees, Proven, Completed, HumanStops, Ended,
              Staged, RunByteLimit
<1> QED BY <1>1, <1>2, <1>3, <1>4 DEF Next

\* In every run of the stream, whatever the runner prints.
THEOREM Invariance == Spec => []IInv
<1> QED BY InitIInv, StepIInv, PTL DEF Spec

\* A Todo or a run that counts as completed is proven completed.
THEOREM ResultsAreProven == Spec => []CompletedIsProven
<1>1. IInv => CompletedIsProven
  BY DEF IInv, Rests, Agrees, CompletedIsProven
<1> QED BY <1>1, Invariance, PTL

\* The artifact bytes stay within both limits.
THEOREM BytesStayBounded == Spec => []BytesBounded
<1>1. IInv => BytesBounded
  <2>1. Todos * PerTodo \in Int /\ Todos * PerTodo * MaxBytes \in Int /\ RunBytes \in Int
    BY StreamConstants
  <2>2. RunByteLimit <= RunBytes /\ RunByteLimit <= Todos * PerTodo * MaxBytes
        /\ RunByteLimit \in Int
    BY <2>1 DEF RunByteLimit
  <2> QED BY <2>1, <2>2 DEF IInv, Shape, BytesBounded
<1> QED BY <1>1, Invariance, PTL

\* A truthful runner can always end its run.
THEOREM ClosableAlways == Spec => []AlwaysClosable
<1>1. IInv => AlwaysClosable
  <2> DEFINE Summary(status) ==
            [type |-> "run_terminal", status |-> status, attempted |-> stream.started,
             completed |-> Completed(stream), startup |-> FALSE, exit |-> 0]
             stop == IF HumanStops(stream) # {} THEN "human_required" ELSE "failed"
  <2> SUFFICES ASSUME IInv, stream.hello, stream.run = NoRun
               PROVE  /\ Accepts(stream, Summary(stop))
                      /\ Completed(stream) = Todo => Accepts(stream, Summary("completed"))
      BY DEF AlwaysClosable
  <2>1. \A x \in Statuses : AcceptsRun(stream, Summary(x)) => Accepts(stream, Summary(x))
    BY DEF Accepts
  <2>2. AcceptsRun(stream, Summary(stop))
    BY DEF AcceptsRun, AcceptsRunAnyGate
  <2>3. ASSUME Completed(stream) = Todo PROVE AcceptsRun(stream, Summary("completed"))
    <3>1. HumanStops(stream) = {}
      BY <2>3 DEF Completed, HumanStops
    <3> QED BY <2>3, <3>1 DEF AcceptsRun, AcceptsRunAnyGate, Unresolved
  <2> QED BY <2>1, <2>2, <2>3 DEF Statuses
<1> QED BY <1>1, Invariance, PTL

\* Reduction modulo n of what lies within one n of zero.
LEMMA ModOfSmall == ASSUME NEW n \in Nat \ {0}, NEW a \in 0 .. n - 1 PROVE a % n = a
OBVIOUS

LEMMA ModOfNegative == ASSUME NEW n \in Nat \ {0}, NEW a \in -n .. -1 PROVE a % n = a + n
OBVIOUS

\* The comparison of finish tells two codes apart exactly when the numbers
\* their bits stand for differ.
LEMMA SameExitIsSameNumber ==
    ASSUME NEW a \in ExitCodes, NEW b \in Declared
    PROVE  SameExit(a, b) <=> Signed(a) = b
<1> DEFINE half == 2^(Width - 1)
<1>1. half \in Nat \ {0} /\ 2^Width = 2 * half /\ 2^Width \in Nat \ {0}
  BY StreamConstants
<1>2. a \in Int /\ -half <= a /\ a < 2 * half /\ b \in Int /\ -half <= b /\ b < half
  BY <1>1 DEF ExitCodes, Declared
<1> HIDE DEF half
<1>3. a % 2^Width = IF a >= 0 THEN a ELSE a + 2 * half
  BY <1>1, <1>2, ModOfSmall, ModOfNegative
<1>4. b % 2^Width = IF b >= 0 THEN b ELSE b + 2 * half
  BY <1>1, <1>2, ModOfSmall, ModOfNegative
<1>5. Signed(a) = IF a >= half THEN a - 2 * half ELSE a
  BY <1>1 DEF Signed, half
<1> QED BY <1>1, <1>2, <1>3, <1>4, <1>5 DEF SameExit

\* What the reader and finish keep of the two exit codes.
Compared == {"run_terminal", "process_exit_mismatch"}
ExitInv ==
    /\ stream.run.exit \in Declared
    /\ result.code \in Compared =>
          /\ result.exit \in ExitCodes
          /\ result.code = "run_terminal" <=> SameExit(result.exit, stream.run.exit)

LEMMA InitExitInv == Init => ExitInv
<1> SUFFICES ASSUME Init PROVE ExitInv
    OBVIOUS
<1>1. stream.run.exit = 0 /\ result.code = "none"
  BY DEF Init, NewStream, NoRun, NoResult
<1>2. 0 \in Declared
  BY StreamConstants DEF Declared
<1> QED BY <1>1, <1>2 DEF ExitInv, Compared

LEMMA StepExitInv == IInv /\ ExitInv /\ [Next]_vars => ExitInv'
<1> SUFFICES ASSUME IInv, ExitInv, [Next]_vars PROVE ExitInv'
    OBVIOUS
<1>1. ASSUME NEW e \in Event, Accept(e) PROVE ExitInv'
  <2>1. Effect(e)
    BY <1>1, Accepted
  <2>2. result' = result /\ result.code \notin Compared
    BY <2>1 DEF Effect, NoResult, Compared
  <2>3. stream'.run.exit \in Declared
    <3>1. CASE e.type = "run_terminal"
      BY <2>1, <3>1 DEF Effect, Event
    <3>2. CASE e.type # "run_terminal"
      BY <2>1, <3>2 DEF Effect, ExitInv
    <3> QED BY <3>1, <3>2
  <2> QED BY <2>2, <2>3 DEF ExitInv
<1>2. ASSUME NEW e \in Event, Refuse(e) PROVE ExitInv'
  BY <1>2 DEF Refuse, ExitInv, Compared
<1>3. ASSUME NEW code \in ExitCodes, Exit(code) PROVE ExitInv'
  BY <1>3 DEF Exit, Finish, Failure, Result, ExitInv, Compared
<1>4. CASE UNCHANGED vars
  BY <1>4 DEF vars, ExitInv, Compared
<1> QED BY <1>1, <1>2, <1>3, <1>4 DEF Next

\* The process is said to have died outside its protocol exactly when its exit
\* code, of any width and however it is written, is not the declared one.
THEOREM ExitsAreRecognised == Spec => []ExitRecognised
<1>1. ExitInv => ExitRecognised
  BY SameExitIsSameNumber DEF ExitInv, ExitRecognised, Compared
<1> QED BY <1>1, InitExitInv, StepExitInv, Invariance, PTL DEF Spec

\* The safety of the stream as a whole.
THEOREM StreamIsSafe == Spec => []StreamSafe
<1>1. BytesBounded /\ AlwaysClosable /\ ExitRecognised => StreamSafe
  BY DEF StreamSafe
<1> QED BY <1>1, BytesStayBounded, ClosableAlways, ExitsAreRecognised, PTL

LEMMA InitRefines == Init => Abstract!Init
<1> SUFFICES ASSUME Init PROVE Abstract!Init
    OBVIOUS
<1>1. \A t \in Todo : ~Ended(stream, t) /\ t \notin stream.started
  <2>1. \A t \in Todo : stream.terminals[t].status = "none"
    BY DEF Init, NewStream, NoTerminal
  <2>2. stream.started = {}
    BY DEF Init, NewStream
  <2> QED BY <2>1, <2>2 DEF Ended
<1>2. phaseBar = [t \in Todo |-> "idle"]
  BY <1>1 DEF phaseBar
<1> QED BY <1>2 DEF Abstract!Init, outcomeBar, Init, Todo

LEMMA AcceptRefines ==
    ASSUME NEW e \in Event, Accept(e), IInv
    PROVE  Abstract!Next \/ UNCHANGED <<phaseBar, outcomeBar>>
<1>1. Effect(e) /\ Shape /\ Rests /\ Agrees
  BY Accepted DEF IInv
<1>2. outcomeBar = "open" /\ outcomeBar' = "open"
  BY <1>1 DEF Effect, outcomeBar
<1>3. \A t \in Todo : phaseBar[t] = IF Ended(stream, t) THEN stream.terminals[t].status
                   ELSE IF t \in stream.started THEN "running" ELSE "idle"
  BY DEF phaseBar
<1>4. \A t \in Todo : phaseBar'[t] = IF Ended(stream', t) THEN stream'.terminals[t].status
                   ELSE IF t \in stream'.started THEN "running" ELSE "idle"
  BY DEF phaseBar
<1>5. CASE e.type \notin {"todo_attempt_started", "todo_terminal"}
  <2>1. stream'.terminals = stream.terminals /\ stream'.started = stream.started
    BY <1>1, <1>5 DEF Effect
  <2> QED BY <1>2, <2>1 DEF phaseBar, Ended
<1>6. CASE e.type = "todo_attempt_started"
  <2>1. e.todo \in Todo /\ e.todo \notin stream.started /\ ~Blocked(stream, e.todo)
    BY <1>1, <1>6 DEF Effect, AcceptsStarted, Event
  <2>2. stream'.terminals = stream.terminals /\ stream'.started = stream.started \cup {e.todo}
    BY <1>1, <1>6 DEF Effect
  <2>3. ~Ended(stream, e.todo)
    BY <1>1, <2>1 DEF Rests
  <2>4. phaseBar[e.todo] = "idle"
    BY <1>3, <2>1, <2>3
  <2>5. phaseBar' = [phaseBar EXCEPT ![e.todo] = "running"]
    BY <2>1, <2>2, <2>3 DEF phaseBar, Ended
  <2>6. Abstract!Gate(e.todo)
    BY <1>3, <2>1 DEF Abstract!Gate, Blocked, HumanStops, Ended, Todo
  <2> QED BY <1>2, <2>1, <2>4, <2>5, <2>6 DEF Abstract!Next, Abstract!Start, Todo
<1>7. CASE e.type = "todo_terminal"
  <2>1. e.todo \in Todo /\ e.status \in Statuses /\ Active(stream, e.todo)
    BY <1>1, <1>7 DEF Effect, AcceptsTerminal, Event
  <2>2. /\ stream'.started = stream.started
        /\ stream'.terminals[e.todo].status = e.status
        /\ \A t \in Todo : t # e.todo => stream'.terminals[t] = stream.terminals[t]
    BY <1>1, <1>7, <2>1 DEF Effect, Shape
  <2>3. phaseBar[e.todo] = "running"
    BY <1>3, <2>1 DEF Active
  <2>4. Ended(stream', e.todo)
    BY <2>1, <2>2 DEF Ended, Statuses
  <2>5. phaseBar' = [phaseBar EXCEPT ![e.todo] = e.status]
    BY <2>1, <2>2, <2>4 DEF phaseBar, Ended
  <2>6. Abstract!Gate(e.todo)
    BY <1>3, <2>1 DEF Abstract!Gate, Active, Blocked, HumanStops, Ended, Todo
  <2> QED BY <1>2, <2>1, <2>3, <2>5, <2>6
          DEF Abstract!Next, Abstract!Settle, Abstract!Settled, Statuses, Todo
<1> QED BY <1>5, <1>6, <1>7

LEMMA ExitRefines ==
    ASSUME NEW code \in ExitCodes, Exit(code), IInv
    PROVE  Abstract!Next
<1>1. Shape /\ Rests /\ Agrees /\ outcomeBar = "open" /\ result = NoResult
  BY DEF IInv, Exit, outcomeBar
<1>2. UNCHANGED phaseBar
  BY DEF Exit, phaseBar, Ended
<1>3. result' # NoResult
  BY DEF Exit, Finish, Failure, Result, NoResult, Agrees, IInv
<1>4. result'.valid => result'.status = stream.run.status /\ stream.run # NoRun
  BY DEF Exit, Finish, Failure, Result
<1>5. stream.run # NoRun => stream.run.status \in Statuses
  BY <1>1 DEF Agrees
<1>6. outcomeBar' = IF result'.valid THEN stream.run.status ELSE "void"
  BY <1>3, <1>4 DEF outcomeBar
<1>7. \A t \in Todo : phaseBar[t] = "completed" <=> t \in Completed(stream)
  BY <1>1 DEF phaseBar, Completed, Ended
<1>8. \A t \in Todo : phaseBar[t] = "human_required" <=> t \in HumanStops(stream)
  BY <1>1 DEF phaseBar, HumanStops, Ended
<1> QED BY <1>1, <1>2, <1>4, <1>5, <1>6, <1>7, <1>8
        DEF Abstract!Next, Abstract!Close, Abstract!Settled, Statuses, Agrees, Todo

\* The stream keeps the promises of TodoRun: one start and one end for a Todo,
\* nothing behind a human stop, and an outcome that fits the Todos.
THEOREM StreamRefinesTodoRun == Spec => RefinesTodoRun
<1>1. IInv /\ [Next]_vars => [Abstract!Next]_<<phaseBar, outcomeBar>>
  <2> SUFFICES ASSUME IInv, [Next]_vars
               PROVE  Abstract!Next \/ UNCHANGED <<phaseBar, outcomeBar>>
      OBVIOUS
  <2>1. ASSUME NEW e \in Event, Accept(e)
        PROVE  Abstract!Next \/ UNCHANGED <<phaseBar, outcomeBar>>
    BY <2>1, AcceptRefines
  <2>2. ASSUME NEW e \in Event, Refuse(e) PROVE UNCHANGED <<phaseBar, outcomeBar>>
    BY <2>2 DEF Refuse, Reads, phaseBar, outcomeBar, Ended
  <2>3. ASSUME NEW code \in ExitCodes, Exit(code) PROVE Abstract!Next
    BY <2>3, ExitRefines
  <2>4. CASE UNCHANGED vars
    BY <2>4 DEF vars, phaseBar, outcomeBar, Ended
  <2> QED BY <2>1, <2>2, <2>3, <2>4 DEF Next
<1> QED BY <1>1, InitRefines, Invariance, PTL DEF Spec, RefinesTodoRun, Abstract!Spec

-----------------------------------------------------------------------------
(* The Host that forwards the stream (HostRelay), for any Todos, any number  *)
(* of lines and cancel files, any control lines, with and without faults.    *)

Lines == [kind : {"hello", "junk", "started", "completed", "terminal"}, by : {"runner", "host"},
          todo : RunnerTodos \cup {""}, status : Relay!Statuses \cup {""},
          done : SUBSET RunnerTodos, exit : Nat]

RelayShape ==
    /\ DOMAIN runner = {"pc", "code", "own", "told"} /\ runner.told \in Nat
    /\ DOMAIN job = {"pc", "holds", "helper"}
    /\ DOMAIN host = {"pc", "hello", "terminal", "declared", "started", "completed",
                      "valid", "forced", "exit"}
    /\ host.declared \in Nat /\ host.completed \subseteq RunnerTodos
    /\ DOMAIN relay = {"control", "durable", "failed", "cancel"}
    /\ relay.cancel \in BOOLEAN /\ host.terminal \in BOOLEAN
    /\ pipe \in Seq(Relay!Events) /\ out \in Seq(Lines)

\* The runner works only while the Host has it in its job, and the job is
\* closed with the Host.
Fenced ==
    /\ host.pc \in {"boot", "assign", "deliver", "loop", "stop", "settle", "close", "done", "killed"}
    /\ job.helper \in {"none", "fenced"}
    /\ host.pc = "boot" => runner.pc = "none" /\ job.pc = "none" /\ job.helper = "none"
    /\ host.pc = "assign" => runner.pc = "waiting" /\ job.pc = "none" /\ job.helper = "none"
    /\ host.pc = "deliver" => runner.pc = "waiting"
    /\ host.pc \in {"deliver", "loop", "stop", "settle", "close"} => job.pc = "open" /\ job.holds = TRUE
    /\ host.pc \in {"settle", "close"} => runner.pc = "exited"
    /\ host.pc \in {"done", "killed"} =>
           runner.pc \in {"none", "waiting", "exited"} /\ job.helper = "none"
    /\ runner.pc \in {"running", "closed"} => host.pc \in {"loop", "stop"}

\* Whoever marks a cancellation has told the runner, and an exit code that is
\* zero is the runner's own.
Told ==
    /\ (relay.cancel = TRUE \/ relay.control = "mark" \/ relay.durable = "ack") => runner.told > 0
    /\ runner.pc \in {"closed", "exited"} /\ runner.code = 0 => runner.own = 0

Done(s) == {s[j].todo : j \in {k \in 1 .. Len(s) : s[k].kind = "completed"}}

\* What was written is what the Host remembers of it.
Reported ==
    /\ host.completed = Done(out)
    /\ host.terminal = TRUE => out # <<>> /\ out[Len(out)].kind = "terminal"
    /\ \A i \in 1 .. Len(out) : out[i].kind = "terminal" =>
           /\ i = Len(out) /\ host.terminal = TRUE
           /\ out[i].done = host.completed /\ out[i].exit = host.declared
           /\ out[i].status = "completed" => host.completed = RunnerTodos
           /\ out[i].by = "host" /\ out[i].status = "cancelled" => relay.cancel = TRUE

ByHostItself == out # <<>> /\ out[Len(out)].kind = "terminal" /\ out[Len(out)].by = "host"

\* Zero is only kept with a terminal event that declares it.
Proven0 ==
    /\ host.pc = "close" /\ host.exit = 0 => ByHostItself \/ runner.code = 0
    /\ host.pc = "done" /\ host.exit = 0 =>
           /\ host.terminal = TRUE /\ host.declared = 0 /\ runner.pc = "exited"
           /\ ByHostItself \/ runner.code = 0

RelayInv == RelayShape /\ Fenced /\ Told /\ Reported /\ Proven0

LEMMA EventIsALine ==
    ASSUME NEW e \in Relay!Events
    PROVE  e \in Lines /\ e.by = "runner" /\ e.exit \in Nat
           /\ (e.kind = "completed" => e.todo \in RunnerTodos)
<1>1. {} \in SUBSET RunnerTodos /\ 0 \in Nat /\ 1 \in Nat
  OBVIOUS
<1>2. CASE e \in Relay!Lines({"hello", "junk"}, {""})
  BY <1>1, <1>2 DEF Lines, Relay!Lines
<1>3. CASE e \in Relay!Lines({"started", "completed"}, RunnerTodos)
  BY <1>1, <1>3 DEF Lines, Relay!Lines
<1>4. CASE e \in [kind : {"terminal"}, by : {"runner"}, todo : {""}, status : Relay!Statuses,
                  done : SUBSET RunnerTodos, exit : {0, 1}]
  BY <1>1, <1>4 DEF Lines
<1>5. QED
  BY <1>2, <1>3, <1>4 DEF Relay!Events

\* What was written stays reported while the Host's memory of it does.
LEMMA ReportStands ==
    ASSUME RelayShape, Reported, out' = out, relay.cancel = TRUE => relay'.cancel = TRUE,
           host'.terminal = host.terminal, host'.completed = host.completed,
           host'.declared = host.declared
    PROVE  Reported'
BY DEF Reported, Done

\* One more line.
LEMMA DoneOfOneMore ==
    ASSUME NEW s \in Seq(Lines), NEW e \in Lines
    PROVE  Done(Append(s, e)) = IF e.kind = "completed" THEN Done(s) \cup {e.todo} ELSE Done(s)
<1> DEFINE u == Append(s, e)
<1>1. /\ Len(u) = Len(s) + 1 /\ Len(s) \in Nat /\ u[Len(s) + 1] = e
      /\ \A i \in 1 .. Len(s) : u[i] = s[i]
  OBVIOUS
<1> HIDE DEF u
<1>2. \A i : i \in 1 .. Len(u) <=> i \in 1 .. Len(s) \/ i = Len(s) + 1
  BY <1>1
<1>3. Done(u) = IF e.kind = "completed" THEN Done(s) \cup {e.todo} ELSE Done(s)
  <2>1. ASSUME NEW x PROVE x \in Done(u) <=> x \in Done(s) \/ (e.kind = "completed" /\ x = e.todo)
    BY <1>1, <1>2 DEF Done
  <2>2. QED
    BY <2>1
<1>4. QED
  BY <1>3 DEF u

LEMMA RelayStarts == Relay!Init => RelayInv
BY DEF Relay!Init, RelayInv, RelayShape, Fenced, Told, Reported, Proven0, Done, ByHostItself,
       Relay!Killed

\* What a step of the two relay threads does to the runner and to the flags.
Tells ==
    \/ runner' = runner
    \/ runner' = [runner EXCEPT !.told = runner.told + 1]

Flags ==
    \/ relay' = [relay EXCEPT !.control = "mark"] /\ runner' # runner
    \/ relay' = [relay EXCEPT !.durable = "ack"] /\ runner' # runner
    \/ relay' = [relay EXCEPT !.control = "off", !.failed = TRUE]
    \/ relay' = [relay EXCEPT !.durable = "off", !.failed = TRUE]
    \/ relay' = [relay EXCEPT !.control = "off"]
    \/ relay' = [relay EXCEPT !.durable = "off"]
    \/ relay' = [relay EXCEPT !.durable = "tell"]
    \/ relay' = [relay EXCEPT !.control = "read", !.cancel = TRUE] /\ relay.control = "mark"
    \/ relay' = [relay EXCEPT !.durable = "off", !.cancel = TRUE] /\ relay.durable = "ack"

LEMMA RelayStepDoes ==
    ASSUME RelayShape, Told, Relay!RelayStep
    PROVE  /\ UNCHANGED <<pipe, job, host, out>>
           /\ DOMAIN runner' = {"pc", "code", "own", "told"} /\ runner'.told \in Nat
           /\ DOMAIN relay' = {"control", "durable", "failed", "cancel"}
           /\ runner'.pc = runner.pc /\ runner'.code = runner.code /\ runner'.own = runner.own
           /\ (relay'.cancel = TRUE \/ relay'.control = "mark" \/ relay'.durable = "ack") => runner'.told > 0
           /\ relay'.cancel \in BOOLEAN /\ (relay.cancel = TRUE => relay'.cancel = TRUE)
<1>1. UNCHANGED <<pipe, job, host, out>>
  BY DEF Relay!RelayStep, Relay!ControlReads, Relay!ControlMarks, Relay!DurableReads,
         Relay!DurableTells, Relay!DurableAcks
<1>2. Tells
  BY DEF Tells, Relay!RelayStep, Relay!ControlReads, Relay!ControlMarks, Relay!DurableReads,
         Relay!DurableTells, Relay!DurableAcks, Relay!Tell
<1>3. /\ DOMAIN runner' = {"pc", "code", "own", "told"} /\ runner'.told \in Nat
      /\ runner'.pc = runner.pc /\ runner'.code = runner.code /\ runner'.own = runner.own
      /\ runner'.told >= runner.told /\ (runner' # runner => runner'.told > 0)
  BY <1>2 DEF Tells, RelayShape
<1>4. Flags
  <2>1. runner' = [runner EXCEPT !.told = runner.told + 1] => runner' # runner
    BY DEF RelayShape
  <2>2. CASE Relay!ControlReads
    BY <2>1, <2>2 DEF Flags, Relay!ControlReads, Relay!Tell
  <2>3. CASE Relay!DurableTells
    BY <2>1, <2>3 DEF Flags, Relay!DurableTells, Relay!Tell
  <2>4. CASE Relay!ControlMarks \/ Relay!DurableReads \/ Relay!DurableAcks
    BY <2>4 DEF Flags, Relay!ControlMarks, Relay!DurableReads, Relay!DurableAcks
  <2>5. QED
    BY <2>2, <2>3, <2>4 DEF Relay!RelayStep
<1>5. /\ DOMAIN relay' = {"control", "durable", "failed", "cancel"}
      /\ relay'.cancel \in BOOLEAN /\ (relay.cancel = TRUE => relay'.cancel = TRUE)
      /\ relay'.cancel = TRUE => relay.cancel = TRUE \/ relay.control = "mark" \/ relay.durable = "ack"
      /\ relay'.control = "mark" => relay.control = "mark" \/ runner' # runner
      /\ relay'.durable = "ack" => relay.durable = "ack" \/ runner' # runner
  BY <1>4 DEF Flags, RelayShape
<1>6. relay.cancel = TRUE \/ relay.control = "mark" \/ relay.durable = "ack" => runner'.told > 0
  BY <1>3 DEF Told, RelayShape
<1>7. QED
  BY <1>1, <1>3, <1>5, <1>6

LEMMA RelayShapeKept ==
    ASSUME RelayInv, Relay!Next
    PROVE  RelayShape'
<1>1. RelayShape /\ Told
  BY DEF RelayInv
<1>2. CASE Relay!StartRunner \/ Relay!AssignJob \/ Relay!DeliverRequest \/ Relay!LoopStops \/ Relay!LoopEnds
  BY <1>1, <1>2 DEF RelayShape, Relay!StartRunner, Relay!AssignJob, Relay!DeliverRequest,
     Relay!LoopStops, Relay!LoopEnds, Relay!Leave
<1>3. CASE Relay!StopRunner \/ Relay!Finish \/ Relay!StartFails \/ Relay!HostKilled
  BY <1>1, <1>3 DEF RelayShape, Relay!StopRunner, Relay!Finish, Relay!StartFails, Relay!HostKilled,
     Relay!CloseJob
<1>4. CASE Relay!RelayStep
  <2>1. /\ DOMAIN runner' = {"pc", "code", "own", "told"} /\ runner'.told \in Nat
        /\ DOMAIN relay' = {"control", "durable", "failed", "cancel"}
        /\ relay'.cancel \in BOOLEAN /\ UNCHANGED <<pipe, job, host, out>>
    BY <1>1, <1>4, RelayStepDoes
  <2>2. QED
    BY <1>1, <2>1 DEF RelayShape
<1>5. CASE Relay!Timers
  BY <1>1, <1>5 DEF RelayShape, Relay!Timers, Relay!DeadlinePasses, Relay!GracePasses, Relay!DrainPasses
<1>6. CASE Relay!RunnerSpawns \/ Relay!HelperEnds \/ Relay!RunnerExits
           \/ \E c \in {0, 1} : Relay!RunnerCloses(c)
  BY <1>1, <1>6 DEF RelayShape, Relay!RunnerSpawns, Relay!HelperEnds, Relay!RunnerExits, Relay!RunnerCloses
<1>7. ASSUME NEW e \in Relay!Events, Relay!RunnerWrites(e) PROVE RelayShape'
  BY <1>1, <1>7 DEF RelayShape, Relay!RunnerWrites
<1>8. ASSUME NEW k \in {"good", "bad"}, Relay!ManagerCancels(k) PROVE RelayShape'
  BY <1>1, <1>8 DEF RelayShape, Relay!ManagerCancels
<1>9. CASE Relay!LoopForwards
  <2> DEFINE e == Head(pipe)
  <2>1. e \in Relay!Events /\ Tail(pipe) \in Seq(Relay!Events)
    BY <1>1, <1>9 DEF RelayShape, Relay!LoopForwards
  <2>2. e \in Lines /\ e.exit \in Nat /\ (e.kind = "completed" => e.todo \in RunnerTodos)
    BY <2>1, EventIsALine
  <2>3. CASE Relay!Accepts(e)
    <3>1. out' = Append(out, e) /\ Relay!Note(e) /\ pipe' = Tail(pipe)
          /\ UNCHANGED <<runner, job, relay, over, files, stdin, left>>
      BY <1>9, <2>3 DEF Relay!LoopForwards
    <3>2. /\ host'.declared \in Nat /\ host'.terminal \in BOOLEAN
          /\ host'.completed \subseteq RunnerTodos /\ DOMAIN host' = DOMAIN host
      BY <1>1, <2>2, <3>1 DEF RelayShape, Relay!Note
    <3> HIDE DEF e
    <3>3. QED
      BY <1>1, <2>1, <2>2, <3>1, <3>2 DEF RelayShape
  <2>4. CASE ~Relay!Accepts(e)
    <3>1. /\ out' = out /\ host' = [host EXCEPT !.pc = "stop", !.valid = FALSE] /\ pipe' = Tail(pipe)
          /\ UNCHANGED <<runner, job, relay, over, files, stdin, left>>
      BY <1>9, <2>4 DEF Relay!LoopForwards
    <3>2. QED
      BY <1>1, <2>1, <3>1 DEF RelayShape
  <2>5. QED
    BY <2>3, <2>4
<1>10. CASE Relay!Synthesize
  <2>1. CASE ~Relay!MaySynthesize
    BY <1>1, <1>10, <2>1 DEF RelayShape, Relay!Synthesize
  <2>2. CASE Relay!MaySynthesize
    <3> DEFINE k == IF Relay!WasCancelled THEN "cancelled" ELSE "other"
               c == IF Relay!WasCancelled THEN 0 ELSE Relay!HostError
               y == Relay!Terminal("host", k, host.completed, c)
    <3>1. /\ out' = Append(out, y)
          /\ host' = [host EXCEPT !.pc = "close", !.terminal = TRUE, !.declared = c, !.exit = c]
          /\ UNCHANGED <<runner, pipe, job, relay, over, files, stdin, left>>
      BY <1>10, <2>2 DEF Relay!Synthesize
    <3>2. c \in Nat /\ k \in Relay!Statuses
      BY DEF Relay!HostError, Relay!Statuses
    <3> HIDE DEF c, k
    <3>3. y \in Lines
      BY <1>1, <3>2 DEF RelayShape, Lines, Relay!Terminal
    <3> HIDE DEF y
    <3>4. QED
      BY <1>1, <3>1, <3>2, <3>3 DEF RelayShape
  <2>3. QED
    BY <2>1, <2>2
<1>11. QED
  BY <1>2, <1>3, <1>4, <1>5, <1>6, <1>7, <1>8, <1>9, <1>10
     DEF Relay!Next, Relay!HostStep, Relay!RunnerStep, Relay!ManagerStep

LEMMA FencedKept ==
    ASSUME RelayInv, Relay!Next
    PROVE  Fenced'
<1>1. RelayShape /\ Fenced /\ Told
  BY DEF RelayInv
<1>2. CASE Relay!StartRunner \/ Relay!AssignJob \/ Relay!DeliverRequest
  <2>1. CASE Relay!StartRunner
    BY <1>1, <2>1 DEF RelayShape, Fenced, Relay!StartRunner
  <2>2. CASE Relay!AssignJob
    BY <1>1, <2>2 DEF RelayShape, Fenced, Relay!AssignJob
  <2>3. CASE Relay!DeliverRequest
    BY <1>1, <2>3 DEF RelayShape, Fenced, Relay!DeliverRequest
  <2>4. QED
    BY <1>2, <2>1, <2>2, <2>3
<1>3. CASE Relay!LoopStops \/ Relay!LoopEnds
  <2>1. host.pc = "loop" /\ host'.pc = "stop" /\ UNCHANGED <<runner, job>>
    BY <1>1, <1>3 DEF RelayShape, Relay!LoopStops, Relay!LoopEnds, Relay!Leave
  <2>2. QED
    BY <1>1, <2>1 DEF Fenced
<1>4. CASE Relay!StopRunner
  BY <1>1, <1>4 DEF RelayShape, Fenced, Relay!StopRunner, Relay!HasExited, Relay!Alive, Relay!MustKill
<1>5. CASE Relay!Finish \/ Relay!StartFails \/ Relay!HostKilled
  <2>1. CASE Relay!Finish
    BY <1>1, <2>1 DEF RelayShape, Fenced, Relay!Finish, Relay!CloseJob
  <2>2. CASE Relay!StartFails
    BY <1>1, <2>2 DEF RelayShape, Fenced, Relay!StartFails, Relay!CloseJob
  <2>3. CASE Relay!HostKilled /\ job.pc = "open"
    BY <1>1, <2>3 DEF RelayShape, Fenced, Relay!HostKilled, Relay!CloseJob
  <2>4. CASE Relay!HostKilled /\ job.pc # "open"
    <3>1. host.pc \in {"boot", "assign"} /\ host'.pc = "killed" /\ UNCHANGED <<runner, job>>
      BY <1>1, <2>4 DEF RelayShape, Fenced, Relay!HostKilled
    <3>2. QED
      BY <1>1, <3>1 DEF Fenced
  <2>5. QED
    BY <1>5, <2>1, <2>2, <2>3, <2>4
<1>6. CASE Relay!RelayStep
  BY <1>1, <1>6, RelayStepDoes DEF Fenced
<1>7. CASE Relay!Timers
  BY <1>1, <1>7 DEF RelayShape, Fenced, Relay!Timers, Relay!DeadlinePasses, Relay!GracePasses, Relay!DrainPasses
<1>8. CASE Relay!RunnerSpawns \/ Relay!HelperEnds \/ Relay!RunnerExits
           \/ \E c \in {0, 1} : Relay!RunnerCloses(c)
  BY <1>1, <1>8 DEF RelayShape, Fenced, Relay!RunnerSpawns, Relay!HelperEnds, Relay!RunnerExits, Relay!RunnerCloses
<1>9. CASE (\E e \in Relay!Events : Relay!RunnerWrites(e)) \/ (\E k \in {"good", "bad"} : Relay!ManagerCancels(k))
  BY <1>1, <1>9 DEF Fenced, Relay!RunnerWrites, Relay!ManagerCancels
<1>10. CASE Relay!LoopForwards
  <2>1. /\ host.pc = "loop" /\ host'.pc \in {"loop", "stop"} /\ UNCHANGED <<runner, job>>
    BY <1>1, <1>10 DEF RelayShape, Relay!LoopForwards, Relay!Note
  <2>2. QED
    BY <1>1, <2>1 DEF Fenced
<1>11. CASE Relay!Synthesize
  <2>1. /\ host.pc = "settle" /\ host'.pc = "close" /\ UNCHANGED <<runner, job>>
    BY <1>1, <1>11 DEF RelayShape, Relay!Synthesize
  <2>2. QED
    BY <1>1, <2>1 DEF Fenced
<1>12. QED
  BY <1>2, <1>3, <1>4, <1>5, <1>6, <1>7, <1>8, <1>9, <1>10, <1>11
     DEF Relay!Next, Relay!HostStep, Relay!RunnerStep, Relay!ManagerStep

LEMMA ToldKept ==
    ASSUME RelayInv, Relay!Next
    PROVE  Told'
<1>1. RelayShape /\ Fenced /\ Told
  BY DEF RelayInv
<1>2. CASE Relay!StartRunner \/ Relay!AssignJob \/ Relay!DeliverRequest
  BY <1>1, <1>2 DEF RelayShape, Told, Relay!StartRunner, Relay!AssignJob, Relay!DeliverRequest
<1>3. CASE Relay!LoopStops \/ Relay!LoopEnds \/ Relay!LoopForwards \/ Relay!Synthesize
  BY <1>1, <1>3 DEF Told, Relay!LoopStops, Relay!LoopEnds, Relay!LoopForwards, Relay!Synthesize
<1>4. CASE Relay!StopRunner
  <2>1. \/ UNCHANGED runner
        \/ runner' = [runner EXCEPT !.pc = "exited", !.code = 9]
        \/ runner.pc = "closed" /\ runner' = [runner EXCEPT !.pc = "exited"]
    BY <1>4 DEF Relay!StopRunner, Relay!Killed
  <2>2. UNCHANGED relay
    BY <1>4 DEF Relay!StopRunner
  <2>3. runner'.told = runner.told /\ (runner'.pc \in {"closed", "exited"} /\ runner'.code = 0 => runner'.own = 0)
    <3>1. CASE UNCHANGED runner
      BY <1>1, <3>1 DEF Told
    <3>2. CASE runner' = [runner EXCEPT !.pc = "exited", !.code = 9]
      BY <1>1, <3>2 DEF RelayShape
    <3>3. CASE runner.pc = "closed" /\ runner' = [runner EXCEPT !.pc = "exited"]
      BY <1>1, <3>3 DEF RelayShape, Told
    <3>4. QED
      BY <2>1, <3>1, <3>2, <3>3
  <2>4. QED
    BY <1>1, <2>2, <2>3 DEF Told
<1>5. CASE Relay!Finish \/ Relay!StartFails \/ Relay!HostKilled
  <2>1. UNCHANGED runner \/ runner' = [runner EXCEPT !.pc = "exited", !.code = 9]
    BY <1>5 DEF Relay!Finish, Relay!StartFails, Relay!HostKilled, Relay!Killed
  <2>2. UNCHANGED relay \/ relay' = [relay EXCEPT !.control = "off", !.durable = "off"]
    BY <1>5 DEF Relay!Finish, Relay!StartFails, Relay!HostKilled
  <2>3. runner'.told = runner.told /\ (runner'.pc \in {"closed", "exited"} /\ runner'.code = 0 => runner'.own = 0)
    <3>1. CASE UNCHANGED runner
      BY <1>1, <3>1 DEF Told
    <3>2. CASE runner' = [runner EXCEPT !.pc = "exited", !.code = 9]
      BY <1>1, <3>2 DEF RelayShape
    <3>3. QED
      BY <2>1, <3>1, <3>2
  <2>4. relay'.cancel = relay.cancel /\ (relay'.control = "mark" => relay.control = "mark")
        /\ (relay'.durable = "ack" => relay.durable = "ack")
    BY <1>1, <2>2 DEF RelayShape
  <2>5. QED
    BY <1>1, <2>3, <2>4 DEF Told
<1>6. CASE Relay!RelayStep
  BY <1>1, <1>6, RelayStepDoes DEF Told
<1>7. CASE Relay!Timers
  BY <1>1, <1>7 DEF Told, Relay!Timers, Relay!DeadlinePasses, Relay!GracePasses, Relay!DrainPasses
<1>8. CASE Relay!RunnerSpawns \/ Relay!HelperEnds \/ Relay!RunnerExits
           \/ \E c \in {0, 1} : Relay!RunnerCloses(c)
  BY <1>1, <1>8 DEF RelayShape, Told, Relay!RunnerSpawns, Relay!HelperEnds, Relay!RunnerExits, Relay!RunnerCloses
<1>9. CASE (\E e \in Relay!Events : Relay!RunnerWrites(e)) \/ (\E k \in {"good", "bad"} : Relay!ManagerCancels(k))
  BY <1>1, <1>9 DEF Told, Relay!RunnerWrites, Relay!ManagerCancels
<1>10. QED
  BY <1>2, <1>3, <1>4, <1>5, <1>6, <1>7, <1>8, <1>9
     DEF Relay!Next, Relay!HostStep, Relay!RunnerStep, Relay!ManagerStep

\* The Host's memory of what it forwarded.
LEMMA ReportedKept ==
    ASSUME RelayInv, Relay!Next
    PROVE  Reported'
<1>1. RelayShape /\ Told /\ Reported
  BY DEF RelayInv
<1>2. CASE /\ UNCHANGED out /\ (relay.cancel = TRUE => relay'.cancel = TRUE)
           /\ host'.terminal = host.terminal /\ host'.completed = host.completed
           /\ host'.declared = host.declared
  BY <1>1, <1>2, ReportStands
<1>3. CASE Relay!StartRunner \/ Relay!AssignJob \/ Relay!DeliverRequest
  <2>1. UNCHANGED out
    BY <1>3 DEF Relay!StartRunner, Relay!AssignJob, Relay!DeliverRequest
  <2>2. host'.terminal = host.terminal /\ host'.completed = host.completed /\ host'.declared = host.declared
    BY <1>1, <1>3 DEF RelayShape, Relay!StartRunner, Relay!AssignJob, Relay!DeliverRequest
  <2>3. (relay.cancel = TRUE => relay'.cancel = TRUE)
    BY <1>1, <1>3 DEF RelayShape, Relay!StartRunner, Relay!AssignJob, Relay!DeliverRequest
  <2>4. QED
    BY <1>2, <2>1, <2>2, <2>3
<1>4. CASE Relay!LoopStops \/ Relay!LoopEnds
  <2>1. UNCHANGED <<out, relay>>
    BY <1>4 DEF Relay!LoopStops, Relay!LoopEnds
  <2>2. host'.terminal = host.terminal /\ host'.completed = host.completed /\ host'.declared = host.declared
    BY <1>1, <1>4 DEF RelayShape, Relay!LoopStops, Relay!LoopEnds, Relay!Leave
  <2>3. QED
    BY <1>2, <2>1, <2>2
<1>5. CASE Relay!StopRunner \/ Relay!StartFails
  <2>1. UNCHANGED <<out, relay>>
    BY <1>5 DEF Relay!StopRunner, Relay!StartFails
  <2>2. host'.terminal = host.terminal /\ host'.completed = host.completed /\ host'.declared = host.declared
    BY <1>1, <1>5 DEF RelayShape, Relay!StopRunner, Relay!StartFails
  <2>3. QED
    BY <1>2, <2>1, <2>2
<1>6. CASE Relay!Finish \/ Relay!HostKilled
  <2>1. UNCHANGED out
    BY <1>6 DEF Relay!Finish, Relay!HostKilled
  <2>2. host'.terminal = host.terminal /\ host'.completed = host.completed /\ host'.declared = host.declared
    BY <1>1, <1>6 DEF RelayShape, Relay!Finish, Relay!HostKilled
  <2>3. relay'.cancel = relay.cancel
    BY <1>1, <1>6 DEF RelayShape, Relay!Finish, Relay!HostKilled
  <2>4. QED
    BY <1>2, <2>1, <2>2, <2>3
<1>7. CASE Relay!RelayStep
  BY <1>1, <1>2, <1>7, RelayStepDoes
<1>8. CASE Relay!Timers
  BY <1>2, <1>8 DEF Relay!Timers, Relay!DeadlinePasses, Relay!GracePasses, Relay!DrainPasses
<1>9. CASE Relay!RunnerStep
  BY <1>2, <1>9 DEF Relay!RunnerStep, Relay!RunnerWrites, Relay!RunnerSpawns, Relay!HelperEnds,
     Relay!RunnerExits, Relay!RunnerCloses
<1>10. ASSUME NEW k \in {"good", "bad"}, Relay!ManagerCancels(k) PROVE Reported'
  BY <1>2, <1>10 DEF Relay!ManagerCancels
<1>11. CASE Relay!LoopForwards
  <2> DEFINE e == Head(pipe)
  <2>1. e \in Relay!Events /\ e \in Lines /\ e.by = "runner"
    <3>1. e \in Relay!Events
      BY <1>1, <1>11 DEF RelayShape, Relay!LoopForwards
    <3>2. QED
      BY <3>1, EventIsALine
  <2>2. CASE ~Relay!Accepts(e)
    <3>1. out' = out /\ relay' = relay /\ host' = [host EXCEPT !.pc = "stop", !.valid = FALSE]
      BY <1>11, <2>2 DEF Relay!LoopForwards
    <3>2. QED
      BY <1>1, <1>2, <3>1 DEF RelayShape
  <2>3. CASE Relay!Accepts(e)
    <3>1. out' = Append(out, e) /\ relay' = relay /\ Relay!Note(e)
      BY <1>11, <2>3 DEF Relay!LoopForwards
    <3>2. host.terminal # TRUE /\ (e.kind = "terminal" => e.done = host.completed
                                        /\ (e.status = "completed" => host.completed = RunnerTodos))
      BY <2>3 DEF Relay!Accepts
    <3>3. /\ host'.terminal = (e.kind = "terminal")
          /\ host'.completed = IF e.kind = "completed" THEN host.completed \cup {e.todo} ELSE host.completed
          /\ host'.declared = IF e.kind = "terminal" THEN e.exit ELSE host.declared
      BY <1>1, <3>1 DEF RelayShape, Relay!Note
    <3> HIDE DEF e
    <3>4. /\ Len(out') = Len(out) + 1 /\ Len(out) \in Nat /\ out'[Len(out) + 1] = e
          /\ \A i \in 1 .. Len(out) : out'[i] = out[i]
      BY <1>1, <3>1 DEF RelayShape
    <3>5. host'.completed = Done(out')
      BY <1>1, <2>1, <3>1, <3>3, DoneOfOneMore DEF RelayShape, Reported
    <3>6. host'.terminal = TRUE => out' # <<>> /\ out'[Len(out')].kind = "terminal"
      <4>1. Len(out') = Len(out) + 1 /\ out' # <<>> /\ out'[Len(out')] = e
        BY <1>1, <3>1, <3>4 DEF RelayShape
      <4>2. QED
        BY <3>3, <4>1
    <3>7. \A i \in 1 .. Len(out) : out[i].kind # "terminal"
      BY <1>1, <3>2 DEF Reported
    <3>8. ASSUME NEW i \in 1 .. Len(out'), out'[i].kind = "terminal"
          PROVE  i = Len(out') /\ e.kind = "terminal" /\ out'[i] = e
      BY <2>1, <3>4, <3>7, <3>8
    <3>9. QED
      BY <2>1, <3>2, <3>3, <3>5, <3>6, <3>8 DEF Reported
  <2>4. QED
    BY <2>2, <2>3
<1>12. CASE Relay!Synthesize
  <2>1. CASE ~Relay!MaySynthesize
    <3>1. out' = out /\ relay' = relay /\ host' = [host EXCEPT !.pc = "close", !.exit = runner.code]
      BY <1>12, <2>1 DEF Relay!Synthesize
    <3>2. QED
      BY <1>1, <1>2, <3>1 DEF RelayShape
  <2>2. CASE Relay!MaySynthesize
    <3> DEFINE k == IF Relay!WasCancelled THEN "cancelled" ELSE "other"
               c == IF Relay!WasCancelled THEN 0 ELSE Relay!HostError
               y == Relay!Terminal("host", k, host.completed, c)
    <3>1. /\ out' = Append(out, y) /\ relay' = relay
          /\ host' = [host EXCEPT !.pc = "close", !.terminal = TRUE, !.declared = c, !.exit = c]
          /\ host.terminal # TRUE
      BY <1>12, <2>2 DEF Relay!Synthesize, Relay!MaySynthesize
    <3>2. /\ c \in Nat /\ k \in Relay!Statuses /\ k # "completed"
          /\ k = "cancelled" => relay.cancel = TRUE
      BY DEF Relay!HostError, Relay!WasCancelled, Relay!Statuses
    <3> HIDE DEF c, k
    <3>5. y.kind = "terminal" /\ y.status = k /\ y.done = host.completed /\ y.exit = c
      BY DEF Relay!Terminal
    <3>6. y \in Lines
      BY <1>1, <3>2 DEF RelayShape, Lines, Relay!Terminal
    <3> HIDE DEF y
    <3>7. /\ host'.terminal = TRUE /\ host'.completed = host.completed /\ host'.declared = c
      BY <1>1, <3>1 DEF RelayShape
    <3>8. /\ Len(out') = Len(out) + 1 /\ Len(out) \in Nat /\ out'[Len(out) + 1] = y
          /\ \A i \in 1 .. Len(out) : out'[i] = out[i]
      BY <1>1, <3>1 DEF RelayShape
    <3>9. host'.completed = Done(out')
      <4>1. Done(out') = Done(out)
        BY <1>1, <3>1, <3>2, <3>5, <3>6, DoneOfOneMore DEF RelayShape
      <4>2. QED
        BY <1>1, <3>7, <4>1 DEF Reported
    <3>10. out' # <<>> /\ out'[Len(out')].kind = "terminal"
      <4>1. Len(out') = Len(out) + 1 /\ out' # <<>> /\ out'[Len(out')] = y
        BY <1>1, <3>1, <3>8 DEF RelayShape
      <4>2. QED
        BY <3>5, <4>1
    <3>11. \A i \in 1 .. Len(out) : out[i].kind # "terminal"
      BY <1>1, <3>1 DEF Reported
    <3>12. ASSUME NEW i \in 1 .. Len(out'), out'[i].kind = "terminal"
           PROVE  i = Len(out') /\ out'[i] = y
      BY <3>8, <3>11, <3>12
    <3>13. QED
      BY <3>1, <3>2, <3>5, <3>7, <3>9, <3>10, <3>12 DEF Reported
  <2>3. QED
    BY <2>1, <2>2
<1>13. QED
  BY <1>3, <1>4, <1>5, <1>6, <1>7, <1>8, <1>9, <1>10, <1>11, <1>12
     DEF Relay!Next, Relay!HostStep, Relay!ManagerStep

\* The exit code.
LEMMA Proven0Kept ==
    ASSUME RelayInv, Relay!Next
    PROVE  Proven0'
<1>1. RelayShape /\ Fenced /\ Reported /\ Proven0
  BY DEF RelayInv
<1>2. CASE host'.pc \notin {"close", "done"}
  BY <1>2 DEF Proven0
<1>3. CASE /\ UNCHANGED <<host, out>>
           /\ host.pc \in {"close", "done"} =>
                  runner'.code = runner.code /\ (runner.pc = "exited" => runner'.pc = "exited")
  BY <1>1, <1>3 DEF Proven0, ByHostItself
<1>4. CASE Relay!StartRunner
  <2>1. host'.pc = "assign" \/ (host'.pc = "done" /\ host'.exit = 70)
    BY <1>1, <1>4 DEF RelayShape, Relay!StartRunner, Relay!HostError
  <2>2. QED
    BY <1>2, <2>1 DEF Proven0
<1>5. CASE Relay!AssignJob \/ Relay!DeliverRequest \/ Relay!LoopStops \/ Relay!LoopEnds \/ Relay!StopRunner
           \/ Relay!HostKilled
  <2>1. host'.pc \notin {"close", "done"}
    BY <1>1, <1>5 DEF RelayShape, Relay!AssignJob, Relay!DeliverRequest, Relay!LoopStops, Relay!LoopEnds,
       Relay!Leave, Relay!StopRunner, Relay!HostKilled
  <2>2. QED
    BY <1>2, <2>1
<1>6. CASE Relay!LoopForwards
  <2>1. host'.pc \in {"loop", "stop"}
    BY <1>1, <1>6 DEF RelayShape, Relay!LoopForwards, Relay!Note
  <2>2. QED
    BY <1>2, <2>1
<1>7. CASE Relay!StartFails
  <2>1. host'.pc = "done" /\ host'.exit = 70
    BY <1>1, <1>7 DEF RelayShape, Relay!StartFails, Relay!HostError
  <2>2. QED
    BY <2>1 DEF Proven0
<1>8. CASE Relay!Synthesize
  <2>1. CASE ~Relay!MaySynthesize
    <3>1. host' = [host EXCEPT !.pc = "close", !.exit = runner.code] /\ UNCHANGED runner
      BY <1>8, <2>1 DEF Relay!Synthesize
    <3>2. QED
      BY <1>1, <3>1 DEF RelayShape, Proven0
  <2>2. CASE Relay!MaySynthesize
    <3> DEFINE k == IF Relay!WasCancelled THEN "cancelled" ELSE "other"
               c == IF Relay!WasCancelled THEN 0 ELSE Relay!HostError
               y == Relay!Terminal("host", k, host.completed, c)
    <3>1. /\ out' = Append(out, y)
          /\ host' = [host EXCEPT !.pc = "close", !.terminal = TRUE, !.declared = c, !.exit = c]
      BY <1>8, <2>2 DEF Relay!Synthesize
    <3> HIDE DEF c, k
    <3>2. y.kind = "terminal" /\ y.by = "host"
      BY DEF Relay!Terminal
    <3> HIDE DEF y
    <3>3. out' # <<>> /\ out'[Len(out')] = y
      BY <1>1, <3>1 DEF RelayShape
    <3>4. host'.pc = "close"
      BY <1>1, <3>1 DEF RelayShape
    <3>5. QED
      BY <3>2, <3>3, <3>4 DEF Proven0, ByHostItself
  <2>3. QED
    BY <2>1, <2>2
<1>9. CASE Relay!Finish
  <2>1. /\ host.pc = "close" /\ UNCHANGED <<runner, out>>
        /\ host' = [host EXCEPT !.pc = "done", !.exit = IF Relay!ExitProven THEN host.exit ELSE 70]
    BY <1>9 DEF Relay!Finish, Relay!HostError
  <2>2. CASE Relay!ExitProven
    <3>1. host.terminal = TRUE /\ host.declared = host.exit
      BY <1>1, <2>2 DEF Relay!ExitProven, RelayShape
    <3>2. host'.exit = host.exit /\ host'.declared = host.declared /\ host'.terminal = host.terminal /\ host'.pc = "done"
      BY <1>1, <2>1, <2>2 DEF RelayShape
    <3>3. ByHostItself' = ByHostItself /\ runner'.code = runner.code /\ runner'.pc = "exited"
      BY <1>1, <2>1 DEF ByHostItself, Fenced
    <3>4. QED
      BY <1>1, <2>1, <3>1, <3>2, <3>3 DEF Proven0
  <2>3. CASE ~Relay!ExitProven
    <3>1. host'.exit = 70 /\ host'.pc = "done"
      BY <1>1, <2>1, <2>3 DEF RelayShape
    <3>2. QED
      BY <3>1 DEF Proven0
  <2>4. QED
    BY <2>2, <2>3
<1>10. CASE Relay!RelayStep
  <2>1. UNCHANGED <<host, out>> /\ runner'.code = runner.code /\ runner'.pc = runner.pc
    BY <1>1, <1>10, RelayStepDoes DEF RelayInv
  <2>2. QED
    BY <1>3, <2>1
<1>11. CASE Relay!Timers
  BY <1>3, <1>11 DEF Relay!Timers, Relay!DeadlinePasses, Relay!GracePasses, Relay!DrainPasses
<1>12. CASE Relay!RunnerStep
  <2>1. UNCHANGED <<host, out>>
    BY <1>12 DEF Relay!RunnerStep, Relay!RunnerWrites, Relay!RunnerSpawns, Relay!HelperEnds,
       Relay!RunnerExits, Relay!RunnerCloses
  <2>2. host.pc \in {"close", "done"} => runner.pc \notin {"running", "closed"}
    BY <1>1 DEF Fenced
  <2>3. runner.pc \notin {"running", "closed"} => runner' = runner
    BY <1>12 DEF Relay!RunnerStep, Relay!RunnerWrites, Relay!RunnerSpawns, Relay!HelperEnds,
       Relay!RunnerExits, Relay!RunnerCloses
  <2>4. QED
    BY <1>3, <2>1, <2>2, <2>3
<1>13. ASSUME NEW k \in {"good", "bad"}, Relay!ManagerCancels(k) PROVE Proven0'
  BY <1>3, <1>13 DEF Relay!ManagerCancels
<1>14. QED
  BY <1>4, <1>5, <1>6, <1>7, <1>8, <1>9, <1>10, <1>11, <1>12, <1>13
     DEF Relay!Next, Relay!HostStep, Relay!ManagerStep

LEMMA RelayGoesOn == RelayInv /\ [Relay!Next]_(Relay!vars) => RelayInv'
<1>1. ASSUME RelayInv, Relay!Next PROVE RelayInv'
  BY <1>1, RelayShapeKept, FencedKept, ToldKept, ReportedKept, Proven0Kept DEF RelayInv
<1>2. ASSUME RelayInv, UNCHANGED Relay!vars PROVE RelayInv'
  <2>1. UNCHANGED <<runner, pipe, job, host, out, relay>>
    BY <1>2 DEF Relay!vars
  <2>2. RelayShape' /\ Fenced' /\ Told' /\ Proven0'
    BY <1>2, <2>1 DEF RelayInv, RelayShape, Fenced, Told, Proven0, ByHostItself
  <2>3. Reported'
    BY <1>2, <2>1, ReportStands DEF RelayInv
  <2>4. QED
    BY <2>2, <2>3 DEF RelayInv
<1>3. QED
  BY <1>1, <1>2

LEMMA RelayIsSafe == ASSUME RelayInv PROVE RelayHonest
<1>1. RelayShape /\ Fenced /\ Told /\ Reported /\ Proven0
  BY DEF RelayInv
<1>2. Len(out) \in Nat /\ \A i \in 1 .. Len(out) : out[i] \in Lines
  BY <1>1 DEF RelayShape
<1>3. \A i : i \in Relay!Ends <=> i \in 1 .. Len(out) /\ out[i].kind = "terminal"
  BY DEF Relay!Ends
<1>4. Relay!OneTerminalLast
  BY <1>1, <1>3 DEF Relay!OneTerminalLast, Reported
<1>5. Relay!TerminalHonest
  <2>1. SUFFICES ASSUME NEW i \in Relay!Ends
                 PROVE  LET reported == {out[j].todo : j \in {k \in 1 .. (i - 1) : out[k].kind = "completed"}}
                        IN  /\ out[i].done = reported
                            /\ out[i].status = "completed" => reported = RunnerTodos
    BY DEF Relay!TerminalHonest
  <2>2. i \in 1 .. Len(out) /\ i = Len(out) /\ out[i].kind = "terminal"
        /\ out[i].done = Done(out)
        /\ (out[i].status = "completed" => Done(out) = RunnerTodos)
    BY <1>1, <1>3 DEF Reported
  <2>3. \A k : k \in 1 .. Len(out) /\ out[k].kind = "completed" <=> k \in 1 .. (i - 1) /\ out[k].kind = "completed"
    BY <1>2, <2>2
  <2>4. {k \in 1 .. Len(out) : out[k].kind = "completed"} = {k \in 1 .. (i - 1) : out[k].kind = "completed"}
    BY <2>3
  <2>5. QED
    BY <2>2, <2>4 DEF Done
<1>6. Relay!CancelledWasTold
  BY <1>1, <1>3 DEF Relay!CancelledWasTold, Relay!ByHost, Reported, Told
<1>7. Relay!HelpersFenced
  BY <1>1 DEF Relay!HelpersFenced, Fenced
<1>8. Relay!ZeroIsProven
  <2>1. SUFFICES ASSUME host.pc = "done", host.exit = 0
                 PROVE  /\ Relay!Ends # {} /\ out[Len(out)].exit = 0
                        /\ Relay!ByHost(out[Len(out)]) \/ (runner.own = 0 /\ runner.code = 0)
    BY DEF Relay!ZeroIsProven
  <2>2. host.terminal = TRUE /\ host.declared = 0 /\ runner.pc = "exited" /\ (ByHostItself \/ runner.code = 0)
    BY <1>1, <2>1 DEF Proven0
  <2>3. out # <<>> /\ out[Len(out)].kind = "terminal"
    BY <1>1, <2>2 DEF Reported
  <2>4. Len(out) \in 1 .. Len(out)
    BY <1>1, <2>3 DEF RelayShape
  <2>5. Len(out) \in Relay!Ends /\ out[Len(out)].exit = 0
    BY <1>1, <1>3, <2>2, <2>3, <2>4 DEF Reported
  <2>6. runner.code = 0 => runner.own = 0
    BY <1>1, <2>2 DEF Told
  <2>7. QED
    BY <2>2, <2>5, <2>6 DEF ByHostItself, Relay!ByHost
<1>9. QED
  BY <1>4, <1>5, <1>6, <1>7, <1>8 DEF RelayHonest, Relay!Honest

\* For every set of Todos, any lines of the runner, cancellations, control
\* lines and faults, what the fixed Host forwards is at most one terminal
\* event, as the last one, that names exactly what was completed before it
\* and has the status completed only of all Todos; a cancelled attempt was told
\* so, no helper outlives the Host, and zero is proven (YeYuGamerAdapterHost.cs,
\* Execute).
THEOREM RelayIsHonest == Relay!Spec => []RelayHonest
<1>1. RelayInv => RelayHonest
  BY RelayIsSafe
<1>2. QED
  BY RelayStarts, RelayGoesOn, <1>1, PTL DEF Relay!Spec

-----------------------------------------------------------------------------
(* The promotion of packages and their execution (PackagePromotion), for any *)
(* builds and any number of promotions, installs, runs, faults and crashes.  *)

Contents == Builds \cup {Package!Damaged, Package!None, Legacy}
Origins  == Builds \cup {Package!None, Legacy}
Ids      == 0 .. MaxPromotions
Budgets  == [promotions : Nat, installs : Nat, runs : Nat, faults : Nat, damage : Nat, crashes : Nat]
Promotions == [pc : {"idle", "begun", "issued", "copied", "swappedOut", "swappedIn", "installed"},
               build : Origins, id : Ids, incoming : Package!Package, backup : Package!Package,
               before : Package!Package]

\* A package a promotion has written is its own: only it has a receipt.
Genuine(p) ==
    /\ p \in Package!Package
    /\ p.receipt # 0 => p.status = "promoted"
    /\ p # Package!Missing => p.declared \in Builds \cup {Legacy}

Working == promo.pc \in {"issued", "copied", "swappedOut", "swappedIn", "installed"}
Locked  == promo.pc \in {"issued", "copied", "swappedOut", "swappedIn"}

PackageTyped ==
    /\ Genuine(live) /\ Genuine(promo.incoming) /\ Genuine(promo.backup) /\ Genuine(promo.before)
    /\ Genuine(exec.seen)
    /\ promo \in Promotions /\ budget \in Budgets
    /\ MaxPromotions \in Nat /\ budget.promotions <= MaxPromotions
    /\ evidence \in Builds \cup {Package!None}
    /\ ledger \subseteq [id : Ids, build : Builds \cup {Legacy}]
    /\ exec \in [pc : {"idle", "guarded", "rooted", "read", "ready", "started"},
                 root : {"module", "legacy", Package!None}, seen : Package!Package]
    /\ packageHost \in [pc : {Package!None, "starting", "running"},
                        root : {"module", "legacy", Package!None}, content : Contents]
    /\ install \in [pc : {"idle", "staged", "moved", "evidence"}, build : Origins]
    /\ install.pc # "idle" => install.build \in Builds

\* Whatever is promoted was verified with its evidence.
Tested(p) == p.status = "promoted" => p.bound \in proven

Proof ==
    /\ evidence \in proven /\ Legacy \in proven
    /\ Tested(live) /\ Tested(promo.incoming) /\ Tested(promo.backup)
    /\ Working => promo.build \in proven /\ promo.build \in Builds \cup {Legacy}
    /\ packageHost.pc = "running" => packageHost.content \in proven \ Unsafe
    /\ Locked => packageHost.pc = Package!None

PackageInv == PackageTyped /\ Proof

LEMMA PackageConstants ==
    ASSUME Package!PromotionAssumption
    PROVE  /\ Package!Missing \in Package!Package /\ Genuine(Package!Missing)
           /\ Tested(Package!Missing) /\ Package!Missing.status = "none"
           /\ \A b \in Builds \cup {Legacy} : Genuine(Package!Candidate(b))
                                              /\ Package!Candidate(b).status = "candidate"
           /\ Package!NoPromo \in Promotions /\ Package!NoPromo.pc = "idle"
           /\ Package!NoPromo.incoming = Package!Missing /\ Package!NoPromo.backup = Package!Missing
           /\ Package!NoPromo.before = Package!Missing
<1>1. MaxPromotions \in Nat /\ 0 \in Ids
  BY DEF Package!PromotionAssumption, Ids
<1>2. Package!Missing \in Package!Package /\ Package!Missing.status = "none" /\ Package!Missing.receipt = 0
  BY <1>1 DEF Package!Missing, Package!Package, Package!None, Ids
<1>3. ASSUME NEW b \in Builds \cup {Legacy}
      PROVE  Genuine(Package!Candidate(b)) /\ Package!Candidate(b).status = "candidate"
  BY <1>1 DEF Package!Candidate, Package!Package, Genuine, Package!None
<1>4. /\ Package!NoPromo.pc = "idle" /\ Package!NoPromo.incoming = Package!Missing
      /\ Package!NoPromo.backup = Package!Missing /\ Package!NoPromo.before = Package!Missing
  BY DEF Package!NoPromo
<1>5. Package!NoPromo \in Promotions
  BY <1>1, <1>2 DEF Package!NoPromo, Promotions, Origins
<1>6. QED
  BY <1>2, <1>3, <1>4, <1>5 DEF Genuine, Tested

LEMMA PackageStarts ==
    ASSUME Package!PromotionAssumption, Package!Init
    PROVE  PackageInv
<1>1. PICK b \in Builds : live = Package!Candidate(b)
  BY DEF Package!Init
<1>2. live.declared = b /\ live.status = "candidate" /\ Genuine(live)
  BY <1>1, PackageConstants DEF Package!Candidate
<1>3. packageHost = Package!NoHost /\ exec = Package!NoExec /\ promo = Package!NoPromo
      /\ install = [pc |-> "idle", build |-> Package!None]
      /\ ledger = {[id |-> 0, build |-> Legacy]}
      /\ evidence \in {Package!None, live.declared} /\ proven = {evidence, Legacy}
  BY DEF Package!Init
<1>4. budget \in Budgets /\ budget.promotions = MaxPromotions
  BY DEF Package!Init, Package!PromotionAssumption, Budgets
<1>5. PackageTyped
  <2>1. /\ packageHost \in [pc : {Package!None, "starting", "running"},
                            root : {"module", "legacy", Package!None}, content : Contents]
        /\ exec \in [pc : {"idle", "guarded", "rooted", "read", "ready", "started"},
                 root : {"module", "legacy", Package!None}, seen : Package!Package]
        /\ exec.seen = Package!Missing
    BY <1>3, PackageConstants DEF Package!NoHost, Package!NoExec, Contents, Package!None
  <2>2. ledger \subseteq [id : Ids, build : Builds \cup {Legacy}] /\ MaxPromotions \in Nat
    BY <1>3 DEF Ids, Package!PromotionAssumption
  <2>3. QED
    BY <1>2, <1>3, <1>4, <2>1, <2>2, PackageConstants DEF PackageTyped, Origins
<1>6. Proof
  BY <1>2, <1>3, PackageConstants DEF Proof, Tested, Working, Locked, Package!NoHost, Package!None
<1>7. QED
  BY <1>5, <1>6 DEF PackageInv

LEMMA Spending ==
    ASSUME PackageTyped, NEW what \in {"promotions", "installs", "runs", "faults", "damage", "crashes"},
           Package!Spend(what)
    PROVE  /\ budget' \in Budgets /\ budget'.promotions <= MaxPromotions
           /\ budget[what] > 0 /\ budget'[what] < budget[what]
           /\ \A other \in DOMAIN budget : budget'[other] <= budget[other]
<1> DEFINE n == budget[what] - 1
<1>1. budget \in Budgets /\ budget.promotions <= MaxPromotions /\ MaxPromotions \in Nat
  BY DEF PackageTyped
<1>2. budget[what] > 0 /\ budget' = [budget EXCEPT ![what] = n]
  BY DEF Package!Spend
<1>3. n \in Nat /\ n < budget[what]
  BY <1>1, <1>2 DEF Budgets
<1> HIDE DEF n
<1>4. budget.promotions \in Nat
  BY <1>1 DEF Budgets
<1>5. budget' \in Budgets
  BY <1>1, <1>2, <1>3 DEF Budgets
<1>6. budget'.promotions = budget.promotions \/ budget'.promotions = n
  BY <1>1, <1>2 DEF Budgets
<1>7. budget'.promotions <= MaxPromotions
  <2>1. CASE what = "promotions"
    <3>1. budget'.promotions = n /\ n <= budget.promotions /\ n \in Nat
      BY <1>1, <1>2, <1>3, <2>1 DEF Budgets
    <3>2. QED
      BY <1>1, <1>4, <3>1
  <2>2. CASE what # "promotions"
    BY <1>1, <1>2, <2>2 DEF Budgets
  <2>3. QED
    BY <2>1, <2>2
<1>8. budget'[what] = n /\ \A other \in DOMAIN budget : other # what => budget'[other] = budget[other]
  BY <1>1, <1>2 DEF Budgets
<1>8a. \A other \in DOMAIN budget : budget[other] \in Nat
  BY <1>1 DEF Budgets
<1>8b. \A other \in DOMAIN budget : budget'[other] <= budget[other]
  BY <1>3, <1>8, <1>8a
<1>9. QED
  BY <1>2, <1>3, <1>5, <1>7, <1>8, <1>8b

\* A step of a promotion that leaves the directory and the ledger alone.
LEMMA PromotionMoves ==
    ASSUME PackageInv, promo' \in Promotions, Genuine(promo'.incoming), Genuine(promo'.backup),
           Genuine(promo'.before), Tested(promo'.incoming), Tested(promo'.backup),
           live' = live \/ (Genuine(live') /\ Tested(live')),
           evidence' = evidence, exec' = exec, packageHost' = packageHost, install' = install,
           proven' = proven, budget' \in Budgets, budget'.promotions <= MaxPromotions,
           ledger' \subseteq [id : Ids, build : Builds \cup {Legacy}],
           Working' => promo'.build \in proven /\ promo'.build \in Builds \cup {Legacy},
           Locked' => packageHost.pc = Package!None
    PROVE  PackageInv'
<1>1. PackageTyped'
  BY DEF PackageInv, PackageTyped, Genuine
<1>2. Proof'
  BY DEF PackageInv, Proof, Tested
<1>3. QED
  BY <1>1, <1>2 DEF PackageInv

LEMMA AbortKeeps ==
    ASSUME Package!PromotionAssumption, PackageInv, promo' = Package!NoPromo, ledger' = ledger,
           live' = live \/ (Genuine(live') /\ Tested(live')),
           evidence' = evidence, exec' = exec, packageHost' = packageHost, install' = install,
           proven' = proven, budget' \in Budgets, budget'.promotions <= MaxPromotions
    PROVE  PackageInv'
<1>1. ~Working' /\ ~Locked'
  BY PackageConstants DEF Working, Locked
<1>2. ledger' \subseteq [id : Ids, build : Builds \cup {Legacy}]
  BY DEF PackageInv, PackageTyped
<1>3. QED
  BY <1>1, <1>2, PackageConstants, PromotionMoves

LEMMA BeginKeeps ==
    ASSUME Package!PromotionAssumption, PackageInv, Package!Begin
    PROVE  PackageInv'
<1>1. PackageTyped /\ budget' \in Budgets /\ budget'.promotions <= MaxPromotions /\ budget.promotions > 0
  BY Spending DEF PackageInv, Package!Begin
<1> DEFINE i == MaxPromotions - budget.promotions + 1
           p == [Package!NoPromo EXCEPT !.pc = "begun", !.id = i]
<1>2. i \in Ids
  BY <1>1 DEF PackageTyped, Ids, Budgets
<1>3. promo' = p
  BY DEF Package!Begin
<1> HIDE DEF i
<1>4. /\ p \in Promotions /\ p.pc = "begun" /\ p.incoming = Package!Missing
      /\ p.backup = Package!Missing /\ p.before = Package!Missing
  BY <1>2, PackageConstants DEF Promotions
<1> HIDE DEF p
<1>5. ~Working' /\ ~Locked' /\ ledger' \subseteq [id : Ids, build : Builds \cup {Legacy}]
  BY <1>1, <1>3, <1>4 DEF Working, Locked, Package!Begin, PackageTyped
<1>6. QED
  BY <1>1, <1>3, <1>4, <1>5, PackageConstants, PromotionMoves DEF Package!Begin

LEMMA VerifyCandidateKeeps ==
    ASSUME Package!PromotionAssumption, PackageInv, Package!VerifyCandidate
    PROVE  PackageInv'
<1>1. PackageTyped /\ Proof /\ ledger' \subseteq [id : Ids, build : Builds \cup {Legacy}]
      /\ budget' \in Budgets /\ budget'.promotions <= MaxPromotions
      /\ promo \in Promotions
  BY DEF PackageInv, PackageTyped, Package!VerifyCandidate, Package!Abort
<1>2. CASE promo' = Package!NoPromo
  BY <1>1, <1>2, AbortKeeps DEF Package!VerifyCandidate, Package!Abort
<1>3. CASE promo' # Package!NoPromo
  <2>1. /\ packageHost.pc = Package!None /\ live # Package!Missing /\ evidence = live.declared
        /\ promo' = [promo EXCEPT !.pc = "issued", !.build = live.declared, !.before = live]
    BY <1>3 DEF Package!VerifyCandidate, Package!Abort, Package!HostBusy, Package!CandidateOk,
       Package!FilesIntact, Package!EvidenceOk
  <2>2. live.declared \in Origins /\ live.declared \in Builds \cup {Legacy} /\ live.declared \in proven
    BY <1>1, <2>1 DEF PackageTyped, Genuine, Proof, Origins
  <2>3. /\ promo' \in Promotions /\ promo'.pc = "issued" /\ promo'.build = live.declared
        /\ promo'.before = live /\ promo'.incoming = promo.incoming /\ promo'.backup = promo.backup
    BY <1>1, <2>1, <2>2 DEF Promotions, PackageTyped, Genuine
  <2>4. QED
    BY <1>1, <2>1, <2>2, <2>3, PromotionMoves DEF PackageTyped, Proof, Package!VerifyCandidate
<1>4. QED
  BY <1>2, <1>3

LEMMA CopyKeeps ==
    ASSUME Package!PromotionAssumption, PackageInv, Package!CopyCandidate
    PROVE  PackageInv'
<1>1. PackageTyped /\ Proof /\ ledger' \subseteq [id : Ids, build : Builds \cup {Legacy}]
      /\ budget' \in Budgets /\ budget'.promotions <= MaxPromotions
      /\ promo \in Promotions /\ promo.pc = "issued" /\ live \in Package!Package
  BY DEF PackageInv, PackageTyped, Genuine, Package!CopyCandidate, Package!Abort
<1>2. CASE promo' = Package!NoPromo
  BY <1>1, <1>2, AbortKeeps DEF Package!CopyCandidate, Package!Abort
<1>3. CASE promo' # Package!NoPromo
  <2>1. live # Package!Missing /\ promo' = [promo EXCEPT !.pc = "copied", !.incoming = Package!PromotedCopy]
        /\ ledger' = ledger
    BY <1>3 DEF Package!CopyCandidate, Package!Abort
  <2>2. promo.build \in proven /\ promo.build \in Builds \cup {Legacy} /\ promo.id \in Ids
    BY <1>1 DEF Proof, Working, Promotions
  <2>3. /\ Package!PromotedCopy \in Package!Package /\ Package!PromotedCopy.status = "promoted"
        /\ Package!PromotedCopy.bound = promo.build /\ Package!PromotedCopy.declared = live.declared
    BY <1>1, <2>2 DEF Package!PromotedCopy, Package!Package, Ids
  <2>4. Genuine(Package!PromotedCopy) /\ Tested(Package!PromotedCopy)
    BY <1>1, <2>1, <2>2, <2>3 DEF Genuine, Tested, PackageTyped
  <2>5. /\ promo' \in Promotions /\ promo'.pc = "copied" /\ promo'.build = promo.build
        /\ promo'.before = promo.before /\ promo'.incoming = Package!PromotedCopy
        /\ promo'.backup = promo.backup
    BY <1>1, <2>1, <2>3 DEF Promotions
  <2>6. packageHost.pc = Package!None
    BY <1>1 DEF Proof, Locked
  <2>7. QED
    BY <1>1, <2>2, <2>4, <2>5, <2>6, PromotionMoves DEF PackageTyped, Proof, Package!CopyCandidate
<1>4. QED
  BY <1>2, <1>3

LEMMA SwapOutKeeps ==
    ASSUME Package!PromotionAssumption, PackageInv, Package!SwapOut
    PROVE  PackageInv'
<1>1. PackageTyped /\ Proof /\ promo \in Promotions /\ promo.pc = "copied"
      /\ ledger' \subseteq [id : Ids, build : Builds \cup {Legacy}]
  BY DEF PackageInv, PackageTyped, Package!SwapOut, Package!Abort
<1>2. budget' \in Budgets /\ budget'.promotions <= MaxPromotions
  BY <1>1, Spending DEF Package!SwapOut, PackageTyped
<1>3. CASE promo' = Package!NoPromo
  BY <1>1, <1>2, <1>3, AbortKeeps, PackageConstants DEF Package!SwapOut, Package!Abort
<1>4. CASE promo' # Package!NoPromo
  <2>1. promo' = [promo EXCEPT !.pc = "swappedOut", !.backup = live] /\ live' = Package!Missing
    BY <1>4 DEF Package!SwapOut, Package!Abort
  <2>2. /\ promo' \in Promotions /\ promo'.pc = "swappedOut" /\ promo'.build = promo.build
        /\ promo'.before = promo.before /\ promo'.incoming = promo.incoming /\ promo'.backup = live
    BY <1>1, <2>1 DEF Promotions, PackageTyped, Genuine
  <2>3. packageHost.pc = Package!None /\ promo.build \in proven /\ promo.build \in Builds \cup {Legacy}
    BY <1>1 DEF Proof, Locked, Working
  <2>4. QED
    BY <1>1, <1>2, <2>1, <2>2, <2>3, PackageConstants, PromotionMoves
       DEF PackageTyped, Proof, Package!SwapOut
<1>5. QED
  BY <1>3, <1>4

LEMMA SwapInKeeps ==
    ASSUME Package!PromotionAssumption, PackageInv, Package!SwapIn
    PROVE  PackageInv'
<1>1. PackageTyped /\ Proof /\ promo \in Promotions /\ promo.pc = "swappedOut"
      /\ ledger' \subseteq [id : Ids, build : Builds \cup {Legacy}]
  BY DEF PackageInv, PackageTyped, Package!SwapIn, Package!Abort
<1>2. budget' \in Budgets /\ budget'.promotions <= MaxPromotions
  BY <1>1, Spending DEF Package!SwapIn, PackageTyped
<1>3. Genuine(live') /\ Tested(live')
  BY <1>1 DEF Package!SwapIn, Package!RestoreBackup, PackageTyped, Proof
<1>4. CASE promo' = Package!NoPromo
  BY <1>1, <1>2, <1>3, <1>4, AbortKeeps, PackageConstants DEF Package!SwapIn, Package!Abort
<1>5. CASE promo' # Package!NoPromo
  <2>1. promo' = [promo EXCEPT !.pc = "swappedIn"]
    BY <1>5 DEF Package!SwapIn, Package!Abort
  <2>2. /\ promo' \in Promotions /\ promo'.pc = "swappedIn" /\ promo'.build = promo.build
        /\ promo'.before = promo.before /\ promo'.incoming = promo.incoming
        /\ promo'.backup = promo.backup
    BY <1>1, <2>1 DEF Promotions
  <2>3. packageHost.pc = Package!None /\ promo.build \in proven /\ promo.build \in Builds \cup {Legacy}
    BY <1>1 DEF Proof, Locked, Working
  <2>4. QED
    BY <1>1, <1>2, <1>3, <2>2, <2>3, PromotionMoves DEF PackageTyped, Proof, Package!SwapIn
<1>6. QED
  BY <1>4, <1>5

LEMMA VerifyLiveKeeps ==
    ASSUME Package!PromotionAssumption, PackageInv, Package!VerifyLive
    PROVE  PackageInv'
<1>1. PackageTyped /\ Proof /\ promo \in Promotions /\ promo.pc = "swappedIn"
      /\ ledger' \subseteq [id : Ids, build : Builds \cup {Legacy}]
  BY DEF PackageInv, PackageTyped, Package!VerifyLive, Package!Abort
<1>2. budget' \in Budgets /\ budget'.promotions <= MaxPromotions
  BY <1>1, Spending DEF Package!VerifyLive, PackageTyped
<1>3. Genuine(live') /\ Tested(live')
  BY <1>1, PackageConstants DEF Package!VerifyLive, Package!RollBack, PackageTyped, Proof
<1>4. CASE promo' = Package!NoPromo
  BY <1>1, <1>2, <1>3, <1>4, AbortKeeps, PackageConstants DEF Package!VerifyLive, Package!Abort
<1>5. CASE promo' # Package!NoPromo
  <2>1. promo' = [promo EXCEPT !.pc = "installed"]
    BY <1>5 DEF Package!VerifyLive, Package!Abort
  <2>2. /\ promo' \in Promotions /\ promo'.pc = "installed" /\ promo'.build = promo.build
        /\ promo'.before = promo.before /\ promo'.incoming = promo.incoming
        /\ promo'.backup = promo.backup
    BY <1>1, <2>1 DEF Promotions
  <2>3. promo.build \in proven /\ promo.build \in Builds \cup {Legacy} /\ ~Locked'
    BY <1>1, <2>2 DEF Proof, Working, Locked
  <2>4. QED
    BY <1>1, <1>2, <1>3, <2>2, <2>3, PromotionMoves DEF PackageTyped, Proof, Package!VerifyLive
<1>6. QED
  BY <1>4, <1>5

LEMMA CommitKeeps ==
    ASSUME Package!PromotionAssumption, PackageInv, Package!Commit
    PROVE  PackageInv'
<1>1. PackageTyped /\ Proof /\ promo \in Promotions /\ promo.pc = "installed"
      /\ promo' = Package!NoPromo /\ live' = live
  BY DEF PackageInv, PackageTyped, Package!Commit, Package!Abort
<1>2. budget' \in Budgets /\ budget'.promotions <= MaxPromotions
  BY <1>1, Spending DEF Package!Commit, PackageTyped
<1>3. promo.build \in Builds \cup {Legacy} /\ promo.id \in Ids
  BY <1>1 DEF Proof, Working, Promotions
<1>4. ledger' \subseteq [id : Ids, build : Builds \cup {Legacy}]
  BY <1>1, <1>3 DEF Package!Commit, Package!Abort, Package!OwnRows, PackageTyped
<1>5. ~Working' /\ ~Locked'
  BY <1>1, PackageConstants DEF Working, Locked
<1>6. QED
  BY <1>1, <1>2, <1>4, <1>5, PackageConstants, PromotionMoves DEF Package!Commit

\* The thread that executes, and the Host it starts.
LEMMA ExecutionKeeps ==
    ASSUME Package!PromotionAssumption, PackageInv, Package!Execute
    PROVE  PackageInv'
<1>1. PackageTyped /\ Proof /\ exec.seen \in Package!Package
  BY DEF PackageInv, PackageTyped, Genuine
<1>2. /\ live' = live /\ evidence' = evidence /\ ledger' = ledger /\ promo' = promo
      /\ install' = install /\ proven' = proven
  BY DEF Package!Execute, Package!StartRun, Package!CancelRun, Package!ChooseRoot, Package!ReadManifest,
     Package!ResolveReceipt, Package!StartHost, Package!HostLoads, Package!HostExits, Package!RunEnds
<1>3. budget' \in Budgets /\ budget'.promotions <= MaxPromotions
  BY <1>1, Spending DEF PackageTyped, Package!Execute, Package!StartRun, Package!CancelRun,
     Package!ChooseRoot, Package!ReadManifest, Package!ResolveReceipt, Package!StartHost,
     Package!HostLoads, Package!HostExits, Package!RunEnds
<1>4. Genuine(Package!LegacyPackage) /\ Package!LegacyPackage.content = Legacy
  BY <1>1 DEF Package!LegacyPackage, Package!Candidate, Genuine, Package!Package, Package!None,
     PackageTyped, Ids
<1>5. ASSUME NEW root PROVE Genuine(Package!PackageAt(root))
  BY <1>1, <1>4 DEF Package!PackageAt, PackageTyped
<1>6. /\ exec' \in [pc : {"idle", "guarded", "rooted", "read", "ready", "started"},
                    root : {"module", "legacy", Package!None}, seen : Package!Package]
      /\ Genuine(exec'.seen)
  <2> DEFINE E == [pc : {"idle", "guarded", "rooted", "read", "ready", "started"},
                   root : {"module", "legacy", Package!None}, seen : Package!Package]
  <2>1. Package!NoExec \in E /\ Genuine(Package!NoExec.seen) /\ exec \in E /\ Genuine(exec.seen)
        /\ Package!NoExec.pc = "idle"
    BY <1>1, PackageConstants DEF Package!NoExec, PackageTyped
  <2>2. CASE exec' = exec \/ exec' = Package!NoExec
    BY <2>1, <2>2
  <2>3. CASE exec' = [Package!NoExec EXCEPT !.pc = "guarded"]
    BY <2>1, <2>3
  <2>4. CASE Package!ChooseRoot
    BY <2>1, <2>4 DEF Package!ChooseRoot, Package!ResolvedRoot
  <2>5. CASE Package!ReadManifest
    <3> DEFINE p == Package!PackageAt(Package!ResolvedRoot)
    <3>1. Genuine(p) /\ p \in Package!Package
      BY <1>5 DEF Genuine
    <3>2. exec' = [exec EXCEPT !.pc = "read", !.seen = p]
      BY <2>5 DEF Package!ReadManifest
    <3> HIDE DEF p
    <3>3. QED
      BY <2>1, <3>1, <3>2
  <2>6. CASE exec' = [exec EXCEPT !.pc = "ready"] \/ exec' = [exec EXCEPT !.pc = "started"]
    BY <2>1, <2>6
  <2>7. QED
    BY <2>2, <2>3, <2>4, <2>5, <2>6 DEF Package!Execute, Package!StartRun, Package!CancelRun,
       Package!ResolveReceipt, Package!StartHost, Package!HostLoads, Package!HostExits,
       Package!RunEnds, Package!Unavailable
<1>7. /\ packageHost' \in [pc : {Package!None, "starting", "running"},
                           root : {"module", "legacy", Package!None}, content : Contents]
      /\ packageHost'.pc = "running" => packageHost'.content \in proven \ Unsafe
      /\ Locked => packageHost'.pc = Package!None
  <2> DEFINE N == [pc : {Package!None, "starting", "running"},
                   root : {"module", "legacy", Package!None}, content : Contents]
  <2>1. packageHost \in N /\ Package!NoHost \in N /\ Package!NoHost.pc = Package!None
        /\ Package!None = "none" /\ (packageHost.pc = "running" => packageHost.content \in proven \ Unsafe)
        /\ (Locked => packageHost.pc = Package!None)
    BY <1>1 DEF PackageTyped, Package!NoHost, Package!None, Contents, Proof
  <2>2. CASE packageHost' = packageHost \/ packageHost' = Package!NoHost
    BY <2>1, <2>2
  <2>3. CASE Package!StartHost
    <3>1. CASE packageHost' = packageHost
      BY <2>1, <3>1
    <3>2. CASE packageHost' = [Package!NoHost EXCEPT !.pc = "starting", !.root = exec.root]
      <4>1. exec.root \in {"module", "legacy", Package!None}
        BY <1>1 DEF PackageTyped
      <4>2. packageHost' \in N /\ packageHost'.pc = "starting"
        BY <2>1, <3>2, <4>1
      <4>3. ~Locked
        BY <2>3 DEF Package!StartHost, Package!HoldsExecutionLock, Locked
      <4>4. QED
        BY <4>2, <4>3
    <3>3. QED
      BY <2>3, <3>1, <3>2 DEF Package!StartHost, Package!Unavailable
  <2>4. CASE Package!HostLoads
    <3> DEFINE p == Package!PackageAt(packageHost.root)
    <3>1. packageHost.pc = "starting"
      BY <2>4 DEF Package!HostLoads
    <3>2. CASE Package!HostAccepts(p)
      <4>1. packageHost' = [packageHost EXCEPT !.pc = "running", !.content = p.content]
        BY <2>4, <3>2 DEF Package!HostLoads
      <4>2. /\ p.content = p.declared /\ p.bound = p.declared /\ p.declared \notin Unsafe
            /\ p.status = "promoted" /\ p \in Package!Package
        BY <1>5, <3>2 DEF Package!HostAccepts, Package!FilesIntact, Package!ManifestSafe,
           Package!PayloadBound, Genuine
      <4>3. p.content \in proven /\ p.content \in Contents
        BY <1>1, <1>4, <4>2 DEF Package!PackageAt, Proof, Tested, Package!Package, Contents
      <4> HIDE DEF p
      <4>4. packageHost' \in N /\ packageHost'.pc = "running" /\ packageHost'.content = p.content
        BY <2>1, <4>1, <4>3
      <4>5. QED
        BY <2>1, <3>1, <4>2, <4>3, <4>4
    <3>3. QED
      BY <2>2, <2>4, <3>2 DEF Package!HostLoads
  <2>5. QED
    BY <2>2, <2>3, <2>4 DEF Package!Execute, Package!StartRun, Package!CancelRun, Package!ChooseRoot,
       Package!ReadManifest, Package!ResolveReceipt, Package!HostExits, Package!RunEnds,
       Package!Unavailable
<1>8. PackageTyped'
  BY <1>1, <1>2, <1>3, <1>6, <1>7 DEF PackageTyped, Genuine
<1>9. Proof'
  BY <1>1, <1>2, <1>7 DEF Proof, Tested, Working, Locked
<1>10. QED
  BY <1>8, <1>9 DEF PackageInv

\* The installer, damage and a crash.
LEMMA OutsideKeeps ==
    ASSUME Package!PromotionAssumption, PackageInv,
           Package!Install \/ Package!DamageFile \/ Package!Crash
    PROVE  PackageInv'
<1>1. PackageTyped /\ Proof /\ install \in [pc : {"idle", "staged", "moved", "evidence"}, build : Origins]
  BY DEF PackageInv, PackageTyped
<1>2. budget' \in Budgets /\ budget'.promotions <= MaxPromotions /\ ledger' = ledger
      /\ packageHost' = packageHost
  BY <1>1, Spending DEF PackageTyped, Package!Install, Package!InstallBegin, Package!InstallMovesOut,
     Package!InstallMovesIn, Package!InstallEvidence, Package!DamageFile, Package!Crash
<1>3. Genuine(live') /\ Tested(live')
  <2>1. CASE live' = live
    BY <1>1, <2>1 DEF PackageTyped, Proof
  <2>2. CASE live' = Package!Missing
    BY <2>2, PackageConstants
  <2>3. CASE Package!InstallMovesIn
    <3>1. install.build \in Builds
      BY <1>1, <2>3 DEF Package!InstallMovesIn, PackageTyped
    <3>2. QED
      BY <2>1, <2>3, <3>1, PackageConstants DEF Package!InstallMovesIn, Tested
  <2>4. CASE Package!DamageFile
    <3>1. live \in Package!Package /\ live # Package!Missing
          /\ live' = [live EXCEPT !.content = Package!Damaged]
      BY <1>1, <2>4 DEF Package!DamageFile, PackageTyped, Genuine
    <3>2. live' \in Package!Package /\ live'.declared = live.declared /\ live'.bound = live.bound
          /\ live'.status = live.status /\ live'.receipt = live.receipt
      BY <3>1 DEF Package!Package
    <3>3. QED
      BY <1>1, <3>1, <3>2 DEF PackageTyped, Genuine, Proof, Tested
  <2>5. QED
    BY <2>1, <2>2, <2>3, <2>4 DEF Package!Install, Package!InstallBegin, Package!InstallMovesOut,
       Package!InstallEvidence, Package!Crash
<1>4. /\ install' \in [pc : {"idle", "staged", "moved", "evidence"}, build : Origins]
      /\ install'.pc # "idle" => install'.build \in Builds
      /\ evidence' \in Builds \cup {Package!None} /\ evidence' \in proven' /\ proven \subseteq proven'
  <2>1. CASE install' = install /\ evidence' = evidence /\ proven' = proven
    BY <1>1, <2>1 DEF PackageTyped, Proof
  <2>2. CASE \E b \in Builds : Package!InstallBegin(b)
    BY <1>1, <2>2 DEF Package!InstallBegin, PackageTyped, Proof, Origins
  <2>3. CASE Package!InstallMovesOut \/ Package!InstallMovesIn
    BY <1>1, <2>3 DEF Package!InstallMovesOut, Package!InstallMovesIn, PackageTyped, Proof, Origins
  <2>4. CASE Package!InstallEvidence
    BY <1>1, <2>4 DEF Package!InstallEvidence, PackageTyped, Proof, Origins
  <2>5. QED
    BY <2>1, <2>2, <2>3, <2>4 DEF Package!Install, Package!DamageFile, Package!Crash
<1>5. /\ promo' = promo \/ promo' = Package!NoPromo
      /\ exec' = exec \/ exec' = Package!NoExec
  BY DEF Package!Install, Package!InstallBegin, Package!InstallMovesOut,
     Package!InstallMovesIn, Package!InstallEvidence, Package!DamageFile, Package!Crash
<1>6. exec' \in [pc : {"idle", "guarded", "rooted", "read", "ready", "started"},
                 root : {"module", "legacy", Package!None}, seen : Package!Package]
      /\ Genuine(exec'.seen)
  BY <1>1, <1>5, PackageConstants DEF PackageTyped, Package!NoExec
<1>7. PackageTyped'
  <2>1. promo' \in Promotions /\ Genuine(promo'.incoming) /\ Genuine(promo'.backup) /\ Genuine(promo'.before)
    BY <1>1, <1>5, PackageConstants DEF PackageTyped
  <2>2. QED
    BY <1>1, <1>2, <1>3, <1>4, <1>6, <2>1 DEF PackageTyped, Genuine
<1>8. Proof'
  <2>1. (Working' => promo' = promo) /\ (Locked' => promo' = promo)
    BY <1>5, PackageConstants DEF Working, Locked
  <2>2. promo'.incoming \in {promo.incoming, Package!Missing} /\ promo'.backup \in {promo.backup, Package!Missing}
    BY <1>5, PackageConstants
  <2>3. Tested(promo.incoming)' /\ Tested(promo.backup)'
    BY <1>1, <1>4, <2>2, PackageConstants DEF Tested, Proof
  <2>4. QED
    BY <1>1, <1>2, <1>3, <1>4, <2>1, <2>3 DEF Proof, Tested, Working, Locked
<1>9. QED
  BY <1>7, <1>8 DEF PackageInv

LEMMA PackageSteps ==
    ASSUME Package!PromotionAssumption, PackageInv, [Package!Next]_(Package!vars)
    PROVE  PackageInv'
<1>1. CASE UNCHANGED Package!vars
  BY <1>1 DEF Package!vars, PackageInv, PackageTyped, Proof, Genuine, Tested, Working, Locked
<1>2. QED
  BY <1>1, BeginKeeps, VerifyCandidateKeeps, CopyKeeps, SwapOutKeeps, SwapInKeeps, VerifyLiveKeeps,
     CommitKeeps, ExecutionKeeps, OutsideKeeps DEF Package!Next, Package!Promote

\* What a promotion that fails or swaps has fenced before.
LEMMA SwapsWhileIdle ==
    ASSUME PackageInv
    PROVE  (promo.pc \in {"copied", "swappedOut", "swappedIn"} /\ promo' # promo /\ live' # live)
               => (packageHost.pc = Package!None)
BY DEF PackageInv, Proof, Locked

-----------------------------------------------------------------------------
(* What has been spent stays spent: a step after which nothing has failed,   *)
(* or nobody else has touched the directory, began so and was no such step.  *)

Whats == {"promotions", "installs", "runs", "faults", "damage", "crashes"}

Capped == /\ budget.installs <= MaxInstalls /\ budget.faults <= MaxFaults
          /\ budget.damage <= MaxDamage /\ budget.crashes <= MaxCrashes

LEMMA BudgetFalls ==
    ASSUME PackageTyped, [Package!Next]_(Package!vars)
    PROVE  /\ budget \in Budgets /\ budget' \in Budgets
           /\ \A f \in Whats : budget'[f] <= budget[f]
           /\ \A f \in Whats : Package!Spend(f) => budget'[f] < budget[f]
<1>1. budget \in Budgets /\ DOMAIN budget = Whats /\ \A f \in Whats : budget[f] \in Nat
  BY DEF PackageTyped, Budgets, Whats
<1>2. budget' = budget \/ \E f \in Whats : Package!Spend(f)
  BY DEF Whats, Package!Next, Package!vars, Package!Promote, Package!Execute, Package!Install,
     Package!Begin, Package!VerifyCandidate, Package!CopyCandidate, Package!SwapOut, Package!SwapIn,
     Package!VerifyLive, Package!Commit, Package!StartRun, Package!CancelRun, Package!ChooseRoot,
     Package!ReadManifest, Package!ResolveReceipt, Package!StartHost, Package!HostLoads,
     Package!HostExits, Package!RunEnds, Package!InstallBegin, Package!InstallMovesOut,
     Package!InstallMovesIn, Package!InstallEvidence, Package!DamageFile, Package!Crash
<1>3. ASSUME NEW f \in Whats, Package!Spend(f)
      PROVE  budget' \in Budgets /\ budget'[f] < budget[f] /\ \A g \in Whats : budget'[g] <= budget[g]
  BY <1>1, <1>3, Spending DEF Whats
<1>4. CASE budget' = budget
  BY <1>1, <1>3, <1>4
<1>5. QED
  BY <1>1, <1>2, <1>3, <1>4

LEMMA CappedKept ==
    ASSUME PackageTyped, Package!PromotionAssumption, Capped, [Package!Next]_(Package!vars)
    PROVE  Capped'
BY BudgetFalls DEF Capped, Budgets, Whats, Package!PromotionAssumption

LEMMA StillUnfailed ==
    ASSUME PackageTyped, Package!PromotionAssumption, Capped, [Package!Next]_(Package!vars), Unfailed'
    PROVE  Unfailed /\ ~Package!Spend("faults") /\ ~Package!Spend("crashes")
BY BudgetFalls DEF Capped, Unfailed, Budgets, Whats, Package!PromotionAssumption

LEMMA StillUndisturbed ==
    ASSUME PackageTyped, Package!PromotionAssumption, Capped, [Package!Next]_(Package!vars), Undisturbed'
    PROVE  /\ Undisturbed
           /\ ~Package!Spend("installs") /\ ~Package!Spend("damage") /\ ~Package!Spend("crashes")
BY BudgetFalls DEF Capped, Undisturbed, Budgets, Whats, Package!PromotionAssumption

-----------------------------------------------------------------------------
(* Until a step fails or the Manager dies, a promoted module has its row.    *)

Row(p) == [id |-> p.receipt, build |-> p.bound]

Ledgered ==
    /\ live.status = "promoted" /\ promo.pc \notin {"swappedIn", "installed"} => Row(live) \in ledger
    /\ promo.backup.status = "promoted" => Row(promo.backup) \in ledger
    /\ live.status = "promoted" /\ promo.pc \in {"swappedIn", "installed"} =>
           Row(live) = [id |-> promo.id, build |-> promo.build]
    /\ promo.pc \in {"copied", "swappedOut"} =>
           Row(promo.incoming) = [id |-> promo.id, build |-> promo.build]

LEMMA LedgerStarts ==
    ASSUME Package!Init
    PROVE  Ledgered
<1>1. PICK b \in Builds : live = Package!Candidate(b)
  BY DEF Package!Init
<1>2. QED
  BY <1>1 DEF Package!Init, Package!Candidate, Package!NoPromo, Package!Missing, Package!None, Ledgered

LEMMA LedgerKept ==
    ASSUME Package!PromotionAssumption, PackageInv, Capped, Ledgered,
           [Package!Next]_(Package!vars), Unfailed'
    PROVE  Ledgered'
<1>1. PackageTyped /\ promo \in Promotions /\ live \in Package!Package
  BY DEF PackageInv, PackageTyped, Genuine
<1>4. ~Package!Spend("faults") /\ ~Package!Spend("crashes")
  BY <1>1, StillUnfailed
<1>2. ~Package!Crash
  BY <1>4 DEF Package!Crash
<1>5. ASSUME promo' = promo, live' = live, ledger' = ledger
      PROVE  Ledgered'
  BY <1>5 DEF Ledgered, Row
<1>6. CASE Package!Begin
  <2> DEFINE i == MaxPromotions - budget.promotions + 1
             p == [Package!NoPromo EXCEPT !.pc = "begun", !.id = i]
  <2>1. promo' = p /\ live' = live /\ ledger' = ledger /\ promo.pc = "idle"
    BY <1>6 DEF Package!Begin, Package!InTransaction
  <2> HIDE DEF i
  <2>2. p.pc = "begun" /\ p.backup = Package!Missing
    BY PackageConstants DEF Promotions
  <2> HIDE DEF p
  <2>3. QED
    BY <2>1, <2>2, PackageConstants DEF Ledgered, Row
<1>7. ASSUME promo' = Package!NoPromo, ledger' = ledger, live' = live \/ live' = promo.backup
             \/ live' = Package!Missing,
             promo.pc \in {"swappedIn", "installed"} => live' # live \/ live.status # "promoted"
      PROVE  Ledgered'
  BY <1>7, PackageConstants DEF Ledgered, Row
<1>8. CASE Package!VerifyCandidate
  <2>1. CASE promo' = Package!NoPromo
    BY <1>7, <1>8, <2>1 DEF Package!VerifyCandidate, Package!Abort
  <2>2. CASE promo' # Package!NoPromo
    <3>1. promo' = [promo EXCEPT !.pc = "issued", !.build = live.declared, !.before = live]
          /\ ledger' = ledger /\ live' = live /\ promo.pc = "begun"
      BY <1>8, <2>2 DEF Package!VerifyCandidate, Package!Abort
    <3>2. promo'.pc = "issued" /\ promo'.backup = promo.backup
      BY <1>1, <3>1 DEF Promotions
    <3>3. QED
      BY <3>1, <3>2 DEF Ledgered, Row
  <2>3. QED
    BY <2>1, <2>2
<1>9. CASE Package!CopyCandidate
  <2>1. CASE promo' = Package!NoPromo
    BY <1>7, <1>9, <2>1 DEF Package!CopyCandidate, Package!Abort
  <2>2. CASE promo' # Package!NoPromo
    <3>1. promo' = [promo EXCEPT !.pc = "copied", !.incoming = Package!PromotedCopy]
          /\ ledger' = ledger /\ live' = live /\ promo.pc = "issued"
      BY <1>9, <2>2 DEF Package!CopyCandidate, Package!Abort
    <3>2. promo'.pc = "copied" /\ promo'.backup = promo.backup /\ promo'.incoming = Package!PromotedCopy
          /\ promo'.id = promo.id /\ promo'.build = promo.build
      BY <1>1, <3>1 DEF Promotions
    <3>3. Package!PromotedCopy.receipt = promo.id /\ Package!PromotedCopy.bound = promo.build
      BY <1>1 DEF Package!PromotedCopy, Package!Package
    <3>4. QED
      BY <3>1, <3>2, <3>3 DEF Ledgered, Row
  <2>3. QED
    BY <2>1, <2>2
<1>10. CASE Package!SwapOut
  <2>1. CASE promo' = Package!NoPromo
    <3>1. promo.pc = "copied" /\ ledger' = ledger /\ live' = live
      BY <1>4, <1>1, <1>10, <2>1, PackageConstants DEF Package!SwapOut, Package!Abort, Promotions
    <3>2. QED
      BY <1>7, <2>1, <3>1
  <2>2. CASE promo' # Package!NoPromo
    <3>1. promo' = [promo EXCEPT !.pc = "swappedOut", !.backup = live]
          /\ ledger' = ledger /\ live' = Package!Missing /\ promo.pc = "copied"
      BY <1>10, <2>2 DEF Package!SwapOut, Package!Abort
    <3>2. promo'.pc = "swappedOut" /\ promo'.backup = live /\ promo'.incoming = promo.incoming
          /\ promo'.id = promo.id /\ promo'.build = promo.build
      BY <1>1, <3>1 DEF Promotions
    <3>3. QED
      BY <3>1, <3>2, PackageConstants DEF Ledgered, Row
  <2>3. QED
    BY <2>1, <2>2
<1>11. CASE Package!SwapIn
  <2>1. CASE promo' = Package!NoPromo
    <3>1. promo.pc = "swappedOut" /\ ledger' = ledger /\ (live' = live \/ live' = promo.backup)
      BY <1>4, <1>1, <1>11, <2>1, PackageConstants
         DEF Package!SwapIn, Package!Abort, Package!RestoreBackup, Promotions
    <3>2. QED
      BY <1>7, <2>1, <3>1
  <2>2. CASE promo' # Package!NoPromo
    <3>1. promo' = [promo EXCEPT !.pc = "swappedIn"]
          /\ ledger' = ledger /\ live' = promo.incoming /\ promo.pc = "swappedOut"
      BY <1>11, <2>2 DEF Package!SwapIn, Package!Abort
    <3>2. promo'.pc = "swappedIn" /\ promo'.backup = promo.backup
          /\ promo'.id = promo.id /\ promo'.build = promo.build
      BY <1>1, <3>1 DEF Promotions
    <3>3. QED
      BY <3>1, <3>2 DEF Ledgered, Row
  <2>3. QED
    BY <2>1, <2>2
<1>12. CASE Package!VerifyLive
  <2>1. CASE promo' = Package!NoPromo
    <3>1. promo.pc = "swappedIn" /\ ledger' = ledger
          /\ live' = IF live = Package!Missing THEN Package!Missing ELSE promo.backup
      BY <1>4, <1>1, <1>12, <2>1, PackageConstants
         DEF Package!VerifyLive, Package!Abort, Package!RollBack, Promotions
    <3>2. live' = live => live' = Package!Missing \/ live' = promo.backup
      BY <3>1
    <3>3. live'.status = "promoted" => live' = promo.backup
      BY <3>1, PackageConstants
    <3>4. QED
      BY <2>1, <3>1, <3>3, PackageConstants DEF Ledgered, Row
  <2>2. CASE promo' # Package!NoPromo
    <3>1. promo' = [promo EXCEPT !.pc = "installed"]
          /\ ledger' = ledger /\ live' = live /\ promo.pc = "swappedIn"
      BY <1>12, <2>2 DEF Package!VerifyLive, Package!Abort
    <3>2. promo'.pc = "installed" /\ promo'.backup = promo.backup
          /\ promo'.id = promo.id /\ promo'.build = promo.build
      BY <1>1, <3>1 DEF Promotions
    <3>3. QED
      BY <3>1, <3>2 DEF Ledgered, Row
  <2>3. QED
    BY <2>1, <2>2
<1>13. CASE Package!Commit
  <2>1. promo' = Package!NoPromo /\ live' = live /\ promo.pc = "installed"
        /\ ledger' = ledger \cup {[id |-> promo.id, build |-> promo.build]}
    BY <1>4, <1>13 DEF Package!Commit, Package!OwnRows
  <2>2. QED
    BY <2>1, PackageConstants DEF Ledgered, Row
<1>14. CASE Package!Execute \/ UNCHANGED Package!vars
  <2>1. promo' = promo /\ live' = live /\ ledger' = ledger
    BY <1>14 DEF Package!vars, Package!Execute, Package!StartRun, Package!CancelRun, Package!ChooseRoot,
       Package!ReadManifest, Package!ResolveReceipt, Package!StartHost, Package!HostLoads,
       Package!HostExits, Package!RunEnds
  <2>2. QED
    BY <1>5, <2>1
<1>15. CASE Package!Install \/ Package!DamageFile
  <2>1. promo' = promo /\ ledger' = ledger
    BY <1>15 DEF Package!Install, Package!InstallBegin, Package!InstallMovesOut,
       Package!InstallMovesIn, Package!InstallEvidence, Package!DamageFile
  <2>2. \/ live' = live \/ live'.status # "promoted"
        \/ live'.status = live.status /\ live'.receipt = live.receipt /\ live'.bound = live.bound
    <3>1. CASE Package!InstallMovesIn
      BY <1>1, <3>1, PackageConstants DEF Package!InstallMovesIn, PackageTyped
    <3>2. CASE Package!DamageFile
      BY <1>1, <3>2 DEF Package!DamageFile, Package!Package
    <3>3. QED
      BY <1>15, <3>1, <3>2, PackageConstants DEF Package!Install, Package!InstallBegin,
         Package!InstallMovesOut, Package!InstallEvidence
  <2>3. QED
    BY <2>1, <2>2 DEF Ledgered, Row
<1>16. QED
  BY <1>2, <1>6, <1>8, <1>9, <1>10, <1>11, <1>12, <1>13, <1>14, <1>15 DEF Package!Next, Package!Promote

-----------------------------------------------------------------------------
(* While nobody else has touched its directory, a promotion that fails       *)
(* restores the candidate.                                                   *)

Restorable ==
    /\ install.pc = "idle"
    /\ promo.pc \in {"issued", "copied"} => live = promo.before
    /\ promo.pc = "swappedOut" => live = Package!Missing /\ promo.incoming.status = "promoted"
    /\ promo.pc = "swappedIn" => live # Package!Missing
    /\ promo.pc = "copied" => promo.incoming.status = "promoted"
    /\ promo.pc \in {"issued", "copied"} => promo.before # Package!Missing
    /\ promo.pc \in {"swappedOut", "swappedIn"} => promo.backup = promo.before

LEMMA RestorableKept ==
    ASSUME Package!PromotionAssumption, PackageInv, Capped, Restorable,
           [Package!Next]_(Package!vars), Undisturbed'
    PROVE  Restorable' /\ Package!RestoresStep
<1>1. PackageTyped /\ promo \in Promotions /\ live \in Package!Package
  BY DEF PackageInv, PackageTyped, Genuine
<1>2. ~Package!Crash /\ ~Package!DamageFile /\ ~Package!Install
  <2>1. ~Package!Spend("crashes") /\ ~Package!Spend("damage") /\ ~Package!Spend("installs")
    BY <1>1, StillUndisturbed
  <2>2. QED
    BY <2>1 DEF Restorable, Package!Crash, Package!DamageFile, Package!Install, Package!InstallBegin,
       Package!InstallMovesOut, Package!InstallMovesIn, Package!InstallEvidence
<1>3. install' = install
  BY <1>2 DEF Package!Next, Package!vars, Package!Promote, Package!Execute,
     Package!Begin, Package!VerifyCandidate, Package!CopyCandidate, Package!SwapOut, Package!SwapIn,
     Package!VerifyLive, Package!Commit, Package!StartRun, Package!CancelRun, Package!ChooseRoot,
     Package!ReadManifest, Package!ResolveReceipt, Package!StartHost, Package!HostLoads,
     Package!HostExits, Package!RunEnds
<1>4. ASSUME promo'.pc \in {"idle", "begun", "installed"}, promo.pc \in {"idle", "begun", "issued", "installed"}
      PROVE  Restorable' /\ Package!RestoresStep
  BY <1>3, <1>4 DEF Restorable, Package!RestoresStep
<1>5. CASE Package!Begin
  <2> DEFINE i == MaxPromotions - budget.promotions + 1
             p == [Package!NoPromo EXCEPT !.pc = "begun", !.id = i]
  <2>1. promo' = p /\ promo.pc = "idle"
    BY <1>5 DEF Package!Begin, Package!InTransaction
  <2> HIDE DEF i
  <2>2. p.pc = "begun"
    BY PackageConstants DEF Promotions
  <2> HIDE DEF p
  <2>3. QED
    BY <1>4, <2>1, <2>2
<1>6. CASE Package!VerifyCandidate
  <2>1. CASE promo' = Package!NoPromo
    BY <1>4, <1>6, <2>1, PackageConstants DEF Package!VerifyCandidate
  <2>2. CASE promo' # Package!NoPromo
    <3>1. promo' = [promo EXCEPT !.pc = "issued", !.build = live.declared, !.before = live]
          /\ live' = live /\ promo.pc = "begun" /\ live # Package!Missing
      BY <1>6, <2>2 DEF Package!VerifyCandidate, Package!Abort, Package!CandidateOk, Package!FilesIntact
    <3>2. promo'.pc = "issued" /\ promo'.before = live
      BY <1>1, <3>1 DEF Promotions
    <3>3. QED
      BY <1>3, <3>1, <3>2 DEF Restorable, Package!RestoresStep
  <2>3. QED
    BY <2>1, <2>2
<1>7. CASE Package!CopyCandidate
  <2>1. CASE promo' = Package!NoPromo
    BY <1>4, <1>7, <2>1, PackageConstants DEF Package!CopyCandidate
  <2>2. CASE promo' # Package!NoPromo
    <3>1. promo' = [promo EXCEPT !.pc = "copied", !.incoming = Package!PromotedCopy]
          /\ live' = live /\ promo.pc = "issued"
      BY <1>7, <2>2 DEF Package!CopyCandidate, Package!Abort
    <3>2. promo'.pc = "copied" /\ promo'.before = promo.before /\ promo'.incoming = Package!PromotedCopy
      BY <1>1, <3>1 DEF Promotions
    <3>3. Package!PromotedCopy.status = "promoted"
      BY <1>1 DEF Package!PromotedCopy, Package!Package
    <3>4. QED
      BY <1>3, <3>1, <3>2, <3>3 DEF Restorable, Package!RestoresStep
  <2>3. QED
    BY <2>1, <2>2
<1>8. CASE Package!SwapOut
  <2>1. promo.pc = "copied"
    BY <1>8 DEF Package!SwapOut
  <2>2. CASE promo' = Package!NoPromo
    <3>1. live' = live
      BY <1>1, <1>8, <2>2, PackageConstants DEF Package!SwapOut, Package!Abort, Promotions
    <3>2. QED
      BY <1>3, <2>1, <2>2, <3>1, PackageConstants DEF Restorable, Package!RestoresStep
  <2>3. CASE promo' # Package!NoPromo
    <3>1. promo' = [promo EXCEPT !.pc = "swappedOut", !.backup = live] /\ live' = Package!Missing
      BY <1>8, <2>3 DEF Package!SwapOut, Package!Abort
    <3>2. promo'.pc = "swappedOut" /\ promo'.backup = live /\ promo'.incoming = promo.incoming
          /\ promo'.before = promo.before
      BY <1>1, <3>1 DEF Promotions
    <3>3. QED
      BY <1>3, <2>1, <3>1, <3>2 DEF Restorable, Package!RestoresStep
  <2>4. QED
    BY <2>2, <2>3
<1>9. CASE Package!SwapIn
  <2>1. promo.pc = "swappedOut" /\ live = Package!Missing
    BY <1>9 DEF Package!SwapIn, Restorable
  <2>2. CASE promo' = Package!NoPromo
    <3>1. live' = promo.backup
      BY <1>1, <1>9, <2>1, <2>2, PackageConstants
         DEF Package!SwapIn, Package!Abort, Package!RestoreBackup, Promotions
    <3>2. QED
      BY <1>3, <2>1, <2>2, <3>1, PackageConstants DEF Restorable, Package!RestoresStep
  <2>3. CASE promo' # Package!NoPromo
    <3>1. promo' = [promo EXCEPT !.pc = "swappedIn"] /\ live' = promo.incoming
      BY <1>9, <2>3 DEF Package!SwapIn, Package!Abort
    <3>2. promo'.pc = "swappedIn" /\ promo'.backup = promo.backup /\ promo'.before = promo.before
      BY <1>1, <3>1 DEF Promotions
    <3>3. live' # Package!Missing
      BY <2>1, <3>1, PackageConstants DEF Restorable
    <3>4. QED
      BY <1>3, <2>1, <3>1, <3>2, <3>3 DEF Restorable, Package!RestoresStep
  <2>4. QED
    BY <2>2, <2>3
<1>10. CASE Package!VerifyLive
  <2>1. promo.pc = "swappedIn" /\ live # Package!Missing
    BY <1>10 DEF Package!VerifyLive, Restorable
  <2>2. CASE promo' = Package!NoPromo
    <3>1. live' = promo.backup
      BY <1>1, <1>10, <2>1, <2>2, PackageConstants
         DEF Package!VerifyLive, Package!Abort, Package!RollBack, Promotions
    <3>2. QED
      BY <1>3, <2>1, <2>2, <3>1, PackageConstants DEF Restorable, Package!RestoresStep
  <2>3. CASE promo' # Package!NoPromo
    <3>1. promo' = [promo EXCEPT !.pc = "installed"]
      BY <1>10, <2>3 DEF Package!VerifyLive, Package!Abort
    <3>2. promo'.pc = "installed"
      BY <1>1, <3>1 DEF Promotions
    <3>3. QED
      BY <1>3, <2>1, <3>2 DEF Restorable, Package!RestoresStep
  <2>4. QED
    BY <2>2, <2>3
<1>11. CASE Package!Commit
  BY <1>4, <1>11, PackageConstants DEF Package!Commit, Package!Abort
<1>12. CASE Package!Execute \/ UNCHANGED Package!vars
  <2>1. promo' = promo /\ live' = live
    BY <1>12 DEF Package!vars, Package!Execute, Package!StartRun, Package!CancelRun, Package!ChooseRoot,
       Package!ReadManifest, Package!ResolveReceipt, Package!StartHost, Package!HostLoads,
       Package!HostExits, Package!RunEnds
  <2>2. QED
    BY <1>3, <2>1 DEF Restorable, Package!RestoresStep
<1>13. QED
  BY <1>2, <1>5, <1>6, <1>7, <1>8, <1>9, <1>10, <1>11, <1>12 DEF Package!Next, Package!Promote

PackageAll == PackageInv /\ Capped /\ (Unfailed => Ledgered) /\ (Undisturbed => Restorable)

LEMMA PackageAllKept ==
    ASSUME Package!PromotionAssumption, PackageAll, [Package!Next]_(Package!vars)
    PROVE  PackageAll' /\ (Undisturbed' => Package!RestoresStep)
<1>1. PackageInv /\ Capped /\ PackageTyped /\ PackageInv' /\ Capped'
  BY PackageSteps, CappedKept DEF PackageAll, PackageInv
<1>2. ASSUME Unfailed' PROVE Ledgered'
  <2>1. Ledgered
    BY <1>1, <1>2, StillUnfailed DEF PackageAll
  <2>2. QED
    BY <1>1, <1>2, <2>1, LedgerKept
<1>3. ASSUME Undisturbed' PROVE Restorable' /\ Package!RestoresStep
  <2>1. Restorable
    BY <1>1, <1>3, StillUndisturbed DEF PackageAll
  <2>2. QED
    BY <1>1, <1>3, <2>1, RestorableKept
<1>4. QED
  BY <1>1, <1>2, <1>3 DEF PackageAll

\* Of any builds and any promotions, installs, executions, faults, damage and
\* crashes: a runner only starts from content that had evidence and a safe
\* manifest, and the directory never moves under a Host.  Until a step fails
\* or the Manager dies a promoted module has its row in the ledger; while
\* nobody else has touched its directory, a promotion that fails leaves the
\* candidate as it was (promote_candidate).
THEOREM PromotionIsSafe ==
    ASSUME Package!PromotionAssumption
    PROVE  Package!Spec => PromotionSafe
<1>1. Package!Init => PackageAll
  <2>1. ASSUME Package!Init PROVE PackageInv /\ Ledgered /\ Restorable /\ Capped
    <3>1. Restorable
      BY <2>1 DEF Package!Init, Package!NoPromo, Restorable
    <3>2. Capped
      BY <2>1 DEF Package!Init, Package!PromotionAssumption, Capped
    <3>3. QED
      BY <2>1, <3>1, <3>2, PackageStarts, LedgerStarts
  <2>2. QED
    BY <2>1 DEF PackageAll
<1>2. PackageAll /\ [Package!Next]_(Package!vars)
          => PackageAll' /\ (Undisturbed' => Package!RestoresStep)
  BY PackageAllKept
<1>3. PackageAll => /\ Package!TypeOK /\ Package!ProvenRuns
                    /\ Unfailed => Package!PromotedIsLedgered
  <2>1. PackageInv => Package!TypeOK
    BY DEF PackageInv, PackageTyped, Genuine, Promotions, Package!TypeOK, Ids
  <2>2. Ledgered => Package!PromotedIsLedgered
    BY DEF Ledgered, Row, Package!PromotedIsLedgered, Package!InTransaction
  <2>3. PackageInv => Package!ProvenRuns
    BY DEF PackageInv, Proof, Package!ProvenRuns
  <2>4. QED
    BY <2>1, <2>2, <2>3 DEF PackageAll
<1>4. PackageAll => ((promo.pc \in {"copied", "swappedOut", "swappedIn"} /\ promo' # promo
                       /\ live' # live) => (packageHost.pc = Package!None))
  BY SwapsWhileIdle DEF PackageAll
<1>5. Package!Spec => []PackageAll
  BY <1>1, <1>2, PTL DEF Package!Spec
<1>6. Package!Spec => [](Package!TypeOK /\ Package!ProvenRuns /\ (Unfailed => Package!PromotedIsLedgered))
  BY <1>3, <1>5, PTL
<1>7. Package!Spec => Package!SwapWhileIdle
  BY <1>4, <1>5, PTL DEF Package!SwapWhileIdle
<1>8. Package!Spec => [][Undisturbed' => Package!RestoresStep]_(Package!vars)
  BY <1>2, <1>5, PTL DEF Package!Spec
<1>9. QED
  BY <1>6, <1>7, <1>8 DEF PromotionSafe
=============================================================================
