-------------------------- MODULE OwnedInput_proofs --------------------------
(***************************************************************************)
(* The owned input execution, for any number of helper processes: a quiet  *)
(* receipt is the truth and stays it, whoever stops the execution and      *)
(* wherever the other thread, the writer, the readers and callbacks are;   *)
(* and the owner of the Host process (HostWatch), for any attempts.        *)
(***************************************************************************)
EXTENDS OwnedInput, TLAPS, Integers, Sequences

Known ==
    /\ helpers \in Nat /\ inside \subseteq {"reader", "other"}
    /\ gate \in [stopping : BOOLEAN, sealed : BOOLEAN, forced : BOOLEAN]
    /\ DOMAIN stop = Stoppers

\* Only the Host itself, once it is a member of the Job, is the process.
PinnedRoot == bound = "yes" => root \in {"member", "dead"}

Dead == root = "dead" /\ helpers = 0
Done == gate.stopping /\ gate.sealed /\ writer # "running" /\ reader \in {"none", "ended"}

\* What a thread that stops the execution has brought about so far, and what
\* no other thread takes back.
Progress(t) ==
    /\ stop[t] \in Stopping \cup {"receipt"} => gate.stopping
    /\ stop[t] \in {"observe", "terminate"} => bound = "yes"
    /\ stop[t] = "terminate" => gate.forced \/ Dead
    /\ stop[t] \in {"join", "callbacks"} => Dead
    /\ stop[t] = "callbacks" => Done
    /\ stop[t] \in {"finalizer", "receipt"} => receipt

Quiet == receipt => Dead /\ Done /\ inside = {}

IInv == Known /\ PinnedRoot /\ Quiet /\ \A t \in Stoppers : Progress(t)

LEMMA InitInv == Init => IInv
BY DEF Init, IInv, Known, PinnedRoot, Progress, Quiet, Stopping

\* The processes, and who starts the execution.
LEMMA ProcessSteps ==
    ASSUME IInv, Popen \/ Joins \/ Ends \/ Spawn \/ HelperEnds
    PROVE  IInv'
<1>1. UNCHANGED <<bound, writer, reader, inside, gate, receipt, stop>>
  BY DEF Popen, Joins, Ends, Spawn, HelperEnds, ProcVars
<1>2. helpers' \in Nat /\ (Dead => Dead') /\ (root \in {"member", "dead"} => root' \in {"member", "dead"})
  BY DEF Popen, Joins, Ends, Spawn, HelperEnds, IInv, Known, Dead
<1>3. \A t \in Stoppers : Progress(t)'
  BY <1>1, <1>2 DEF IInv, Progress, Done
<1>4. QED
  BY <1>1, <1>2, <1>3 DEF IInv, Known, PinnedRoot, Quiet, Done

LEMMA StarterSteps ==
    ASSUME IInv, Bind \/ Dispatch \/ WriterEnds \/ DispatchGivesUp \/ Abort
    PROVE  IInv'
<1> USE DEF IInv, Known, PinnedRoot, Progress, Quiet, Dead, Done
<1>1. CASE Bind
  BY <1>1 DEF Bind
<1>2. CASE Dispatch
  BY <1>2 DEF Dispatch, Accepting
<1>3. CASE WriterEnds
  BY <1>3 DEF WriterEnds
<1>4. CASE DispatchGivesUp
  <2>1. /\ gate' \in [stopping : BOOLEAN, sealed : BOOLEAN, forced : BOOLEAN]
        /\ gate'.stopping /\ gate'.forced /\ gate'.sealed = gate.sealed
        /\ Dead' \/ UNCHANGED <<root, helpers>>
        /\ writer = "running"
        /\ UNCHANGED <<bound, writer, reader, inside, receipt, stop>>
    BY <1>4 DEF DispatchGivesUp
  <2>2. \A t \in Stoppers : Progress(t)'
    BY <2>1
  <2>3. Known' /\ PinnedRoot' /\ Quiet'
    BY <2>1
  <2>4. QED
    BY <2>2, <2>3
<1>5. CASE Abort
  BY <1>5 DEF Abort
<1>6. QED
  BY <1>1, <1>2, <1>3, <1>4, <1>5

LEMMA ReaderSteps ==
    ASSUME IInv, \/ Register \/ ReaderRuns \/ ReaderEnds
                 \/ \E w \in {"reader", "other"} : Enter(w) \/ Leave(w)
    PROVE  IInv'
<1> USE DEF IInv, Known, PinnedRoot, Progress, Quiet, Dead, Done
<1>1. CASE Register
  BY <1>1 DEF Register, Accepting
<1>2. CASE ReaderRuns
  BY <1>2 DEF ReaderRuns
<1>3. CASE ReaderEnds
  BY <1>3 DEF ReaderEnds
<1>4. ASSUME NEW w \in {"reader", "other"}, Enter(w) \/ Leave(w) PROVE IInv'
  <2>1. UNCHANGED <<root, helpers, bound, writer, reader, gate, receipt, stop>>
    BY <1>4 DEF Enter, Leave
  <2>2. inside' \subseteq {"reader", "other"} /\ (receipt => inside' \subseteq inside)
    BY <1>4 DEF Enter, LetsIn, Leave
  <2>3. \A t \in Stoppers : Progress(t)'
    BY <2>1
  <2>4. Known' /\ PinnedRoot' /\ Quiet'
    BY <2>1, <2>2
  <2>5. QED
    BY <2>3, <2>4
<1>5. QED
  BY <1>1, <1>2, <1>3, <1>4

LEMMA StopSteps ==
    ASSUME IInv, NEW t \in Stoppers, Begin(t) \/ Stopper(t) \/ GiveUp(t)
    PROVE  IInv'
<1> USE DEF IInv, Known, PinnedRoot, Progress, Quiet, Dead, Done, Answers, StopVars, Stopping
<1>1. CASE Begin(t)
  <2>1. /\ UNCHANGED <<root, helpers, bound, writer, reader, inside, receipt>>
        /\ DOMAIN stop' = Stoppers /\ \A u \in Stoppers \ {t} : stop'[u] = stop[u]
        /\ gate' \in [stopping : BOOLEAN, sealed : BOOLEAN, forced : BOOLEAN]
        /\ gate'.sealed = gate.sealed /\ gate'.forced = gate.forced /\ (gate.stopping => gate'.stopping)
        /\ \/ stop'[t] = "finalizer" /\ receipt
           \/ stop'[t] = "observe" /\ bound = "yes" /\ gate'.stopping
           \/ stop'[t] = "none"
    BY <1>1 DEF Begin
  <2>2. \A u \in Stoppers : Progress(u)'
    BY <2>1
  <2>3. Known' /\ PinnedRoot' /\ Quiet'
    BY <2>1
  <2>4. QED
    BY <2>2, <2>3
<1>2. CASE Observe(t)
  BY <1>2 DEF Observe, JobQuiet
<1>3. CASE Terminate(t)
  BY <1>3 DEF Terminate
<1>4. CASE Join(t)
  BY <1>4 DEF Join, Joined
<1>5. CASE Issue(t)
  BY <1>5 DEF Issue
<1>6. CASE AfterFinalizer(t)
  BY <1>6 DEF AfterFinalizer
<1>7. CASE GiveUp(t)
  BY <1>7 DEF GiveUp
<1>8. QED
  BY <1>1, <1>2, <1>3, <1>4, <1>5, <1>6, <1>7 DEF Stopper

LEMMA StepInv == IInv /\ [Next]_vars => IInv'
<1> SUFFICES ASSUME IInv, [Next]_vars PROVE IInv'
  OBVIOUS
<1>1. CASE \/ Finalize \/ Finalized \/ UNCHANGED vars
           \/ \E t \in Stoppers : Release(t)
  <2>1. UNCHANGED <<root, helpers, bound, writer, reader, inside, gate, receipt, stop>>
    BY <1>1 DEF Finalize, Finalized, Release, vars
  <2>2. \A t \in Stoppers : Progress(t)'
    BY <2>1 DEF IInv, Progress, Dead, Done
  <2>3. QED
    BY <2>1, <2>2 DEF IInv, Known, PinnedRoot, Quiet, Dead, Done
<1>2. QED
  BY <1>1, ProcessSteps, StarterSteps, ReaderSteps, StopSteps DEF Next

LEMMA InvHolds == Spec => []IInv
BY InitInv, StepInv, PTL DEF Spec

\* A receipt is issued over a dead Job without writer, reader or callback, and
\* none of them ever comes back (stop_and_drain, event_callback).
THEOREM ReceiptsAreQuiet == Spec => []ReceiptIsQuiet
<1>1. IInv => ReceiptIsQuiet
  BY DEF IInv, Quiet, Dead, Done, ReceiptIsQuiet
<1> QED BY <1>1, InvHolds, PTL

\* Nobody closes without a receipt, the recovery not under the completion
\* callback, and whoever lived when the Job was ended is noted
\* (release_owned_execution, stop_and_drain).
THEOREM ReceiptSteps == Spec => [][ReceiptStep]_vars
<1>1. IInv /\ Next => FinalizerAlone
  BY DEF Next, Popen, Joins, Ends, Spawn, HelperEnds, ProcVars, Bind, Dispatch, WriterEnds,
         DispatchGivesUp, Abort, Register, ReaderRuns, ReaderEnds, Enter, Leave, Begin, Stopper,
         Observe, Terminate, Join, Issue, AfterFinalizer, GiveUp, Release, Verifies, Finalize,
         Finalized, StopVars, FinalizerAlone, Stoppers
<1>2. IInv /\ Next => ForcedIsNoted
  <2> SUFFICES ASSUME IInv, Next, helpers > 0, NEW t \in Stoppers,
                      stop[t] = "terminate", stop'[t] = "join"
               PROVE  gate'.forced
    BY DEF ForcedIsNoted
  <2>1. gate.forced
    BY DEF IInv, Progress, Dead, Known
  <2>2. \E u \in Stoppers : Terminate(u)
    BY DEF Next, Popen, Joins, Ends, Spawn, HelperEnds, ProcVars, Bind, Dispatch, WriterEnds,
           DispatchGivesUp, Abort, Register, ReaderRuns, ReaderEnds, Enter, Leave, Begin, Stopper,
           Observe, Join, Issue, AfterFinalizer, GiveUp, Release, Finalize,
           Finalized, StopVars, Answers, IInv, Known
  <2>3. QED
    BY <2>1, <2>2 DEF Terminate
<1>3. IInv /\ [Next]_vars => [ReceiptStep]_vars
  BY <1>1, <1>2 DEF ReceiptStep
<1> QED BY <1>3, InvHolds, PTL DEF Spec

\* The quiet receipt and the steps around it, together (OwnedInputExecution).
InputSafe == []ReceiptIsQuiet /\ [][ReceiptStep]_vars

\* Both hold together, for any number of helper processes.
THEOREM InputIsSafe == Spec => InputSafe
BY ReceiptsAreQuiet, ReceiptSteps DEF InputSafe

-----------------------------------------------------------------------------
(* The owner of the Host process (HostWatch), for any number of attempts and *)
(* lines, with or without owned input.                                       *)

CONSTANTS Last, MaxLines, Owned, ControlFails
VARIABLES owner, control, file, proc, pipe, failure, watch, result, job, handed, asked, loose

Host == INSTANCE HostWatch

Places == {"none", "watching", "refused", "stopping", "exited", "job", "joining", "waiting",
           "terminated", "killed", "crashed", "retained", "closing", "completing", "done"}
Controls == [requested : BOOLEAN, sent : BOOLEAN, writer : {"none", "running", "ok", "error"},
             of : Host!Attempts \cup {0}]
Readers == [pc : {"none", "reading", "storing", "failing", "done"}, accepted : Nat, stored : Nat,
            ended : BOOLEAN]
Watches == [pc : Places, timedOut : BOOLEAN, cancelled : BOOLEAN, killed : BOOLEAN]
Jobs    == [receipt : BOOLEAN, forced : BOOLEAN, closed : BOOLEAN]
Lines   == {"event", "terminal", "bad"}

HostTyped ==
    /\ Owned \in BOOLEAN /\ owner \in Host!Attempts \cup {0} /\ 0 \notin Host!Attempts
    /\ file \subseteq Host!Attempts /\ failure \subseteq Host!Attempts /\ asked \subseteq Host!Attempts
    /\ loose = {} /\ control \in Controls
    /\ proc \in [Host!Attempts -> {"none", "alive", "clean", "dirty"}]
    /\ pipe \in [Host!Attempts -> Seq(Lines)]
    /\ reader \in [Host!Attempts -> Readers]
    /\ watch \in [Host!Attempts -> Watches]
    /\ DOMAIN result = Host!Attempts
    /\ job \in [Host!Attempts -> Jobs]

\* The cancellation is the owner's, and somebody asked for it.
Scoped ==
    /\ control.writer # "none" => control.of = owner /\ owner \in asked \cup failure
    /\ control.sent = TRUE => control.requested = TRUE
    /\ control.requested = TRUE => owner \in asked \cup failure
    /\ file \subseteq asked \cup failure

Ended(a)   == reader[a].pc \in {"none", "done"}
Silent(a)  == proc[a] # "alive" /\ Ended(a) /\ ~(control.writer = "running" /\ control.of = a)
Decided(a) == watch[a].pc \in {"closing", "completing", "retained", "done"}

\* What the reader has made of the lines so far.
Reads(a) ==
    /\ reader[a].pc = "reading" => reader[a].stored = reader[a].accepted
    /\ reader[a].pc = "done" => a \in failure \/ reader[a].stored = reader[a].accepted
    /\ reader[a].pc = "storing" => reader[a].accepted = reader[a].stored + 1
    /\ reader[a].pc = "failing" => a \in failure
    /\ reader[a].pc = "done" => a \in failure \/ (pipe[a] = <<>> /\ proc[a] # "alive")
    /\ reader[a].pc = "none" => reader[a].ended = FALSE /\ reader[a].stored = reader[a].accepted

Whole(a) ==
    result[a] = "completed" =>
        /\ Decided(a) /\ reader[a].pc = "done" /\ reader[a].ended = TRUE /\ proc[a] = "clean"
        /\ a \notin failure /\ watch[a].timedOut = FALSE /\ ~(Owned /\ job[a].forced = TRUE)

\* One attempt: only the owner's is not silent, and what confirms an end keeps
\* being true of it.
Fine(a) ==
    /\ owner # a => proc[a] # "alive" /\ Ended(a)
    /\ watch[a].pc = "none" => proc[a] = "none" /\ reader[a].pc = "none" /\ owner # a
                               /\ job[a].receipt = FALSE /\ result[a] = "none"
    /\ watch[a].pc = "joining" => proc[a] # "alive"
    /\ watch[a].pc = "completing" \/ job[a].receipt = TRUE => Silent(a)
    /\ watch[a].pc = "stopping" => a \in asked \cup failure
    /\ Reads(a) /\ Whole(a)

HostInv == HostTyped /\ Scoped /\ \A a \in Host!Attempts : Fine(a)

LEMMA HostStarts == ASSUME Host!HostConstants, Host!Init PROVE HostInv
<1>1. 0 \notin Host!Attempts
  BY DEF Host!Attempts, Host!HostConstants
<1>2. Host!FreshControl \in Controls /\ Host!IdleReader \in Readers /\ Host!IdleWatch \in Watches
      /\ Host!NoJob \in Jobs
  BY DEF Controls, Readers, Watches, Jobs, Places, Host!FreshControl, Host!IdleReader,
     Host!IdleWatch, Host!NoJob
<1>3. HostTyped
  BY <1>1, <1>2 DEF Host!Init, HostTyped, Host!HostConstants
<1>4. Scoped
  BY DEF Host!Init, Host!FreshControl, Scoped
<1>5. \A a \in Host!Attempts : Fine(a)
  BY <1>1 DEF Host!Init, Fine, Ended, Silent, Reads, Whole, Host!IdleReader, Host!IdleWatch, Host!NoJob
<1>6. QED
  BY <1>3, <1>4, <1>5 DEF HostInv

\* What a step of attempt a leaves alone.
Elsewhere(a) ==
    /\ \A b \in Host!Attempts : b # a =>
           proc'[b] = proc[b] /\ pipe'[b] = pipe[b] /\ reader'[b] = reader[b] /\ watch'[b] = watch[b]
           /\ result'[b] = result[b] /\ job'[b] = job[b] /\ (b \in failure' <=> b \in failure)
    /\ asked \subseteq asked' /\ failure \subseteq failure'
    /\ (owner' = owner /\ control' = control) \/ (owner \in {0, a} /\ owner' \in {0, a})

LEMMA OthersAreFine ==
    ASSUME HostInv, NEW a \in Host!Attempts, Elsewhere(a), Scoped',
           NEW b \in Host!Attempts, b # a
    PROVE  Fine(b)'
<1>1. Fine(b) /\ 0 \notin Host!Attempts
  BY DEF HostInv, HostTyped
<1>2. /\ proc'[b] = proc[b] /\ pipe'[b] = pipe[b] /\ reader'[b] = reader[b] /\ watch'[b] = watch[b]
      /\ result'[b] = result[b] /\ job'[b] = job[b] /\ (b \in failure' <=> b \in failure)
      /\ (b \in asked => b \in asked') /\ b # 0
  BY <1>1 DEF Elsewhere
<1>3. Silent(b) => Silent(b)'
  <2>1. CASE control' = control
    BY <1>2, <2>1 DEF Silent, Ended
  <2>2. CASE owner' \in {0, a}
    BY <1>2, <2>2 DEF Silent, Ended, Scoped
  <2>3. QED
    BY <2>1, <2>2 DEF Elsewhere
<1>4. (owner # b => proc[b] # "alive" /\ Ended(b))'
  <2>1. owner' # b => owner # b
    BY <1>2 DEF Elsewhere
  <2>2. QED
    BY <1>1, <1>2, <2>1 DEF Fine, Ended
<1>5. (watch[b].pc = "none" => owner # b)'
  BY <1>1, <1>2 DEF Fine, Elsewhere
<1>6. Reads(b)' /\ Whole(b)'
  BY <1>1, <1>2 DEF Fine, Reads, Whole, Decided
<1>7. QED
  BY <1>1, <1>2, <1>3, <1>4, <1>5, <1>6 DEF Fine

\* What is left to show of a step: the shapes, the scope and the attempt itself.
LEMMA OneAttemptMoves ==
    ASSUME HostInv, NEW a \in Host!Attempts, Elsewhere(a), HostTyped', Scoped', Fine(a)'
    PROVE  HostInv'
<1>1. \A b \in Host!Attempts : Fine(b)'
  BY OthersAreFine
<1>2. QED
  BY <1>1 DEF HostInv

LEMMA GoesTo ==
    ASSUME HostTyped, NEW a \in Host!Attempts, NEW p \in Places, Host!Goes(a, p)
    PROVE  /\ watch' \in [Host!Attempts -> Watches] /\ watch'[a].pc = p
           /\ watch'[a].timedOut = watch[a].timedOut
           /\ \A b \in Host!Attempts : b # a => watch'[b] = watch[b]
<1> DEFINE y == [watch[a] EXCEPT !.pc = p]
<1>1. y \in Watches /\ y.pc = p /\ y.timedOut = watch[a].timedOut
  BY DEF HostTyped, Watches
<1>2. watch' = [watch EXCEPT ![a] = y]
  BY DEF Host!Goes
<1> HIDE DEF y
<1>3. QED
  BY <1>1, <1>2 DEF HostTyped

LEMMA SendCancelScoped ==
    ASSUME HostTyped, Scoped, NEW a \in Host!Attempts, NEW raised, Host!SendCancel(a, raised),
           owner' = owner, a \in asked' \cup failure', asked \subseteq asked', failure \subseteq failure'
    PROVE  /\ control' \in Controls /\ file' \subseteq Host!Attempts /\ Scoped'
           /\ (owner # a \/ proc[a] # "alive") => control' = control
<1>1. CASE owner # a \/ proc[a] # "alive" \/ control.sent = TRUE
  <2>1. control' = control /\ file' = file
    BY <1>1 DEF Host!SendCancel, Host!Alive
  <2>2. QED
    BY <2>1 DEF HostTyped, Scoped
<1>2. CASE owner = a /\ proc[a] = "alive" /\ control.sent = FALSE
  <2>1. \/ /\ control' = [control EXCEPT !.requested = TRUE, !.sent = TRUE, !.writer = "none", !.of = 0]
           /\ file' = file \cup {a}
        \/ /\ control' = [control EXCEPT !.requested = TRUE, !.writer = "none", !.of = 0]
           /\ file' = file
        \/ /\ control' = [control EXCEPT !.requested = TRUE, !.writer = "running", !.of = a]
           /\ file' = file
    BY <1>2 DEF Host!SendCancel, Host!Alive
  <2>2. /\ control' \in Controls /\ control'.requested = TRUE
        /\ control'.writer # "none" => control'.of = a
    BY <2>1 DEF HostTyped, Controls
  <2>3. file' \subseteq file \cup {a}
    BY <2>1
  <2>4. QED
    BY <1>2, <2>2, <2>3 DEF Scoped, HostTyped
<1>3. QED
  BY <1>1, <1>2 DEF HostTyped, Controls

LEMMA LaunchKeeps ==
    ASSUME HostInv, NEW a \in Host!Attempts,
           Host!Launch(a) \/ Host!NotStarted(a) \/ Host!NotDelivered(a)
    PROVE  HostInv'
<1>1. HostTyped /\ Scoped /\ Fine(a) /\ owner = 0 /\ watch[a].pc = "none" /\ 0 \notin Host!Attempts
  BY DEF HostInv, HostTyped, Host!Launch, Host!NotStarted, Host!NotDelivered, Host!Starts, Host!Pc
<1>2. control.writer = "none" /\ control.requested = FALSE
  BY <1>1 DEF Scoped, HostTyped, Controls
<1>3. /\ proc[a] = "none" /\ reader[a].pc = "none" /\ job[a].receipt = FALSE /\ result[a] = "none"
      /\ reader[a].ended = FALSE
  BY <1>1 DEF Fine, Reads
<1>4. Host!FreshControl \in Controls /\ Host!FreshControl.writer = "none"
      /\ Host!FreshControl.requested = FALSE /\ Host!FreshControl.sent = FALSE
  BY DEF Controls, Host!FreshControl
<1>5. /\ file' = file /\ pipe' = pipe /\ failure' = failure /\ result' = result /\ job' = job
      /\ asked' = asked /\ loose' = loose /\ owner' \in {0, a}
      /\ control' = control \/ control' = Host!FreshControl
  BY DEF Host!Launch, Host!NotStarted, Host!NotDelivered
<1>6. Scoped'
  BY <1>1, <1>2, <1>4, <1>5 DEF Scoped, HostTyped, Controls
<1>7. /\ watch' \in [Host!Attempts -> Watches] /\ watch'[a].pc \in {"watching", "refused"}
      /\ \A b \in Host!Attempts : b # a => watch'[b] = watch[b]
  <2>1. "watching" \in Places /\ "refused" \in Places
    BY DEF Places
  <2>2. QED
    BY <1>1, <2>1, GoesTo DEF Host!Launch, Host!NotStarted, Host!NotDelivered
<1>8. CASE Host!Launch(a)
  <2> DEFINE y == [reader[a] EXCEPT !.pc = "reading"]
  <2>1. y \in Readers /\ y.pc = "reading" /\ y.accepted = reader[a].accepted /\ y.stored = reader[a].stored
    BY <1>1 DEF HostTyped, Readers
  <2>2. reader' = [reader EXCEPT ![a] = y] /\ proc' = [proc EXCEPT ![a] = "alive"] /\ owner' = a
        /\ watch'[a].pc = "watching"
    BY <1>1, <1>8, GoesTo DEF Host!Launch, Places
  <2> HIDE DEF y
  <2>3. HostTyped'
    BY <1>1, <1>4, <1>5, <1>7, <2>1, <2>2 DEF HostTyped
  <2>4. Elsewhere(a)
    BY <1>1, <1>5, <1>7, <2>1, <2>2 DEF Elsewhere, HostTyped
  <2>5. reader'[a] = y /\ proc'[a] = "alive" /\ job'[a] = job[a] /\ result'[a] = result[a]
        /\ reader[a].stored = reader[a].accepted
    BY <1>1, <1>3, <1>5, <2>2 DEF HostTyped, Fine, Reads
  <2>6. Fine(a)'
    BY <1>3, <2>1, <2>2, <2>5 DEF Fine, Ended, Silent, Reads, Whole
  <2>7. QED
    BY <1>6, <2>3, <2>4, <2>6, OneAttemptMoves
<1>9. CASE Host!NotStarted(a) \/ Host!NotDelivered(a)
  <2>1. watch'[a].pc = "refused" /\ reader' = reader
    BY <1>1, <1>9, GoesTo DEF Host!NotStarted, Host!NotDelivered, Places
  <2>2. /\ proc' = proc \/ \E k \in {"alive", "dirty"} : proc' = [proc EXCEPT ![a] = k]
        /\ owner' # a => proc' = proc \/ proc' = [proc EXCEPT ![a] = "dirty"]
    BY <1>9 DEF Host!NotStarted, Host!NotDelivered
  <2>3. HostTyped'
    BY <1>1, <1>4, <1>5, <1>7, <2>1, <2>2 DEF HostTyped
  <2>4. Elsewhere(a)
    BY <1>1, <1>5, <1>7, <2>1, <2>2 DEF Elsewhere, HostTyped
  <2>5. /\ reader'[a] = reader[a] /\ job'[a] = job[a] /\ result'[a] = result[a] /\ failure' = failure
        /\ owner' # a => proc'[a] # "alive"
    BY <1>1, <1>3, <1>5, <2>1, <2>2 DEF HostTyped
  <2>6. Fine(a)'
    BY <1>1, <1>3, <2>1, <2>5 DEF Fine, Ended, Silent, Reads, Whole
  <2>7. QED
    BY <1>6, <2>3, <2>4, <2>6, OneAttemptMoves
<1>10. QED
  BY <1>8, <1>9

\* The runner prints, or ends.
LEMMA RunnerKeeps ==
    ASSUME HostInv, NEW a \in Host!Attempts,
           \/ \E l \in Lines : Host!PrintLine(a, l)
           \/ \E k \in {"clean", "dirty"} : Host!Exits(a, k)
           \/ Host!Dies(a)
    PROVE  HostInv'
<1>1. HostTyped /\ Scoped /\ Fine(a) /\ proc[a] = "alive"
  BY DEF HostInv, Host!PrintLine, Host!Exits, Host!Dies, Host!Alive
<1>2. /\ owner' = owner /\ control' = control /\ file' = file /\ reader' = reader /\ failure' = failure
      /\ watch' = watch /\ result' = result /\ job' = job /\ asked' = asked /\ loose' = loose
  BY DEF Host!PrintLine, Host!Exits, Host!Dies
<1>3. /\ pipe' = pipe \/ \E l \in Lines : pipe' = [pipe EXCEPT ![a] = Append(@, l)] /\ proc' = proc
      /\ proc' = proc \/ \E k \in {"clean", "dirty"} : proc' = [proc EXCEPT ![a] = k]
  BY DEF Host!PrintLine, Host!Exits, Host!Dies
<1>4. /\ pipe' \in [Host!Attempts -> Seq(Lines)] /\ \A b \in Host!Attempts : b # a => pipe'[b] = pipe[b]
      /\ pipe'[a] = pipe[a] \/ proc'[a] = "alive"
  <2>1. CASE pipe' = pipe
    BY <1>1, <2>1 DEF HostTyped
  <2>2. CASE \E l \in Lines : pipe' = [pipe EXCEPT ![a] = Append(@, l)] /\ proc' = proc
    <3>1. PICK l \in Lines : pipe' = [pipe EXCEPT ![a] = Append(@, l)] /\ proc' = proc
      BY <2>2
    <3> DEFINE y == Append(pipe[a], l)
    <3>2. y \in Seq(Lines) /\ pipe' = [pipe EXCEPT ![a] = y]
      BY <1>1, <3>1 DEF HostTyped
    <3> HIDE DEF y
    <3>3. QED
      BY <1>1, <3>1, <3>2 DEF HostTyped
  <2>3. QED
    BY <1>3, <2>1, <2>2
<1>5. /\ proc' \in [Host!Attempts -> {"none", "alive", "clean", "dirty"}]
      /\ \A b \in Host!Attempts : b # a => proc'[b] = proc[b]
  BY <1>1, <1>3 DEF HostTyped
<1>6. HostTyped'
  BY <1>1, <1>2, <1>4, <1>5 DEF HostTyped
<1>7. Elsewhere(a)
  BY <1>2, <1>4, <1>5 DEF Elsewhere
<1>8. Scoped'
  BY <1>1, <1>2 DEF Scoped
<1>9. Fine(a)'
  <2>1. /\ owner = a /\ watch[a].pc \notin {"none", "joining", "completing"} /\ job[a].receipt = FALSE
        /\ result[a] # "completed" /\ (reader[a].pc = "done" => a \in failure)
    BY <1>1 DEF Fine, Silent, Whole, Reads, HostTyped, Jobs
  <2>2. QED
    BY <1>1, <1>2, <2>1 DEF Fine, Reads, Whole, Ended, Silent
<1>10. QED
  BY <1>6, <1>7, <1>8, <1>9, OneAttemptMoves

\* A late or repeated cancellation, and the thread that writes it.
LEMMA CancelKeeps ==
    ASSUME HostInv, NEW a \in Host!Attempts, Host!Cancel(a)
    PROVE  HostInv'
<1>1. HostTyped /\ Scoped /\ Fine(a)
  BY DEF HostInv
<1>2. /\ owner' = owner /\ proc' = proc /\ pipe' = pipe /\ reader' = reader /\ failure' = failure
      /\ watch' = watch /\ result' = result /\ job' = job /\ loose' = loose
      /\ asked' = asked \cup {a}
  BY DEF Host!Cancel
<1>3. /\ control' \in Controls /\ file' \subseteq Host!Attempts /\ Scoped'
      /\ (owner # a \/ proc[a] # "alive") => control' = control
  <2>1. CASE owner = a
    <3>1. PICK raised \in BOOLEAN : Host!SendCancel(a, raised)
      BY <2>1 DEF Host!Cancel, Host!Cancels
    <3>2. QED
      BY <1>1, <1>2, <3>1, SendCancelScoped
  <2>2. CASE owner # a
    <3>1. control' = control /\ file' = file
      BY <2>2 DEF Host!Cancel, Host!Cancels
    <3>2. QED
      BY <1>1, <1>2, <3>1 DEF Scoped, HostTyped
  <2>3. QED
    BY <2>1, <2>2
<1>4. HostTyped'
  BY <1>1, <1>2, <1>3 DEF HostTyped
<1>5. Elsewhere(a)
  BY <1>1, <1>2, <1>3 DEF Elsewhere
<1>6. Fine(a)'
  BY <1>1, <1>2, <1>3 DEF Fine, Silent, Ended, Reads, Whole, Decided
<1>7. QED
  BY <1>3, <1>4, <1>5, <1>6, OneAttemptMoves

LEMMA WriterKeeps ==
    ASSUME HostInv, NEW w \in {"ok", "error"}, Host!WriterEnds(w)
    PROVE  HostInv'
<1>1. HostTyped /\ Scoped /\ control.writer = "running" /\ control.of = owner /\ owner \in asked \cup failure
  BY DEF HostInv, Scoped, Host!WriterEnds
<1>2. /\ owner' = owner /\ proc' = proc /\ pipe' = pipe /\ reader' = reader /\ failure' = failure
      /\ watch' = watch /\ result' = result /\ job' = job /\ loose' = loose /\ asked' = asked
      /\ control' = [control EXCEPT !.writer = w] /\ file' \subseteq file \cup {control.of}
  BY DEF Host!WriterEnds
<1>3. control' \in Controls /\ control'.of = owner /\ control'.requested = control.requested
      /\ control'.sent = control.sent /\ control'.writer # "running"
  BY <1>1, <1>2 DEF HostTyped, Controls
<1>4. HostTyped' /\ Scoped'
  BY <1>1, <1>2, <1>3 DEF HostTyped, Scoped
<1>5. ASSUME NEW b \in Host!Attempts PROVE Fine(b)'
  <2>1. Fine(b)
    BY DEF HostInv
  <2>2. QED
    BY <1>2, <1>3, <2>1 DEF Fine, Silent, Ended, Reads, Whole, Decided
<1>6. QED
  BY <1>4, <1>5 DEF HostInv

\* The reader: it takes a line, hands it on, or gives up.
LEMMA ReaderKeeps ==
    ASSUME HostInv, NEW a \in Host!Attempts,
           Host!ReadLine(a) \/ Host!Store(a) \/ Host!EndOfPipe(a)
    PROVE  HostInv'
<1>1. HostTyped /\ Scoped /\ Fine(a) /\ reader[a] \in Readers /\ reader[a].pc \in {"reading", "storing"}
  BY DEF HostInv, HostTyped, Host!ReadLine, Host!Store, Host!EndOfPipe
<1>2. /\ owner' = owner /\ control' = control /\ file' = file /\ proc' = proc /\ watch' = watch
      /\ result' = result /\ job' = job /\ asked' = asked /\ loose' = loose
  BY DEF Host!ReadLine, Host!Store, Host!EndOfPipe
<1>3. PICK y \in Readers :
          /\ reader' = [reader EXCEPT ![a] = y]
          /\ \/ /\ reader[a].pc = "reading" /\ y.pc = "failing" /\ failure' = failure \cup {a}
             \/ /\ reader[a].pc = "reading" /\ y.pc = "storing" /\ failure' = failure
                /\ y.accepted = reader[a].accepted + 1 /\ y.stored = reader[a].stored
             \/ /\ reader[a].pc = "storing" /\ y.pc = "reading" /\ failure' = failure
                /\ y.stored = reader[a].stored + 1 /\ y.accepted = reader[a].accepted
                /\ pipe' = pipe
             \/ /\ reader[a].pc = "storing" /\ y.pc = "failing" /\ failure' = failure \cup {a}
             \/ /\ reader[a].pc = "reading" /\ y.pc = "done" /\ failure' = failure /\ pipe' = pipe
                /\ pipe[a] = <<>> /\ proc[a] # "alive" /\ y.ended = reader[a].ended
                /\ y.accepted = reader[a].accepted /\ y.stored = reader[a].stored
  <2>1. CASE Host!ReadLine(a)
    <3>1. CASE Host!Refused(a, Head(pipe[a]))
      <4> DEFINE y == [reader[a] EXCEPT !.pc = "failing"]
      <4>1. y \in Readers /\ y.pc = "failing"
        BY <1>1 DEF Readers
      <4>2. reader' = [reader EXCEPT ![a] = y] /\ reader[a].pc = "reading" /\ failure' = failure \cup {a}
        BY <2>1, <3>1 DEF Host!ReadLine
      <4> HIDE DEF y
      <4>3. QED
        BY <4>1, <4>2
    <3>2. CASE ~Host!Refused(a, Head(pipe[a]))
      <4> DEFINE e == (Head(pipe[a]) = "terminal")
                 n == reader[a].accepted + 1
                 y == [reader[a] EXCEPT !.pc = "storing", !.accepted = n, !.ended = e]
      <4>1. e \in BOOLEAN /\ n \in Nat /\ n = reader[a].accepted + 1
        BY <1>1 DEF Readers
      <4>2. reader' = [reader EXCEPT ![a].pc = "storing", ![a].accepted = n, ![a].ended = e]
            /\ reader[a].pc = "reading" /\ failure' = failure
        BY <1>1, <2>1, <3>2 DEF Host!ReadLine, HostTyped, Readers
      <4> HIDE DEF e, n
      <4>3. y \in Readers /\ y.pc = "storing" /\ y.accepted = reader[a].accepted + 1
            /\ y.stored = reader[a].stored
        BY <1>1, <4>1 DEF Readers
      <4>4. reader' = [reader EXCEPT ![a] = y]
        BY <1>1, <4>2 DEF HostTyped, Readers
      <4> HIDE DEF y
      <4>5. QED
        BY <4>2, <4>3, <4>4
    <3>3. QED
      BY <3>1, <3>2
  <2>2. CASE Host!Store(a)
    <3>1. CASE /\ reader' = [reader EXCEPT ![a].pc = "reading", ![a].stored = @ + 1]
               /\ failure' = failure
      <4> DEFINE n == reader[a].stored + 1
                 y == [reader[a] EXCEPT !.pc = "reading", !.stored = n]
      <4> n \in Nat /\ n = reader[a].stored + 1
        BY <1>1 DEF Readers
      <4>1. reader' = [reader EXCEPT ![a] = y]
        BY <1>1, <3>1 DEF HostTyped, Readers
      <4> HIDE DEF n
      <4>2. y \in Readers /\ y.pc = "reading" /\ y.stored = reader[a].stored + 1
            /\ y.accepted = reader[a].accepted
        BY <1>1 DEF Readers
      <4>3. reader[a].pc = "storing" /\ pipe' = pipe
        BY <2>2 DEF Host!Store
      <4> HIDE DEF y
      <4>4. QED
        BY <3>1, <4>2, <4>1, <4>3
    <3>2. CASE reader' = [reader EXCEPT ![a].pc = "failing"] /\ failure' = failure \cup {a}
      <4> DEFINE y == [reader[a] EXCEPT !.pc = "failing"]
      <4>1. y \in Readers /\ y.pc = "failing"
        BY <1>1 DEF Readers
      <4>2. reader' = [reader EXCEPT ![a] = y] /\ reader[a].pc = "storing"
        BY <2>2, <3>2 DEF Host!Store
      <4> HIDE DEF y
      <4>3. QED
        BY <3>2, <4>1, <4>2
    <3>3. QED
      BY <2>2, <3>1, <3>2 DEF Host!Store
  <2>3. CASE Host!EndOfPipe(a)
    <3> DEFINE y == [reader[a] EXCEPT !.pc = "done"]
    <3>1. y \in Readers /\ y.pc = "done" /\ y.ended = reader[a].ended
          /\ y.accepted = reader[a].accepted /\ y.stored = reader[a].stored
      BY <1>1 DEF Readers
    <3>2. reader' = [reader EXCEPT ![a] = y] /\ reader[a].pc = "reading" /\ failure' = failure
          /\ pipe' = pipe /\ pipe[a] = <<>> /\ proc[a] # "alive"
      BY <2>3 DEF Host!EndOfPipe, Host!Alive
    <3> HIDE DEF y
    <3>3. QED
      BY <3>1, <3>2
  <2>4. QED
    BY <2>1, <2>2, <2>3
<1>4. /\ pipe' \in [Host!Attempts -> Seq(Lines)] /\ \A b \in Host!Attempts : b # a => pipe'[b] = pipe[b]
  <2>1. CASE pipe' = pipe
    BY <1>1, <2>1 DEF HostTyped
  <2>2. CASE Host!ReadLine(a)
    <3> DEFINE tail == Tail(pipe[a])
    <3>1. tail \in Seq(Lines) /\ pipe' = [pipe EXCEPT ![a] = tail]
      BY <1>1, <2>2 DEF HostTyped, Host!ReadLine
    <3> HIDE DEF tail
    <3>2. QED
      BY <1>1, <3>1 DEF HostTyped
  <2>3. QED
    BY <2>1, <2>2 DEF Host!Store, Host!EndOfPipe
<1>5. reader'[a] = y /\ reader' \in [Host!Attempts -> Readers]
      /\ \A b \in Host!Attempts : b # a => reader'[b] = reader[b]
  BY <1>1, <1>3 DEF HostTyped
<1>6. failure \subseteq failure' /\ failure' \subseteq failure \cup {a}
  BY <1>3
<1>7. HostTyped'
  BY <1>1, <1>2, <1>4, <1>5, <1>6 DEF HostTyped
<1>8. Elsewhere(a)
  BY <1>2, <1>4, <1>5, <1>6 DEF Elsewhere
<1>9. Scoped'
  BY <1>1, <1>2, <1>6 DEF Scoped
<1>10. Fine(a)'
  <2>1. /\ owner = a /\ watch[a].pc \notin {"none", "completing"} /\ job[a].receipt = FALSE
        /\ result[a] # "completed"
    BY <1>1 DEF Fine, Silent, Ended, Whole, HostTyped, Jobs
  <2>2. reader[a].accepted \in Nat /\ reader[a].stored \in Nat /\ reader'[a] = y /\ proc' = proc
        /\ Reads(a)
    BY <1>1, <1>2, <1>5 DEF Fine, Readers
  <2>3. Reads(a)'
    BY <1>3, <2>2 DEF Reads
  <2>4. QED
    BY <1>1, <1>2, <1>6, <2>1, <2>3 DEF Fine, Whole, Ended, Silent
<1>11. QED
  BY <1>7, <1>8, <1>9, <1>10, OneAttemptMoves

LEMMA ReportKeeps ==
    ASSUME HostInv, NEW a \in Host!Attempts, Host!ReportFailure(a)
    PROVE  HostInv'
<1>1. HostTyped /\ Scoped /\ Fine(a) /\ reader[a] \in Readers /\ reader[a].pc = "failing" /\ a \in failure
  BY DEF HostInv, HostTyped, Host!ReportFailure, Fine, Reads
<1>2. /\ owner' = owner /\ proc' = proc /\ pipe' = pipe /\ failure' = failure
      /\ watch' = watch /\ result' = result /\ job' = job /\ loose' = loose
      /\ asked' = asked \cup {a}
  BY DEF Host!ReportFailure
<1> DEFINE y == [reader[a] EXCEPT !.pc = "done"]
<1>3. y \in Readers /\ y.pc = "done"
  BY <1>1 DEF Readers
<1>4. reader' = [reader EXCEPT ![a] = y]
  BY DEF Host!ReportFailure
<1> HIDE DEF y
<1>5. /\ control' \in Controls /\ file' \subseteq Host!Attempts /\ Scoped'
      /\ (owner # a \/ proc[a] # "alive") => control' = control
  <2>1. PICK raised \in BOOLEAN : Host!SendCancel(a, raised)
    BY DEF Host!ReportFailure
  <2>2. QED
    BY <1>1, <1>2, <2>1, SendCancelScoped
<1>6. reader'[a] = y /\ reader' \in [Host!Attempts -> Readers]
      /\ \A b \in Host!Attempts : b # a => reader'[b] = reader[b]
  BY <1>1, <1>3, <1>4 DEF HostTyped
<1>7. HostTyped'
  BY <1>1, <1>2, <1>5, <1>6 DEF HostTyped
<1>8. Elsewhere(a)
  <2>1. owner \in {0, a}
    BY <1>1 DEF Fine, Ended
  <2>2. QED
    BY <1>2, <1>6, <2>1 DEF Elsewhere
<1>9. Fine(a)'
  <2>1. watch[a].pc \notin {"none", "completing"} /\ job[a].receipt = FALSE /\ result[a] # "completed"
        /\ owner = a
    BY <1>1 DEF Fine, Silent, Ended, Whole, HostTyped, Jobs
  <2>2. QED
    BY <1>1, <1>2, <1>3, <1>6, <2>1 DEF Fine, Silent, Ended, Reads, Whole
<1>10. QED
  BY <1>5, <1>7, <1>8, <1>9, OneAttemptMoves

\* A step of the watcher that moves only the watcher, its result and the history.
LEMMA WatchMoves ==
    ASSUME HostInv, NEW a \in Host!Attempts, NEW w \in Watches, watch' = [watch EXCEPT ![a] = w],
           owner' = owner, control' = control, file' = file, proc' = proc, pipe' = pipe,
           reader' = reader, failure' = failure, job' = job, loose' = loose,
           DOMAIN result' = Host!Attempts, \A b \in Host!Attempts : b # a => result'[b] = result[b],
           asked \subseteq asked', asked' \subseteq asked \cup {a},
           w.pc \notin {"none", "joining"}, w.pc = "completing" => Silent(a),
           w.pc = "stopping" => a \in asked' \cup failure, Whole(a)'
    PROVE  HostInv'
<1>1. HostTyped /\ Scoped /\ Fine(a) /\ watch'[a] = w
  BY DEF HostInv, HostTyped
<1>2. watch' \in [Host!Attempts -> Watches] /\ \A b \in Host!Attempts : b # a => watch'[b] = watch[b]
  BY <1>1 DEF HostTyped
<1>3. HostTyped'
  BY <1>1, <1>2 DEF HostTyped
<1>4. Elsewhere(a)
  BY <1>2 DEF Elsewhere
<1>5. Scoped'
  BY <1>1 DEF Scoped
<1>6. Fine(a)'
  BY <1>1 DEF Fine, Silent, Ended, Reads
<1>7. QED
  BY <1>3, <1>4, <1>5, <1>6, OneAttemptMoves

LEMMA NoticeKeeps ==
    ASSUME HostInv, NEW a \in Host!Attempts, Host!Notice(a)
    PROVE  HostInv'
<1>1. HostTyped /\ Scoped /\ Fine(a) /\ watch[a].pc = "watching" /\ watch[a] \in Watches
  BY DEF HostInv, HostTyped, Host!Notice, Host!Pc
<1>2. result[a] # "completed"
  BY <1>1 DEF Fine, Whole, Decided
<1>3. PICK w \in Watches :
          /\ watch' = [watch EXCEPT ![a] = w] /\ w.pc \in {"exited", "stopping"}
          /\ w.pc = "stopping" => a \in asked' \cup failure
  <2>1. CASE Host!Goes(a, "exited")
    <3> DEFINE w == [watch[a] EXCEPT !.pc = "exited"]
    <3>1. w \in Watches /\ w.pc = "exited"
      BY <1>1 DEF Watches, Places
    <3>2. watch' = [watch EXCEPT ![a] = w]
      BY <2>1 DEF Host!Goes
    <3> HIDE DEF w
    <3>3. QED
      BY <3>1, <3>2
  <2>2. CASE /\ proc[a] = "alive" /\ (control.requested = TRUE \/ control.sent = TRUE)
             /\ watch' = [watch EXCEPT ![a].pc = "stopping", ![a].cancelled = TRUE]
             /\ asked' = asked
    <3> DEFINE w == [watch[a] EXCEPT !.pc = "stopping", !.cancelled = TRUE]
    <3>1. w \in Watches /\ w.pc = "stopping"
      BY <1>1 DEF Watches, Places
    <3>2. watch' = [watch EXCEPT ![a] = w]
      BY <1>1, <2>2 DEF HostTyped, Watches
    <3> HIDE DEF w
    <3>3. a \in asked \cup failure
      BY <1>1, <2>2 DEF Scoped, Fine
    <3>4. QED
      BY <2>2, <3>1, <3>2, <3>3
  <2>3. CASE /\ watch' = [watch EXCEPT ![a].pc = "stopping", ![a].timedOut = TRUE]
             /\ asked' = asked \cup {a}
    <3> DEFINE w == [watch[a] EXCEPT !.pc = "stopping", !.timedOut = TRUE]
    <3>1. w \in Watches /\ w.pc = "stopping"
      BY <1>1 DEF Watches, Places
    <3>2. watch' = [watch EXCEPT ![a] = w]
      BY <1>1, <2>3 DEF HostTyped, Watches
    <3> HIDE DEF w
    <3>3. QED
      BY <2>3, <3>1, <3>2
  <2>4. CASE Host!Goes(a, "stopping") /\ a \in failure
    <3> DEFINE w == [watch[a] EXCEPT !.pc = "stopping"]
    <3>1. w \in Watches /\ w.pc = "stopping"
      BY <1>1 DEF Watches, Places
    <3>2. watch' = [watch EXCEPT ![a] = w]
      BY <2>4 DEF Host!Goes
    <3> HIDE DEF w
    <3>3. QED
      BY <2>4, <3>1, <3>2
  <2>5. control.requested \in BOOLEAN /\ control.sent \in BOOLEAN
    BY <1>1 DEF HostTyped, Controls
  <2>6. QED
    BY <2>1, <2>2, <2>3, <2>4, <2>5 DEF Host!Notice, Host!Alive
<1>4. /\ owner' = owner /\ control' = control /\ file' = file /\ proc' = proc /\ pipe' = pipe
      /\ reader' = reader /\ failure' = failure /\ result' = result /\ job' = job /\ loose' = loose
      /\ asked \subseteq asked' /\ asked' \subseteq asked \cup {a}
  BY DEF Host!Notice
<1>5. Whole(a)' /\ DOMAIN result' = Host!Attempts
  BY <1>1, <1>2, <1>4 DEF Whole, HostTyped
<1>6. QED
  BY <1>3, <1>4, <1>5, WatchMoves

\* The waits, the result, and what the watcher does with it.
LEMMA WatcherKeeps ==
    ASSUME HostInv, NEW a \in Host!Attempts,
           Host!Wait(a) \/ Host!Decide(a) \/ Host!Crashed(a) \/ Host!Close(a) \/ Host!Completed(a)
    PROVE  HostInv'
<1>1. HostTyped /\ Scoped /\ Fine(a) /\ watch[a] \in Watches
  BY DEF HostInv, HostTyped
<1>2. /\ owner' = owner /\ control' = control /\ file' = file /\ proc' = proc /\ pipe' = pipe
      /\ reader' = reader /\ failure' = failure /\ job' = job /\ loose' = loose /\ asked' = asked
  BY DEF Host!Wait, Host!Decide, Host!Crashed, Host!Close, Host!Completed
<1>3. /\ DOMAIN result' = Host!Attempts
      /\ \A b \in Host!Attempts : b # a => result'[b] = result[b]
  BY <1>1 DEF HostTyped, Host!Wait, Host!Decide, Host!Crashed, Host!Close, Host!Completed
<1>4. CASE Host!Wait(a)
  <2>1. watch[a].pc \in {"waiting", "terminated", "killed"} /\ result' = result
    BY <1>4 DEF Host!Wait, Host!AfterWait
  <2>2. PICK w \in Watches : watch' = [watch EXCEPT ![a] = w]
                             /\ w.pc \in {"exited", "terminated", "killed", "crashed"}
    <3>1. CASE proc[a] # "alive"
      <4> DEFINE w == [watch[a] EXCEPT !.pc = "exited"]
      <4>1. w \in Watches /\ w.pc = "exited"
        BY <1>1 DEF Watches, Places
      <4>2. watch' = [watch EXCEPT ![a] = w]
        BY <1>4, <3>1 DEF Host!Wait, Host!Goes, Host!Alive
      <4> HIDE DEF w
      <4>3. QED
        BY <4>1, <4>2
    <3>2. CASE proc[a] = "alive"
      <4> DEFINE p == Host!AfterWait[watch[a].pc]
                 k == (p # "crashed" \/ watch[a].killed)
                 w == [watch[a] EXCEPT !.pc = p, !.killed = k]
      <4>1. p \in {"terminated", "killed", "crashed"} /\ p \in Places /\ k \in BOOLEAN
        BY <1>1, <2>1 DEF Host!AfterWait, Places, Watches
      <4>2. watch' = [watch EXCEPT ![a].pc = p, ![a].killed = k]
        BY <1>1, <1>4, <3>2 DEF Host!Wait, Host!Alive, HostTyped, Watches
      <4> HIDE DEF p, k
      <4>3. w \in Watches /\ w.pc = p
        BY <1>1, <4>1 DEF Watches
      <4>4. watch' = [watch EXCEPT ![a] = w]
        BY <1>1, <4>2 DEF HostTyped, Watches
      <4> HIDE DEF w
      <4>5. QED
        BY <4>1, <4>3, <4>4
    <3>3. QED
      BY <3>1, <3>2
  <2>3. Whole(a)'
    BY <1>1, <2>1 DEF Fine, Whole, Decided
  <2>4. QED
    BY <1>2, <1>3, <2>2, <2>3, WatchMoves
<1>5. CASE ~Host!Wait(a)
  <2>1. PICK p \in {"closing", "retained", "completing", "done"} :
            /\ Host!Goes(a, p)
            /\ p = "completing" => Silent(a)
    <3>1. Host!Quiet(a) => Silent(a)
      BY <1>1 DEF Host!Quiet, Host!Alive, Host!Drained, Host!WritingFor, Silent, Ended
    <3>2. QED
      BY <1>5, <3>1 DEF Host!Decide, Host!Crashed, Host!Close, Host!Completed
  <2> DEFINE w == [watch[a] EXCEPT !.pc = p]
  <2>2. w \in Watches /\ w.pc = p /\ w.timedOut = watch[a].timedOut
    BY <1>1, <2>1 DEF Watches, Places
  <2>3. watch' = [watch EXCEPT ![a] = w]
    BY <2>1 DEF Host!Goes
  <2> HIDE DEF w
  <2>4. watch'[a] = w
    BY <1>1, <2>3 DEF HostTyped
  <2>5. Whole(a)'
    <3>1. CASE result'[a] = result[a]
      BY <1>1, <1>2, <2>1, <2>2, <2>4, <3>1 DEF Fine, Whole, Decided
    <3>2. CASE Host!Crashed(a)
      BY <1>1, <3>2 DEF Host!Crashed, HostTyped, Whole
    <3>3. CASE Host!Decide(a) /\ Host!MayDecide(a)
      <4>1. result'[a] = Host!Outcome(a) /\ p = "closing"
        BY <1>1, <2>2, <2>4, <3>3, GoesTo DEF Host!Decide, HostTyped, Places
      <4>2. result'[a] = "completed" =>
                /\ a \notin failure /\ watch[a].timedOut = FALSE /\ reader[a].ended = TRUE
                /\ proc[a] = "clean" /\ ~(Owned /\ job[a].forced = TRUE)
        BY <1>1, <4>1 DEF Host!Outcome, HostTyped, Watches, Readers, Jobs
      <4>3. reader[a].pc = "done" \/ reader[a].ended = FALSE
        BY <1>1, <3>3 DEF Host!MayDecide, Host!Drained, Fine, Reads
      <4>4. QED
        BY <1>2, <2>2, <2>4, <4>1, <4>2, <4>3 DEF Whole, Decided
    <3>4. QED
      BY <1>5, <3>1, <3>2, <3>3 DEF Host!Decide, Host!Close, Host!Completed
  <2>6. QED
    BY <1>2, <1>3, <2>1, <2>2, <2>3, <2>5, WatchMoves
<1>6. QED
  BY <1>4, <1>5

\* The watcher asks the runner to stop, or stops its Job.
LEMMA StopKeeps ==
    ASSUME HostInv, NEW a \in Host!Attempts, Host!Stop(a)
    PROVE  HostInv'
<1>1. HostTyped /\ Scoped /\ Fine(a) /\ watch[a].pc = "stopping" /\ a \in asked \cup failure
  BY DEF HostInv, Host!Stop, Host!Pc, Fine
<1>2. /\ owner' = owner /\ proc' = proc /\ pipe' = pipe /\ reader' = reader /\ failure' = failure
      /\ result' = result /\ job' = job /\ loose' = loose /\ asked' = asked
  BY DEF Host!Stop
<1>3. /\ control' \in Controls /\ file' \subseteq Host!Attempts /\ Scoped'
      /\ (owner # a \/ proc[a] # "alive") => control' = control
  <2>1. CASE proc[a] = "alive"
    <3>1. PICK raised \in BOOLEAN : Host!SendCancel(a, raised)
      BY <2>1 DEF Host!Stop, Host!Alive
    <3>2. QED
      BY <1>1, <1>2, <3>1, SendCancelScoped
  <2>2. CASE proc[a] # "alive"
    <3>1. control' = control /\ file' = file
      BY <2>2 DEF Host!Stop, Host!Alive
    <3>2. QED
      BY <1>1, <1>2, <3>1 DEF Scoped, HostTyped
  <2>3. QED
    BY <2>1, <2>2
<1>4. PICK p \in {"crashed", "job", "waiting", "exited"} : Host!Goes(a, p)
  BY DEF Host!Stop, Host!WaitNext
<1>5. /\ watch' \in [Host!Attempts -> Watches] /\ watch'[a].pc = p
      /\ \A b \in Host!Attempts : b # a => watch'[b] = watch[b]
  BY <1>1, <1>4, GoesTo DEF Places
<1>6. HostTyped'
  BY <1>1, <1>2, <1>3, <1>5 DEF HostTyped
<1>7. Elsewhere(a)
  BY <1>1, <1>2, <1>3, <1>5 DEF Elsewhere, Fine
<1>8. Fine(a)'
  <2>1. result[a] # "completed"
    BY <1>1 DEF Fine, Whole, Decided
  <2>2. job[a].receipt = TRUE => proc[a] # "alive"
    BY <1>1 DEF Fine, Silent
  <2>3. QED
    BY <1>1, <1>2, <1>3, <1>5, <2>1, <2>2 DEF Fine, Silent, Ended, Reads, Whole
<1>9. QED
  BY <1>3, <1>6, <1>7, <1>8, OneAttemptMoves

LEMMA JobKeeps ==
    ASSUME HostInv, NEW a \in Host!Attempts, Host!StopJob(a) \/ Host!JoinJob(a)
    PROVE  HostInv'
<1>1. HostTyped /\ Scoped /\ Fine(a) /\ watch[a].pc \in {"job", "exited", "joining"} /\ job[a] \in Jobs
  BY DEF HostInv, HostTyped, Host!StopJob, Host!JoinJob, Host!Pc
<1>2. /\ owner' = owner /\ control' = control /\ file' = file /\ pipe' = pipe /\ reader' = reader
      /\ failure' = failure /\ result' = result /\ loose' = loose /\ asked' = asked
  BY DEF Host!StopJob, Host!JoinJob
<1>3. result[a] # "completed"
  BY <1>1 DEF Fine, Whole, Decided
<1>4. PICK p \in {"joining", "retained", "exited"}, k \in {"none", "alive", "clean", "dirty"}, j \in Jobs :
          /\ Host!Goes(a, p)
          /\ proc' = [proc EXCEPT ![a] = k] /\ (k = "alive" => proc[a] = "alive")
          /\ job' = [job EXCEPT ![a] = j]
          /\ p = "joining" => k # "alive"
          /\ k # proc[a] => k = "dirty" /\ proc[a] = "alive"
          /\ j.receipt = TRUE => Silent(a) /\ k = proc[a]
  <2>1. CASE Host!StopJob(a) /\ ~Host!Goes(a, "retained")
    <3> DEFINE k == IF proc[a] = "alive" THEN "dirty" ELSE proc[a]
    <3>1. k \in {"none", "clean", "dirty"} /\ (k # proc[a] => k = "dirty" /\ proc[a] = "alive")
      BY <1>1 DEF HostTyped
    <3>2. PICK rest \in BOOLEAN :
              job' = [job EXCEPT ![a].forced = @ \/ Host!Alive(a) \/ rest]
      BY <2>1 DEF Host!StopJob
    <3> DEFINE f == (job[a].forced \/ Host!Alive(a) \/ rest)
               j == [job[a] EXCEPT !.forced = f]
    <3>3. f \in BOOLEAN
      OBVIOUS
    <3>4. proc' = [proc EXCEPT ![a] = k] /\ Host!Goes(a, "joining") /\ ~job[a].receipt
      BY <2>1 DEF Host!StopJob, Host!Alive
    <3>5. job' = [job EXCEPT ![a].forced = f]
      BY <1>1, <3>2 DEF HostTyped, Jobs
    <3> HIDE DEF k, f
    <3>6. j \in Jobs /\ j.receipt = FALSE
      BY <1>1, <3>3, <3>4 DEF Jobs
    <3>7. job' = [job EXCEPT ![a] = j]
      BY <1>1, <3>5 DEF HostTyped, Jobs
    <3> HIDE DEF j
    <3>8. QED
      BY <3>1, <3>4, <3>6, <3>7
  <2>2. CASE Host!Goes(a, "retained") /\ proc' = proc /\ job' = job
    <3>1. job[a].receipt = TRUE => Silent(a)
      BY <1>1 DEF Fine
    <3>2. proc' = [proc EXCEPT ![a] = proc[a]] /\ job' = [job EXCEPT ![a] = job[a]]
      BY <1>1, <2>2 DEF HostTyped
    <3>3. proc[a] \in {"none", "alive", "clean", "dirty"}
      BY <1>1 DEF HostTyped
    <3>4. QED
      BY <1>1, <2>2, <3>1, <3>2, <3>3
  <2>3. CASE Host!JoinJob(a) /\ ~Host!Goes(a, "retained")
    <3> DEFINE j == [job[a] EXCEPT !.receipt = TRUE]
    <3>1. j \in Jobs
      BY <1>1 DEF Jobs
    <3>2. job' = [job EXCEPT ![a] = j] /\ Host!Goes(a, "exited")
      BY <2>3 DEF Host!JoinJob
    <3>3. Silent(a)
      BY <1>1, <2>3 DEF Host!JoinJob, Host!Pc, Host!Drained, Host!WritingFor, Silent, Ended, Fine
    <3> HIDE DEF j
    <3>4. proc' = [proc EXCEPT ![a] = proc[a]] /\ proc[a] \in {"none", "alive", "clean", "dirty"}
      BY <1>1, <2>3 DEF Host!JoinJob, HostTyped
    <3>5. QED
      BY <3>1, <3>2, <3>3, <3>4
  <2>4. ~(Host!Goes(a, "retained") /\ (Host!Goes(a, "joining") \/ Host!Goes(a, "exited")))
    BY <1>1, GoesTo DEF Places
  <2>5. QED
    BY <2>1, <2>2, <2>3, <2>4 DEF Host!StopJob, Host!JoinJob
<1>5. /\ watch' \in [Host!Attempts -> Watches] /\ watch'[a].pc = p
      /\ \A b \in Host!Attempts : b # a => watch'[b] = watch[b]
  BY <1>1, <1>4, GoesTo DEF Places
<1>6. /\ proc' \in [Host!Attempts -> {"none", "alive", "clean", "dirty"}] /\ proc'[a] = k
      /\ \A b \in Host!Attempts : b # a => proc'[b] = proc[b]
  BY <1>1, <1>4 DEF HostTyped
<1>7. /\ job' \in [Host!Attempts -> Jobs] /\ job'[a] = j
      /\ \A b \in Host!Attempts : b # a => job'[b] = job[b]
  BY <1>1, <1>4 DEF HostTyped
<1>8. HostTyped'
  BY <1>1, <1>2, <1>5, <1>6, <1>7 DEF HostTyped
<1>9. Elsewhere(a)
  BY <1>2, <1>5, <1>6, <1>7 DEF Elsewhere
<1>10. Scoped'
  BY <1>1, <1>2 DEF Scoped
<1>11. Fine(a)'
  BY <1>1, <1>2, <1>3, <1>4, <1>5, <1>6, <1>7 DEF Fine, Silent, Ended, Reads, Whole
<1>12. QED
  BY <1>8, <1>9, <1>10, <1>11, OneAttemptMoves

\* What both ways of giving the desktop back do.
LEMMA ReleaseKeeps ==
    ASSUME HostInv, NEW a \in Host!Attempts, owner = a, Silent(a), watch[a].pc # "none", Host!Released(a),
           proc' = proc, pipe' = pipe, reader' = reader, failure' = failure, watch' = watch,
           result' = result, asked' = asked
    PROVE  HostInv'
<1>1. HostTyped /\ Scoped /\ Fine(a) /\ job[a] \in Jobs /\ Owned \in BOOLEAN
  BY DEF HostInv, HostTyped
<1>2. owner' = 0 /\ control' = Host!FreshControl /\ loose' = loose /\ file' \subseteq file
  BY DEF Host!Released, Host!WritingFor, Silent
<1>3. Host!FreshControl \in Controls /\ Host!FreshControl.writer = "none"
      /\ Host!FreshControl.requested = FALSE /\ Host!FreshControl.sent = FALSE
  BY DEF Controls, Host!FreshControl
<1> DEFINE j == [job[a] EXCEPT !.closed = Owned]
<1>4. j \in Jobs /\ j.receipt = job[a].receipt /\ j.forced = job[a].forced
  BY <1>1 DEF Jobs
<1>5. job' = [job EXCEPT ![a] = j]
  BY DEF Host!Released
<1> HIDE DEF j
<1>6. /\ job' \in [Host!Attempts -> Jobs] /\ job'[a] = j
      /\ \A b \in Host!Attempts : b # a => job'[b] = job[b]
  BY <1>1, <1>4, <1>5 DEF HostTyped
<1>7. HostTyped'
  BY <1>1, <1>2, <1>3, <1>6 DEF HostTyped
<1>8. Elsewhere(a)
  BY <1>1, <1>2, <1>6 DEF Elsewhere
<1>9. Scoped'
  BY <1>1, <1>2, <1>3 DEF Scoped
<1>10. Fine(a)'
  BY <1>1, <1>2, <1>3, <1>4, <1>6 DEF Fine, Silent, Ended, Reads, Whole, Decided
<1>11. QED
  BY <1>7, <1>8, <1>9, <1>10, OneAttemptMoves

LEMMA HandOffKeeps ==
    ASSUME HostInv, NEW a \in Host!Attempts, Host!HandOff(a)
    PROVE  HostInv'
<1>1. watch[a].pc = "completing" /\ owner = a /\ Host!Released(a)
  BY DEF Host!HandOff, Host!MayHandOff, Host!Pc
<1>2. Silent(a)
  BY <1>1 DEF HostInv, Fine
<1>3. QED
  BY <1>1, <1>2, ReleaseKeeps DEF Host!HandOff

\* The Manager's recovery: it stops the Job, confirms it, or gives it back.
LEMMA RecoverKeeps ==
    ASSUME HostInv, NEW a \in Host!Attempts, Host!Recover(a)
    PROVE  HostInv'
<1>1. HostTyped /\ Scoped /\ Fine(a) /\ job[a] \in Jobs /\ owner = a /\ watch[a].pc # "none"
      /\ watch[a].pc # "completing"
  BY DEF HostInv, HostTyped, Host!Recover, Host!Pc
<1>2. /\ pipe' = pipe /\ reader' = reader /\ failure' = failure /\ watch' = watch /\ result' = result
      /\ asked' = asked
  BY DEF Host!Recover
<1>3. CASE job[a].receipt = TRUE /\ Host!Released(a) /\ proc' = proc
  <2>1. Silent(a)
    BY <1>1, <1>3 DEF Fine
  <2>2. QED
    BY <1>1, <1>2, <1>3, <2>1, ReleaseKeeps
<1>4. CASE \/ /\ job[a].receipt = FALSE /\ proc[a] = "alive"
              /\ proc' = [proc EXCEPT ![a] = "dirty"]
              /\ job' = [job EXCEPT ![a].forced = TRUE]
              /\ owner' = owner /\ control' = control /\ file' = file /\ loose' = loose
           \/ /\ job[a].receipt = FALSE /\ Silent(a)
              /\ job' = [job EXCEPT ![a].receipt = TRUE]
              /\ owner' = owner /\ control' = control /\ file' = file /\ proc' = proc /\ loose' = loose
  <2>1. PICK j \in Jobs :
            /\ job' = [job EXCEPT ![a] = j]
            /\ j.receipt = TRUE => Silent(a) /\ proc' = proc
            /\ proc' = proc => j.forced = job[a].forced
    <3> DEFINE f == [job[a] EXCEPT !.forced = TRUE]
               r == [job[a] EXCEPT !.receipt = TRUE]
    <3>1. f \in Jobs /\ r \in Jobs /\ r.forced = job[a].forced /\ f.receipt = job[a].receipt
      BY <1>1 DEF Jobs
    <3>2. \/ job' = [job EXCEPT ![a] = f] /\ proc' = [proc EXCEPT ![a] = "dirty"] /\ proc[a] = "alive"
             /\ job[a].receipt = FALSE
          \/ job' = [job EXCEPT ![a] = r] /\ proc' = proc /\ Silent(a)
      BY <1>4
    <3> HIDE DEF f, r
    <3>3. [proc EXCEPT ![a] = "dirty"] # proc \/ proc[a] = "dirty"
      BY <1>1 DEF HostTyped
    <3>4. QED
      BY <3>1, <3>2, <3>3
  <2>2. /\ job' \in [Host!Attempts -> Jobs] /\ job'[a] = j
        /\ \A b \in Host!Attempts : b # a => job'[b] = job[b]
    BY <1>1, <2>1 DEF HostTyped
  <2>3. /\ proc' \in [Host!Attempts -> {"none", "alive", "clean", "dirty"}]
        /\ \A b \in Host!Attempts : b # a => proc'[b] = proc[b]
        /\ proc' = proc \/ (proc[a] = "alive" /\ proc'[a] = "dirty")
    BY <1>1, <1>4 DEF HostTyped
  <2>4. owner' = owner /\ control' = control /\ file' = file /\ loose' = loose
    BY <1>4
  <2>5. HostTyped'
    BY <1>1, <1>2, <2>2, <2>3, <2>4 DEF HostTyped
  <2>6. Elsewhere(a)
    BY <1>2, <2>2, <2>3, <2>4 DEF Elsewhere
  <2>7. Scoped'
    BY <1>1, <1>2, <2>4 DEF Scoped
  <2>8. Fine(a)'
    BY <1>1, <1>2, <2>1, <2>2, <2>3, <2>4 DEF Fine, Silent, Ended, Reads, Whole, Decided
  <2>9. QED
    BY <2>5, <2>6, <2>7, <2>8, OneAttemptMoves
<1>5. QED
  <2>1. job[a].receipt \in BOOLEAN
    BY <1>1 DEF Jobs
  <2>2. CASE job[a].receipt = TRUE
    BY <1>3, <2>2 DEF Host!Recover
  <2>3. CASE job[a].receipt = FALSE
    BY <1>4, <2>3 DEF Host!Recover, Host!Alive, Host!Drained, Host!WritingFor, Silent, Ended
  <2>4. QED
    BY <2>1, <2>2, <2>3

LEMMA HostSteps ==
    ASSUME HostInv, [Host!Next]_(Host!hostVars)
    PROVE  HostInv'
<1>1. CASE UNCHANGED Host!hostVars
  BY <1>1 DEF Host!hostVars, HostInv, HostTyped, Scoped, Fine, Silent, Ended, Reads, Whole, Decided
<1>2. ASSUME NEW a \in Host!Attempts, Host!Reader(a)
      PROVE  HostInv'
  BY <1>2, ReaderKeeps, ReportKeeps DEF Host!Reader
<1>3. ASSUME NEW a \in Host!Attempts, Host!Watcher(a)
      PROVE  HostInv'
  BY <1>3, NoticeKeeps, StopKeeps, JobKeeps, WatcherKeeps DEF Host!Watcher
<1>4. QED
  BY <1>1, <1>2, <1>3, LaunchKeeps, RunnerKeeps, CancelKeeps, WriterKeeps, HandOffKeeps, RecoverKeeps
     DEF Host!Next, Lines

LEMMA HostInvWatches == ASSUME HostInv PROVE Host!Watched
<1>1. HostTyped /\ Scoped
  BY DEF HostInv
<1>2. Host!ReleasedIsQuiet
  BY <1>1 DEF HostInv, HostTyped, Scoped, Fine, Ended, Host!ReleasedIsQuiet
<1>3. Host!CompletedIsWhole
  BY DEF HostInv, Fine, Whole, Reads, Host!CompletedIsWhole
<1>4. Host!StopIsScoped
  BY <1>1 DEF Scoped, HostTyped, Controls, Host!StopIsScoped
<1>5. QED
  BY <1>2, <1>3, <1>4 DEF Host!Watched

\* Only the two ways of giving the desktop back change an owner.
LEMMA OwnerMoves ==
    ASSUME HostInv, [Host!Next]_(Host!hostVars)
    PROVE  Host!OwnerStep
<1>1. SUFFICES ASSUME owner # 0, owner' # owner
               PROVE  owner \in handed' \ handed \/ (Owned /\ job[owner].receipt)
  BY DEF Host!OwnerStep
<1>2. PICK a \in Host!Attempts : Host!HandOff(a) \/ Host!Recover(a)
  BY <1>1 DEF Host!Next, Host!hostVars, Host!Launch, Host!NotStarted, Host!NotDelivered, Host!Starts,
     Host!PrintLine, Host!Exits, Host!Dies, Host!Cancel, Host!WriterEnds, Host!Reader, Host!ReadLine,
     Host!Store, Host!ReportFailure, Host!EndOfPipe, Host!Watcher, Host!Notice, Host!Stop, Host!Wait,
     Host!StopJob, Host!JoinJob, Host!Decide, Host!Crashed, Host!Close, Host!Completed
<1>3. CASE Host!HandOff(a)
  BY <1>3 DEF Host!HandOff, Host!MayHandOff
<1>4. CASE Host!Recover(a)
  BY <1>1, <1>4 DEF Host!Recover
<1>5. QED
  BY <1>2, <1>3, <1>4

HostSafe == []Host!Watched /\ [][Host!OwnerStep]_(Host!hostVars)

\* Of a process owner of any number of attempts and lines, with and without
\* owned input: who is not the owner any more is quiet, only a whole run is
\* reported completed, a stop reaches its own attempt and no other, and the
\* desktop only leaves its owner by the one-use handoff or after a receipt.
THEOREM HostIsSafe ==
    ASSUME Host!HostConstants
    PROVE  Host!Spec => HostSafe
<1>1. Host!Init => HostInv
  BY HostStarts
<1>2. HostInv /\ [Host!Next]_(Host!hostVars) => HostInv'
  BY HostSteps
<1>3. HostInv => Host!Watched
  BY HostInvWatches
<1>4. HostInv /\ [Host!Next]_(Host!hostVars) => Host!OwnerStep
  BY OwnerMoves
<1>5. QED
  BY <1>1, <1>2, <1>3, <1>4, PTL DEF Host!Spec, HostSafe
=============================================================================
