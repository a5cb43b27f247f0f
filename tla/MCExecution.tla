---------------------------- MODULE MCExecution ----------------------------
(***************************************************************************)
(* The Manager's side of one Adapter execution, checked in one run: the    *)
(* parser of the runner's events, the owner of the Host process, the       *)
(* executor of owned input, the rules of desktop input, the evidence of a  *)
(* Todo and the import of its artifacts.                                   *)
(*                                                                         *)
(* The parts share no variable, so a behaviour of all of them interleaves  *)
(* one behaviour of each.  subject names the part that moves, and the      *)
(* variables of the others are Off; a part with two instances has two sets *)
(* of bounds.                                                              *)
(***************************************************************************)
EXTENDS AdapterStream

CONSTANTS Open, Off, None, Torn

VARIABLES subject,
  owner, control, file, proc, hostPipe, hostReader, failure, watch, hostResult, hostJob,
  handed, asked, loose,
  root, helpers, bound, writer, reader, inside, gate, receipt, closed, final, stop,
  now, controllers, bindings, focuses, frames, receipts, replays,
  unknown, chain, blockers,
  attempt, aside, try, refs, journal, rows, files, staged, open, pc, ev, frame, seen, got,
  profile, edited, cycled, served, foreign, writes

\* One attempt in a Windows Job whose runner prints three lines.
Host == INSTANCE HostWatch WITH Last <- 1, MaxLines <- 3, Owned <- TRUE, ControlFails <- TRUE,
  pipe <- hostPipe, reader <- hostReader, result <- hostResult, job <- hostJob

\* Two attempts, one after the other, without a Job.
Hosts == INSTANCE HostWatch WITH Last <- 2, MaxLines <- 0, Owned <- FALSE, ControlFails <- TRUE,
  pipe <- hostPipe, reader <- hostReader, result <- hostResult, job <- hostJob

Input == INSTANCE OwnedInput WITH MaxHelpers <- 1

\* Two leases of each kind; a chain of three checkpoints; two blockers.
Rules == INSTANCE ExecutionControl WITH Requests <- {"x1"}, MaxTime <- 2, Late <- 1,
  ControllerLife <- 3, FocusLives <- {2}, MaxFacts <- 2
Chain == INSTANCE TodoEvidence WITH Codes <- {"k1"}, MaxTime <- 2, MaxProgress <- 2,
  MaxChain <- 3, MaxBlockers <- 0, MaxRevisions <- 0
Blockers == INSTANCE TodoEvidence WITH Codes <- {"k1", "k2"}, MaxTime <- 2, MaxProgress <- 0,
  MaxChain <- 0, MaxBlockers <- 2, MaxRevisions <- 3

\* A runner that rewrites its files, and somebody who changes the Manager's;
\* the Manager's own frames; two Todos and the user's edits of the profile.
Files == INSTANCE ArtifactImport WITH Todos <- {"t1"}, Names <- {"n"}, Images <- {"a"},
  Logs <- {"b", "e"}, Empty <- {"e"}, Profiles <- {"p"}, Frozen <- "p", Captures <- FALSE,
  MaxPerTodo <- 1, MaxRunBytes <- 1, MaxEvents <- 4, MaxWrites <- 2, MaxForeign <- 1, MaxEdits <- 0
Frames == INSTANCE ArtifactImport WITH Todos <- {"t1"}, Names <- {"n"}, Images <- {"a"},
  Logs <- {}, Empty <- {}, Profiles <- {"p"}, Frozen <- "p", Captures <- TRUE,
  MaxPerTodo <- 2, MaxRunBytes <- 4, MaxEvents <- 5, MaxWrites <- 1, MaxForeign <- 0, MaxEdits <- 0
Both == INSTANCE ArtifactImport WITH Todos <- {"t1", "t2"}, Names <- {"n"}, Images <- {"a"},
  Logs <- {}, Empty <- {}, Profiles <- {"p", "q"}, Frozen <- "p", Captures <- TRUE,
  MaxPerTodo <- 1, MaxRunBytes <- 4, MaxEvents <- 3, MaxWrites <- 1, MaxForeign <- 0, MaxEdits <- 1

hostVs == <<owner, control, file, proc, hostPipe, hostReader, failure, watch, hostResult, hostJob,
  handed, asked, loose>>
inputVs == <<root, helpers, bound, writer, reader, inside, gate, receipt, closed, final, stop>>
ruleVs == <<controllers, bindings, focuses, frames, receipts, replays>>
evidenceVs == <<unknown, chain, blockers>>
fileVs == <<attempt, aside, try, refs, journal, rows, files, staged, open, pc, ev, frame, seen, got,
  profile, edited, cycled, served, foreign, writes>>

HostOff ==
  /\ owner = Off /\ control = Off /\ file = Off /\ proc = Off /\ hostPipe = Off
  /\ hostReader = Off /\ failure = Off /\ watch = Off /\ hostResult = Off /\ hostJob = Off
  /\ handed = Off /\ asked = Off /\ loose = Off
InputOff ==
  /\ root = Off /\ helpers = Off /\ bound = Off /\ writer = Off /\ reader = Off
  /\ inside = Off /\ gate = Off /\ receipt = Off /\ closed = Off /\ final = Off /\ stop = Off
RulesOff ==
  /\ controllers = Off /\ bindings = Off /\ focuses = Off /\ frames = Off /\ receipts = Off
  /\ replays = Off
EvidenceOff == unknown = Off /\ chain = Off /\ blockers = Off
FilesOff ==
  /\ attempt = Off /\ aside = Off /\ try = Off /\ refs = Off /\ journal = Off /\ rows = Off
  /\ files = Off /\ staged = Off /\ open = Off /\ pc = Off /\ ev = Off /\ frame = Off
  /\ seen = Off /\ got = Off /\ profile = Off /\ edited = Off /\ cycled = Off /\ served = Off
  /\ foreign = Off /\ writes = Off

MCInit ==
  /\ Init
  /\ \/ /\ \/ subject = "stream" /\ HostOff /\ InputOff /\ RulesOff /\ EvidenceOff /\ now = Off
           \/ subject = "host" /\ Host!Init /\ InputOff /\ RulesOff /\ EvidenceOff /\ now = Off
           \/ subject = "hosts" /\ Hosts!Init /\ InputOff /\ RulesOff /\ EvidenceOff /\ now = Off
           \/ subject = "input" /\ Input!Init /\ HostOff /\ RulesOff /\ EvidenceOff /\ now = Off
           \/ subject = "rules" /\ Rules!Init /\ HostOff /\ InputOff /\ EvidenceOff
           \/ subject = "chain" /\ Chain!Init /\ HostOff /\ InputOff /\ RulesOff
           \/ subject = "blockers" /\ Blockers!Init /\ HostOff /\ InputOff /\ RulesOff
        /\ FilesOff
     \/ /\ \/ subject = "files" /\ Files!Init
           \/ subject = "frames" /\ Frames!Init
           \/ subject = "both" /\ Both!Init
        /\ HostOff /\ InputOff /\ RulesOff /\ EvidenceOff /\ now = Off

MCNext ==
  \/ subject = "stream" /\ Next
     /\ UNCHANGED <<subject, hostVs, inputVs, now, ruleVs, evidenceVs, fileVs>>
  \/ /\ \/ subject = "host" /\ Host!Next
        \/ subject = "hosts" /\ Hosts!Next
     /\ UNCHANGED <<subject, vars, inputVs, now, ruleVs, evidenceVs, fileVs>>
  \/ subject = "input" /\ Input!Next
     /\ UNCHANGED <<subject, vars, hostVs, now, ruleVs, evidenceVs, fileVs>>
  \/ subject = "rules" /\ Rules!Next
     /\ UNCHANGED <<subject, vars, hostVs, inputVs, evidenceVs, fileVs>>
  \/ /\ \/ subject = "chain" /\ Chain!Next
        \/ subject = "blockers" /\ Blockers!Next
     /\ UNCHANGED <<subject, vars, hostVs, inputVs, ruleVs, fileVs>>
  \/ /\ \/ subject = "files" /\ Files!Next
        \/ subject = "frames" /\ Frames!Next
        \/ subject = "both" /\ Both!Next
     /\ UNCHANGED <<subject, vars, hostVs, inputVs, now, ruleVs, evidenceVs>>

MCSpec == MCInit /\ [][MCNext]_<<subject, vars, hostVs, inputVs, now, ruleVs, evidenceVs, fileVs>>

ASSUME /\ Host!HostConstants /\ Hosts!HostConstants /\ Rules!ExecutionControlAssumption
       /\ Chain!TodoEvidenceAssumption /\ Blockers!TodoEvidenceAssumption
       /\ Files!ImportAssumption /\ Frames!ImportAssumption /\ Both!ImportAssumption

---------------------------------------------------------------------------
(* Every variable of every part has the shape its comment says.            *)
TypesOK ==
  /\ subject = "stream" => TypeOK
  /\ subject = "host" => Host!TypeOK
  /\ subject = "hosts" => Hosts!TypeOK
  /\ subject = "input" => Input!TypeOK
  /\ subject = "rules" => Rules!TypeOK
  /\ subject = "chain" => Chain!TypeOK
  /\ subject = "blockers" => Blockers!TypeOK
  /\ subject = "files" => Files!TypeOK
  /\ subject = "frames" => Frames!TypeOK
  /\ subject = "both" => Both!TypeOK

(* A Host process that is released is quiet and was believed only for a    *)
(* whole output; a stop reaches the attempt it was meant for, and the      *)
(* desktop changes hands once (AdapterHost's watcher and reader threads).  *)
HostSafe ==
  /\ []((subject = "host" => Host!Watched) /\ (subject = "hosts" => Hosts!Watched))
  /\ [][(subject = "host" => Host!OwnerStep) /\ (subject = "hosts" => Hosts!OwnerStep)]_owner

(* A quiet receipt is the truth and stays it, and the recovery never       *)
(* closes the execution under a callback (OwnedInputExecution).            *)
InputSafe ==
  /\ [](subject = "input" => Input!ReceiptIsQuiet)
  /\ [][subject = "input" => Input!ReceiptStep]_inputVs

(* Screenshots follow the fence, every action lies in one uninterrupted    *)
(* hold of the desktop and has its own screenshots, and an action is sent  *)
(* again only while nobody else has touched the desktop                    *)
(* (services/execution_control.py).                                        *)
InputFenced ==
  /\ [](subject = "rules" => Rules!Fenced)
  /\ [][subject = "rules" => Rules!ReplayStep]_replays

(* What is proven of a Todo only grows, and an ambiguous blocker goes back *)
(* to an action of unknown effect (services/execution_control.py).         *)
EvidenceSound ==
  (subject = "chain" => Chain!Sound) /\ (subject = "blockers" => Blockers!Sound)

(* An artifact is what its event declared, whole, within the limits and    *)
(* committed with its event, and what ends a Todo cites its own            *)
(* (services/adapter_artifacts.py, Manager._handle_adapter_event).         *)
ArtifactsSafe ==
  /\ subject = "files" => Files!ArtifactsSafe /\ Files!BytesKept
  /\ subject = "frames" => Frames!ArtifactsSafe /\ Frames!BytesKept
  /\ subject = "both" => Both!ArtifactsSafe /\ Both!BytesKept
=============================================================================
