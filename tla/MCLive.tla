------------------------------- MODULE MCLive -------------------------------
(***************************************************************************)
(* What must come to an end, checked in one run: a start of the Manager, a *)
(* Host that was stopped, the drain of an execution with owned input, and  *)
(* mail that is being sent.  subject names the part that moves in a        *)
(* behaviour; the variables of the others are Absent.                      *)
(***************************************************************************)
EXTENDS ManagerStart, Sequences, Integers

CONSTANT Absent

VARIABLES subject,
  owner, control, file, proc, pipe, reader, failure, watch, result, job, handed, asked, loose,
  root, helpers, bound, writer, jobReader, inside, gate, receipt, closed, final, stop,
  row, files, policy, profile, today, settled, everSettled, draft, sender, tick, request,
  mail, confirms, sentBy, reboots

Host == INSTANCE HostWatch WITH Last <- 1, MaxLines <- 1, Owned <- FALSE, ControlFails <- FALSE

Input == INSTANCE OwnedInput WITH MaxHelpers <- 1, reader <- jobReader

Mail == INSTANCE NotificationOutbox WITH NumNotes <- 1, MaxDay <- 2, MaxCrashes <- 1,
  Owing <- {}, Scopes <- {"game_day"}, Operators <- {},
  secret <- profile, crashes <- reboots, asked <- sentBy

hostVs == <<owner, control, file, proc, pipe, reader, failure, watch, result, job, handed,
  asked, loose>>
inputVs == <<root, helpers, bound, writer, jobReader, inside, gate, receipt, closed, final, stop>>
mailVs == <<row, files, policy, profile, today, settled, everSettled, draft, sender, tick,
  request, mail, confirms, sentBy, reboots>>

StartOff ==
  /\ host = [h \in Hosts |-> "none"] /\ manager = host /\ restarts = 0 /\ record = NoOne
  /\ recordLock = NoOne /\ secret = {} /\ lifecycle = "free" /\ launchFile = "absent"
  /\ starter = Absent /\ launched = Absent /\ round = 0 /\ crashes = Absent
HostOff ==
  /\ owner = Absent /\ control = Absent /\ file = Absent /\ proc = Absent /\ pipe = Absent
  /\ reader = Absent /\ failure = Absent /\ watch = Absent /\ result = Absent /\ job = Absent
  /\ handed = Absent /\ asked = Absent /\ loose = Absent
InputOff ==
  /\ root = Absent /\ helpers = Absent /\ bound = Absent /\ writer = Absent /\ jobReader = Absent
  /\ inside = Absent /\ gate = Absent /\ receipt = Absent /\ closed = Absent /\ final = Absent
  /\ stop = Absent
MailOff ==
  /\ row = Absent /\ files = Absent /\ policy = Absent /\ profile = Absent /\ today = Absent
  /\ settled = Absent /\ everSettled = Absent /\ draft = Absent /\ sender = Absent
  /\ tick = Absent /\ request = Absent /\ mail = Absent /\ confirms = Absent
  /\ sentBy = Absent /\ reboots = Absent

(* Hosts are interchangeable and launched in order.                        *)
HostsInOrder == \A h \in Hosts \ {1} : host'[h] # "none" => host'[h - 1] # "none"

MCInit ==
  \/ subject = "start" /\ Init /\ HostOff /\ InputOff /\ MailOff
  \/ subject = "host" /\ Host!Init /\ StartOff /\ InputOff /\ MailOff
  \/ subject = "input" /\ Input!Init /\ StartOff /\ HostOff /\ MailOff
  \/ subject = "mail" /\ Mail!Init /\ StartOff /\ HostOff /\ InputOff

MCNext ==
  \/ subject = "start" /\ Next /\ HostsInOrder /\ UNCHANGED <<subject, hostVs, inputVs, mailVs>>
  \/ subject = "host" /\ Host!Next /\ UNCHANGED <<subject, vars, inputVs, mailVs>>
  \/ subject = "input" /\ Input!Next /\ UNCHANGED <<subject, vars, hostVs, mailVs>>
  \/ subject = "mail" /\ Mail!Next /\ UNCHANGED <<subject, vars, hostVs, inputVs>>

(* The fairness of each part (FairSpec of its module), while it moves.     *)
StartFair ==
  /\ \A s \in Starters : WF_vars(subject = "start" /\ InStart(s))
  /\ WF_vars(subject = "start" /\ starter[Tray] = "start" /\ Start(Tray))
  /\ WF_vars(subject = "start" /\ StopStranger)
  /\ WF_vars(subject = "start" /\ ExitTimesOut) /\ WF_vars(subject = "start" /\ Pair)
HostFair ==
  /\ WF_hostVs(subject = "host" /\ Host!Watcher(1)) /\ WF_hostVs(subject = "host" /\ Host!Reader(1))
  /\ WF_hostVs(subject = "host" /\ Host!Dies(1))
  /\ WF_hostVs(subject = "host" /\ \E w \in {"ok", "error"} : Host!WriterEnds(w))
InputFair ==
  /\ WF_inputVs(subject = "input" /\ Input!WriterEnds)
  /\ WF_inputVs(subject = "input" /\ Input!ReaderRuns)
  /\ SF_inputVs(subject = "input" /\ Input!ReaderEnds)
  /\ \A w \in {"reader", "other"} : WF_inputVs(subject = "input" /\ Input!Leave(w))
  /\ WF_inputVs(subject = "input" /\ Input!Finalized)
  /\ WF_inputVs(subject = "input" /\ Input!Begin("recovery"))
  /\ SF_inputVs(subject = "input" /\ Input!Observe("recovery"))
  /\ SF_inputVs(subject = "input" /\ Input!Terminate("recovery"))
  /\ SF_inputVs(subject = "input" /\ Input!Join("recovery"))
  /\ SF_inputVs(subject = "input" /\ Input!Issue("recovery"))
MailFair ==
  /\ WF_mailVs(subject = "mail" /\ Mail!Dispatcher) /\ WF_mailVs(subject = "mail" /\ Mail!Watchdog)
  /\ WF_mailVs(subject = "mail" /\ Mail!LeaseExpires(1))

FairMCSpec ==
  /\ MCInit /\ [][MCNext]_<<subject, vars, hostVs, inputVs, mailVs>>
  /\ StartFair /\ HostFair /\ InputFair /\ MailFair

---------------------------------------------------------------------------
(* What starter s, or the one thing of another part, is in the middle of.  *)
Pending(s) ==
  \/ subject = "start" /\ starter[s] # "idle"
  \/ subject = "host" /\ (watch[1].timedOut \/ watch[1].cancelled) /\ Host!Alive(1)
  \/ subject = "input" /\ gate.stopping /\ bound = "yes" /\ ~receipt
  \/ subject = "mail" /\ row[1].state = "sending"

(* Whatever was begun comes to its end: a start gives the lifecycle lock   *)
(* back, a stopped Host dies and its Job becomes quiet, a mail leaves the  *)
(* outbox or becomes due again.                                            *)
BegunEnds == \A s \in Starters : Pending(s) ~> ~Pending(s)
=============================================================================
