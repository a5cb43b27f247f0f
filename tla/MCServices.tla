----------------------------- MODULE MCServices -----------------------------
(***************************************************************************)
(* What keeps the Manager running and what it tells, checked in one run:   *)
(* the start of the Manager, the start of its store and the guards of its  *)
(* public text, the scheduler of periods and the outbox of its mails.      *)
(* subject names the part that moves in a behaviour; the variables of the  *)
(* others are Absent.                                                      *)
(***************************************************************************)
EXTENDS ManagerStart, Sequences, Integers

CONSTANTS Absent, None, Clean, Deep, Blob

VARIABLES subject,
  db, work, mgr, cache, current, oldCommits,
  row, files, policy, profile, today, settled, everSettled, draft, sender, tick, request,
  mail, confirms, asked, reboots,
  clock, hour, version, inst, pc, at, planned, scheduled, last, patches, resets, backs, fails

\* Two tokens, a command and two commits of the older executable.
Guards == INSTANCE StoreGuards WITH Tokens <- {"t1", "t2"}, Commands <- {"c1"},
  MaxOld <- 2, GapWrites <- FALSE

\* One row, everything that operators do, and a crash; two rows of one day and
\* requests for sends; two rows over two days, and nobody asks.
One == INSTANCE NotificationOutbox WITH NumNotes <- 1, MaxDay <- 1, MaxCrashes <- 1,
  Owing <- {1}, Scopes <- {"batch"}, Operators <- {"ask", "policy", "secret", "files"},
  secret <- profile, crashes <- reboots
Asks == INSTANCE NotificationOutbox WITH NumNotes <- 2, MaxDay <- 1, MaxCrashes <- 0,
  Owing <- {1}, Scopes <- {"game_day"}, Operators <- {"ask"},
  secret <- profile, crashes <- reboots
Days == INSTANCE NotificationOutbox WITH NumNotes <- 2, MaxDay <- 2, MaxCrashes <- 0,
  Owing <- {}, Scopes <- {"game_day"}, Operators <- {},
  secret <- profile, crashes <- reboots

\* A daily Todo over two boundaries; with a clock that steps back; beside a
\* weekly one; beside one with another reset hour.
Daily == INSTANCE TodoLedger WITH Defs <- {"d"}, Weekly <- {}, Midnight <- {"d"}, ResetHour <- 1,
  Day <- 2, Week <- 2, From <- 4, End <- 7, MaxPatch <- 1, MaxReset <- 1, MaxVersion <- 2,
  MaxBack <- 0, MaxFail <- 1, Prompt <- FALSE
Back == INSTANCE TodoLedger WITH Defs <- {"d"}, Weekly <- {}, Midnight <- {"d"}, ResetHour <- 1,
  Day <- 2, Week <- 2, From <- 4, End <- 6, MaxPatch <- 1, MaxReset <- 0, MaxVersion <- 1,
  MaxBack <- 1, MaxFail <- 1, Prompt <- FALSE
Weeks == INSTANCE TodoLedger WITH Defs <- {"d", "w"}, Weekly <- {"w"}, Midnight <- {"d"},
  ResetHour <- 1, Day <- 2, Week <- 2, From <- 4, End <- 7, MaxPatch <- 0, MaxReset <- 0,
  MaxVersion <- 1, MaxBack <- 0, MaxFail <- 0, Prompt <- TRUE
Hours == INSTANCE TodoLedger WITH Defs <- {"d", "e"}, Weekly <- {}, Midnight <- {"d"},
  ResetHour <- 1, Day <- 2, Week <- 2, From <- 4, End <- 6, MaxPatch <- 0, MaxReset <- 0,
  MaxVersion <- 1, MaxBack <- 0, MaxFail <- 0, Prompt <- TRUE

guardVs == <<db, work, mgr, cache, current, oldCommits>>
mailVs == <<row, files, policy, profile, today, settled, everSettled, draft, sender, tick,
  request, mail, confirms, asked, reboots>>

ledgerVs == <<clock, hour, version, inst, pc, at, planned, scheduled, last,
  patches, resets, backs, fails>>

\* Hosts and tokens are interchangeable: hosts are launched in order, and an old
\* database has claims of the first token first.
HostsInOrder == \A h \in Hosts \ {1} : host'[h] # "none" => host'[h - 1] # "none"
TokensInOrder == db.claims["t1"] = "none" => db.claims["t2"] = "none"

\* Where two rows interact, each is sent once; one row alone has all its tries.
OneTry == \A n \in DOMAIN row : row'[n].tries <= 1

StartOff ==
  /\ host = [h \in Hosts |-> "none"] /\ manager = host /\ restarts = 0 /\ record = NoOne
  /\ recordLock = NoOne /\ secret = {} /\ lifecycle = "free" /\ launchFile = "absent"
  /\ starter = Absent /\ launched = Absent /\ round = 0 /\ crashes = Absent
GuardsOff ==
  /\ db = Absent /\ work = Absent /\ mgr = Absent /\ cache = Absent /\ current = Absent
  /\ oldCommits = Absent
MailOff ==
  /\ row = Absent /\ files = Absent /\ policy = Absent /\ profile = Absent /\ today = Absent
  /\ settled = Absent /\ everSettled = Absent /\ draft = Absent /\ sender = Absent
  /\ tick = Absent /\ request = Absent /\ mail = Absent /\ confirms = Absent
  /\ asked = Absent /\ reboots = Absent
LedgerOff ==
  /\ clock = Absent /\ hour = Absent /\ version = Absent /\ inst = Absent /\ pc = Absent
  /\ at = Absent /\ planned = Absent /\ scheduled = Absent /\ last = Absent
  /\ patches = Absent /\ resets = Absent /\ backs = Absent /\ fails = Absent

MCInit ==
  \/ subject = "start" /\ Init /\ GuardsOff /\ MailOff /\ LedgerOff
  \/ subject = "guards" /\ Guards!Init /\ TokensInOrder /\ StartOff /\ MailOff /\ LedgerOff
  \/ subject = "one" /\ One!Init /\ StartOff /\ GuardsOff /\ LedgerOff
  \/ subject = "asks" /\ Asks!Init /\ StartOff /\ GuardsOff /\ LedgerOff
  \/ subject = "days" /\ Days!Init /\ StartOff /\ GuardsOff /\ LedgerOff
  \/ /\ \/ subject = "daily" /\ Daily!Init
        \/ subject = "back" /\ Back!Init
        \/ subject = "weekly" /\ Weeks!Init
        \/ subject = "hours" /\ Hours!Init
     /\ StartOff /\ GuardsOff /\ MailOff

MCNext ==
  \/ subject = "start" /\ Next /\ HostsInOrder /\ UNCHANGED <<subject, guardVs, mailVs, ledgerVs>>
  \/ subject = "guards" /\ Guards!Next /\ UNCHANGED <<subject, vars, mailVs, ledgerVs>>
  \/ /\ \/ subject = "one" /\ One!Next
        \/ subject = "asks" /\ Asks!Next /\ OneTry
        \/ subject = "days" /\ Days!Next /\ OneTry
     /\ UNCHANGED <<subject, vars, guardVs, ledgerVs>>
  \/ /\ \/ subject = "daily" /\ Daily!Next
        \/ subject = "back" /\ Back!Next
        \/ subject = "weekly" /\ Weeks!Next
        \/ subject = "hours" /\ Hours!Next
     /\ UNCHANGED <<subject, vars, guardVs, mailVs>>

MCSpec == MCInit /\ [][MCNext]_<<subject, vars, guardVs, mailVs, ledgerVs>>

ASSUME /\ Guards!StoreGuardsAssumption
       /\ One!OutboxAssumption /\ Asks!OutboxAssumption /\ Days!OutboxAssumption
       /\ Daily!LedgerAssumption /\ Back!LedgerAssumption
       /\ Weeks!LedgerAssumption /\ Hours!LedgerAssumption

---------------------------------------------------------------------------
(* Every variable of every part has the shape its comment says.            *)
TypesOK ==
  /\ subject = "start" => TypeOK
  /\ subject = "guards" => Guards!TypeOK
  /\ subject = "one" => One!TypeOK
  /\ subject = "asks" => Asks!TypeOK
  /\ subject = "days" => Days!TypeOK
  /\ subject = "daily" => Daily!TypeOK
  /\ subject = "back" => Back!TypeOK
  /\ subject = "weekly" => Weeks!TypeOK
  /\ subject = "hours" => Hours!TypeOK

(* The guards know exactly the tokens in use, a command is replayed with   *)
(* its receipt, and no commit, no start and no older executable loses a    *)
(* token or leaves one in a public text (SqliteStore.initialize,           *)
(* _write_scope).                                                          *)
GuardsSafe ==
  /\ [](subject = "guards" => Guards!Guarded)
  /\ [][subject = "guards" => Guards!GuardedStep]_<<db, mgr>>

(* No second copy of a message without an operator's confirmation, a day   *)
(* report waits for its day, and what was sent or retired stays it         *)
(* (NotificationDispatcher, dispatch_game_day_reports).                    *)
MailSafe ==
  /\ [](/\ subject = "one" => One!NoUnconfirmedCopy
        /\ subject = "asks" => Asks!NoUnconfirmedCopy
        /\ subject = "days" => Days!NoUnconfirmedCopy /\ Days!DayReportWaits)
  /\ [][/\ subject = "one" => One!RetiredStep
        /\ subject = "asks" => Asks!RetiredStep
        /\ subject = "days" => Days!RetiredStep]_<<row, mail>>

(* No boundary, start or policy change takes work of a period back, moves  *)
(* the running period or retires its blocker (manager_todos.py).           *)
PeriodsKept ==
  /\ [](/\ subject = "daily" => Daily!ActiveIsCurrent
        /\ subject = "back" => Back!ActiveIsCurrent
        /\ subject = "weekly" => Weeks!ActiveIsCurrent)
  /\ [][/\ subject = "daily" => Daily!HistoryStep
        /\ subject = "back" => Back!HistoryStep
        /\ subject = "weekly" => Weeks!HistoryStep
        /\ subject = "hours" => Hours!HistoryStep /\ Hours!BlockerStep]_ledgerVs
=============================================================================
