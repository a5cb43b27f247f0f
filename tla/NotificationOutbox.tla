------------------------- MODULE NotificationOutbox -------------------------
(***************************************************************************)
(* The notification outbox: one delivery row per sealed batch, seeded in   *)
(* the transaction of the seal and rendered in a second one, sent by the   *)
(* single dispatcher thread under a 90 second lease, armed by operators,   *)
(* and, for the game-day scope, held until a watchdog tick finds the day   *)
(* final.  Rows survive a crash of the Manager; threads do not.            *)
(*                                                                         *)
(* Batches are numbered in the order of their seals, so that a larger      *)
(* number is a newer row.  The recipient binding and the channel do not    *)
(* change.  mail, confirms and asked are history: what the SMTP server     *)
(* accepted, and what operators did.                                       *)
(***************************************************************************)
EXTENDS Integers, Sequences, FiniteSets

CONSTANTS NumNotes,    \* sealed batches
          MaxDay,      \* game days 1 .. MaxDay; 0 stands for no report day
          MaxCrashes,
          Owing,       \* batches that freeze a screenshot contract
          Scopes,      \* report scopes the policy may name
          Operators    \* what operators do: "ask", "policy", "secret", "files"

OutboxAssumption == NumNotes \in Nat /\ MaxDay \in Nat \ {0}

Notes == 1 .. NumNotes
Ambiguous == {"transport_ambiguous", "worker_internal", "lease_expired_ambiguous"}
Rendering == {"render_pending", "render_failed"}
FourTries == 4   \* mutant
MaxTries == 3

VARIABLES row,       \* notification_deliveries
          files,     \* whether the artifact files of a seal are intact
          policy,    \* notification_policy
          secret,    \* state of the DPAPI profile
          today, settled,       \* the game day, and whether its work is done
          everSettled,          \* days found settled at some time
          draft,     \* renders between building and committing
          sender,    \* the dispatcher thread
          tick,      \* the watchdog thread inside dispatch_game_day_reports
          request,   \* one operator request between its checks and its commit
          mail, confirms, asked, crashes

world == <<policy, secret, files, today, settled, everSettled>>
history == <<mail, confirms, asked>>
vars == <<row, world, draft, sender, tick, request, history, crashes>>

States == {"none", "draft", "sending", "failed", "sent", "superseded"}
Gates == {"disabled", "manual_review", "stale_batch", "game_day_pending",
          "automatic", "secret_missing"}
Errors == Ambiguous \cup Rendering \cup
          {"", "secret_missing", "secret_invalid", "transport_transient",
           "transport_permanent", "attachment_contract_missing",
           "attachment_contract_changed"}
Policies == [enabled : BOOLEAN, automatic : BOOLEAN, scope : Scopes]
Secrets == {"configured", "missing", "invalid"}

NoRow == [state |-> "none", gate |-> "disabled", err |-> "", tries |-> 0,
          due |-> FALSE, expired |-> FALSE, day |-> 0, refs |-> FALSE]
NoDraft == [pc |-> "none"]
IdleSender == [pc |-> "idle", todo |-> {}, cur |-> 0, result |-> "none"]
IdleTick == [pc |-> "idle", rows |-> <<>>, seen |-> {}, day |-> 0,
             final |-> FALSE, act |-> "none"]
NoRequest == [note |-> 0, confirm |-> FALSE]

Init ==
    /\ row = [n \in Notes |-> NoRow]
    /\ files = [n \in Notes |-> TRUE]
    /\ policy \in Policies
    /\ secret = "configured"
    /\ today = 1 /\ settled = FALSE /\ everSettled = {}
    /\ draft = [n \in Notes |-> NoDraft]
    /\ sender = IdleSender /\ tick = IdleTick /\ request = NoRequest
    /\ mail = [n \in Notes |-> 0]
    /\ confirms = [n \in Notes |-> 0]
    /\ asked = {}
    /\ crashes = 0

Dispatchable(r) ==
    /\ r.state \in {"draft", "failed"} /\ r.gate = "automatic"
    /\ r.tries < MaxTries /\ r.due

\* A frozen contract wants a screenshot among the references of the draft.
MissingContract(n) == n \in Owing /\ ~(row[n].refs /\ files[n])

-----------------------------------------------------------------------------
(* Sealing and rendering *)

\* seal_batch, first transaction: the seed is not dispatchable.
Seal(n) ==
    /\ row[n].state = "none"
    /\ \A m \in Notes : m < n => row[m].state # "none"
    /\ row' = [row EXCEPT ![n] = [NoRow EXCEPT
                  !.state = "draft", !.err = "render_pending",
                  !.gate = IF policy.enabled THEN "manual_review" ELSE "disabled"]]
    /\ draft' = [draft EXCEPT ![n] = [pc |-> "seeded", policy |-> policy]]
    /\ UNCHANGED <<world, sender, tick, request, history, crashes>>

\* _notification_draft_for_seal: what the renderer saw of day and secret.
BuildDraft(n) ==
    /\ draft[n].pc = "seeded"
    /\ \E stale \in BOOLEAN :
         LET perDay == draft[n].policy.scope = "game_day" IN
         draft' = [draft EXCEPT ![n] =
            [pc |-> "built", policy |-> draft[n].policy, secret |-> secret,
             day |-> IF perDay THEN today ELSE 0,
             hold |-> perDay /\ ~settled,
             stale |-> ~perDay /\ stale,
             refs |-> ~perDay]]
    /\ UNCHANGED <<row, world, sender, tick, request, history, crashes>>

\* _notification_dispatch_fields
SecretError(s) == CASE s = "configured" -> "" [] s = "invalid" -> "secret_invalid"
                    [] OTHER -> "secret_missing"
DraftGate(d) ==
    CASE ~d.policy.enabled   -> "disabled"
      [] ~d.policy.automatic -> "manual_review"
      [] d.stale             -> "stale_batch"
      [] d.hold              -> "game_day_pending"
      [] OTHER -> CASE d.secret = "configured" -> "automatic"
                    [] d.secret = "invalid" -> "manual_review"
                    [] OTHER -> "secret_missing"

CompleteRender(n) ==
    /\ draft[n].pc = "built"
    /\ row[n].err \in Rendering
    /\ row' = [row EXCEPT ![n] = [NoRow EXCEPT
                  !.state = "draft", !.gate = DraftGate(draft[n]),
                  !.err = SecretError(draft[n].secret),
                  !.due = DraftGate(draft[n]) = "automatic",
                  !.day = draft[n].day, !.refs = draft[n].refs]]
    /\ draft' = [draft EXCEPT ![n] = NoDraft]
    /\ UNCHANGED <<world, sender, tick, request, history, crashes>>

\* The renderer raises: the failed render is visible and not dispatchable.
FailRender(n) ==
    /\ draft[n].pc = "seeded"
    /\ row[n].err = "render_pending"
    /\ row' = [row EXCEPT ![n].state = "failed", ![n].err = "render_failed",
                          ![n].due = FALSE]
    /\ draft' = [draft EXCEPT ![n] = NoDraft]
    /\ UNCHANGED <<world, sender, tick, request, history, crashes>>

-----------------------------------------------------------------------------
(* Operators *)

PatchPolicy ==
    /\ "policy" \in Operators
    /\ policy' \in Policies \ {policy}
    /\ UNCHANGED <<row, files, secret, today, settled, everSettled, draft,
                   sender, tick, request, history, crashes>>

\* arm_notification_delivery, for a secret state s.
ArmRefusedUnlessLost(n, confirm) ==   \* mutant: a lost lease is not ambiguous
    \/ row[n].state \in {"sent", "sending"}
    \/ row[n].tries >= MaxTries
    \/ row[n].err \in Rendering
    \/ row[n].err \in Ambiguous \ {"lease_expired_ambiguous"} /\ ~confirm
ArmRefused(n, confirm) ==
    \/ row[n].state \in {"sent", "sending"}
    \/ row[n].tries >= MaxTries
    \/ row[n].err \in Rendering
    \/ row[n].err \in Ambiguous /\ ~confirm
ArmedAfresh(r) ==   \* mutant: the row starts over as a draft
    [r EXCEPT !.state = "draft", !.gate = "automatic", !.due = TRUE, !.err = ""]
Armed(r) ==
    [r EXCEPT !.gate = CASE secret = "configured" -> "automatic"
                         [] secret = "invalid" -> "manual_review"
                         [] OTHER -> "secret_missing",
              !.due = secret = "configured",
              !.err = SecretError(secret)]

\* request_notification_send up to its transaction.
AskSend(n, retry, confirm) ==
    /\ "ask" \in Operators /\ request = NoRequest
    /\ row[n].state # "none"
    /\ policy.enabled
    /\ retry => row[n].state \in {"failed", "draft"}
    /\ request' = [note |-> n, confirm |-> confirm]
    /\ UNCHANGED <<row, world, draft, sender, tick, history, crashes>>

CommitSend ==
    LET n == request.note IN
    /\ n # 0
    /\ request' = NoRequest
    /\ IF ArmRefused(n, request.confirm) THEN UNCHANGED <<row, confirms, asked>>
       ELSE /\ row' = [row EXCEPT ![n] = Armed(@)]
            /\ confirms' = [confirms EXCEPT ![n] =
                              IF row[n].err \in Ambiguous /\ request.confirm THEN @ + 1 ELSE @]
            /\ asked' = asked \cup {n}
    /\ UNCHANGED <<world, draft, sender, tick, mail, crashes>>

-----------------------------------------------------------------------------
(* The dispatcher thread: run_once *)

\* recover_expired_notification_leases, then list_dispatchable_notifications.
RecoveredNever(r) == r   \* mutant
Recovered(r) ==
    IF r.state = "sending" /\ r.expired
      THEN [r EXCEPT !.state = "failed", !.gate = "manual_review", !.due = FALSE,
                     !.expired = FALSE, !.err = "lease_expired_ambiguous"]
      ELSE r
RunOnce ==
    /\ sender.pc = "idle"
    /\ row' = [n \in Notes |-> Recovered(row[n])]
    /\ sender' = [IdleSender EXCEPT !.pc = "picking",
                     !.todo = {n \in Notes : Dispatchable(row'[n])}]
    /\ UNCHANGED <<world, draft, tick, request, history, crashes>>

\* set_notification_dispatch_gate
Gated(r, gate, err) ==
    IF r.state \in {"sent", "sending"} \/ r.err \in Rendering THEN r
    ELSE [r EXCEPT !.gate = gate, !.due = FALSE, !.err = err]

\* Attachments and secret are looked at before the row is claimed.
Preflight(n) ==
    LET bad == MissingContract(n) IN
    /\ sender.pc = "picking" /\ n \in sender.todo
    /\ IF ~bad /\ secret = "configured"
         THEN /\ sender' = [sender EXCEPT !.pc = "loaded", !.cur = n, !.todo = @ \ {n}]
              /\ row' = row
         ELSE /\ sender' = [sender EXCEPT !.todo = @ \ {n}]
              /\ row' = [row EXCEPT ![n] =
                   Gated(@, IF bad \/ secret = "invalid" THEN "manual_review"
                                                         ELSE "secret_missing",
                         IF bad THEN "attachment_contract_missing"
                                ELSE SecretError(secret))]
    /\ UNCHANGED <<world, draft, tick, request, history, crashes>>

PassEnds ==
    /\ sender.pc = "picking" /\ sender.todo = {}
    /\ sender' = IdleSender
    /\ UNCHANGED <<row, world, draft, tick, request, history, crashes>>

\* claim_notification_delivery; a row that is no longer due is skipped.
ClaimDelivery ==
    LET n == sender.cur IN
    /\ sender.pc = "loaded"
    /\ IF Dispatchable(row[n])
         THEN /\ row' = [row EXCEPT ![n].state = "sending", ![n].tries = @ + 1]
              /\ sender' = [sender EXCEPT !.pc = "claimed"]
         ELSE /\ row' = row
              /\ sender' = [sender EXCEPT !.pc = "picking", !.cur = 0]
    /\ UNCHANGED <<world, draft, tick, request, history, crashes>>

\* transport.send: whether the server took the message, and what the code knows.
TransportResults == {<<"sent", TRUE>>, <<"transport_transient", FALSE>>,
                     <<"transport_permanent", FALSE>>,
                     <<"transport_ambiguous", TRUE>>, <<"transport_ambiguous", FALSE>>,
                     <<"worker_internal", TRUE>>, <<"worker_internal", FALSE>>}
Send ==
    LET n == sender.cur IN
    /\ sender.pc = "claimed"
    /\ IF MissingContract(n)
         THEN /\ sender' = [sender EXCEPT !.pc = "finishing",
                               !.result = "attachment_contract_changed"]
              /\ mail' = mail
         ELSE \E t \in TransportResults :
              /\ sender' = [sender EXCEPT !.pc = "finishing", !.result = t[1]]
              /\ mail' = [mail EXCEPT ![n] = IF t[2] THEN @ + 1 ELSE @]
    /\ UNCHANGED <<row, world, draft, tick, request, confirms, asked, crashes>>

\* finish_notification_attempt
Finished(r, result) ==
    CASE result = "sent" -> [r EXCEPT !.state = "sent", !.due = FALSE, !.err = "",
                                      !.expired = FALSE]
      [] result = "transport_transient" /\ r.tries < MaxTries ->
           [r EXCEPT !.state = "failed", !.gate = "automatic", !.due = TRUE,
                     !.err = result, !.expired = FALSE]
      [] OTHER -> [r EXCEPT !.state = "failed", !.gate = "manual_review",
                            !.due = FALSE, !.err = result, !.expired = FALSE]
FinishAttempt ==
    LET n == sender.cur IN
    /\ sender.pc = "finishing"
    /\ row' = [row EXCEPT ![n] = Finished(@, sender.result)]
    /\ sender' = [sender EXCEPT !.pc = "picking", !.cur = 0, !.result = "none"]
    /\ UNCHANGED <<world, draft, tick, request, history, crashes>>

\* An exception outside the transport's handlers ends the pass; _run survives.
PassRaises ==
    /\ sender.pc \in {"claimed", "finishing"}
    /\ sender' = IdleSender
    /\ UNCHANGED <<row, world, draft, tick, request, history, crashes>>

-----------------------------------------------------------------------------
(* The watchdog: dispatch_game_day_reports *)

TickStart ==
    /\ tick.pc = "idle"
    /\ policy.scope = "game_day" /\ policy.enabled /\ policy.automatic
    /\ tick' = [IdleTick EXCEPT !.pc = "listing", !.day = today, !.final = settled]
    /\ UNCHANGED <<row, world, draft, sender, request, history, crashes>>

\* list_game_day_pending_notifications: by day, newest first.
Held(n) == row[n].gate = "game_day_pending" /\ row[n].state \in {"draft", "failed"}
           /\ row[n].day # 0
Before(m, n) == row[m].day < row[n].day \/ (row[m].day = row[n].day /\ m > n)
HeldRows ==
    LET held == {n \in Notes : Held(n)} IN
    CHOOSE s \in [1 .. Cardinality(held) -> held] :
        \A i, j \in DOMAIN s : i < j => Before(s[i], s[j])
TickList ==
    /\ tick.pc = "listing"
    /\ tick' = [tick EXCEPT !.pc = "deciding", !.rows = HeldRows]
    /\ UNCHANGED <<row, world, draft, sender, request, history, crashes>>

\* _game_day_report_already_released
AlreadyReleased(d) ==
    \E m \in Notes : /\ row[m].day = d /\ row[m].state \notin {"none", "superseded"}
                     /\ row[m].gate # "game_day_pending"

DecidedToday(d) == d <= tick.day                         \* mutant
DecidedWhenFinal(d) == d = tick.day /\ tick.final        \* mutant
Decided(d) == d < tick.day \/ (d = tick.day /\ tick.final)

NextRow == [tick EXCEPT !.rows = Tail(@), !.seen = @ \cup {row[Head(tick.rows)].day}]
TickDecide ==
    LET n == Head(tick.rows)
        d == row[n].day
        replaced == d \in tick.seen
    IN
    /\ tick.pc = "deciding" /\ tick.rows # <<>>
    /\ tick' = IF replaced \/ Decided(d)
                 THEN [tick EXCEPT !.pc = "acting",
                          !.act = CASE replaced -> "replace"
                                    [] AlreadyReleased(d) -> "retire"
                                    [] OTHER -> "release"]
                 ELSE NextRow
    /\ UNCHANGED <<row, world, draft, sender, request, history, crashes>>

\* supersede_game_day_notification, or _release_game_day_report
Superseded(r) ==
    IF r.state \in {"sent", "sending"} \/ r.gate # "game_day_pending" THEN r
    ELSE [r EXCEPT !.state = "superseded"]
TickAct ==
    LET n == Head(tick.rows) IN
    /\ tick.pc = "acting"
    /\ row' = [row EXCEPT ![n] =
                 IF tick.act # "release" THEN Superseded(@)
                 ELSE IF ArmRefused(n, FALSE) THEN @ ELSE Armed(@)]
    /\ tick' = [NextRow EXCEPT !.pc = "deciding", !.act = "none"]
    /\ UNCHANGED <<world, draft, sender, request, history, crashes>>

TickEnds ==
    /\ tick.pc = "deciding" /\ tick.rows = <<>>
    /\ tick' = IdleTick
    /\ UNCHANGED <<row, world, draft, sender, request, history, crashes>>

-----------------------------------------------------------------------------
(* The world around the outbox *)

DayRolls ==
    /\ today < MaxDay /\ today' = today + 1 /\ settled' = FALSE
    /\ UNCHANGED <<row, policy, secret, files, everSettled, draft, sender, tick,
                   request, history, crashes>>
WorkChanges ==
    /\ settled' = ~settled
    /\ everSettled' = IF settled THEN everSettled ELSE everSettled \cup {today}
    /\ UNCHANGED <<row, policy, secret, files, today, draft, sender, tick,
                   request, history, crashes>>
SecretChanges ==
    /\ "secret" \in Operators
    /\ secret' \in Secrets \ {secret}
    /\ UNCHANGED <<row, policy, files, today, settled, everSettled, draft, sender,
                   tick, request, history, crashes>>
FileLost(n) ==
    /\ "files" \in Operators /\ files[n] /\ n \in Owing
    /\ files' = [files EXCEPT ![n] = FALSE]
    /\ UNCHANGED <<row, policy, secret, today, settled, everSettled, draft, sender,
                   tick, request, history, crashes>>
LeaseExpires(n) ==
    /\ row[n].state = "sending" /\ ~row[n].expired
    /\ row' = [row EXCEPT ![n].expired = TRUE]
    /\ UNCHANGED <<world, draft, sender, tick, request, history, crashes>>
\* Rows, policy and files stay; the threads and their renders are gone.
Crash ==
    /\ crashes < MaxCrashes /\ crashes' = crashes + 1
    /\ draft' = [n \in Notes |-> NoDraft]
    /\ sender' = IdleSender /\ tick' = IdleTick /\ request' = NoRequest
    /\ UNCHANGED <<row, world, history>>

Dispatcher == \/ RunOnce \/ PassEnds \/ ClaimDelivery \/ Send \/ FinishAttempt
              \/ \E n \in Notes : Preflight(n)
Watchdog == TickStart \/ TickList \/ TickDecide \/ TickAct \/ TickEnds

Next ==
    \/ \E n \in Notes : Seal(n) \/ BuildDraft(n) \/ CompleteRender(n) \/ FailRender(n)
    \/ \E n \in Notes, retry, confirm \in BOOLEAN : AskSend(n, retry, confirm)
    \/ CommitSend \/ PatchPolicy
    \/ Dispatcher \/ PassRaises
    \/ Watchdog
    \/ DayRolls \/ WorkChanges \/ SecretChanges
    \/ \E n \in Notes : FileLost(n) \/ LeaseExpires(n)
    \/ Crash

Spec == Init /\ [][Next]_vars

\* The two threads run, and a lease runs out on the wall clock.
Fair == /\ WF_vars(Dispatcher) /\ WF_vars(Watchdog)
        /\ \A n \in Notes : WF_vars(LeaseExpires(n))
FairSpec == Spec /\ Fair

-----------------------------------------------------------------------------
(* Properties *)

\* The shape of the rows and of the threads' memory.
TypeOK ==
    /\ row \in [Notes -> [state : States, gate : Gates, err : Errors,
                          tries : 0 .. 3, due : BOOLEAN, expired : BOOLEAN,
                          day : 0 .. MaxDay, refs : BOOLEAN]]
    /\ policy \in Policies /\ secret \in Secrets
    /\ files \in [Notes -> BOOLEAN]
    /\ today \in 1 .. MaxDay /\ settled \in BOOLEAN /\ everSettled \subseteq 1 .. MaxDay
    /\ sender.pc \in {"idle", "picking", "loaded", "claimed", "finishing"}
    /\ sender.todo \subseteq Notes /\ sender.cur \in Notes \cup {0}
    /\ request \in [note : Notes \cup {0}, confirm : BOOLEAN]
    /\ mail \in [Notes -> Nat] /\ confirms \in [Notes -> Nat] /\ asked \subseteq Notes
    /\ crashes \in 0 .. MaxCrashes

\* A recipient gets a second copy of a message only after an operator confirmed
\* an ambiguous delivery: neither a retry, nor a lost lease, nor a crash between
\* the transport and the commit resends what the server may already have taken.
NoUnconfirmedCopy == \A n \in Notes : mail[n] <= 1 + confirms[n]

\* Without an operator's request a game-day report leaves only when its day was
\* settled or is over, however the tick, the renders and the roll-over interleave.
DayReportWaits ==
    \A n \in Notes : mail[n] > 0 /\ row[n].day # 0 /\ n \notin asked =>
        row[n].day \in everSettled \/ row[n].day < today

\* A row that was sent, and a day report that was retired, never becomes
\* dispatchable again, whoever arms, gates, supersedes or recovers it.
RetiredStep ==
    \A n \in Notes : row[n].state \in {"sent", "superseded"} =>
        row'[n].state = row[n].state /\ mail'[n] = mail[n]
RetiredStays == [][RetiredStep]_vars

\* Every row that is being sent leaves that state: the dispatcher finishes the
\* attempt or, after an exception or a crash, recovers its expired lease.
SendingEnds == \A n \in Notes : (row[n].state = "sending") ~> (row[n].state # "sending")

\* A held report of a day that is over is released or retired as long as the
\* policy lets the watchdog decide.
PolicyReleases == policy.scope = "game_day" /\ policy.enabled /\ policy.automatic
HeldIsDecided ==
    \A n \in Notes : (Held(n) /\ row[n].day < today) ~> (~Held(n) \/ ~PolicyReleases)

\* Documented: a day is meant to be mailed once.
OneMailPerDay ==
    \A m, n \in Notes :
        m < n /\ row[m].day # 0 /\ row[m].day = row[n].day
              /\ m \notin asked /\ n \notin asked => mail[m] = 0 \/ mail[n] = 0

\* Documented: a report is retired for a day because a newer one replaces it or
\* because that day was already reported, so some row of the day is still held
\* or was allowed out.
RetiredDayIsReported ==
    \A n \in Notes : row[n].state = "superseded" =>
        \E m \in Notes : /\ row[m].day = row[n].day /\ row[m].state # "superseded"
                         /\ row[m].gate \notin {"manual_review", "disabled"} \/ row[m].tries > 0

\* Documented: a settled day is delivered without screenshot bytes, so the day
\* report is not stopped for a screenshot it never carries.
DayReportNeedsNoScreenshot ==
    \A n \in Notes : row[n].day # 0 => row[n].err # "attachment_contract_missing"
=============================================================================
