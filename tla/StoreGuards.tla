---------------------------- MODULE StoreGuards ----------------------------
(***************************************************************************)
(* The start of SqliteStore and the guards of its public text.             *)
(*                                                                         *)
(* A claim on a work item carries a private token.  initialize() brings an *)
(* old database up to date, in a schema script, the account migration and  *)
(* one main transaction that normalizes the tokens and cleans every public *)
(* text column, and installs triggers that refuse a public text holding a  *)
(* token that is or ever was in use.  The triggers ask a cache of the      *)
(* tokens, reloaded when PRAGMA data_version says that another connection  *)
(* has committed.                                                          *)
(*                                                                         *)
(* The other connection is an older executable: it has the triggers stored *)
(* in the database, which keep the token history, and not the guards.      *)
(*                                                                         *)
(* A public value is Absent (no such row), Clean, a token (a text that     *)
(* holds it, at any depth of JSON escapes), Deep (more escapes than the    *)
(* scan resolves) or Blob (not text; only in the note, so the response of  *)
(* a command can always be parsed).                                        *)
(***************************************************************************)
EXTENDS Naturals, FiniteSets

CONSTANTS Tokens,       \* claim tokens
          Commands,     \* idempotency keys
          MaxOld,       \* bound: commits of the older executable
          GapWrites,    \* does it commit between the two reads of a reload
          Absent, Clean, Deep, Blob

StoreGuardsAssumption == MaxOld \in Nat /\ GapWrites \in BOOLEAN

VARIABLES db,         \* what is committed
          work,       \* what the open write scope sees
          mgr,        \* what the Manager's connection is doing
          cache,      \* _fencing_token_values
          current,    \* no other commit since _fencing_token_data_version
          oldCommits

vars == <<db, work, mgr, cache, current, oldCommits>>

Values == {Absent, Clean, Deep, Blob} \cup Tokens
Tables == {"idempotency", "command_receipts", "events"}
Rows   == (Tables \X Commands) \cup {<<"work_items", "note">>}
Note   == <<"work_items", "note">>
Forms  == {"none", "text", "blob"}
Phases == {"down", "schema", "account", "main", "reload", "stamp", "idle", "begin", "scope"}

Claimed(d)  == {t \in Tokens : d.claims[t] # "none"}
Textual(d)  == {t \in Tokens : d.claims[t] = "text"}
(* What the cache is loaded from: claims and history with a text token.    *)
Private(d)  == Textual(d) \cup d.history
Unused(d)   == Tokens \ (Claimed(d) \cup d.history)

Safe(tokens, v) ==
    v # Blob /\ v \notin tokens /\ (v = Deep => tokens = {})
AllSafe(d) == \A r \in Rows : Safe(Private(d), d.rows[r])
Has(d, t, c) == d.rows[<<t, c>>] # Absent

TypeOK ==
    /\ DOMAIN db.rows = Rows /\ \A r \in Rows : db.rows[r] \in Values
    /\ db.claims \in [Tokens -> Forms] /\ db.history \subseteq Tokens
    /\ mgr \in Phases /\ cache \subseteq Tokens
    /\ mgr # "scope" => work = db

Init ==
    \E c \in [Tokens -> Forms], garbled \in BOOLEAN, v \in Values \ {Blob},
       r \in (Tables \X Commands) :
       /\ db = [rows |-> [x \in Rows |-> IF x = r THEN v
                                         ELSE IF r[2] = x[2] /\ v # Absent THEN Clean
                                         ELSE IF x = Note THEN Clean ELSE Absent],
                claims |-> c, garbled |-> garbled, history |-> {},
                triggers |-> FALSE, identity |-> "day", versions |-> {}]
       /\ work = db /\ mgr = "down" /\ cache = {} /\ current = FALSE /\ oldCommits = 0

---------------------------------------------------------------------------
(* The older executable.                                                   *)

LockFree == mgr # "scope"
OldMay   == LockFree /\ oldCommits < MaxOld /\ (mgr = "stamp" => GapWrites)
OldCommit(d) ==
    /\ db' = d /\ work' = d /\ current' = FALSE /\ oldCommits' = oldCommits + 1
    /\ UNCHANGED <<mgr, cache>>

(* trg_work_item_claim_fencing_history_*: a claim's token enters the       *)
(* history with the claim, as text.                                        *)
WithoutTrigger(d, t) == d
WithTrigger(d, t) ==
    [d EXCEPT !.history = IF d.triggers THEN @ \cup {t} ELSE @]

OldWrites ==
    \E r \in Rows, v \in Tokens \cup {Deep, Blob} :
       /\ OldMay /\ db.rows[r] # Absent /\ (v = Blob => r = Note)
       /\ OldCommit([db EXCEPT !.rows[r] = v])
OldClaims ==
    \E t \in Unused(db), f \in {"text", "blob"} :
       /\ OldMay /\ \A r \in Rows : db.rows[r] # t
       /\ OldCommit(WithTrigger([db EXCEPT !.claims[t] = f], t))
OldDropsClaim ==
    \E t \in Claimed(db) :
       /\ OldMay /\ OldCommit([db EXCEPT !.claims[t] = "none"])

---------------------------------------------------------------------------
(* initialize().                                                           *)

Keep == UNCHANGED <<cache, current, oldCommits>>

Connect == mgr = "down" /\ mgr' = "schema" /\ Keep /\ UNCHANGED <<db, work>>

(* The schema scripts and added columns: each statement is repeatable.     *)
Schema ==
    /\ mgr = "schema" /\ mgr' = "account" /\ Keep
    /\ db' = [db EXCEPT !.triggers = TRUE] /\ work' = db'

(* _migrate_account_todo_identity: its own transaction, once.              *)
MigrateAccount ==
    /\ mgr = "account" /\ mgr' = "main" /\ Keep
    /\ db' = IF 14 \in db.versions THEN db
             ELSE [db EXCEPT !.identity = "account", !.versions = @ \cup {14}]
    /\ work' = db'

(* Every claim keeps a text token, a blob is decoded, one that cannot be   *)
(* decoded is replaced and its claim expires; all enter the history.       *)
Normalized(d, fresh) ==
    [d EXCEPT !.claims = [t \in Tokens |-> IF t \in Claimed(d) \cup fresh THEN "text" ELSE "none"],
              !.garbled = FALSE, !.history = @ \cup Claimed(d) \cup fresh]

(* A contaminated receipt or idempotency row takes its command's other     *)
(* rows with it; every other text is cleaned in place.                     *)
Tainted(d) ==
    {c \in Commands : \E t \in {"idempotency", "command_receipts"} :
        ~Safe(Private(d), d.rows[<<t, c>>])}
Cleaned(v) == IF v = Absent THEN Absent ELSE Clean
ScrubbedRowsAlone(d) ==
    [d EXCEPT !.rows = [r \in Rows |->
        IF Safe(Private(d), d.rows[r]) THEN d.rows[r]
        ELSE IF r # Note /\ r[1] # "events" THEN Absent ELSE Clean]]
Scrubbed(d) ==
    [d EXCEPT !.rows = [r \in Rows |->
        IF r # Note /\ r[2] \in Tainted(d) THEN Absent
        ELSE IF Safe(Private(d), d.rows[r]) THEN d.rows[r] ELSE Cleaned(d.rows[r])]]

VerifyOnce(d) == IF 6 \notin d.versions THEN Scrubbed(d) ELSE d
Verified(d) == IF 6 \notin d.versions \/ ~AllSafe(d) THEN Scrubbed(d) ELSE d

(* The main transaction.  Versions 1 to 5 and 7 to 13 add columns, ordinals*)
(* and defaults that hold no text of a caller.                             *)
MainTransaction ==
    /\ mgr = "main" /\ mgr' = "reload" /\ Keep
    /\ \E fresh \in IF db.garbled THEN {{t} : t \in {u \in Unused(db) : \A r \in Rows : db.rows[r] # u}}
                                  ELSE {{}} :
          \E d \in {Verified(Normalized(db, fresh))} :
             db' = [d EXCEPT !.versions = @ \cup {6}]
    /\ work' = db'

(* _reload_private_fencing_tokens_locked reads the tokens, then the data   *)
(* version; the guards are installed after that.                           *)
ReloadTokens ==
    /\ mgr = "reload" /\ mgr' = "stamp" /\ cache' = Private(db)
    /\ UNCHANGED <<db, work, current, oldCommits>>
ReloadVersion ==
    /\ mgr = "stamp" /\ mgr' = "idle" /\ current' = TRUE
    /\ UNCHANGED <<db, work, cache, oldCommits>>

---------------------------------------------------------------------------
(* _write_scope.                                                           *)

Refresh ==
    /\ cache' = IF current THEN cache ELSE Private(db)
    /\ current' = TRUE /\ UNCHANGED <<db, work, oldCommits>>
NoRefresh == UNCHANGED <<cache, current, db, work, oldCommits>>

Preflight == mgr = "idle" /\ mgr' = "begin" /\ Refresh
RefreshLocked == Refresh
Begin     == mgr = "begin" /\ mgr' = "scope" /\ RefreshLocked

InScope == mgr = "scope" /\ UNCHANGED <<db, mgr, current, oldCommits>>

(* The temporary triggers on every public table.                           *)
GuardText(v) == Safe(cache, v)
WriteNote ==
    \E v \in Values \ {Absent, Blob} :
       /\ InScope /\ GuardText(v)
       /\ work' = [work EXCEPT !.rows[Note] = v] /\ UNCHANGED cache

(* run_idempotent: the response, the receipt and the event are committed   *)
(* together; a key that is known replays and writes nothing.               *)
RunCommand ==
    \E c \in Commands, v \in Values \ {Absent, Blob} :
       /\ InScope /\ ~Has(work, "idempotency", c) /\ GuardText(v)
       /\ work' = [work EXCEPT !.rows = [r \in Rows |->
              IF r # Note /\ r[2] = c
              THEN IF r[1] = "idempotency" THEN v ELSE Clean ELSE @[r]]]
       /\ UNCHANGED cache

(* A new claim: its token may be in no public text yet, and is remembered  *)
(* with the row.                                                           *)
AnyCandidate(t) == TRUE
CandidateIsPrivate(t) == \A r \in Rows : Safe({t}, work.rows[r])
ClaimWorkItem ==
    \E t \in Unused(work) :
       /\ InScope /\ CandidateIsPrivate(t)
       /\ work' = WithTrigger([work EXCEPT !.claims[t] = "text"], t)
       /\ cache' = cache \cup {t}

Commit ==
    /\ mgr = "scope" /\ mgr' = "idle" /\ db' = work
    /\ UNCHANGED <<work, cache, current, oldCommits>>

(* A refused text, a conflict or a failing operation: ROLLBACK, and the    *)
(* cache is reloaded.                                                      *)
RollbackKeeps == "idle"
RollbackNext  == "reload"
RollbackLeaves   == work
RollbackRestores == db
Rollback ==
    /\ mgr = "scope" /\ mgr' = RollbackNext /\ work' = RollbackRestores /\ Keep /\ UNCHANGED db

Crash ==
    /\ mgr # "down" /\ mgr' = "down" /\ work' = db /\ cache' = {} /\ current' = FALSE
    /\ UNCHANGED <<db, oldCommits>>

Next ==
    \/ OldWrites \/ OldClaims \/ OldDropsClaim
    \/ Connect \/ Schema \/ MigrateAccount \/ MainTransaction
    \/ ReloadTokens \/ ReloadVersion
    \/ Preflight \/ Begin \/ WriteNote \/ RunCommand \/ ClaimWorkItem
    \/ Commit \/ Rollback \/ Crash

Spec == Init /\ [][Next]_vars

---------------------------------------------------------------------------
(* Inside a write scope the cache knows every token that is committed or   *)
(* written in it, whatever the other connection has done: the guards ask   *)
(* nothing else.                                                           *)
CacheIsComplete == mgr = "scope" => Private(work) \subseteq cache

(* A claim of a rolled back scope is no token: its text is not refused     *)
(* after the rollback.                                                     *)
CacheIsExact == mgr = "scope" => cache \subseteq Private(work)

(* A commit of the Manager leaves no public text that holds a token, or    *)
(* that the scan cannot resolve, unless it was like that before.           *)
CommitStep ==
    (mgr = "scope" /\ mgr' = "idle") =>
        \A r \in Rows :
           \/ Safe(Private(db'), db'.rows[r])
           \/ db'.rows[r] = db.rows[r] /\ ~Safe(Private(db), db.rows[r])
CommitsStayClean == [][CommitStep]_vars

(* After a start every public text is clean, also when the database was    *)
(* marked as cleaned before and the older executable has written since.    *)
StartStep == (mgr = "main" /\ mgr' = "reload") => AllSafe(db)'
StartCleans == [][StartStep]_vars

(* From the first completed start on no token is forgotten: not when its   *)
(* claim is rewritten or deleted, not by a crash, not by another start.    *)
TokenStep ==
    6 \in db.versions => Claimed(db) \cup db.history \subseteq Claimed(db') \cup db'.history
TokensAreKept == [][TokenStep]_vars

(* A response that would be replayed has its receipt, and the cleaning     *)
(* never deletes one of them alone; no event is left of a deleted command. *)
ReplayHasReceipt ==
    \A c \in Commands :
       /\ Has(db, "idempotency", c) <=> Has(db, "command_receipts", c)
       /\ Has(db, "events", c) => Has(db, "command_receipts", c)

Guarded     == CacheIsComplete /\ CacheIsExact /\ ReplayHasReceipt
GuardedStep == CommitStep /\ StartStep /\ TokenStep
=============================================================================
