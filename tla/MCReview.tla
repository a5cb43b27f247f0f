------------------------------ MODULE MCReview ------------------------------
(***************************************************************************)
(* What is decided about a day's work, checked in one run: the completion  *)
(* review of a Batch with its seal, the claims on work items, and the      *)
(* status of a Todo over several Batches.  subject names the part that     *)
(* moves in a behaviour; the others rest where they began.                 *)
(***************************************************************************)
EXTENDS CompletionReview

(* What the ledger may say of the runs.                                    *)
CONSTANTS r1, r2, t1, t2, a1, a2, a3, worker, watchdog, s1, none

OneRun  == <<r1>>
TwoRuns == <<r1, r2>>

Artifact(t, k, h, i, w, c, q) ==
    [todo |-> t, kind |-> k, hash |-> h, image |-> i, raw |-> w, captured |-> c, cited |-> q]
Shot(t, h) == Artifact(t, "frame", h, TRUE, TRUE, 1, TRUE)
Todo(r, q, s, c, u) == [run |-> r, required |-> q, status |-> s, carried |-> c, upstream |-> u]
NoRules(R) == [r \in R |-> <<>>]

Fact(attempts, todos, arts, rules) ==
    [attempt |-> attempts, todo |-> todos, artifact |-> arts, rules |-> rules,
     supported |-> TRUE, deferred |-> FALSE, fragile |-> FALSE]

\* One run with two Todos: one screenshot each, and a third artifact that
\* differs from a plain one in two attributes at most.
Attempt(s, c) == [state |-> s, completed |-> c]
Ones(x) == [r \in {r1} |-> x]
PlainThird == Artifact(t1, "panel", "h3", TRUE, TRUE, 1, TRUE)
Thirds == {f \in {Artifact(t, k, h, x[1], x[2], y[1], y[2]) :
                     t \in {t1, t2}, k \in {"frame", "panel"}, h \in {"h1", "h3"},
                     x \in {<<TRUE, TRUE>>, <<TRUE, FALSE>>, <<FALSE, FALSE>>},
                     y \in {<<1, TRUE>>, <<1, FALSE>>, <<0, TRUE>>}} :
             Cardinality({p \in DOMAIN f : f[p] # PlainThird[p]}) <= 2}
Second == {Todo(r1, q, s, c, FALSE) : q \in BOOLEAN, s \in {"completed", "blocked"}, c \in {FALSE}}
             \cup {Todo(r1, TRUE, "pending", FALSE, FALSE)}

Arts(x) == [a \in {a1, a2, a3} |-> CASE a = a1 -> Shot(t1, "h1") [] a = a2 -> Shot(t2, "h2") [] a = a3 -> x]
Pair(x) == [t \in {t1, t2} |-> IF t = t1 THEN Todo(r1, TRUE, "completed", FALSE, FALSE) ELSE x]
Panel == [r \in {r1} |-> [p \in {"points"} |-> {"panel"}]]

OneLedgers ==
    {Fact(Ones(Attempt("completed", 1)), Pair(Todo(r1, TRUE, "completed", FALSE, FALSE)), Arts(x), NoRules({r1})) : x \in Thirds}
    \cup {Fact(Ones(Attempt(s, c)), Pair(y), Arts(PlainThird), u) :
            s \in {"completed", "failed"}, c \in 1..2, y \in Second, u \in {NoRules({r1}), Panel}}
    \cup {[Fact(Ones(Attempt("completed", 1)), Pair(Todo(r1, TRUE, "completed", FALSE, FALSE)), Arts(PlainThird), u)
             EXCEPT !.deferred = d, !.supported = v, !.fragile = w] :
               u \in {NoRules({r1}), Panel}, d \in BOOLEAN, v \in BOOLEAN, w \in BOOLEAN}

\* Two runs with one Todo each: both completed, or the second failed, or the
\* first was upstream.
TwoArts == [a \in Artifacts |->
    CASE a = a1 -> Shot(t1, "h1") [] a = a2 -> Shot(t2, "h2") [] a = a3 -> Shot(none, "h3")]
TwoLedgers(kinds) ==
    {Fact([r \in {r1, r2} |-> Attempt(IF r = r1 \/ s = "completed" THEN "completed" ELSE "failed", 1)],
         [t \in {t1, t2} |-> IF t = t1 THEN Todo(r1, TRUE, "completed", FALSE, s = "upstream")
                             ELSE Todo(r2, TRUE, IF s = "failed" THEN "blocked" ELSE "completed", FALSE, FALSE)],
         TwoArts, NoRules({r1, r2})) : s \in kinds}

---------------------------------------------------------------------------

CONSTANTS Agents, Items, Keys, Leases, End, MaxClaim, MaxVersion,
  DayTodos, Session, Forbidden, Batches, Selections, Transients, MaxReset, MaxMark

VARIABLES subject,
  item, claims, decided, invoked, commands, call, reply, claimVersion, claimClock,
  todo, blocker, todoBatch, running, selected, seq, reset, gated, resets, marks

\* The claims on work items, and the Todos of a game under its Batches.
Claim == INSTANCE WorkItemClaims WITH
  ledger <- commands, now <- claimClock, version <- claimVersion
Days == INSTANCE TodoBatches WITH Todos <- DayTodos, batch <- todoBatch

\* Two completed runs and two resuming threads.
Two == INSTANCE CompletionReview WITH Runs <- TwoRuns, Artifacts <- {a1, a2},
  Ledgers <- TwoLedgers({"completed"}), Threads <- {watchdog, worker}

\* Two runs of which one needs no answer, two resuming threads and a crash.
Crashed == INSTANCE CompletionReview WITH Runs <- TwoRuns, Artifacts <- {a1, a2},
  Ledgers <- TwoLedgers({"failed", "upstream"}), Threads <- {watchdog, worker}, MaxCrash <- 1

claimVs == <<item, claims, decided, invoked, commands, call, reply, claimVersion, claimClock>>

batchVs == <<todo, blocker, todoBatch, running, selected, seq, reset, gated, resets, marks>>

Scopes == {{s1, t1}, {t1}, {t1, t2}, {}}

Reviews == {"one", "two", "crashed"}
InBatches == {"mixed", "reset", "narrowed", "marked"}
Parts == Reviews \cup {"claims"} \cup InBatches

MCInit ==
  /\ subject \in Parts
  /\ CASE subject = "two" -> Two!Init
       [] subject = "crashed" -> Crashed!Init
       [] OTHER -> Init
  /\ subject \notin Reviews => now = DayEnd /\ ledger = CHOOSE f \in Ledgers : TRUE
  /\ Claim!Init /\ Days!Init
  /\ subject \notin InBatches => selected = {}

\* Keys, Agents and work items are interchangeable: it is enough to look at those
\* behaviours that commit the keys in their order, where the first claim is that
\* of the first Agent on the first item.
InOrder ==
  /\ \A k \in 2 .. 3 : commands[k] # None => commands[k - 1] # None
  /\ claims # <<>> => claims[1].by = "g1" /\ claims[1].item = "i1"

\* One work item and two lease lengths, and two work items with one length.
OneItem  == item'["i2"].state = "planned"
OneLease == claimClock' <= 1 /\ \A c \in DOMAIN claims' : claims'[c].until <= claimClock' + 1
Claiming ==
  /\ subject = "claims"
  /\ Claim!Next /\ InOrder' /\ (OneItem \/ OneLease)

\* A session Todo and an action over two Batches whose creation overlaps.
Works == \E b \in Days!B : Days!Work(b)
Mixed ==
  /\ subject = "mixed"
  /\ Works \/ Days!Reconcile
  /\ selected' = {s1, t1} /\ \A t \in DayTodos : ~todo'[t].transient

\* One Todo over two Batches with a reset and an operator's mark, and the same
\* while the operator takes it from the selection.
Explicit ==
  /\ subject = "reset"
  /\ Works \/ Days!Reconcile \/ Days!Reset \/ \E s \in Days!Statuses : Days!Mark(t1, s)
  /\ selected' = {t1} /\ marks' <= 1
Narrowed ==
  /\ subject = "narrowed"
  /\ Works \/ Days!Reconcile \/ Days!Select({}) \/ Days!Select({t1})
  /\ selected' \subseteq {t1}

\* A Todo that may never be executed beside a routine one, in one Batch.
Marked ==
  /\ subject = "marked"
  /\ Days!Work(1) \/ Days!Operator
  /\ s1 \notin selected' /\ todo'[s1] = Days!Pending

MCNext ==
  \/ subject = "one" /\ Next /\ UNCHANGED <<subject, claimVs, batchVs>>
  \/ subject = "two" /\ Two!Next /\ UNCHANGED <<subject, claimVs, batchVs>>
  \/ subject = "crashed" /\ Crashed!Next /\ UNCHANGED <<subject, claimVs, batchVs>>
  \/ Claiming /\ UNCHANGED <<subject, vars, batchVs>>
  \/ (Mixed \/ Explicit \/ Narrowed \/ Marked) /\ UNCHANGED <<subject, vars, claimVs>>

MCSpec == MCInit /\ [][MCNext]_<<subject, vars, claimVs, batchVs>>

ASSUME WorkAssumption == Claim!ClaimAssumption /\ Days!TodoAssumption

ASSUME Two!ReviewAssumption /\ Crashed!ReviewAssumption

---------------------------------------------------------------------------
(* Every variable of every part has the shape its comment says.            *)
TypesOK ==
  /\ subject = "one" => TypeOK
  /\ subject = "claims" => Claim!TypeOK
  /\ subject \in InBatches => Days!TypeOK

(* Renewals, takeovers and retries leave one good claim, one decision by   *)
(* its last holder and one effect per command, and a retry gets the        *)
(* receipt it lost (claim_work_item, decide_work_item_claim).              *)
ClaimsExclusive == Claim!Exclusive

(* A game counts as done only on a reviewed seal of exactly what is        *)
(* selected (current_completion.py).                                       *)
DoneIsProven == Days!AcceptedIsProven

(* Completed facts survive replays and later Batches, and a human gate is  *)
(* only left by its release or a reset (start_todo_attempt, supersession). *)
TodosKept == [][Days!KeptStep]_(Days!vars)
=============================================================================
