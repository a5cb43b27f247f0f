------------------------ MODULE CompletionContract ------------------------
(***************************************************************************)
(* The pure adjudication of one GameRun: the predicates of                 *)
(* services/completion_contract.py over one frozen snapshot of the ledger. *)
(*                                                                         *)
(* A snapshot s is a record                                                *)
(*   day       [start, end] of the frozen GameDay                          *)
(*   run       the GameRun                                                 *)
(*   current   its current attempt, or None                                *)
(*   lineage   attempt -> [own, run, state, started, completed]            *)
(*   todos     todo -> [required, status, own, sameDay, run, attempt,      *)
(*                      completed, refs, upstream]                         *)
(*   evidence  artifact -> [own, run, attempt, todo, kind, sameDay,        *)
(*                      captured, intact, allowed, image, raw, hash]       *)
(*   blockers  a set of [own, run, attempt, sameDay]                       *)
(*   review    None or [own, run, attempt, sameDay, at, decision, refs,    *)
(*                      verdicts, observations, promoted]                  *)
(*   policy    [available, window, rules: rule -> the kinds it allows]     *)
(* "own" stands for the game, account and cadence comparisons, "sameDay"   *)
(* for the comparison of period keys; times are numbers.                   *)
(***************************************************************************)
EXTENDS Naturals, FiniteSets

CONSTANT None

Satisfied == "satisfied"
Missing   == "missing"
Blocked   == "blocked"

\* The state of a predicate that holds, or else is in state otherwise.
State(holds, otherwise) == IF holds THEN Satisfied ELSE otherwise

InDay(s, t) == t # None /\ s.day.start <= t /\ t < s.day.end

---------------------------------------------------------------------------
(* Attempts and evidence                                                   *)

\* The attempts of the lineage that belong to this game and GameDay.
Scoped(s) ==
    {a \in DOMAIN s.lineage :
        LET f == s.lineage[a] IN
        /\ f.own
        /\ InDay(s, f.started)
        /\ f.completed # None => InDay(s, f.completed)}

\* An owner is an attempt of the lineage together with its own GameRun.
OwnedInLineage(s, f) == f.attempt \in Scoped(s) /\ s.lineage[f.attempt].run = f.run

\* Evidence with no exclusion reason of its own.
Admissible(s) ==
    {e \in DOMAIN s.evidence :
        LET f == s.evidence[e] IN
        /\ f.own /\ OwnedInLineage(s, f) /\ f.sameDay
        /\ InDay(s, f.captured)
        /\ f.intact /\ f.allowed}

\* Byte-identical screenshots that claim different meanings: the whole group.
Ambiguous(s) ==
    LET shots == {e \in Admissible(s) : s.evidence[e].image}
        means(e) == <<s.evidence[e].todo, s.evidence[e].kind>>
    IN  {e \in shots : \E f \in shots : /\ s.evidence[e].hash = s.evidence[f].hash
                                        /\ means(e) # means(f)}

AcceptedEvidence(s) == Admissible(s) \ Ambiguous(s)

AttemptStates(s) ==
    LET known == s.current # None
        f     == s.lineage[s.current]
        stopped == {"blocked", "human_required", "failed", "cancelled"}
    IN  <<IF ~known THEN Missing
          ELSE State(/\ f.run = s.run /\ f.own /\ InDay(s, f.started)
                     /\ f.state = "completed" => InDay(s, f.completed), Blocked),
          IF ~known THEN Missing
          ELSE State(f.state = "completed", IF f.state \in stopped THEN Blocked ELSE Missing),
          State(DOMAIN s.lineage # {} /\ Scoped(s) = DOMAIN s.lineage, Blocked)>>

EvidenceStates(s) ==
    <<State(\A e \in DOMAIN s.evidence : s.evidence[e].intact, Blocked),
      State(Ambiguous(s) = {}, Blocked),
      State(AcceptedEvidence(s) # {}, Missing)>>

---------------------------------------------------------------------------
(* Todos and blockers                                                      *)

Required(s) == {t \in DOMAIN s.todos : s.todos[t].required}

\* What a Todo refers to is accepted evidence that this very Todo owns.
ProvenTodo(s, t) ==
    /\ s.todos[t].refs # {}
    /\ \A e \in s.todos[t].refs :
          e \in AcceptedEvidence(s) /\ s.evidence[e].todo = t

TodoStates(s) ==
    LET R == Required(s)
        stopped == {"blocked", "human_required", "failed", "cancelled"}
    IN  <<State(R # {}, Missing),
          State(\A t \in R : s.todos[t].status = "completed",
                IF \E t \in R : s.todos[t].status \in stopped THEN Blocked ELSE Missing),
          State(R # {} /\ \A t \in R : s.todos[t].own /\ OwnedInLineage(s, s.todos[t]), Missing),
          State(R # {} /\ \A t \in R : s.todos[t].sameDay /\ InDay(s, s.todos[t].completed), Missing),
          State(R # {} /\ \A t \in R : ProvenTodo(s, t), Missing)>>

BlockerState(s) ==
    State(\A b \in s.blockers :
             ~(b.own /\ b.run = s.run /\ b.attempt \in Scoped(s) /\ b.sameDay), Blocked)

---------------------------------------------------------------------------
(* The review                                                              *)

\* What had to be over before the reviewer could judge it.
TerminalTimes(s) ==
    {s.todos[t].completed : t \in {t \in Required(s) : s.todos[t].status = "completed"}}
        \cup (IF s.current = None THEN {} ELSE {s.lineage[s.current].completed})

ReviewInScope(s) ==
    /\ s.review # None
    /\ s.review.own /\ s.review.run = s.run /\ s.review.attempt = s.current
    /\ s.review.sameDay /\ InDay(s, s.review.at)
    /\ s.review.refs # {}
    /\ s.review.refs \subseteq AcceptedEvidence(s)
    /\ \E e \in s.review.refs : s.evidence[e].attempt = s.current
    /\ \A e \in s.review.refs : s.evidence[e].captured <= s.review.at
    /\ \A t \in TerminalTimes(s) \ {None} : t <= s.review.at

ReviewStates(s) ==
    <<State(ReviewInScope(s), Missing),
      State(ReviewInScope(s) /\ s.review.decision = "accepted",
            IF ReviewInScope(s) /\ s.review.decision = "rejected" THEN Blocked ELSE Missing)>>

\* A verdict cites raw screenshots of the Todo it is about.
SoundVerdict(s, t) ==
    LET v == s.review.verdicts[t] IN
    /\ v.refs \subseteq s.review.refs
    /\ \A e \in v.refs : /\ e \in AcceptedEvidence(s)
                         /\ s.evidence[e].todo = t
                         /\ s.evidence[e].raw /\ s.evidence[e].image

TodoReviewState(s) ==
    IF s.review = None \/ DOMAIN s.review.verdicts # Required(s) THEN Missing
    ELSE LET says(v) == {t \in Required(s) : s.review.verdicts[t].verdict = v} IN
         IF says("rejected") # {} THEN Blocked
         ELSE IF says("confirmed") # Required(s) THEN Missing
         ELSE State(\A t \in Required(s) : SoundVerdict(s, t), Blocked)

\* A game-specific metric needs an observation of an accepted review in scope.
RuleState(s, r) ==
    State(/\ ReviewInScope(s) /\ s.review.decision = "accepted"
          /\ r \in DOMAIN s.review.observations
          /\ LET o == s.review.observations[r] IN
             /\ o.holds
             /\ o.refs \subseteq s.review.refs \cap AcceptedEvidence(s)
             /\ \A e \in o.refs : /\ s.evidence[e].raw /\ s.evidence[e].image
                                  /\ s.evidence[e].kind \in s.policy.rules[r], Missing)

\* A review the Manager wrote for a promoted package needs its own typed proof.
PromotedState(s) ==
    State(s.review # None => s.review.promoted \in {"no", "proven"}, Blocked)

---------------------------------------------------------------------------
(* The decision                                                            *)

StatesOf(q) == {q[i] : i \in DOMAIN q}

Evaluations(s) ==
    {State(s.policy.available, Blocked),
     State(s.policy.available /\ s.policy.window, Blocked)}
    \cup StatesOf(AttemptStates(s))
    \cup StatesOf(EvidenceStates(s))
    \cup StatesOf(TodoStates(s))
    \cup {BlockerState(s)}
    \cup StatesOf(ReviewStates(s))
    \cup {TodoReviewState(s), PromotedState(s)}
    \cup (IF s.policy.available THEN {RuleState(s, r) : r \in DOMAIN s.policy.rules} ELSE {})

\* adjudicate_completion: one blocked predicate blocks, one missing asks for review.
Outcome(s) ==
    IF Blocked \in Evaluations(s) THEN "blocked"
    ELSE IF Missing \in Evaluations(s) THEN "review_required"
    ELSE "accepted_done"

\* Every selected Todo ended with an explicit upstream terminal event.
HasUpstreamResults(s) ==
    /\ DOMAIN s.todos # {}
    /\ s.current \in Scoped(s)
    /\ \A t \in DOMAIN s.todos :
          LET f == s.todos[t] IN
          f.upstream /\ f.status = "completed" /\ f.own /\ OwnedInLineage(s, f) /\ f.sameDay
===========================================================================
