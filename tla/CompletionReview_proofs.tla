---------------------- MODULE CompletionReview_proofs ----------------------
(***************************************************************************)
(* The seal of a Batch, for any number of runs, Todos, resuming threads,   *)
(* crashes and facts of the ledger: no thread seals it while a review      *)
(* could still change it, whoever waits has asked, a seal stands, and what *)
(* it accepts as done was proven to be.  As Days, what several Batches     *)
(* make of the Todos of a day; as Claim, who decides a work item, for any  *)
(* number of Agents, items and commands.                                   *)
(***************************************************************************)
EXTENDS MCReview, TLAPS, FiniteSetTheorems, NaturalsInduction, WellFoundedInduction

\* A run nobody needs to wait for: upstream decides, no review can change
\* its outcome, or it has its review.
Settled(r) == \/ HasUpstreamResults(Snapshot(r))
              \/ ~CanChangeOutcome(r)
              \/ review[r] # None

\* A thread that does not cancel goes to the seal only past the barrier or
\* when every run is settled.
Justified(p) ==
    thread[p].at \in {"adjudicate", "seal"} /\ ~thread[p].cancels /\ ~thread[p].expired
        => \A r \in RunSet : Settled(r)

\* What was read of the barrier is no newer than the barrier.
ReadBefore(p) == thread[p].expired => elapsed

Shape ==
    /\ DOMAIN review = RunSet /\ DOMAIN offered = RunSet /\ DOMAIN thread = Threads
    /\ \A r \in RunSet : review[r] = None \/ review[r] \in ReviewRows
    /\ \A r \in RunSet : offered[r] = None \/ offered[r] \in SUBSET Artifacts
    /\ \A p \in Threads : {"at", "expired", "cancels"} \subseteq DOMAIN thread[p]
    /\ now \in 1 .. DayEnd
    /\ ledger \in Ledgers

SealInv ==
    /\ Shape
    /\ \A p \in Threads : Justified(p) /\ ReadBefore(p)
    /\ batch.phase = "sealed" /\ batch.state # "cancelled" /\ ~elapsed
           => \A r \in RunSet : Settled(r)

\* Upstream results and what a review could change are frozen.
LEMMA FrozenUpstream ==
    ASSUME ledger' = ledger, NEW r
    PROVE  HasUpstreamResults(Snapshot(r)') <=> HasUpstreamResults(Snapshot(r))
<1>1. /\ Snapshot(r)'.todos = Snapshot(r).todos
      /\ Snapshot(r)'.current = Snapshot(r).current
      /\ Snapshot(r)'.lineage = Snapshot(r).lineage
      /\ Snapshot(r)'.day = Snapshot(r).day
  BY DEF Snapshot, TodoFacts, LineageOf, TodosOf, OwnerOf, IsDone, RefsOf
<1>2. QED
  BY <1>1 DEF HasUpstreamResults, Scoped, OwnedInLineage, InDay

LEMMA FrozenChange ==
    ASSUME ledger' = ledger, NEW r
    PROVE  CanChangeOutcome(r)' <=> CanChangeOutcome(r)
BY DEF CanChangeOutcome, RequiredOf, TodosOf, IsDone

\* A settled run stays settled while no review is forgotten.
LEMMA SettledStays ==
    ASSUME ledger' = ledger, NEW r \in RunSet, review[r] # None => review'[r] # None, Settled(r)
    PROVE  Settled(r)'
BY FrozenUpstream, FrozenChange DEF Settled

\* What an Agent submits is a row.
LEMMA SubmissionIsRow ==
    ASSUME Shape, NEW r \in RunSet, offered[r] # None, NEW sub \in Submissions(r)
    PROVE  [decision |-> sub.decision, refs |-> sub.refs, verdicts |-> sub.verdicts,
            observations |-> sub.observations, at |-> now] \in ReviewRows
<1> DEFINE A    == offered[r]
           Cited == Citations(A)
           V    == [verdict : {"confirmed", "rejected"}, refs : SUBSET Artifacts]
           O    == [holds : BOOLEAN, refs : SUBSET Artifacts]
<1>1. A \in SUBSET Artifacts /\ Cited \subseteq SUBSET Artifacts
  BY DEF Shape, Citations
<1>2. RequiredOf(r) \subseteq Todos /\ DOMAIN ledger.rules[r] \subseteq Rules
  BY DEF RequiredOf, TodosOf, Rules, RunSet, Shape
<1>3. /\ \A D \in SUBSET Todos : [D -> V] \subseteq Partial(Todos, V)
      /\ \A D \in SUBSET Rules : [D -> O] \subseteq Partial(Rules, O)
  BY DEF Partial
<1>4. << >> \in Partial(Todos, V) /\ << >> \in Partial(Rules, O)
  <2>1. << >> \in [{} -> V] /\ << >> \in [{} -> O]
    OBVIOUS
  <2>2. QED
    BY <2>1, <1>3
<1>5. /\ sub.decision \in {"accepted", "rejected", "review_required"}
      /\ sub.refs \in SUBSET Artifacts
      /\ sub.verdicts \in Partial(Todos, V)
      /\ sub.observations \in Partial(Rules, O)
  <2> HIDE DEF V, O, Cited, A
  <2>1. CASE sub \in [decision : {"accepted"}, refs : {A},
                      verdicts : [RequiredOf(r) -> [verdict : {"confirmed"}, refs : Cited]],
                      observations : [DOMAIN ledger.rules[r] -> [holds : BOOLEAN, refs : Cited]]]
    <3>1. sub.verdicts \in [RequiredOf(r) -> V]
      BY <2>1, <1>1 DEF V
    <3>2. sub.observations \in [DOMAIN ledger.rules[r] -> O]
      BY <2>1, <1>1 DEF O
    <3>3. QED
      BY <2>1, <3>1, <3>2, <1>1, <1>2, <1>3
  <2>2. CASE sub \in [decision : {"accepted", "review_required"}, refs : {{}, A},
                      verdicts : {<< >>}, observations : {<< >>}]
    BY <2>2, <1>1, <1>4
  <2>3. CASE sub \in [decision : {"accepted", "rejected"}, refs : Cited,
                      verdicts : UNION {[{t} -> [verdict : {"rejected"}, refs : Cited]] :
                                           t \in RequiredOf(r)},
                      observations : {<< >>}]
    <3>1. PICK t \in RequiredOf(r) : sub.verdicts \in [{t} -> [verdict : {"rejected"}, refs : Cited]]
      BY <2>3
    <3>2. sub.verdicts \in [{t} -> V]
      BY <3>1, <1>1 DEF V
    <3>3. {t} \in SUBSET Todos
      BY <1>2
    <3>4. sub.verdicts \in Partial(Todos, V)
      BY <3>2, <3>3, <1>3
    <3>5. QED
      BY <2>3, <3>4, <1>1, <1>4
  <2>4. QED
    BY <2>1, <2>2, <2>3 DEF Submissions, A, Cited
<1>6. QED
  BY <1>5 DEF ReviewRows, Shape

\* A step of one thread changes nothing of the others.
LEMMA ThreadMoves ==
    ASSUME DOMAIN thread = Threads, NEW p \in Threads, NEW x, thread' = [thread EXCEPT ![p] = x]
    PROVE  /\ DOMAIN thread' = Threads /\ thread'[p] = x
           /\ \A q \in Threads \ {p} : thread'[q] = thread[q]
OBVIOUS

LEMMA InitSeal == Init => SealInv
BY DEF Init, SealInv, Shape, Justified, ReadBefore, Idle

LEMMA EnsureKeeps ==
    ASSUME Shape, NEW R \in SUBSET RunSet, Ensure(R)
    PROVE  /\ DOMAIN offered' = RunSet
           /\ \A r \in RunSet : offered'[r] = None \/ offered'[r] \in SUBSET Artifacts
           /\ \A r \in R : offered'[r] # None
           /\ \A r \in RunSet : offered[r] # None => offered'[r] # None
<1>1. \A r \in RunSet : Screenshots(r) \in SUBSET Artifacts
  BY DEF Screenshots, EvidenceOf
<1>2. \A r \in RunSet : offered'[r] =
        IF r \in R THEN Screenshots(r) \cup (IF offered[r] = None THEN {} ELSE offered[r])
        ELSE offered[r]
  BY DEF Ensure
<1>3. QED
  BY <1>1, <1>2, NoneAssumption DEF Ensure, Shape

LEMMA StepSeal == SealInv /\ [Next]_vars => SealInv'
<1> SUFFICES ASSUME SealInv, [Next]_vars PROVE SealInv'
  OBVIOUS
<1>1. ledger' = ledger
  BY DEF Next, vars, BeginPhase, Tick, BarrierElapses, Damage, Crash, Decide, Resumer,
         Resume, Look, Adjudicate, Seal, CancelBatch
<1>2. ASSUME UNCHANGED <<ledger, elapsed, batch, review, thread>>,
             Shape' PROVE SealInv'
  BY <1>2, SettledStays DEF SealInv, Justified, ReadBefore
<1>3. CASE BeginPhase
  <2>1. {r \in RunSet : Asked(r)} \in SUBSET RunSet
    OBVIOUS
  <2>2. Shape'
    BY <1>3, <2>1, EnsureKeeps DEF BeginPhase, SealInv, Shape
  <2>3. batch'.phase # "sealed" /\ UNCHANGED <<ledger, elapsed, review, thread>>
    BY <1>3 DEF BeginPhase
  <2>4. QED
    BY <2>2, <2>3, SettledStays DEF SealInv, Justified, ReadBefore
<1>4. CASE Tick
  BY <1>4, <1>2, ReviewAssumption DEF Tick, SealInv, Shape
<1>5. CASE BarrierElapses
  BY <1>5, SettledStays DEF BarrierElapses, SealInv, Shape, Justified, ReadBefore
<1>6. CASE Damage
  BY <1>6, <1>2 DEF Damage, SealInv, Shape
<1>7. CASE Crash
  BY <1>7, SettledStays DEF Crash, SealInv, Shape, Justified, ReadBefore, Idle
<1>8. ASSUME NEW r \in RunSet, Decide(r) PROVE SealInv'
  <2>1. PICK sub \in Submissions(r) : review' = [review EXCEPT ![r] =
                [decision |-> sub.decision, refs |-> sub.refs, verdicts |-> sub.verdicts,
                 observations |-> sub.observations, at |-> now]]
    BY <1>8 DEF Decide
  <2>2. review'[r] \in ReviewRows
    BY <1>8, <2>1, SubmissionIsRow DEF Decide, SealInv, Shape
  <2>3. \A q \in RunSet : review[q] # None => review'[q] # None
    BY <2>1, <2>2, NoneAssumption DEF SealInv, Shape
  <2>4. Shape'
    BY <1>8, <2>1, <2>2 DEF Decide, SealInv, Shape
  <2>5. UNCHANGED <<ledger, elapsed, batch, thread>>
    BY <1>8 DEF Decide
  <2>6. \A q \in RunSet : Settled(q) => Settled(q)'
    BY <2>3, <1>1, SettledStays
  <2>7. QED
    BY <2>4, <2>5, <2>6 DEF SealInv, Justified, ReadBefore
<1>9. ASSUME NEW p \in Threads, Resume(p) PROVE SealInv'
  BY <1>9, SettledStays DEF Resume, SealInv, Shape, Justified, ReadBefore, Idle
<1>10. ASSUME NEW p \in Threads, CancelBatch(p) PROVE SealInv'
  BY <1>10, SettledStays DEF CancelBatch, SealInv, Shape, Justified, ReadBefore, Idle
<1>11. ASSUME NEW p \in Threads, Adjudicate(p) PROVE SealInv'
  <2> UNCHANGED <<ledger, now, elapsed, batch, offered, review>> /\ thread[p].at = "adjudicate"
    BY <1>11 DEF Adjudicate
  <2>1. thread' = [thread EXCEPT ![p] = Idle] \/ thread' = [thread EXCEPT ![p] = Adjudicated(thread[p])]
    BY <1>11 DEF Adjudicate, SealInv, Shape
  <2>2. /\ DOMAIN thread' = Threads
        /\ \A q \in Threads \ {p} : thread'[q] = thread[q]
        /\ {"at", "expired", "cancels"} \subseteq DOMAIN thread'[p]
        /\ \/ thread'[p] = Idle
           \/ /\ thread'[p].expired = thread[p].expired
              /\ thread'[p].cancels = thread[p].cancels
    <3>1. CASE thread' = [thread EXCEPT ![p] = Idle]
      BY <3>1, ThreadMoves DEF SealInv, Shape, Idle
    <3>2. CASE thread' = [thread EXCEPT ![p] = Adjudicated(thread[p])]
      <4>1. /\ DOMAIN Adjudicated(thread[p]) = DOMAIN thread[p]
            /\ Adjudicated(thread[p]).expired = thread[p].expired
            /\ Adjudicated(thread[p]).cancels = thread[p].cancels
        BY DEF SealInv, Shape, Adjudicated
      <4>2. QED
        BY <3>2, <4>1, ThreadMoves DEF SealInv, Shape
    <3>3. QED
      BY <2>1, <3>1, <3>2
  <2>3. \A q \in RunSet : Settled(q) => Settled(q)'
    BY SettledStays
  <2>4. Shape'
    BY <2>2 DEF SealInv, Shape
  <2>5. \A q \in Threads : Justified(q)' /\ ReadBefore(q)'
    BY <2>2, <2>3 DEF SealInv, Justified, ReadBefore, Idle
  <2>6. QED
    BY <2>3, <2>4, <2>5 DEF SealInv
<1>12. ASSUME NEW p \in Threads, Look(p) PROVE SealInv'
  <2> UNCHANGED <<ledger, elapsed, review>>
    BY <1>12 DEF Look
  <2>1. \A q \in RunSet : Settled(q) => Settled(q)'
    BY SettledStays
  <2>2. /\ DOMAIN offered' = RunSet
        /\ \A r \in RunSet : offered'[r] = None \/ offered'[r] \in SUBSET Artifacts
    <3>1. {r \in RunSet : Asked(r)} \in SUBSET RunSet
      OBVIOUS
    <3>2. CASE UNCHANGED offered
      BY <3>2 DEF SealInv, Shape
    <3>3. QED
      BY <1>12, <3>1, <3>2, EnsureKeeps DEF Look, SealInv
  <2>3. \/ thread' = [thread EXCEPT ![p] = Idle]
        \/ /\ StillAwaited(p) = {}
           /\ thread' = [thread EXCEPT ![p] =
                 [@ EXCEPT !.at = "adjudicate", !.left = Runs, !.rejected = AnyRefused]]
    BY <1>12 DEF Look
  <2>4. /\ DOMAIN thread' = Threads
        /\ \A q \in Threads \ {p} : thread'[q] = thread[q]
        /\ {"at", "expired", "cancels"} \subseteq DOMAIN thread'[p]
        /\ \/ thread'[p] = Idle
           \/ /\ StillAwaited(p) = {}
              /\ thread'[p].expired = thread[p].expired
              /\ thread'[p].cancels = thread[p].cancels
    <3>1. CASE thread' = [thread EXCEPT ![p] = Idle]
      BY <3>1, ThreadMoves DEF SealInv, Shape, Idle
    <3>2. CASE /\ StillAwaited(p) = {}
               /\ thread' = [thread EXCEPT ![p] =
                     [@ EXCEPT !.at = "adjudicate", !.left = Runs, !.rejected = AnyRefused]]
      <4> DEFINE x == [thread[p] EXCEPT !.at = "adjudicate", !.left = Runs, !.rejected = AnyRefused]
      <4>1. DOMAIN x = DOMAIN thread[p] /\ x.expired = thread[p].expired /\ x.cancels = thread[p].cancels
        BY DEF SealInv, Shape
      <4>2. thread' = [thread EXCEPT ![p] = x]
        BY <3>2
      <4> HIDE DEF x
      <4>3. QED
        BY <3>2, <4>1, <4>2, ThreadMoves DEF SealInv, Shape
    <3>3. QED
      BY <2>3, <3>1, <3>2
  <2>5. Shape'
    BY <1>12, <2>2, <2>4 DEF Look, SealInv, Shape
  <2>6. StillAwaited(p) = {} /\ ~thread[p].expired => \A r \in RunSet : Settled(r)
    BY DEF StillAwaited, Asked, Reviewed, Settled
  <2>7. \A q \in Threads : Justified(q)' /\ ReadBefore(q)'
    BY <2>1, <2>6, <2>4 DEF SealInv, Justified, ReadBefore, Idle
  <2>8. batch' = batch \/ (batch'.phase = batch.phase /\ batch.phase # "sealed")
    <3>1. CASE batch' = [batch EXCEPT !.awaiting = StillAwaited(p)] /\ batch.phase # "sealed"
      BY <3>1
    <3>2. QED
      BY <1>12, <3>1 DEF Look
  <2>9. QED
    BY <2>1, <2>5, <2>7, <2>8 DEF SealInv
<1>13. ASSUME NEW p \in Threads, Seal(p) PROVE SealInv'
  <2> UNCHANGED <<ledger, elapsed, review, now, offered>>
    BY <1>13 DEF Seal
  <2>1. \A q \in RunSet : Settled(q) => Settled(q)'
    BY SettledStays
  <2>2. Shape'
    BY <1>13 DEF Seal, SealInv, Shape, Idle
  <2>3. \A q \in Threads : Justified(q)' /\ ReadBefore(q)'
    BY <1>13, <2>1 DEF Seal, SealInv, Shape, Justified, ReadBefore, Idle
  <2>4. thread[p].cancels => SealedState(p) = "cancelled"
    BY DEF SealedState, AcceptedDone
  <2>5. batch' = batch \/ batch'.state = SealedState(p)
    BY <1>13 DEF Seal, FrozenResult
  <2>6. batch'.state # "cancelled" /\ ~elapsed /\ batch' # batch => \A r \in RunSet : Settled(r)
    BY <1>13, <2>4, <2>5 DEF Seal, SealInv, Justified, ReadBefore
  <2>7. QED
    BY <2>1, <2>2, <2>3, <2>6 DEF SealInv
<1>14. CASE UNCHANGED vars
  BY <1>14, <1>2 DEF vars, SealInv, Shape
<1>15. QED
  BY <1>3, <1>4, <1>5, <1>6, <1>7, <1>8, <1>9, <1>10, <1>11, <1>12, <1>13, <1>14
     DEF Next, Resumer

LEMMA SealInvHolds == Spec => []SealInv
BY InitSeal, StepSeal, PTL DEF Spec

\* Before the barrier runs out no thread seals the Batch while a review could
\* still change it, however many runs and threads there are
\* (_resume_completion_review_batch).
THEOREM NoSealIsEarly == Spec => []NotSealedEarly
<1>1. SealInv => NotSealedEarly
  BY DEF SealInv, Shape, Settled, NotSealedEarly
<1> QED BY <1>1, SealInvHolds, PTL

\* A run the Batch waits for always has an open item or its review.
THEOREM AwaitedRunsAreAsked == Spec => []AwaitedIsAsked
<1> DEFINE Wait == "awaiting" \in DOMAIN batch /\ batch.awaiting \subseteq RunSet
           Inv  == SealInv /\ Wait /\ AwaitedIsAsked
<1>1. Init => Inv
  BY InitSeal DEF Init, AwaitedIsAsked
<1>2. Inv /\ [Next]_vars => Inv'
  <2> SUFFICES ASSUME SealInv, Wait, AwaitedIsAsked, [Next]_vars PROVE Wait' /\ AwaitedIsAsked'
    BY StepSeal
  <2>1. CASE BeginPhase
    <3>1. {r \in RunSet : Asked(r)} \in SUBSET RunSet
      OBVIOUS
    <3>2. QED
      BY <2>1, <3>1, EnsureKeeps DEF BeginPhase, SealInv, AwaitedIsAsked
  <2>2. ASSUME NEW r \in RunSet, Decide(r) PROVE Wait' /\ AwaitedIsAsked'
    <3>1. PICK sub \in Submissions(r) : review' = [review EXCEPT ![r] =
                [decision |-> sub.decision, refs |-> sub.refs, verdicts |-> sub.verdicts,
                 observations |-> sub.observations, at |-> now]]
      BY <2>2 DEF Decide
    <3>2. review'[r] # None
      BY <2>2, <3>1, SubmissionIsRow, NoneAssumption DEF Decide, SealInv, Shape
    <3>3. QED
      BY <2>2, <3>1, <3>2 DEF Decide, SealInv, Shape, AwaitedIsAsked
  <2>3. ASSUME NEW p \in Threads, Look(p) PROVE Wait' /\ AwaitedIsAsked'
    <3>1. /\ {r \in RunSet : Asked(r)} \in SUBSET RunSet
          /\ StillAwaited(p) \subseteq {r \in RunSet : Asked(r)}
      BY DEF StillAwaited
    <3>2. review' = review /\ DOMAIN offered = RunSet
      BY <2>3 DEF Look, SealInv, Shape
    <3>3. CASE UNCHANGED <<batch, offered>>
      BY <3>2, <3>3 DEF AwaitedIsAsked
    <3>4. CASE Ensure({r \in RunSet : Asked(r)}) /\ batch' = [batch EXCEPT !.awaiting = StillAwaited(p)]
      BY <3>1, <3>2, <3>4, EnsureKeeps DEF SealInv, AwaitedIsAsked
    <3>5. CASE Ensure({r \in RunSet : Asked(r)}) /\ batch' = batch
      BY <3>1, <3>2, <3>5, EnsureKeeps DEF SealInv, AwaitedIsAsked
    <3>6. QED
      BY <2>3, <3>3, <3>4, <3>5 DEF Look
  <2>4. ASSUME NEW p \in Threads, Seal(p) PROVE Wait' /\ AwaitedIsAsked'
    BY <2>4 DEF Seal, FrozenResult, AwaitedIsAsked
  <2>5. ASSUME UNCHANGED <<batch, offered, review>> PROVE Wait' /\ AwaitedIsAsked'
    BY <2>5 DEF AwaitedIsAsked
  <2>6. QED
    BY <2>1, <2>2, <2>3, <2>4, <2>5
       DEF Next, Resumer, Resume, Adjudicate, CancelBatch, Tick, BarrierElapses, Damage, Crash, vars
<1>3. QED
  BY <1>1, <1>2, PTL DEF Spec

\* No step of anybody changes a sealed Batch (seal_batch).
THEOREM SealStands == Spec => SealIsFinal
<1>1. [Next]_vars => [batch.phase = "sealed" => batch' = batch]_batch
  BY DEF Next, vars, BeginPhase, Tick, BarrierElapses, Damage, Crash, Decide, Resumer,
         Resume, Look, Adjudicate, Seal, MaySeal, CancelBatch
<1> QED BY <1>1, PTL DEF Spec, SealIsFinal

---------------------------------------------------------------------------
(* The contract: when a run is accepted. *)

\* The predicates of the contract, one group each, when they hold.
AttemptHolds(s) ==
    LET f == s.lineage[s.current] IN
    /\ f.run = s.run /\ f.own /\ InDay(s, f.started) /\ f.state = "completed" /\ InDay(s, f.completed)
    /\ DOMAIN s.lineage # {} /\ Scoped(s) = DOMAIN s.lineage
EvidenceHolds(s) ==
    /\ \A e \in DOMAIN s.evidence : s.evidence[e].intact
    /\ Ambiguous(s) = {} /\ AcceptedEvidence(s) # {}
TodosHold(s) ==
    /\ Required(s) # {}
    /\ \A t \in Required(s) :
          /\ s.todos[t].status = "completed" /\ s.todos[t].own /\ OwnedInLineage(s, s.todos[t])
          /\ s.todos[t].sameDay /\ InDay(s, s.todos[t].completed) /\ ProvenTodo(s, t)
Unblocked(s) ==
    \A b \in s.blockers : ~(b.own /\ b.run = s.run /\ b.attempt \in Scoped(s) /\ b.sameDay)
ReviewHolds(s) == ReviewInScope(s) /\ s.review.decision = "accepted"
VerdictsHold(s) ==
    /\ s.review # None /\ DOMAIN s.review.verdicts = Required(s)
    /\ \A t \in Required(s) : s.review.verdicts[t].verdict = "confirmed" /\ SoundVerdict(s, t)
RuleHolds(s, p) == ReviewHolds(s) /\ p \in DOMAIN s.review.observations
    /\ LET o == s.review.observations[p] IN
       /\ o.holds
       /\ o.refs \subseteq s.review.refs \cap AcceptedEvidence(s)
       /\ \A e \in o.refs : /\ s.evidence[e].raw /\ s.evidence[e].image
                            /\ s.evidence[e].kind \in s.policy.rules[p]
Holds(s) ==
    /\ s.policy.available /\ s.policy.window
    /\ AttemptHolds(s) /\ EvidenceHolds(s) /\ TodosHold(s) /\ Unblocked(s)
    /\ ReviewHolds(s) /\ VerdictsHold(s)
    /\ s.review.promoted \in {"no", "proven"}
    /\ \A p \in DOMAIN s.policy.rules : RuleHolds(s, p)

\* A set of states in which nothing is blocked or missing.
Clear(S) == Blocked \notin S /\ Missing \notin S

LEMMA AttemptClear ==
    ASSUME NEW s, s.current # None PROVE Clear(StatesOf(AttemptStates(s))) <=> AttemptHolds(s)
<1> DEFINE f == s.lineage[s.current]
           A == /\ f.run = s.run /\ f.own /\ InDay(s, f.started)
                /\ f.state = "completed" => InDay(s, f.completed)
           C == DOMAIN s.lineage # {} /\ Scoped(s) = DOMAIN s.lineage
           two == State(f.state = "completed", IF f.state \in {"blocked", "human_required", "failed", "cancelled"} THEN Blocked ELSE Missing)
<1>1. AttemptStates(s) = <<State(A, Blocked), two, State(C, Blocked)>>
  BY DEF AttemptStates
<1>2. \A a, b, c : StatesOf(<<a, b, c>>) = {a, b, c}
  BY DEF StatesOf
<1>3. (State(A, Blocked) \notin {Blocked, Missing}) <=> A
  BY DEF State, Blocked, Missing, Satisfied
<1>4. (State(C, Blocked) \notin {Blocked, Missing}) <=> C
  BY DEF State, Blocked, Missing, Satisfied
<1>5. (two \notin {Blocked, Missing}) <=> f.state = "completed"
  BY DEF State, Blocked, Missing, Satisfied
<1>6. Clear(StatesOf(AttemptStates(s))) <=> A /\ f.state = "completed" /\ C
  <2> HIDE DEF A, C, two
  <2>1. StatesOf(AttemptStates(s)) = {State(A, Blocked), two, State(C, Blocked)}
    BY <1>1, <1>2
  <2>2. QED
    BY <2>1, <1>3, <1>4, <1>5 DEF Clear
<1>7. QED
  BY <1>6 DEF AttemptHolds

LEMMA EvidenceClear == ASSUME NEW s PROVE Clear(StatesOf(EvidenceStates(s))) <=> EvidenceHolds(s)
<1> DEFINE A == \A e \in DOMAIN s.evidence : s.evidence[e].intact
           B == Ambiguous(s) = {}
           C == AcceptedEvidence(s) # {}
<1>1. EvidenceStates(s) = <<State(A, Blocked), State(B, Blocked), State(C, Missing)>>
  BY DEF EvidenceStates
<1>2. \A a, b, c : StatesOf(<<a, b, c>>) = {a, b, c}
  BY DEF StatesOf
<1>3. (State(A, Blocked) \notin {Blocked, Missing}) <=> A
  BY DEF State, Blocked, Missing, Satisfied
<1>4. (State(B, Blocked) \notin {Blocked, Missing}) <=> B
  BY DEF State, Blocked, Missing, Satisfied
<1>5. (State(C, Missing) \notin {Blocked, Missing}) <=> C
  BY DEF State, Blocked, Missing, Satisfied
<1>6. Clear(StatesOf(EvidenceStates(s))) <=> A /\ B /\ C
  <2> HIDE DEF A, B, C
  <2>1. StatesOf(EvidenceStates(s)) = {State(A, Blocked), State(B, Blocked), State(C, Missing)}
    BY <1>1, <1>2
  <2>2. QED
    BY <2>1, <1>3, <1>4, <1>5 DEF Clear
<1>7. QED
  BY <1>6 DEF EvidenceHolds

LEMMA TodosClear == ASSUME NEW s PROVE Clear(StatesOf(TodoStates(s))) <=> TodosHold(s)
<1> DEFINE R == Required(s)
           A == R # {}
           B == \A t \in R : s.todos[t].status = "completed"
           stopped == {"blocked", "human_required", "failed", "cancelled"}
           other == IF \E t \in R : s.todos[t].status \in stopped THEN Blocked ELSE Missing
           C == R # {} /\ \A t \in R : s.todos[t].own /\ OwnedInLineage(s, s.todos[t])
           D == R # {} /\ \A t \in R : s.todos[t].sameDay /\ InDay(s, s.todos[t].completed)
           E == R # {} /\ \A t \in R : ProvenTodo(s, t)
<1>1. TodoStates(s) = <<State(A, Missing), State(B, other), State(C, Missing), State(D, Missing), State(E, Missing)>>
  BY DEF TodoStates
<1>2. \A a, b, c, d, e : StatesOf(<<a, b, c, d, e>>) = {a, b, c, d, e}
  BY DEF StatesOf
<1>3. (State(A, Missing) \notin {Blocked, Missing}) <=> A
  BY DEF State, Blocked, Missing, Satisfied
<1>4. (State(B, other) \notin {Blocked, Missing}) <=> B
  <2> HIDE DEF B
  <2>1. other \in {Blocked, Missing}
    OBVIOUS
  <2> HIDE DEF other
  <2>2. QED
    BY <2>1 DEF State, Blocked, Missing, Satisfied
<1>5. (State(C, Missing) \notin {Blocked, Missing}) <=> C
  BY DEF State, Blocked, Missing, Satisfied
<1>6. (State(D, Missing) \notin {Blocked, Missing}) <=> D
  BY DEF State, Blocked, Missing, Satisfied
<1>7. (State(E, Missing) \notin {Blocked, Missing}) <=> E
  BY DEF State, Blocked, Missing, Satisfied
<1>8. Clear(StatesOf(TodoStates(s))) <=> A /\ B /\ C /\ D /\ E
  <2> HIDE DEF A, B, C, D, E, other
  <2>1. StatesOf(TodoStates(s)) =
          {State(A, Missing), State(B, other), State(C, Missing), State(D, Missing), State(E, Missing)}
    BY <1>1, <1>2
  <2>2. QED
    BY <2>1, <1>3, <1>4, <1>5, <1>6, <1>7 DEF Clear
<1>9. QED
  BY <1>8 DEF TodosHold

LEMMA ReviewClear ==
    ASSUME NEW s
    PROVE  Clear(StatesOf(ReviewStates(s)) \cup {TodoReviewState(s), PromotedState(s)})
             <=> ReviewHolds(s) /\ VerdictsHold(s) /\ s.review.promoted \in {"no", "proven"}
<1> DEFINE A == ReviewInScope(s)
           B == ReviewInScope(s) /\ s.review.decision = "accepted"
           other == IF ReviewInScope(s) /\ s.review.decision = "rejected" THEN Blocked ELSE Missing
<1>1. ReviewStates(s) = <<State(A, Missing), State(B, other)>>
  BY DEF ReviewStates
<1>2. \A a, b : StatesOf(<<a, b>>) = {a, b}
  BY DEF StatesOf
<1>3. (State(A, Missing) \notin {Blocked, Missing}) <=> A
  BY DEF State, Blocked, Missing, Satisfied
<1>4. (State(B, other) \notin {Blocked, Missing}) <=> B
  <2> HIDE DEF B
  <2>1. other \in {Blocked, Missing}
    OBVIOUS
  <2> HIDE DEF other
  <2>2. QED
    BY <2>1 DEF State, Blocked, Missing, Satisfied
<1>5. (TodoReviewState(s) \notin {Blocked, Missing}) <=> VerdictsHold(s)
  <2> DEFINE says(v) == {t \in Required(s) : s.review.verdicts[t].verdict = v}
  <2>1. CASE s.review = None \/ DOMAIN s.review.verdicts # Required(s)
    BY <2>1 DEF TodoReviewState, VerdictsHold
  <2>2. CASE ~(s.review = None \/ DOMAIN s.review.verdicts # Required(s))
    <3> DEFINE S == \A t \in Required(s) : SoundVerdict(s, t)
    <3>1. TodoReviewState(s) = IF says("rejected") # {} THEN Blocked
                               ELSE IF says("confirmed") # Required(s) THEN Missing ELSE State(S, Blocked)
      BY <2>2 DEF TodoReviewState
    <3>2. (State(S, Blocked) \notin {Blocked, Missing}) <=> S
      BY DEF State, Blocked, Missing, Satisfied
    <3>3. says("confirmed") = Required(s) <=> \A t \in Required(s) : s.review.verdicts[t].verdict = "confirmed"
      OBVIOUS
    <3>4. says("confirmed") = Required(s) => says("rejected") = {}
      BY <3>3
    <3>5. VerdictsHold(s) <=> says("confirmed") = Required(s) /\ S
      BY <2>2, <3>3 DEF VerdictsHold
    <3> HIDE DEF S, says
    <3>6. QED
      BY <3>1, <3>2, <3>4, <3>5
  <2>3. QED
    BY <2>1, <2>2
<1>6. (PromotedState(s) \notin {Blocked, Missing}) <=> (s.review # None => s.review.promoted \in {"no", "proven"})
  BY DEF PromotedState, State, Blocked, Missing, Satisfied
<1>7. A => s.review # None
  BY DEF ReviewInScope
<1>8. Clear(StatesOf(ReviewStates(s)) \cup {TodoReviewState(s), PromotedState(s)})
        <=> A /\ B /\ VerdictsHold(s) /\ (s.review # None => s.review.promoted \in {"no", "proven"})
  <2> HIDE DEF A, B, other
  <2>1. StatesOf(ReviewStates(s)) = {State(A, Missing), State(B, other)}
    BY <1>1, <1>2
  <2>2. QED
    BY <2>1, <1>3, <1>4, <1>5, <1>6 DEF Clear
<1>9. QED
  BY <1>7, <1>8 DEF ReviewHolds

LEMMA RuleClear ==
    ASSUME NEW s, s.policy.available
    PROVE  Clear(IF s.policy.available THEN {RuleState(s, p) : p \in DOMAIN s.policy.rules} ELSE {})
             <=> \A p \in DOMAIN s.policy.rules : RuleHolds(s, p)
<1>1. ASSUME NEW p PROVE (RuleState(s, p) \notin {Blocked, Missing}) <=> RuleHolds(s, p)
  BY DEF RuleState, RuleHolds, ReviewHolds, State, Blocked, Missing, Satisfied
<1>2. QED
  BY <1>1 DEF Clear

\* A run is accepted exactly when every predicate of the contract holds.
LEMMA OutcomeIsHolds ==
    ASSUME NEW s, s.current # None PROVE Outcome(s) = "accepted_done" <=> Holds(s)
<1> DEFINE P == {State(s.policy.available, Blocked), State(s.policy.available /\ s.policy.window, Blocked)}
           V == StatesOf(ReviewStates(s)) \cup {TodoReviewState(s), PromotedState(s)}
           U == IF s.policy.available THEN {RuleState(s, p) : p \in DOMAIN s.policy.rules} ELSE {}
<1>1. Outcome(s) = "accepted_done" <=> Clear(Evaluations(s))
  BY DEF Outcome, Clear
<1>2. Evaluations(s) = P \cup StatesOf(AttemptStates(s)) \cup StatesOf(EvidenceStates(s))
                         \cup StatesOf(TodoStates(s)) \cup {BlockerState(s)} \cup V \cup U
  BY DEF Evaluations
<1>3. Clear(P) <=> s.policy.available /\ s.policy.window
  BY DEF Clear, State, Blocked, Missing, Satisfied
<1>4. Clear({BlockerState(s)}) <=> Unblocked(s)
  BY DEF Clear, BlockerState, Unblocked, State, Blocked, Missing, Satisfied
<1>5. Clear(V) <=> ReviewHolds(s) /\ VerdictsHold(s) /\ s.review.promoted \in {"no", "proven"}
  BY ReviewClear
<1>6. s.policy.available => (Clear(U) <=> \A p \in DOMAIN s.policy.rules : RuleHolds(s, p))
  BY RuleClear
<1> HIDE DEF P, V, U
<1>7. Clear(Evaluations(s)) <=> /\ Clear(P) /\ Clear(StatesOf(AttemptStates(s)))
        /\ Clear(StatesOf(EvidenceStates(s))) /\ Clear(StatesOf(TodoStates(s)))
        /\ Clear({BlockerState(s)}) /\ Clear(V) /\ Clear(U)
  BY <1>2 DEF Clear
<1>8. QED
  BY <1>1, <1>3, <1>4, <1>5, <1>6, <1>7, AttemptClear, EvidenceClear, TodosClear DEF Holds
-----------------------------------------------------------------------------
\* What a recorded review kept of its validation, and that it is the last one.
Validated(r, v) ==
    /\ \A e \in v.refs :
          LET f == ledger.artifact[e] IN
          /\ e \in Artifacts /\ f.todo \in TodosOf(r) /\ OwnerOf(f.todo) = r /\ f.cited /\ f.raw /\ f.image
          /\ 1 <= f.captured /\ f.captured < DayEnd /\ f.captured <= v.at
    /\ \A t \in DOMAIN v.verdicts : v.verdicts[t].refs # {}
    /\ OwnVerdicts(v) /\ OwnObservations(r, v)
    /\ v.decision = "accepted" =>
          /\ v.at < DayEnd /\ ledger.attempt[r].completed <= v.at
          /\ ledger.attempt[r].state = "completed" /\ ledger.supported /\ RequiredOf(r) # {}
          /\ DOMAIN v.verdicts = RequiredOf(r)
          /\ \A t \in RequiredOf(r) : IsDone(t) /\ v.verdicts[t].verdict = "confirmed"
          /\ DOMAIN v.observations = DOMAIN ledger.rules[r]
          /\ \A p \in DOMAIN v.observations : v.observations[p].holds
          /\ \E e \in v.refs : OwnerOf(ledger.artifact[e].todo) = r
ReviewSound(r) ==
    /\ review[r] # None => review[r].at \in 1..DayEnd /\ offered[r] = None /\ Validated(r, review[r])
    /\ offered[r] # None => \A e \in offered[r] : e \in Artifacts /\ ledger.artifact[e].todo \in TodosOf(r)

\* What an accepted run has been shown to be.
Proven(r) ==
    /\ BlockerFacts(r) = {} /\ RequiredOf(r) # {}
    /\ review[r] # None /\ review[r].decision = "accepted" /\ review[r].at < DayEnd
    /\ \A t \in RequiredOf(r) :
         /\ IsDone(t) /\ review[r].verdicts[t].verdict = "confirmed"
         /\ \E e \in review[r].verdicts[t].refs :
              LET f == ledger.artifact[e] IN
              /\ f.todo = t /\ f.raw /\ f.image /\ f.captured \in 1..(DayEnd - 1)
              /\ \A g \in Screenshots(r) : ledger.artifact[g].hash = f.hash => ledger.artifact[g].todo = t
    /\ \A p \in DOMAIN ledger.rules[r] : review[r].observations[p].holds

LEMMA SnapshotOf ==
    ASSUME NEW r
    PROVE  LET s == Snapshot(r) IN
           /\ s.day.start = 1 /\ s.day.end = DayEnd /\ s.run = r /\ s.current = r
           /\ s.lineage = LineageOf(r) /\ s.todos = TodoFacts(r) /\ s.evidence = EvidenceFacts(r)
           /\ s.blockers = BlockerFacts(r) /\ s.review = ReviewFact(r) /\ s.policy = PolicyOf(r)
BY DEF Snapshot

LEMMA LineageFacts ==
    ASSUME NEW r
    PROVE  /\ r \in DOMAIN LineageOf(r)
           /\ LineageOf(r)[r].own /\ LineageOf(r)[r].run = r /\ LineageOf(r)[r].started = 1
           /\ LineageOf(r)[r].state = ledger.attempt[r].state
           /\ LineageOf(r)[r].completed = ledger.attempt[r].completed
           /\ \A a \in DOMAIN LineageOf(r) \ {r} :
                 /\ a = Earlier /\ LineageOf(r)[a].own /\ LineageOf(r)[a].run = Earlier
                 /\ LineageOf(r)[a].started = 1 /\ LineageOf(r)[a].completed = 1
<1>1. \A t \in TodosOf(r) : ledger.todo[t].carried => OwnerOf(t) = Earlier
  BY DEF OwnerOf
<1>2. QED
  BY <1>1 DEF LineageOf

LEMMA CarriedInLineage ==
    ASSUME NEW r, NEW t \in TodosOf(r), ledger.todo[t].carried PROVE OwnerOf(t) \in DOMAIN LineageOf(r)
BY DEF LineageOf

\* A Todo of the run that has an owner is owned by an attempt of the lineage.
LEMMA OwnerInLineage ==
    ASSUME NEW r, NEW t \in TodosOf(r), OwnerOf(t) # None \/ ledger.todo[t].status # "pending"
    PROVE  OwnerOf(t) \in DOMAIN LineageOf(r) /\ LineageOf(r)[OwnerOf(t)].run = OwnerOf(t)
<1>1. CASE ledger.todo[t].carried
  <2>1. OwnerOf(t) = Earlier /\ OwnerOf(t) \in DOMAIN LineageOf(r)
    BY <1>1, CarriedInLineage DEF OwnerOf
  <2>2. CASE Earlier = r
    BY <2>1, <2>2, LineageFacts
  <2>3. CASE Earlier # r
    BY <2>1, <2>3, LineageFacts
  <2>4. QED
    BY <2>2, <2>3
<1>2. CASE ~ledger.todo[t].carried
  <2>1. OwnerOf(t) = r
    BY <1>2 DEF OwnerOf, TodosOf
  <2>2. QED
    BY <2>1, LineageFacts
<1>3. QED
  BY <1>1, <1>2

LEMMA TodoFactsOf ==
    ASSUME NEW r
    PROVE  /\ DOMAIN TodoFacts(r) = TodosOf(r)
           /\ \A t \in TodosOf(r) : LET f == TodoFacts(r)[t] IN
                 /\ f.required <=> ledger.todo[t].required
                 /\ f.status = ledger.todo[t].status /\ f.own /\ f.sameDay
                 /\ f.run = OwnerOf(t) /\ f.attempt = OwnerOf(t) /\ f.refs = RefsOf(t)
                 /\ f.completed = IF IsDone(t) THEN 1 ELSE None
BY DEF TodoFacts

LEMMA EvidenceFactsOf ==
    ASSUME NEW r
    PROVE  /\ DOMAIN EvidenceFacts(r) = EvidenceOf(r)
           /\ \A e \in EvidenceOf(r) : LET f == EvidenceFacts(r)[e]
                                           a == ledger.artifact[e] IN
                 /\ f.own /\ f.sameDay /\ f.allowed /\ (f.intact <=> e \notin damaged)
                 /\ f.run = OwnerOf(a.todo) /\ f.attempt = OwnerOf(a.todo) /\ f.todo = a.todo
                 /\ f.kind = a.kind /\ f.captured = a.captured /\ f.hash = a.hash
                 /\ (f.image <=> a.image) /\ (f.raw <=> a.raw)
BY DEF EvidenceFacts

LEMMA ReviewFactOf ==
    ASSUME NEW r, review[r] # None
    PROVE  LET f == ReviewFact(r)
               v == review[r] IN
           /\ f.own /\ f.run = r /\ f.attempt = r /\ f.sameDay /\ f.at = v.at
           /\ f.decision = v.decision /\ f.refs = v.refs /\ f.verdicts = v.verdicts
           /\ f.observations = v.observations /\ f.promoted = "no"
BY DEF ReviewFact

LEMMA RequiredIs == ASSUME NEW r PROVE Required(Snapshot(r)) = RequiredOf(r)
BY SnapshotOf, TodoFactsOf DEF Required, RequiredOf

LEMMA ScopedIs ==
    ASSUME NEW r
    PROVE  \A a \in DOMAIN LineageOf(r) : a \in Scoped(Snapshot(r)) <=>
               /\ InDay(Snapshot(r), LineageOf(r)[a].started)
               /\ LineageOf(r)[a].completed # None => InDay(Snapshot(r), LineageOf(r)[a].completed)
<1>1. \A a \in DOMAIN LineageOf(r) : LineageOf(r)[a].own
  BY LineageFacts
<1>2. Snapshot(r).lineage = LineageOf(r)
  BY SnapshotOf
<1>3. QED
  BY <1>1, <1>2 DEF Scoped

\* An accepted contract proves the run.
LEMMA AcceptedProves ==
    ASSUME NEW r \in RunSet, ledger \in Ledgers, ReviewSound(r), Outcome(Snapshot(r)) = "accepted_done"
    PROVE  Proven(r)
<1> DEFINE s == Snapshot(r)
<1>1. /\ s.day.start = 1 /\ s.day.end = DayEnd /\ s.run = r /\ s.current = r
      /\ s.lineage = LineageOf(r) /\ s.todos = TodoFacts(r) /\ s.evidence = EvidenceFacts(r)
      /\ s.blockers = BlockerFacts(r) /\ s.review = ReviewFact(r) /\ s.policy = PolicyOf(r)
  BY SnapshotOf
<1>2. Holds(s)
  BY <1>1, OutcomeIsHolds, FactsAssumption
<1>3. Required(s) = RequiredOf(r)
  BY RequiredIs
<1> HIDE DEF s
<1>4. Scoped(s) = DOMAIN LineageOf(r) /\ r \in Scoped(s)
  <2>1. Scoped(s) = DOMAIN s.lineage
    BY <1>2 DEF Holds, AttemptHolds
  <2>2. QED
    BY <1>1, <2>1, LineageFacts
<1>5. BlockerFacts(r) = {}
  <2>1. \A b \in BlockerFacts(r) : b.own /\ b.run = r /\ b.attempt = r /\ b.sameDay
    BY DEF BlockerFacts
  <2>2. QED
    BY <1>1, <1>2, <1>4, <2>1 DEF Holds, Unblocked
<1>6. /\ review[r] # None /\ ReviewFact(r).decision = "accepted" /\ InDay(s, ReviewFact(r).at)
  BY <1>1, <1>2 DEF Holds, ReviewHolds, ReviewInScope, ReviewFact
<1>7. review[r].decision = "accepted" /\ review[r].at < DayEnd
  BY <1>1, <1>6, ReviewFactOf DEF InDay
<1>8. RequiredOf(r) # {} /\ \A t \in RequiredOf(r) : IsDone(t)
  <2>1. \A t \in RequiredOf(r) : t \in TodosOf(r)
    BY DEF RequiredOf
  <2>2. QED
    BY <1>1, <1>2, <1>3, <2>1, TodoFactsOf DEF Holds, TodosHold, IsDone
<1>9. ASSUME NEW t \in RequiredOf(r)
      PROVE  /\ review[r].verdicts[t].verdict = "confirmed"
             /\ \E e \in review[r].verdicts[t].refs :
                  LET f == ledger.artifact[e] IN
                  /\ f.todo = t /\ f.raw /\ f.image /\ f.captured \in 1..(DayEnd - 1)
                  /\ \A g \in Screenshots(r) : ledger.artifact[g].hash = f.hash => ledger.artifact[g].todo = t
  <2>1. /\ DOMAIN ReviewFact(r).verdicts = RequiredOf(r)
        /\ ReviewFact(r).verdicts[t].verdict = "confirmed" /\ SoundVerdict(s, t)
    BY <1>1, <1>2, <1>3 DEF Holds, VerdictsHold
  <2>2. t \in DOMAIN review[r].verdicts /\ review[r].verdicts[t].verdict = "confirmed"
    BY <1>6, <2>1, ReviewFactOf
  <2>3. PICK e \in review[r].verdicts[t].refs : TRUE
    BY <1>6, <2>2 DEF ReviewSound, Validated
  <2>4. /\ e \in AcceptedEvidence(s) /\ EvidenceFacts(r)[e].todo = t
        /\ EvidenceFacts(r)[e].raw /\ EvidenceFacts(r)[e].image
    BY <1>1, <1>6, <2>1, ReviewFactOf DEF SoundVerdict
  <2>5. e \in Admissible(s) /\ e \in EvidenceOf(r) /\ InDay(s, EvidenceFacts(r)[e].captured)
    BY <1>1, <2>4, EvidenceFactsOf DEF AcceptedEvidence, Admissible
  <2>6. /\ ledger.artifact[e].todo = t /\ ledger.artifact[e].raw /\ ledger.artifact[e].image
        /\ InDay(s, ledger.artifact[e].captured)
    BY <2>4, <2>5, EvidenceFactsOf
  <2>7. ledger.artifact[e].captured \in 1..(DayEnd - 1)
    <3>1. ledger.artifact[e].captured \in Nat
      BY <2>5, FactsAssumption DEF EvidenceOf
    <3>2. QED
      BY <1>1, <2>6, <3>1, ReviewAssumption DEF InDay
  <2>8. ASSUME NEW g \in Screenshots(r), ledger.artifact[g].hash = ledger.artifact[e].hash
        PROVE  ledger.artifact[g].todo = t
    <3>1. /\ g \in EvidenceOf(r) /\ ledger.artifact[g].image /\ OwnerOf(ledger.artifact[g].todo) # None
          /\ 1 <= ledger.artifact[g].captured /\ ledger.artifact[g].captured < DayEnd
          /\ g \in Artifacts /\ ledger.artifact[g].todo \in TodosOf(r)
      BY DEF Screenshots, EvidenceOf
    <3>2. InDay(s, EvidenceFacts(r)[g].captured)
      BY <1>1, <3>1, EvidenceFactsOf, FactsAssumption DEF InDay
    <3>3. OwnedInLineage(s, EvidenceFacts(r)[g])
      BY <1>1, <1>4, <3>1, EvidenceFactsOf, OwnerInLineage DEF OwnedInLineage
    <3>4. g \in DOMAIN s.evidence /\ s.evidence[g].intact
      BY <1>1, <1>2, <3>1, EvidenceFactsOf DEF Holds, EvidenceHolds
    <3>5. g \in Admissible(s)
      BY <1>1, <3>1, <3>2, <3>3, <3>4, EvidenceFactsOf DEF Admissible
    <3>6. s.evidence[g].image /\ s.evidence[e].image /\ s.evidence[e].hash = s.evidence[g].hash
      BY <1>1, <2>4, <2>5, <2>8, <3>1, EvidenceFactsOf
    <3>7. s.evidence[e].todo = s.evidence[g].todo
      <4>1. Ambiguous(s) = {}
        BY <1>2 DEF Holds, EvidenceHolds
      <4>2. QED
        BY <2>5, <3>5, <3>6, <4>1 DEF Ambiguous
    <3>8. QED
      BY <1>1, <2>4, <3>1, <3>7, EvidenceFactsOf
  <2>9. QED
    BY <2>2, <2>6, <2>7, <2>8
<1>10. ASSUME NEW p \in DOMAIN ledger.rules[r] PROVE review[r].observations[p].holds
  <2>1. PolicyOf(r).rules = ledger.rules[r]
    BY DEF PolicyOf
  <2>2. RuleHolds(s, p)
    BY <1>1, <1>2, <2>1 DEF Holds
  <2>3. QED
    BY <1>1, <1>6, <2>2, ReviewFactOf DEF RuleHolds
<1>11. QED
  BY <1>5, <1>6, <1>7, <1>8, <1>9, <1>10 DEF Proven

\* A validated acceptance is one the contract confirms.
LEMMA ValidatedAccepts ==
    ASSUME NEW r \in RunSet, ledger \in Ledgers, ReviewSound(r), review[r] # None, review[r] \in ReviewRows,
           review[r].decision = "accepted", BlockerFacts(r) = {},
           DOMAIN Snapshot(r).evidence \ AcceptedEvidence(Snapshot(r)) = {}
    PROVE  Outcome(Snapshot(r)) = "accepted_done"
<1> DEFINE s == Snapshot(r)
           v == review[r]
<1>1. /\ s.day.start = 1 /\ s.day.end = DayEnd /\ s.run = r /\ s.current = r
      /\ s.lineage = LineageOf(r) /\ s.todos = TodoFacts(r) /\ s.evidence = EvidenceFacts(r)
      /\ s.blockers = BlockerFacts(r) /\ s.review = ReviewFact(r) /\ s.policy = PolicyOf(r)
  BY SnapshotOf
<1>2. Required(s) = RequiredOf(r)
  BY RequiredIs
<1>3. /\ v.at \in 1..DayEnd /\ Validated(r, v) /\ v.decision = "accepted"
  BY DEF ReviewSound
<1>4. /\ s.review # None /\ s.review.own /\ s.review.run = r /\ s.review.attempt = r /\ s.review.sameDay
      /\ s.review.at = v.at /\ s.review.decision = "accepted" /\ s.review.refs = v.refs
      /\ s.review.verdicts = v.verdicts /\ s.review.observations = v.observations /\ s.review.promoted = "no"
  <2>1. ReviewFact(r) \in ReviewFacts
    BY DEF ReviewFact, ReviewFacts, ReviewRows
  <2>2. QED
    BY <1>1, <1>3, <2>1, ReviewFactOf, FactsAssumption
<1> HIDE DEF s, v
<1>5. /\ v.at < DayEnd /\ InDay(s, 1) /\ InDay(s, v.at)
      /\ InDay(s, ledger.attempt[r].completed) /\ ledger.attempt[r].completed <= v.at
  BY <1>1, <1>3, FactsAssumption, ReviewAssumption DEF Validated, InDay
<1>6. Scoped(s) = DOMAIN LineageOf(r) /\ r \in Scoped(s)
  <2>1. Scoped(s) \subseteq DOMAIN LineageOf(r)
    BY <1>1 DEF Scoped
  <2>2. ASSUME NEW a \in DOMAIN LineageOf(r) PROVE a \in Scoped(s)
    <3>1. InDay(s, LineageOf(r)[a].started) /\ InDay(s, LineageOf(r)[a].completed)
      BY <1>5, LineageFacts
    <3>2. QED
      BY <3>1, ScopedIs DEF s
  <2>3. QED
    BY <2>1, <2>2, LineageFacts
<1>7. AttemptHolds(s)
  <2>1. ledger.attempt[r].state = "completed"
    BY <1>3 DEF Validated
  <2>2. LineageOf(r)[r].started = 1 /\ LineageOf(r)[r].run = r /\ LineageOf(r)[r].own
    BY LineageFacts
  <2>3. LineageOf(r)[r].state = "completed" /\ InDay(s, LineageOf(r)[r].completed)
    BY <1>5, <2>1, LineageFacts
  <2>4. DOMAIN LineageOf(r) # {}
    BY LineageFacts
  <2>5. QED
    BY <1>1, <1>5, <1>6, <2>2, <2>3, <2>4 DEF AttemptHolds
<1>8. /\ DOMAIN s.evidence = EvidenceOf(r) /\ AcceptedEvidence(s) = EvidenceOf(r)
      /\ Ambiguous(s) = {} /\ Admissible(s) = EvidenceOf(r)
  <2>1. DOMAIN s.evidence = EvidenceOf(r)
    BY <1>1, EvidenceFactsOf
  <2>2. Admissible(s) \subseteq DOMAIN s.evidence /\ Ambiguous(s) \subseteq Admissible(s)
    BY DEF Admissible, Ambiguous
  <2>3. DOMAIN s.evidence \ AcceptedEvidence(s) = {}
    BY DEF s
  <2>4. QED
    BY <2>1, <2>2, <2>3 DEF AcceptedEvidence
<1>9. v.refs \subseteq EvidenceOf(r) /\ \E e \in v.refs : OwnerOf(ledger.artifact[e].todo) = r
  BY <1>3 DEF Validated, EvidenceOf
<1>10. EvidenceHolds(s)
  BY <1>8, <1>9 DEF EvidenceHolds, Admissible
<1>11. ASSUME NEW t \in RequiredOf(r)
       PROVE  /\ s.todos[t].status = "completed" /\ s.todos[t].own /\ OwnedInLineage(s, s.todos[t])
              /\ s.todos[t].sameDay /\ s.todos[t].completed = 1 /\ ProvenTodo(s, t)
  <2>1. t \in TodosOf(r) /\ IsDone(t) /\ t \in DOMAIN v.verdicts
    BY <1>3 DEF RequiredOf, Validated
  <2>2. /\ s.todos[t].status = "completed" /\ s.todos[t].own /\ s.todos[t].sameDay
        /\ s.todos[t].run = OwnerOf(t) /\ s.todos[t].attempt = OwnerOf(t) /\ s.todos[t].refs = RefsOf(t)
        /\ s.todos[t].completed = 1
    BY <1>1, <2>1, TodoFactsOf DEF IsDone
  <2>3. OwnedInLineage(s, s.todos[t])
    BY <1>1, <1>6, <2>1, <2>2, OwnerInLineage DEF OwnedInLineage, IsDone
  <2>4. PICK e \in v.verdicts[t].refs : e \in RefsOf(t)
    BY <1>3, <2>1 DEF Validated, OwnVerdicts, RefsOf
  <2>5. ASSUME NEW x \in RefsOf(t) PROVE x \in AcceptedEvidence(s) /\ s.evidence[x].todo = t
    <3>1. x \in EvidenceOf(r) /\ ledger.artifact[x].todo = t
      BY <2>1 DEF RefsOf, EvidenceOf
    <3>2. QED
      BY <1>1, <1>8, <3>1, EvidenceFactsOf
  <2>6. QED
    BY <2>2, <2>3, <2>4, <2>5 DEF ProvenTodo
<1>12. TodosHold(s)
  BY <1>2, <1>3, <1>5, <1>11 DEF TodosHold, Validated
<1>13. Unblocked(s)
  BY <1>1 DEF Unblocked
<1>14. ReviewInScope(s)
  <2>1. \A e \in v.refs : s.evidence[e].captured <= v.at /\ s.evidence[e].attempt = OwnerOf(ledger.artifact[e].todo)
    BY <1>1, <1>3, <1>9, EvidenceFactsOf DEF Validated
  <2>2. \A x \in TerminalTimes(s) : x = 1 \/ x = ledger.attempt[r].completed
    <3>1. s.lineage[s.current].completed = ledger.attempt[r].completed
      BY <1>1, LineageFacts
    <3>2. QED
      BY <1>2, <1>11, <3>1 DEF TerminalTimes
  <2>3. \A x \in TerminalTimes(s) : x <= v.at
    BY <1>3, <1>5, <2>2, ReviewAssumption
  <2>4. QED
    BY <1>1, <1>4, <1>5, <1>8, <1>9, <2>1, <2>3 DEF ReviewInScope
<1>15. VerdictsHold(s)
  <2>1. ASSUME NEW t \in RequiredOf(r) PROVE SoundVerdict(s, t)
    <3>1. /\ v.verdicts[t].refs \subseteq v.refs
          /\ \A e \in v.verdicts[t].refs : ledger.artifact[e].todo = t
      BY <1>3 DEF Validated, OwnVerdicts
    <3>2. \A e \in v.refs : /\ e \in AcceptedEvidence(s) /\ s.evidence[e].todo = ledger.artifact[e].todo
                            /\ s.evidence[e].raw /\ s.evidence[e].image
      BY <1>1, <1>3, <1>8, <1>9, EvidenceFactsOf DEF Validated
    <3>3. QED
      BY <1>4, <3>1, <3>2 DEF SoundVerdict
  <2>2. QED
    BY <1>2, <1>3, <1>4, <2>1 DEF VerdictsHold, Validated
<1>16. ASSUME NEW p \in DOMAIN s.policy.rules PROVE RuleHolds(s, p)
  <2>1. s.policy.rules = ledger.rules[r]
    BY <1>1 DEF PolicyOf
  <2>2. /\ p \in DOMAIN v.observations /\ v.observations[p].holds /\ v.observations[p].refs \subseteq v.refs
        /\ \A e \in v.observations[p].refs : ledger.artifact[e].kind \in ledger.rules[r][p]
    BY <1>3, <2>1 DEF Validated, OwnObservations
  <2>3. \A e \in v.refs : /\ e \in AcceptedEvidence(s) /\ s.evidence[e].kind = ledger.artifact[e].kind
                          /\ s.evidence[e].raw /\ s.evidence[e].image
    BY <1>1, <1>3, <1>8, <1>9, EvidenceFactsOf DEF Validated
  <2>4. QED
    BY <1>4, <1>14, <2>1, <2>2, <2>3 DEF RuleHolds, ReviewHolds
<1>17. s.policy.available /\ s.policy.window
  BY <1>1, <1>3 DEF PolicyOf, Validated
<1>18. Holds(s)
  BY <1>4, <1>7, <1>10, <1>12, <1>13, <1>14, <1>15, <1>16, <1>17 DEF Holds, ReviewHolds
<1>19. QED
  BY <1>1, <1>18, OutcomeIsHolds, FactsAssumption DEF s

-----------------------------------------------------------------------------
\* What a contract says of its run, from its adjudication to the seal and after.
ContractSound(r, c) ==
    /\ c.outcome = "accepted_done" => Proven(r)
    /\ c.reviewed => review[r] # None
    /\ c.reviewed /\ review[r].decision = "accepted" /\ c.excluded = {} /\ c.blockers = {}
          => c.outcome = "accepted_done"

\* A thread at the seal has a contract of every run.
ThreadSound(p) ==
    LET w == thread[p] IN
    /\ {"at", "left", "contracts", "rejected"} \subseteq DOMAIN w /\ w.left \in Seq(RunSet)
    /\ w.at = "adjudicate" => w.left # <<>>
    /\ w.at = "seal" => w.left = <<>>
    /\ w.at \in {"adjudicate", "seal"} =>
          \A r \in RunSet : r \in DOMAIN w.contracts \/ \E i \in DOMAIN w.left : w.left[i] = r
    /\ \A r \in RunSet \cap DOMAIN w.contracts : ContractSound(r, w.contracts[r])

BatchSound ==
    /\ {"phase", "awaiting", "accepted", "contracts"} \subseteq DOMAIN batch
    /\ batch.accepted => batch.phase = "sealed"
    /\ batch.phase = "sealed" => \A r \in RunSet : ContractSound(r, batch.contracts[r])
    /\ batch.accepted =>
          ~ledger.deferred /\ \A r \in RunSet : batch.contracts[r].outcome = "accepted_done" /\ Completes(r)

ProofInv ==
    /\ \A r \in RunSet : ReviewSound(r)
    /\ \A p \in Threads : ThreadSound(p)
    /\ BatchSound

\* A recorded review is authoritative: nobody is asked again.
LEMMA RecordedIsReviewed ==
    ASSUME NEW r \in RunSet, ReviewSound(r), review[r] # None PROVE Reviewed(r)
<1>1. Validated(r, review[r])
  BY DEF ReviewSound
<1>2. review[r].decision = "accepted" => DOMAIN review[r].verdicts = RequiredOf(r) /\ RequiredOf(r) # {}
  BY <1>1 DEF Validated
<1>3. DOMAIN << >> = {}
  OBVIOUS
<1>4. review[r].decision = "accepted" => review[r].verdicts # << >>
  BY <1>2, <1>3
<1>5. QED
  BY <1>4 DEF Reviewed

LEMMA ProvenStays ==
    ASSUME NEW r \in RunSet, Proven(r), ledger' = ledger, review[r] # None => review'[r] = review[r]
    PROVE  Proven(r)'
<1>1. review'[r] = review[r]
  BY DEF Proven
<1>2. /\ RequiredOf(r)' = RequiredOf(r) /\ BlockerFacts(r)' = BlockerFacts(r)
      /\ \A t : IsDone(t)' <=> IsDone(t)
  BY DEF RequiredOf, TodosOf, BlockerFacts, IsDone
<1>3. EvidenceOf(r)' = EvidenceOf(r)
  BY <1>1 DEF EvidenceOf, OwnerOf, TodosOf
<1>4. Screenshots(r)' = Screenshots(r)
  BY <1>3 DEF Screenshots, OwnerOf
<1>5. QED
  BY <1>1, <1>2, <1>4 DEF Proven

LEMMA ContractStays ==
    ASSUME NEW r \in RunSet, NEW c, ContractSound(r, c), ledger' = ledger,
           review[r] # None => review'[r] = review[r]
    PROVE  /\ c.outcome = "accepted_done" => Proven(r)'
           /\ c.reviewed => review'[r] # None
           /\ c.reviewed /\ review'[r].decision = "accepted" /\ c.excluded = {} /\ c.blockers = {}
                => c.outcome = "accepted_done"
BY ProvenStays DEF ContractSound

LEMMA ValidatedStays ==
    ASSUME NEW r, ledger' = ledger, Validated(r, review'[r]) PROVE Validated(r, review[r])'
BY DEF Validated, TodosOf, OwnerOf, RequiredOf, IsDone, OwnVerdicts, OwnObservations

LEMMA ReviewStays ==
    ASSUME NEW r, ReviewSound(r), ledger' = ledger, review'[r] = review[r], offered'[r] = offered[r]
    PROVE  ReviewSound(r)'
BY ValidatedStays DEF ReviewSound, TodosOf

\* A thread that stays where it is, and a Batch that does.
LEMMA ThreadStays ==
    ASSUME NEW p, ThreadSound(p), thread'[p] = thread[p], ledger' = ledger,
           \A r \in RunSet : review[r] # None => review'[r] = review[r]
    PROVE  ThreadSound(p)'
<1>1. \A r \in RunSet \cap DOMAIN thread[p].contracts : ContractSound(r, thread[p].contracts[r])
  BY DEF ThreadSound
<1>2. \A r \in RunSet \cap DOMAIN thread[p].contracts : ContractSound(r, thread[p].contracts[r])'
  BY <1>1, ContractStays DEF ContractSound
<1>3. QED
  BY <1>2 DEF ThreadSound

LEMMA BatchStays ==
    ASSUME BatchSound, ledger' = ledger, \A r \in RunSet : review[r] # None => review'[r] = review[r],
           /\ {"phase", "awaiting", "accepted", "contracts"} \subseteq DOMAIN batch'
           /\ batch'.accepted = batch.accepted /\ batch'.contracts = batch.contracts
           /\ (batch'.phase = "sealed") = (batch.phase = "sealed")
    PROVE  BatchSound'
<1>1. batch.phase = "sealed" => \A r \in RunSet : ContractSound(r, batch.contracts[r])
  BY DEF BatchSound
<1>2. ASSUME NEW r \in RunSet, batch.phase = "sealed" PROVE ContractSound(r, batch.contracts[r])'
  BY <1>1, <1>2, ContractStays DEF ContractSound
<1>3. QED
  BY <1>2 DEF BatchSound, Completes

LEMMA NewContract ==
    ASSUME Shape, NEW r \in RunSet, ReviewSound(r) PROVE ContractSound(r, Contract(r))
<1>1. /\ Contract(r).outcome = Outcome(Snapshot(r)) /\ (Contract(r).reviewed <=> review[r] # None)
      /\ Contract(r).excluded = DOMAIN Snapshot(r).evidence \ AcceptedEvidence(Snapshot(r))
      /\ Contract(r).blockers = BlockerFacts(r)
  BY SnapshotOf DEF Contract
<1>2. ledger \in Ledgers /\ (review[r] # None => review[r] \in ReviewRows)
  BY DEF Shape
<1>3. QED
  BY <1>1, <1>2, AcceptedProves, ValidatedAccepts DEF ContractSound

LEMMA EnsureSound ==
    ASSUME Shape, \A r \in RunSet : ReviewSound(r), Ensure({r \in RunSet : Asked(r)}),
           review' = review, ledger' = ledger, NEW r \in RunSet
    PROVE  /\ review[r] # None => offered'[r] = None
           /\ offered'[r] # None => \A e \in offered'[r] : e \in Artifacts /\ ledger.artifact[e].todo \in TodosOf(r)
<1>1. offered'[r] = IF Asked(r) THEN Screenshots(r) \cup (IF offered[r] = None THEN {} ELSE offered[r])
                    ELSE offered[r]
  BY DEF Ensure
<1>2. review[r] # None => ~Asked(r)
  BY RecordedIsReviewed DEF Asked
<1>3. \A e \in Screenshots(r) : e \in Artifacts /\ ledger.artifact[e].todo \in TodosOf(r)
  BY DEF Screenshots, EvidenceOf
<1>4. QED
  BY <1>1, <1>2, <1>3 DEF ReviewSound

LEMMA DecideSound ==
    ASSUME Shape, NEW r \in RunSet, ReviewSound(r), Decide(r)
    PROVE  /\ review[r] = None /\ review'[r] # None /\ offered'[r] = None
           /\ review'[r].at \in 1..DayEnd /\ Validated(r, review'[r])
           /\ \A q \in RunSet \ {r} : review'[q] = review[q] /\ offered'[q] = offered[q]
<1>1. PICK sub \in Submissions(r) :
         /\ Validates(r, sub)
         /\ review' = [review EXCEPT ![r] =
                [decision |-> sub.decision, refs |-> sub.refs, verdicts |-> sub.verdicts,
                 observations |-> sub.observations, at |-> now]]
  BY DEF Decide
<1> DEFINE v == [decision |-> sub.decision, refs |-> sub.refs, verdicts |-> sub.verdicts,
                 observations |-> sub.observations, at |-> now]
<1>2. /\ offered[r] # None /\ offered' = [offered EXCEPT ![r] = None] /\ now \in 1..DayEnd
      /\ DOMAIN review = RunSet /\ DOMAIN offered = RunSet
  BY DEF Decide, Shape
<1>3. review'[r] = v /\ offered'[r] = None /\ v \in ReviewRows
  BY <1>1, <1>2, SubmissionIsRow
<1>4. /\ v.decision = sub.decision /\ v.refs = sub.refs /\ v.verdicts = sub.verdicts
      /\ v.observations = sub.observations /\ v.at = now
  OBVIOUS
<1> HIDE DEF v
<1>5. \A t \in DOMAIN sub.verdicts : sub.verdicts[t].refs # {}
  <2> DEFINE A == offered[r]
             C == Citations(A)
  <2>1. \A x \in C : x # {}
    BY DEF Citations
  <2> HIDE DEF C
  <2>2. \/ sub.verdicts \in [RequiredOf(r) -> [verdict : {"confirmed"}, refs : C]]
        \/ sub.verdicts = << >>
        \/ \E t \in RequiredOf(r) : sub.verdicts \in [{t} -> [verdict : {"rejected"}, refs : C]]
    <3>1. CASE sub \in [decision : {"accepted"}, refs : {A},
                    verdicts : [RequiredOf(r) -> [verdict : {"confirmed"}, refs : C]],
                    observations : [DOMAIN ledger.rules[r] -> [holds : BOOLEAN, refs : C]]]
      BY <3>1
    <3>2. CASE sub \in [decision : {"accepted", "review_required"}, refs : {{}, A},
                      verdicts : {<< >>}, observations : {<< >>}]
      BY <3>2
    <3>3. CASE sub \in [decision : {"accepted", "rejected"}, refs : C,
                      verdicts : UNION {[{t} -> [verdict : {"rejected"}, refs : C]] :
                                           t \in RequiredOf(r)},
                      observations : {<< >>}]
      BY <3>3
    <3>4. QED
      BY <3>1, <3>2, <3>3 DEF Submissions, C
  <2>3. CASE sub.verdicts \in [RequiredOf(r) -> [verdict : {"confirmed"}, refs : C]]
    BY <2>1, <2>3
  <2>4. CASE sub.verdicts = << >>
    BY <2>4
  <2>5. CASE \E t \in RequiredOf(r) : sub.verdicts \in [{t} -> [verdict : {"rejected"}, refs : C]]
    <3>1. PICK x \in RequiredOf(r) : sub.verdicts \in [{x} -> [verdict : {"rejected"}, refs : C]]
      BY <2>5
    <3>2. QED
      BY <2>1, <3>1
  <2>6. QED
    BY <2>2, <2>3, <2>4, <2>5
<1>6. \A e \in v.refs :
          LET f == ledger.artifact[e] IN
          /\ e \in Artifacts /\ f.todo \in TodosOf(r) /\ OwnerOf(f.todo) = r /\ f.cited /\ f.raw /\ f.image
          /\ 1 <= f.captured /\ f.captured < DayEnd /\ f.captured <= v.at
  BY <1>1, <1>2, <1>4 DEF Validates, MayCite, ReviewSound
<1>7. OwnVerdicts(v) /\ OwnObservations(r, v)
  BY <1>1, <1>4 DEF Validates, OwnVerdicts, OwnObservations
<1>8. v.decision = "accepted" =>
          /\ v.at < DayEnd /\ ledger.attempt[r].completed <= v.at
          /\ ledger.attempt[r].state = "completed" /\ ledger.supported /\ RequiredOf(r) # {}
          /\ DOMAIN v.verdicts = RequiredOf(r)
          /\ \A t \in RequiredOf(r) : IsDone(t) /\ v.verdicts[t].verdict = "confirmed"
          /\ DOMAIN v.observations = DOMAIN ledger.rules[r]
          /\ \A p \in DOMAIN v.observations : v.observations[p].holds
          /\ \E e \in v.refs : OwnerOf(ledger.artifact[e].todo) = r
  BY <1>1, <1>4 DEF Validates, MayAccept
<1>9. Validated(r, v)
  BY <1>4, <1>5, <1>6, <1>7, <1>8 DEF Validated
<1>10. QED
  BY <1>1, <1>2, <1>3, <1>4, <1>9, NoneAssumption DEF ReviewSound, v

LEMMA InitProof == Init => ProofInv
<1> SUFFICES ASSUME Init PROVE ProofInv
  OBVIOUS
<1>1. \A r \in RunSet : ReviewSound(r)
  BY DEF Init, ReviewSound
<1>2. ASSUME NEW p \in Threads PROVE ThreadSound(p)
  <2>1. thread[p] = Idle
    BY DEF Init
  <2>2. QED
    BY <2>1 DEF ThreadSound, Idle
<1>3. BatchSound
  BY DEF Init, BatchSound
<1>4. QED
  BY <1>1, <1>2, <1>3 DEF ProofInv

LEMMA AdjudicateSound ==
    ASSUME Shape, ProofInv, NEW p \in Threads, Adjudicate(p) PROVE ThreadSound(p)'
<1> DEFINE w == thread[p]
           r == Head(w.left)
<1>1. /\ {"at", "left", "contracts", "rejected"} \subseteq DOMAIN w /\ w.left \in Seq(RunSet) /\ w.left # <<>>
      /\ \A q \in RunSet : q \in DOMAIN w.contracts \/ \E i \in DOMAIN w.left : w.left[i] = q
      /\ \A q \in RunSet \cap DOMAIN w.contracts : ContractSound(q, w.contracts[q])
      /\ DOMAIN thread = Threads
  BY DEF ProofInv, ThreadSound, Adjudicate, Shape
<1>2. r \in RunSet /\ r = w.left[1]
  BY <1>1
<1>3. UNCHANGED <<ledger, review>>
  BY DEF Adjudicate
<1>4. CASE thread' = [thread EXCEPT ![p] = Idle]
  BY <1>1, <1>4 DEF ThreadSound, Idle
<1>5. CASE thread' = [thread EXCEPT ![p] = Adjudicated(w)]
  <2> DEFINE n == thread'[p]
             K == [x \in DOMAIN w.contracts \cup {r} |-> IF x = r THEN Contract(r) ELSE w.contracts[x]]
  <2>1. thread'[p] = [w EXCEPT !.left = Tail(@), !.contracts = K,
                               !.at = IF Len(w.left) = 1 THEN "seal" ELSE "adjudicate"]
    <3>1. thread'[p] = Adjudicated(w)
      BY <1>1, <1>5
    <3>2. QED
      BY <3>1 DEF Adjudicated
  <2>2. /\ DOMAIN thread'[p] = DOMAIN w /\ thread'[p].left = Tail(w.left) /\ thread'[p].contracts = K
        /\ thread'[p].at = IF Len(w.left) = 1 THEN "seal" ELSE "adjudicate"
    <3> HIDE DEF K, w
    <3>1. QED
      BY <1>1, <2>1
  <2>3. /\ Tail(w.left) \in Seq(RunSet) /\ Len(Tail(w.left)) = Len(w.left) - 1 /\ Len(w.left) \in Nat
        /\ \A i \in DOMAIN w.left : i = 1 \/ (i - 1 \in DOMAIN Tail(w.left) /\ Tail(w.left)[i - 1] = w.left[i])
    BY <1>1
  <2>4. (Len(w.left) = 1 => Tail(w.left) = <<>>) /\ (Len(w.left) # 1 => Tail(w.left) # <<>>)
    <3>1. \A q \in Seq(RunSet) : Len(q) \in Nat /\ (Len(q) = 0 <=> q = <<>>)
      OBVIOUS
    <3>2. Len(Tail(w.left)) = 0 <=> Tail(w.left) = <<>>
      BY <2>3, <3>1
    <3>3. Len(w.left) = 1 <=> Len(Tail(w.left)) = 0
      BY <2>3
    <3>4. QED
      BY <3>2, <3>3
  <2>5. DOMAIN K = DOMAIN w.contracts \cup {r} /\ \A q \in RunSet \cap DOMAIN K : ContractSound(q, K[q])
    BY <1>1, <1>2, NewContract DEF ProofInv
  <2> HIDE DEF K, r, w
  <2>6. \A q \in RunSet : q \in DOMAIN K \/ \E i \in DOMAIN Tail(w.left) : Tail(w.left)[i] = q
    <3>1. ASSUME NEW q \in RunSet, q \notin DOMAIN w.contracts, q # r
          PROVE  \E i \in DOMAIN Tail(w.left) : Tail(w.left)[i] = q
      <4>1. PICK i \in DOMAIN w.left : w.left[i] = q
        BY <1>1, <3>1
      <4>2. i # 1
        BY <1>2, <3>1, <4>1
      <4>3. QED
        BY <2>3, <4>1, <4>2
    <3>2. QED
      BY <2>5, <3>1
  <2>7. \A q \in RunSet \cap DOMAIN thread'[p].contracts : ContractSound(q, thread[p].contracts[q])'
    BY <1>3, <2>2, <2>5, ContractStays DEF ContractSound
  <2>8. QED
    BY <1>1, <2>2, <2>3, <2>4, <2>6, <2>7 DEF ThreadSound
<1>6. QED
  BY <1>4, <1>5 DEF Adjudicate

LEMMA SealSound ==
    ASSUME Shape, ProofInv, NEW p \in Threads, Seal(p) PROVE BatchSound'
<1>1. UNCHANGED <<ledger, review>>
  BY DEF Seal
<1>2. CASE batch' = batch
  BY <1>1, <1>2, BatchStays DEF ProofInv, BatchSound
<1>3. CASE batch' = FrozenResult(p)
  <2>1. /\ batch'.phase = "sealed" /\ batch'.accepted = AcceptedDone(p) /\ batch'.contracts = thread[p].contracts
        /\ {"phase", "awaiting", "accepted", "contracts"} \subseteq DOMAIN batch'
    BY <1>3 DEF FrozenResult
  <2>2. \A r \in RunSet : r \in DOMAIN thread[p].contracts
    BY DEF ProofInv, ThreadSound, Seal
  <2>3. \A r \in RunSet : ContractSound(r, thread[p].contracts[r])
    BY <2>2 DEF ProofInv, ThreadSound
  <2>4. \A r \in RunSet : ContractSound(r, batch.contracts[r])'
    BY <1>1, <2>1, <2>3, ContractStays DEF ContractSound
  <2>5. AcceptedDone(p) => ~ledger.deferred /\ \A r \in RunSet :
            thread[p].contracts[r].outcome = "accepted_done" /\ Completes(r)
    BY DEF AcceptedDone
  <2>6. QED
    BY <1>1, <2>1, <2>4, <2>5 DEF BatchSound, Completes
<1>4. QED
  BY <1>2, <1>3 DEF Seal

LEMMA StepProof == SealInv /\ ProofInv /\ [Next]_vars => ProofInv'
<1> SUFFICES ASSUME SealInv, ProofInv, [Next]_vars PROVE ProofInv'
  OBVIOUS
<1>1. Shape /\ (\A r \in RunSet : ReviewSound(r)) /\ (\A p \in Threads : ThreadSound(p)) /\ BatchSound
  BY DEF SealInv, ProofInv
<1>2. ASSUME UNCHANGED <<ledger, review, offered>> PROVE \A r \in RunSet : ReviewSound(r)'
  BY <1>1, <1>2, ReviewStays
<1>3. ASSUME UNCHANGED <<ledger, review>>, Ensure({r \in RunSet : Asked(r)})
      PROVE  \A r \in RunSet : ReviewSound(r)'
  <2>1. ASSUME NEW r \in RunSet PROVE ReviewSound(r)'
    <3>1. /\ review[r] # None => offered'[r] = None
          /\ offered'[r] # None => \A e \in offered'[r] : e \in Artifacts /\ ledger.artifact[e].todo \in TodosOf(r)
      BY <1>1, <1>3, EnsureSound
    <3>2. TodosOf(r)' = TodosOf(r)
      BY <1>3 DEF TodosOf
    <3>3. QED
      BY <1>1, <1>3, <3>1, <3>2, ValidatedStays DEF ReviewSound
  <2>2. QED
    BY <2>1
<1>4. ASSUME UNCHANGED <<ledger, review, thread>> PROVE \A p \in Threads : ThreadSound(p)'
  BY <1>1, <1>4, ThreadStays
<1>5. ASSUME NEW p \in Threads, UNCHANGED <<ledger, review>>, NEW x, thread' = [thread EXCEPT ![p] = x],
             ThreadSound(p)'
      PROVE  \A q \in Threads : ThreadSound(q)'
  <2>1. \A q \in Threads \ {p} : thread'[q] = thread[q]
    BY <1>1, <1>5, ThreadMoves DEF Shape
  <2>2. \A q \in Threads \ {p} : ThreadSound(q)'
    BY <1>1, <1>5, <2>1, ThreadStays
  <2>3. QED
    BY <1>5, <2>2
<1>6. ASSUME UNCHANGED <<ledger, review, batch>> PROVE BatchSound'
  BY <1>1, <1>6, BatchStays DEF BatchSound
<1>7. CASE BeginPhase
  <2>1. UNCHANGED <<ledger, review, thread>> /\ Ensure({r \in RunSet : Asked(r)})
    BY <1>7 DEF BeginPhase
  <2>2. /\ {"phase", "awaiting", "accepted", "contracts"} \subseteq DOMAIN batch'
        /\ batch'.accepted = batch.accepted /\ batch'.contracts = batch.contracts
        /\ batch'.phase # "sealed" /\ batch.phase # "sealed"
    BY <1>1, <1>7 DEF BeginPhase, BatchSound
  <2>3. BatchSound'
    BY <1>1, <2>1, <2>2, BatchStays
  <2>4. QED
    BY <1>3, <1>4, <2>1, <2>3 DEF ProofInv
<1>8. CASE Tick \/ BarrierElapses \/ Damage
  <2>1. UNCHANGED <<ledger, review, offered, thread, batch>>
    BY <1>8 DEF Tick, BarrierElapses, Damage
  <2>2. QED
    BY <1>2, <1>4, <1>6, <2>1 DEF ProofInv
<1>9. CASE Crash
  <2>1. UNCHANGED <<ledger, review, offered, batch>> /\ thread' = [p \in Threads |-> Idle]
    BY <1>9 DEF Crash
  <2>2. ASSUME NEW p \in Threads PROVE ThreadSound(p)'
    <3>1. thread'[p] = Idle
      BY <2>1
    <3>2. QED
      BY <3>1 DEF ThreadSound, Idle
  <2>3. QED
    BY <1>2, <1>6, <2>1, <2>2 DEF ProofInv
<1>10. ASSUME NEW r \in RunSet, Decide(r) PROVE ProofInv'
  <2>1. UNCHANGED <<ledger, thread, batch>>
    BY <1>10 DEF Decide
  <2>2. /\ review[r] = None /\ review'[r] # None /\ offered'[r] = None
        /\ review'[r].at \in 1..DayEnd /\ Validated(r, review'[r])
        /\ \A q \in RunSet \ {r} : review'[q] = review[q] /\ offered'[q] = offered[q]
    BY <1>1, <1>10, DecideSound
  <2>3. \A q \in RunSet : review[q] # None => review'[q] = review[q]
    BY <2>2
  <2>4. \A q \in RunSet \ {r} : ReviewSound(q)'
    BY <1>1, <2>1, <2>2, ReviewStays
  <2>5. ReviewSound(r)'
    BY <2>1, <2>2, ValidatedStays DEF ReviewSound
  <2>6. \A p \in Threads : ThreadSound(p)'
    BY <1>1, <2>1, <2>3, ThreadStays
  <2>7. BatchSound'
    BY <1>1, <2>1, <2>3, BatchStays DEF BatchSound
  <2>8. QED
    BY <2>4, <2>5, <2>6, <2>7 DEF ProofInv
<1>11. ASSUME NEW p \in Threads, Resume(p) PROVE ProofInv'
  <2>1. UNCHANGED <<ledger, review, offered, batch>> /\ DOMAIN thread = Threads
        /\ thread' = [thread EXCEPT ![p] = [Idle EXCEPT !.at = "look", !.expired = elapsed]]
    BY <1>1, <1>11 DEF Resume, Shape
  <2>2. ThreadSound(p)'
    BY <2>1 DEF ThreadSound, Idle
  <2>3. QED
    BY <1>2, <1>5, <1>6, <2>1, <2>2 DEF ProofInv
<1>12. ASSUME NEW p \in Threads, CancelBatch(p) PROVE ProofInv'
  <2>1. UNCHANGED <<ledger, review, offered, batch>> /\ DOMAIN thread = Threads
        /\ thread' = [thread EXCEPT ![p] = [Idle EXCEPT !.at = "adjudicate", !.left = Runs, !.cancels = TRUE]]
    BY <1>1, <1>12 DEF CancelBatch, Shape
  <2>2. \A r \in RunSet : \E i \in DOMAIN Runs : Runs[i] = r
    BY DEF RunSet
  <2>3. ThreadSound(p)'
    BY <2>1, <2>2, FactsAssumption DEF ThreadSound, Idle
  <2>4. QED
    BY <1>2, <1>5, <1>6, <2>1, <2>3 DEF ProofInv
<1>13. ASSUME NEW p \in Threads, Look(p) PROVE ProofInv'
  <2>1. UNCHANGED <<ledger, review>> /\ DOMAIN thread = Threads
    BY <1>1, <1>13 DEF Look, Shape
  <2>2. \A r \in RunSet : ReviewSound(r)'
    BY <1>2, <1>3, <1>13, <2>1 DEF Look
  <2>3. BatchSound'
    <3>1. CASE batch' = batch
      BY <1>6, <2>1, <3>1
    <3>2. CASE batch.phase # "sealed" /\ batch' = [batch EXCEPT !.awaiting = StillAwaited(p)]
      <4>1. /\ {"phase", "awaiting", "accepted", "contracts"} \subseteq DOMAIN batch'
            /\ batch'.accepted = batch.accepted /\ batch'.contracts = batch.contracts
            /\ batch'.phase = batch.phase
        BY <1>1, <3>2 DEF BatchSound
      <4>2. QED
        BY <1>1, <2>1, <4>1, BatchStays
    <3>3. QED
      BY <1>13, <3>1, <3>2 DEF Look
  <2>4. CASE thread' = [thread EXCEPT ![p] = Idle]
    <3>1. ThreadSound(p)'
      BY <2>1, <2>4 DEF ThreadSound, Idle
    <3>2. QED
      BY <1>5, <2>1, <2>2, <2>3, <2>4, <3>1 DEF ProofInv
  <2>5. CASE thread' = [thread EXCEPT ![p] =
                  [@ EXCEPT !.at = "adjudicate", !.left = Runs, !.rejected = AnyRefused]]
    <3> DEFINE n == [thread[p] EXCEPT !.at = "adjudicate", !.left = Runs, !.rejected = AnyRefused]
    <3>1. thread' = [thread EXCEPT ![p] = n] /\ thread'[p] = n
      BY <2>1, <2>5
    <3>2. DOMAIN n = DOMAIN thread[p] /\ n.at = "adjudicate" /\ n.left = Runs /\ n.contracts = thread[p].contracts
      BY <1>1 DEF ThreadSound
    <3>3. \A r \in RunSet : \E i \in DOMAIN Runs : Runs[i] = r
      BY DEF RunSet
    <3> HIDE DEF n
    <3>4. \A r \in RunSet \cap DOMAIN thread'[p].contracts : ContractSound(r, thread[p].contracts[r])'
      <4>1. \A r \in RunSet \cap DOMAIN thread[p].contracts : ContractSound(r, thread[p].contracts[r])
        BY <1>1 DEF ThreadSound
      <4>2. QED
        BY <2>1, <3>1, <3>2, <4>1, ContractStays DEF ContractSound
    <3>5. ThreadSound(p)'
      BY <1>1, <3>1, <3>2, <3>3, <3>4, FactsAssumption DEF ThreadSound
    <3>6. QED
      BY <1>5, <2>1, <2>2, <2>3, <3>1, <3>5 DEF ProofInv
  <2>6. QED
    BY <1>13, <2>4, <2>5 DEF Look
<1>14. ASSUME NEW p \in Threads, Adjudicate(p) PROVE ProofInv'
  <2>1. UNCHANGED <<ledger, review, offered, batch>>
    BY <1>14 DEF Adjudicate
  <2>2. ThreadSound(p)' /\ \E x : thread' = [thread EXCEPT ![p] = x]
    BY <1>1, <1>14, AdjudicateSound DEF Adjudicate, Shape
  <2>3. QED
    BY <1>2, <1>5, <1>6, <2>1, <2>2 DEF ProofInv
<1>15. ASSUME NEW p \in Threads, Seal(p) PROVE ProofInv'
  <2>1. UNCHANGED <<ledger, review, offered>> /\ thread' = [thread EXCEPT ![p] = Idle] /\ DOMAIN thread = Threads
    BY <1>1, <1>15 DEF Seal, Shape
  <2>2. ThreadSound(p)'
    BY <2>1 DEF ThreadSound, Idle
  <2>3. BatchSound'
    BY <1>1, <1>15, SealSound DEF ProofInv
  <2>4. QED
    BY <1>2, <1>5, <2>1, <2>2, <2>3 DEF ProofInv
<1>16. CASE UNCHANGED vars
  <2>1. UNCHANGED <<ledger, review, offered, thread, batch>>
    BY <1>16 DEF vars
  <2>2. QED
    BY <1>2, <1>4, <1>6, <2>1 DEF ProofInv
<1>17. QED
  BY <1>7, <1>8, <1>9, <1>10, <1>11, <1>12, <1>13, <1>14, <1>15, <1>16 DEF Next, Resumer

LEMMA ProofInvHolds == Spec => []ProofInv
<1>1. QED
  BY InitProof, StepProof, SealInvHolds, PTL DEF Spec

\* A Batch is accepted as done only on reviews that confirmed every required
\* Todo of every run with unambiguous raw screenshots of it, whatever the
\* ledger says, whoever reviews, and however the threads and crashes interleave.
THEOREM AcceptanceIsProven == Spec => []AcceptedIsProven
<1>1. SealInv /\ ProofInv => AcceptedIsProven
  <2> SUFFICES ASSUME SealInv, ProofInv, batch.accepted PROVE AcceptedIsProven
    BY DEF AcceptedIsProven
  <2>1. ~ledger.deferred /\ \A r \in RunSet : Completes(r) /\ Proven(r)
    BY DEF ProofInv, BatchSound, ContractSound
  <2>2. QED
    BY <2>1 DEF AcceptedIsProven, Proven
<1>2. QED
  BY <1>1, ProofInvHolds, SealInvHolds, PTL

\* What the API validated and the seal saw, the adjudication accepts, unless
\* evidence is damaged or ambiguous by then or the run holds a blocker.
THEOREM ValidatedReviewsCount == Spec => []ValidatedIsAccepted
<1>1. ProofInv => ValidatedIsAccepted
  BY DEF ProofInv, BatchSound, ContractSound, ValidatedIsAccepted
<1>2. QED
  BY <1>1, ProofInvHolds, PTL

\* The four hold together, for every ledger, any number of runs, artifacts,
\* threads, answers and crashes.
THEOREM ReviewIsProven == Spec => []ReviewProven
<1>1. AcceptedIsProven /\ ValidatedIsAccepted /\ NotSealedEarly /\ AwaitedIsAsked => ReviewProven
  BY DEF ReviewProven
<1> QED BY <1>1, AcceptanceIsProven, ValidatedReviewsCount, NoSealIsEarly, AwaitedRunsAreAsked, PTL

-----------------------------------------------------------------------------
(* The Todos of a game and the Batches over them (TodoBatches), for any     *)
(* Todos, any number of Batches, resets and marks.                          *)

TodoRows  == [status : Days!Statuses, run : Nat, released : BOOLEAN, retry : BOOLEAN,
              transient : BOOLEAN, unneeded : BOOLEAN, done : Nat]
Raised    == [kind : {"contract_invariant", "review_required", "human_required"}, again : BOOLEAN]
FactRows  == UNION {[S -> Nat] : S \in SUBSET DayTodos}
BatchRows == [state : Days!States, plan : SUBSET DayTodos, scope : SUBSET DayTodos, replay : SUBSET DayTodos,
              tried : SUBSET DayTodos, outcome : {"accepted", "review_required", None},
              reviewed : BOOLEAN, facts : FactRows, seal : Nat]

\* A Todo is completed exactly while it has a time of completion.
Dated(x) == x \in TodoRows /\ (x.status = "completed" <=> x.done > 0)

\* A Batch that was accepted found every Todo of its scope completed.
Founded(x) == x.outcome = "accepted" => \A t \in x.scope : t \in DOMAIN x.facts /\ x.facts[t] > 0

DayInv ==
    /\ DOMAIN todo = DayTodos /\ todo = [t \in DayTodos |-> todo[t]] /\ \A t \in DayTodos : Dated(todo[t])
    /\ blocker \in [Days!B -> [DayTodos -> Raised \cup {None}]]
    /\ todoBatch \in [Days!B -> BatchRows]
    /\ \A b \in Days!B : Founded(todoBatch[b]) /\ todoBatch[b].seal <= seq
    /\ running # None => running \in Days!B \X DayTodos
    /\ selected \subseteq DayTodos /\ seq \in Nat /\ resets \in Nat

\* What was completed stays so, or an explicit reset takes it back.
StaysDone(x, y) ==
    x.status = "completed" => IF resets' = resets THEN y.status = "completed" /\ y.done = x.done
                              ELSE y.status = "pending"

TodoMoves == /\ DOMAIN todo' = DayTodos /\ todo' = [t \in DayTodos |-> todo'[t]]
             /\ \A t \in DayTodos : Dated(todo'[t]) /\ StaysDone(todo[t], todo'[t])

LEMMA TransitionFacts ==
    ASSUME NEW s \in Days!Statuses, NEW u \in Days!Transitions[s]
    PROVE  s # "completed" /\ u \in Days!Statuses
BY DEF Days!Transitions, Days!Statuses

\* What becomes of a row whose status and time of completion are replaced.
Row(x, s, n, d) == [x EXCEPT !.status = s, !.run = n, !.released = FALSE, !.done = d]

LEMMA RowReplaced ==
    ASSUME NEW x \in TodoRows, NEW s \in Days!Statuses, NEW n \in Nat, NEW d \in Nat,
           s = "completed" <=> d > 0
    PROVE  Dated(Row(x, s, n, d)) /\ Row(x, s, n, d).status = s /\ Row(x, s, n, d).done = d
<1> DEFINE y == Row(x, s, n, d)
<1>0. y = [x EXCEPT !.status = s, !.run = n, !.released = FALSE, !.done = d]
  BY DEF Row
<1> HIDE DEF y
<1>1. x = [status |-> x.status, run |-> x.run, released |-> x.released, retry |-> x.retry,
           transient |-> x.transient, unneeded |-> x.unneeded, done |-> x.done]
  BY DEF TodoRows
<1>2. y = [status |-> s, run |-> n, released |-> FALSE, retry |-> x.retry,
           transient |-> x.transient, unneeded |-> x.unneeded, done |-> d]
  BY <1>0, <1>1
<1>3. x.retry \in BOOLEAN /\ x.transient \in BOOLEAN /\ x.unneeded \in BOOLEAN
  BY DEF TodoRows
<1>4. y \in TodoRows
  BY <1>2, <1>3 DEF TodoRows
<1>5. Dated(y) /\ y.status = s /\ y.done = d
  BY <1>2, <1>4 DEF Dated
<1>6. QED
  BY <1>5 DEF y

LEMMA ReconcileMoves ==
    ASSUME DayInv, resets' = resets, todo' = Days!Reconciled
    PROVE  TodoMoves
<1>1. \A t \in DayTodos : todo[t] \in TodoRows /\ Dated(todo[t]) /\ seq + 1 \in Nat /\ seq + 1 > 0
  BY DEF DayInv, Dated
<1>2. \A t \in DayTodos : todo'[t] = IF todo[t].status = "skipped" /\ todo[t].unneeded
                                  THEN [todo[t] EXCEPT !.status = "completed", !.done = seq + 1]
                                  ELSE todo[t]
  BY DEF Days!Reconciled
<1>3. ASSUME NEW t \in DayTodos PROVE Dated(todo'[t]) /\ StaysDone(todo[t], todo'[t])
  <2>1. CASE todo'[t] = todo[t]
    BY <1>1, <2>1 DEF StaysDone
  <2>2. CASE todo[t].status = "skipped" /\ todo'[t] = [todo[t] EXCEPT !.status = "completed", !.done = seq + 1]
    BY <1>1, <2>2 DEF StaysDone, Dated, TodoRows, Days!Statuses
  <2>3. QED
    BY <1>2, <2>1, <2>2
<1>4. DOMAIN todo' = DayTodos /\ todo' = [t \in DayTodos |-> todo'[t]]
  BY DEF Days!Reconciled
<1>5. QED
  BY <1>3, <1>4 DEF TodoMoves

\* One row changes.
LEMMA OneMoves ==
    ASSUME DayInv, resets' = resets, NEW t \in DayTodos, NEW y, todo' = [todo EXCEPT ![t] = y],
           Dated(y), todo[t].status = "completed" => y.status = "completed" /\ y.done = todo[t].done
    PROVE  TodoMoves
<1>1. /\ DOMAIN todo' = DayTodos /\ todo' = [u \in DayTodos |-> todo'[u]]
      /\ todo'[t] = y /\ \A u \in DayTodos \ {t} : todo'[u] = todo[u]
  BY DEF DayInv
<1>2. QED
  BY <1>1 DEF DayInv, TodoMoves, StaysDone

\* What every step does to the Todos.
LEMMA EveryTodoMoves ==
    ASSUME Days!TodoAssumption, DayInv, Days!Next
    PROVE  TodoMoves
<1>1. \A t \in DayTodos : Dated(todo[t]) /\ todo[t] \in TodoRows
  BY DEF DayInv, Dated
<1>2. CASE todo' = todo /\ resets' = resets
  BY <1>1, <1>2 DEF TodoMoves, StaysDone, DayInv
<1>3. CASE Days!Reset
  <2>1. /\ resets' # resets
        /\ todo' = [t \in DayTodos |-> [todo[t] EXCEPT !.status = "pending", !.run = 0,
                                                    !.released = FALSE, !.done = 0]]
    <3>1. resets \in Nat
      BY DEF DayInv
    <3>2. resets' = resets + 1
      BY <1>3 DEF Days!Reset
    <3>3. todo' = [t \in DayTodos |-> [todo[t] EXCEPT !.status = "pending", !.run = 0,
                                                    !.released = FALSE, !.done = 0]]
      BY <1>3 DEF Days!Reset
    <3>4. resets' # resets
      BY <3>1, <3>2
    <3>5. QED
      BY <3>3, <3>4
  <2>2. ASSUME NEW t \in DayTodos PROVE Dated(todo'[t]) /\ todo'[t].status = "pending"
    <3>1. todo'[t] = Row(todo[t], "pending", 0, 0)
      BY <2>1 DEF Row
    <3>2. todo[t] \in TodoRows
      BY <1>1
    <3>3. "pending" \in Days!Statuses /\ ("pending" = "completed" <=> 0 > 0) /\ 0 \in Nat
      BY DEF Days!Statuses
    <3>4. QED
      BY ONLY <3>1, <3>2, <3>3, RowReplaced
  <2>3. QED
    BY <2>1, <2>2 DEF TodoMoves, StaysDone
<1>4. CASE Days!Reconcile
  BY <1>4, ReconcileMoves DEF Days!Reconcile
<1>5. ASSUME NEW t \in DayTodos, NEW s \in Days!Statuses, Days!Mark(t, s) PROVE TodoMoves
  <2> DEFINE y == [todo[t] EXCEPT !.status = s, !.released = FALSE]
  <2>1. todo' = [todo EXCEPT ![t] = y] /\ resets' = resets
    BY <1>5 DEF Days!Mark
  <2>2. s \in Days!Transitions[todo[t].status] /\ s # "completed"
    BY <1>5 DEF Days!Mark
  <2>3. todo[t].status # "completed"
    BY <1>1, <2>2, TransitionFacts DEF TodoRows
  <2>4. Dated(y)
    BY <1>1, <2>2, <2>3 DEF Dated, TodoRows
  <2>5. QED
    BY <2>1, <2>3, <2>4, OneMoves
<1>6. ASSUME NEW b \in Days!B, Days!Create(b) PROVE TodoMoves
  BY <1>6, ReconcileMoves DEF Days!Create
<1>7. ASSUME NEW b \in Days!B, Days!Release(b) PROVE TodoMoves
  <2> DEFINE freed == {t \in todoBatch[b].plan : todo[t].status = "human_required"}
  <2>1. resets' = resets
    BY <1>7 DEF Days!Release
  <2>2. todo' = [t \in DayTodos |->
                    IF t \notin freed THEN todo[t]
                    ELSE [todo[t] EXCEPT !.status = "review_required", !.released = TRUE, !.run = b]]
    BY <1>7 DEF Days!Release
  <2>3. b \in Nat
    BY DEF Days!B, Days!TodoAssumption
  <2>4. ASSUME NEW t \in DayTodos PROVE Dated(todo'[t]) /\ StaysDone(todo[t], todo'[t])
    <3>1. CASE t \notin freed
      BY <1>1, <2>1, <2>2, <3>1 DEF StaysDone
    <3>2. CASE t \in freed
      BY <1>1, <2>2, <2>3, <3>2 DEF Dated, TodoRows, StaysDone, Days!Statuses
    <3>3. QED
      BY <3>1, <3>2
  <2>5. QED
    BY <2>2, <2>4 DEF TodoMoves
<1>8. ASSUME NEW b \in Days!B, NEW t \in DayTodos, Days!Start(b, t) PROVE TodoMoves
  <2> DEFINE y == Days!Started(b, t)
  <2>1. todo' = [todo EXCEPT ![t] = y] /\ resets' = resets
    BY <1>8 DEF Days!Start
  <2>2. b \in Nat
    BY DEF Days!B, Days!TodoAssumption
  <2>3. t \in todoBatch[b].replay \/ todo[t].status # "completed"
    BY <1>8 DEF Days!Start, Days!Startable
  <2>4. Dated(y) /\ (todo[t].status = "completed" => y.status = "completed" /\ y.done = todo[t].done)
    BY <1>1, <2>2, <2>3 DEF Days!Started, Days!Attempted, Dated, TodoRows, Days!Statuses
  <2>5. QED
    BY <2>1, <2>4, OneMoves
<1>9. ASSUME NEW b \in Days!B, NEW t \in DayTodos, NEW s \in Days!Statuses,
             NEW r \in BOOLEAN, NEW x \in BOOLEAN, NEW u \in BOOLEAN,
             t \notin todoBatch[b].replay => s \in Days!Transitions[todo[t].status],
             todo' = [todo EXCEPT ![t] = Days!Settled(b, t, s, r, x, u)], resets' = resets
      PROVE  TodoMoves
  <2> DEFINE y == Days!Settled(b, t, s, r, x, u)
  <2>1. b \in Nat /\ seq + 1 \in Nat /\ seq + 1 > 0
    BY DEF Days!B, Days!TodoAssumption, DayInv
  <2>2. t \in todoBatch[b].replay \/ todo[t].status # "completed"
    BY <1>1, <1>9, TransitionFacts DEF TodoRows
  <2>3. Dated(y) /\ (todo[t].status = "completed" => y.status = "completed" /\ y.done = todo[t].done)
    <3>1. todo[t] \in TodoRows /\ Dated(todo[t])
      BY <1>1
    <3>2. CASE t \in todoBatch[b].replay
      <4>1. y = [todo[t] EXCEPT !.retry = r, !.transient = x, !.unneeded = u]
        BY <3>2 DEF Days!Settled
      <4>2. QED
        BY <3>1, <4>1 DEF Dated, TodoRows
    <3>3. CASE t \notin todoBatch[b].replay
      <4> DEFINE d == IF s = "completed" THEN seq + 1 ELSE 0
                 z == [todo[t] EXCEPT !.retry = r, !.transient = x, !.unneeded = u]
      <4>1. y = [z EXCEPT !.status = s, !.released = FALSE, !.run = b, !.done = d]
        BY <3>3 DEF Days!Settled
      <4>2. d \in Nat /\ (s = "completed" <=> d > 0)
        BY <2>1
      <4>3. z \in TodoRows
        BY <3>1 DEF TodoRows
      <4> HIDE DEF d, z
      <4>4. y = Row(z, s, b, d)
        BY <4>1, <4>3 DEF TodoRows, Row
      <4>5. Dated(y)
        BY <2>1, <4>2, <4>3, <4>4, RowReplaced
      <4>6. QED
        BY <2>2, <3>3, <4>5
    <3>4. QED
      BY <3>2, <3>3
  <2>4. QED
    BY <1>9, <2>3, OneMoves
<1>10. ASSUME NEW b \in Days!B, NEW t \in DayTodos, NEW s \in Days!Statuses \ {"pending", "in_progress"},
              NEW r \in BOOLEAN, NEW e \in BOOLEAN, NEW x \in Transients, Days!Finish(b, t, s, r, x, e)
       PROVE  TodoMoves
  <2>1. x \in BOOLEAN /\ (s = "skipped" /\ e) \in BOOLEAN
    BY DEF Days!TodoAssumption
  <2>2. /\ t \notin todoBatch[b].replay => s \in Days!Transitions[todo[t].status]
        /\ todo' = [todo EXCEPT ![t] = Days!Settled(b, t, s, r, x, s = "skipped" /\ e)]
        /\ resets' = resets
    BY <1>10 DEF Days!Finish
  <2>3. QED
    BY <1>9, <2>1, <2>2
<1>11. ASSUME NEW b \in Days!B, NEW s \in {"blocked", "human_required", "review_required"},
              Days!EndRun(b, s)
       PROVE  TodoMoves
  <2>1. s \in Days!Statuses
    BY DEF Days!Statuses
  <2>2. CASE running = None
    BY <1>2, <1>11, <2>2 DEF Days!EndRun
  <2>3. CASE running # None
    <3>1. running[2] \in DayTodos
      BY <2>3 DEF DayInv
    <3>2. /\ running[2] \notin todoBatch[b].replay => s \in Days!Transitions[todo[running[2]].status]
          /\ todo' = [todo EXCEPT ![running[2]] = Days!Settled(b, running[2], s, FALSE, FALSE, FALSE)]
          /\ resets' = resets
      BY <1>11, <2>3 DEF Days!EndRun
    <3>3. QED
      BY <1>9, <2>1, <3>1, <3>2
  <2>4. QED
    BY <2>2, <2>3
<1>12. ASSUME NEW b \in Days!B,
              Days!Launch(b) \/ Days!Execute(b) \/ Days!Seal(b)
              \/ \E r, a \in BOOLEAN : Days!Adjudicate(b, r, a)
       PROVE  TodoMoves
  BY <1>2, <1>12 DEF Days!Launch, Days!Execute, Days!Seal, Days!Adjudicate
<1>13. ASSUME NEW S \in Selections, Days!Select(S) PROVE TodoMoves
  BY <1>2, <1>13 DEF Days!Select
<1>14. QED
  BY <1>3, <1>4, <1>5, <1>6, <1>7, <1>8, <1>10, <1>11, <1>12, <1>13
     DEF Days!Next, Days!Operator, Days!Work

\* The blockers keep their shape, and a human one is not closed in passing.
BlockersMove ==
    blocker' \in [Days!B -> [DayTodos -> Raised \cup {None}]] /\ Days!HumanBlockerStep

LEMMA EveryBlockerMoves ==
    ASSUME Days!TodoAssumption, DayInv, Days!Next
    PROVE  BlockersMove
<1>1. /\ blocker \in [Days!B -> [DayTodos -> Raised \cup {None}]] /\ resets \in Nat
      /\ todoBatch \in [Days!B -> BatchRows]
  BY DEF DayInv
<1>2. CASE blocker' = blocker
  BY <1>1, <1>2 DEF BlockersMove, Days!HumanBlockerStep
<1>3. CASE Days!Reset
  <2>1. blocker' = [b \in Days!B |-> [t \in DayTodos |-> None]] /\ resets' = resets + 1
    BY <1>3 DEF Days!Reset
  <2>2. QED
    BY <1>1, <2>1 DEF BlockersMove, Days!HumanBlockerStep
<1>4. ASSUME NEW b \in Days!B, Days!Release(b) PROVE BlockersMove
  <2>1. /\ blocker' = [blocker EXCEPT ![b] = [t \in DayTodos |->
                          IF blocker[b][t] # None /\ blocker[b][t].kind = "human_required"
                          THEN None ELSE blocker[b][t]]]
        /\ todoBatch' = [todoBatch EXCEPT ![b] = [todoBatch[b] EXCEPT !.state = "released"]]
    BY <1>4 DEF Days!Release, Days!ReleasedBlockers
  <2>2. todoBatch[b] \in BatchRows
    BY <1>1
  <2>3. todoBatch'[b].state = "released"
    BY <1>1, <2>1, <2>2 DEF BatchRows
  <2>4. \A c \in Days!B, t \in DayTodos : c # b => blocker'[c][t] = blocker[c][t]
    BY <1>1, <2>1
  <2>5. blocker' \in [Days!B -> [DayTodos -> Raised \cup {None}]]
    BY <1>1, <2>1
  <2>6. QED
    BY <2>3, <2>4, <2>5 DEF BlockersMove, Days!HumanBlockerStep
<1>5. ASSUME NEW b \in Days!B, NEW t \in DayTodos, Days!Start(b, t) PROVE BlockersMove
  <2>1. blocker' = [c \in Days!B |-> [u \in DayTodos |->
            IF /\ u = t /\ c # b /\ todo[t].status \in {"blocked", "review_required"}
               /\ blocker[c][u] # None /\ blocker[c][u].again
               /\ blocker[c][u].kind \in {"contract_invariant", "review_required"}
            THEN None ELSE blocker[c][u]]]
    BY <1>5 DEF Days!Start, Days!Superseded
  <2>2. blocker' \in [Days!B -> [DayTodos -> Raised \cup {None}]]
    BY <1>1, <2>1
  <2>3. ASSUME NEW c \in Days!B, NEW u \in DayTodos, blocker[c][u].kind = "human_required"
        PROVE  blocker'[c][u] = blocker[c][u]
    BY <2>1, <2>3
  <2>4. QED
    BY <2>2, <2>3 DEF BlockersMove, Days!HumanBlockerStep
<1>6. ASSUME NEW b \in Days!B, NEW t \in DayTodos, NEW s \in Days!Statuses \ {"pending", "in_progress"},
             NEW r \in BOOLEAN, NEW e \in BOOLEAN, NEW x \in Transients, Days!Finish(b, t, s, r, x, e)
      PROVE  BlockersMove
  <2> DEFINE y == Days!BlockerOf(s, r, e, blocker[b][t])
  <2>1. blocker' = [blocker EXCEPT ![b] = [blocker[b] EXCEPT ![t] = y]]
    BY <1>6 DEF Days!Finish
  <2>2. blocker[b][t] \in Raised \cup {None}
    BY <1>1
  <2>3. y \in Raised \cup {None} /\ (blocker[b][t] # None => y = blocker[b][t])
    <3>1. CASE s \in {"blocked", "review_required", "human_required"} /\ e /\ blocker[b][t] = None
      <4>1. y = [kind |-> Days!Kind(s), again |-> r]
        BY <3>1 DEF Days!BlockerOf
      <4>2. Days!Kind(s) \in {"contract_invariant", "review_required", "human_required"}
        BY <3>1 DEF Days!Kind
      <4> HIDE DEF y
      <4>3. y \in Raised
        BY <4>1, <4>2 DEF Raised
      <4>4. QED
        BY <3>1, <4>3
    <3>2. CASE ~(s \in {"blocked", "review_required", "human_required"} /\ e /\ blocker[b][t] = None)
      BY <2>2, <3>2 DEF Days!BlockerOf
    <3>3. QED
      BY <3>1, <3>2
  <2> HIDE DEF y
  <2>4. blocker' \in [Days!B -> [DayTodos -> Raised \cup {None}]]
    BY <1>1, <2>1, <2>3
  <2>5. \A c \in Days!B, u \in DayTodos : blocker[c][u] # None => blocker'[c][u] = blocker[c][u]
    BY <1>1, <2>1, <2>3
  <2>6. QED
    BY <2>4, <2>5 DEF BlockersMove, Days!HumanBlockerStep
<1>7. ASSUME NEW b \in Days!B,
             \/ Days!Create(b) \/ Days!Launch(b) \/ Days!Execute(b) \/ Days!Seal(b)
             \/ \E r, a \in BOOLEAN : Days!Adjudicate(b, r, a)
             \/ \E s \in {"blocked", "human_required", "review_required"} : Days!EndRun(b, s)
      PROVE  BlockersMove
  BY <1>2, <1>7
     DEF Days!Create, Days!Launch, Days!Execute, Days!Seal, Days!Adjudicate, Days!EndRun
<1>8. ASSUME \/ Days!Reconcile \/ \E t \in DayTodos, s \in Days!Statuses : Days!Mark(t, s)
             \/ \E S \in Selections : Days!Select(S)
      PROVE  BlockersMove
  BY <1>2, <1>8 DEF Days!Reconcile, Days!Mark, Days!Select
<1>9. QED
  BY <1>3, <1>4, <1>5, <1>6, <1>7, <1>8 DEF Days!Next, Days!Operator, Days!Work

\* The Batches keep their shape and what their acceptance rests on.
RowsMove ==
    /\ todoBatch' \in [Days!B -> BatchRows]
    /\ \A b \in Days!B : Founded(todoBatch'[b]) /\ todoBatch'[b].seal <= seq'

LEMMA NoFactsYet == <<>> \in FactRows
<1>1. <<>> \in [{} -> Nat] /\ {} \in SUBSET DayTodos
  OBVIOUS
<1>2. QED
  BY <1>1 DEF FactRows

\* One Batch changes.
LEMMA OneBatchMoves ==
    ASSUME DayInv, NEW b \in Days!B, NEW y \in BatchRows, todoBatch' = [todoBatch EXCEPT ![b] = y],
           Founded(y), seq' \in Nat, seq <= seq', y.seal <= seq'
    PROVE  RowsMove
<1>1. todoBatch' \in [Days!B -> BatchRows] /\ \A c \in Days!B : todoBatch'[c] = IF c = b THEN y ELSE todoBatch[c]
  BY DEF DayInv
<1>2. \A c \in Days!B : todoBatch[c].seal \in Nat /\ todoBatch[c].seal <= seq /\ seq \in Nat /\ Founded(todoBatch[c])
  BY DEF DayInv, BatchRows
<1>3. ASSUME NEW c \in Days!B PROVE Founded(todoBatch'[c]) /\ todoBatch'[c].seal <= seq'
  <2>1. CASE c = b
    BY <1>1, <2>1
  <2>2. CASE c # b
    BY <1>1, <1>2, <2>2
  <2>3. QED
    BY <2>1, <2>2
<1>4. QED
  BY <1>1, <1>3 DEF RowsMove

\* A step of its life leaves what a Batch found and accepted.
LEMMA OneBatchGoesOn ==
    ASSUME DayInv, NEW b \in Days!B, NEW y \in BatchRows, todoBatch' = [todoBatch EXCEPT ![b] = y],
           seq' \in Nat, seq <= seq', y.seal <= seq',
           y.outcome = todoBatch[b].outcome, y.scope = todoBatch[b].scope, y.facts = todoBatch[b].facts
    PROVE  RowsMove
<1>1. Founded(y)
  BY DEF DayInv, Founded
<1>2. QED
  BY <1>1, OneBatchMoves

LEMMA EveryRowMoves ==
    ASSUME Days!TodoAssumption, DayInv, TodoMoves, Days!Next
    PROVE  RowsMove /\ seq' \in Nat
<1>1. \A b \in Days!B : todoBatch[b] \in BatchRows /\ todoBatch[b].seal <= seq /\ todoBatch[b].seal \in Nat
  BY DEF DayInv, BatchRows
<1>2. seq \in Nat
  BY DEF DayInv
<1>3. CASE todoBatch' = todoBatch /\ seq' \in Nat /\ seq <= seq'
  BY <1>1, <1>2, <1>3 DEF RowsMove, DayInv
<1>4. ASSUME NEW b \in Days!B, Days!Launch(b) PROVE RowsMove /\ seq' \in Nat
  <2> DEFINE y == [todoBatch[b] EXCEPT !.state = "launching"]
  <2>1. todoBatch' = [todoBatch EXCEPT ![b] = y] /\ seq' = seq
    BY <1>4 DEF Days!Launch
  <2>2. y \in BatchRows /\ y.outcome = todoBatch[b].outcome /\ y.scope = todoBatch[b].scope
        /\ y.facts = todoBatch[b].facts /\ y.seal = todoBatch[b].seal
    BY <1>1 DEF BatchRows, Days!States
  <2> HIDE DEF y
  <2>3. seq' \in Nat /\ seq <= seq' /\ y.seal <= seq'
    BY <1>1, <1>2, <2>1, <2>2
  <2>4. QED
    BY <2>1, <2>2, <2>3, OneBatchGoesOn
<1>5. ASSUME NEW b \in Days!B, Days!Execute(b) PROVE RowsMove /\ seq' \in Nat
  <2> DEFINE y == [todoBatch[b] EXCEPT !.state = "executing", !.replay = Days!Replayed(b)]
  <2>1. todoBatch' = [todoBatch EXCEPT ![b] = y] /\ seq' = seq
    BY <1>1, <1>5 DEF Days!Execute, BatchRows, DayInv
  <2>2. Days!Replayed(b) \in SUBSET DayTodos
    BY <1>1 DEF Days!Replayed, BatchRows
  <2>3. y \in BatchRows /\ y.outcome = todoBatch[b].outcome /\ y.scope = todoBatch[b].scope
        /\ y.facts = todoBatch[b].facts /\ y.seal = todoBatch[b].seal
    BY <1>1, <2>2 DEF BatchRows, Days!States
  <2> HIDE DEF y
  <2>4. seq' \in Nat /\ seq <= seq' /\ y.seal <= seq'
    BY <1>1, <1>2, <2>1, <2>3
  <2>5. QED
    BY <2>1, <2>3, <2>4, OneBatchGoesOn
<1>6. ASSUME NEW b \in Days!B, NEW t \in DayTodos, Days!Start(b, t) PROVE RowsMove /\ seq' \in Nat
  <2> DEFINE y == [todoBatch[b] EXCEPT !.tried = todoBatch[b].tried \cup {t}]
  <2>1. todoBatch' = [todoBatch EXCEPT ![b] = y] /\ seq' = seq
    BY <1>6 DEF Days!Start
  <2>2. todoBatch[b].tried \cup {t} \in SUBSET DayTodos
    BY <1>1 DEF BatchRows
  <2>3. y \in BatchRows /\ y.outcome = todoBatch[b].outcome /\ y.scope = todoBatch[b].scope
        /\ y.facts = todoBatch[b].facts /\ y.seal = todoBatch[b].seal
    BY <1>1, <2>2 DEF BatchRows, Days!States
  <2> HIDE DEF y
  <2>4. seq' \in Nat /\ seq <= seq' /\ y.seal <= seq'
    BY <1>1, <1>2, <2>1, <2>3
  <2>5. QED
    BY <2>1, <2>3, <2>4, OneBatchGoesOn
<1>7. ASSUME NEW b \in Days!B, NEW s, todoBatch' = Days!Ended(b, s), seq' \in Nat, seq <= seq' PROVE RowsMove
  <2> DEFINE k == IF s = "human_required" THEN "human" ELSE "review"
             y == [todoBatch[b] EXCEPT !.state = k]
  <2>1. todoBatch' = [todoBatch EXCEPT ![b] = y]
    BY <1>7 DEF Days!Ended
  <2>2. k \in Days!States
    BY DEF Days!States
  <2> HIDE DEF k
  <2>3. y \in BatchRows /\ y.outcome = todoBatch[b].outcome /\ y.scope = todoBatch[b].scope
        /\ y.facts = todoBatch[b].facts /\ y.seal = todoBatch[b].seal
    BY <1>1, <2>2 DEF BatchRows
  <2>4. y.seal <= seq'
    BY <1>1, <1>2, <1>7, <2>3
  <2>5. QED
    BY <1>7, <2>1, <2>3, <2>4, OneBatchGoesOn
<1>8. ASSUME NEW b \in Days!B, NEW t \in DayTodos, NEW s \in Days!Statuses \ {"pending", "in_progress"},
             NEW r \in BOOLEAN, NEW e \in BOOLEAN, NEW x \in Transients, Days!Finish(b, t, s, r, x, e)
      PROVE  RowsMove /\ seq' \in Nat
  <2>1. seq' = IF s = "completed" THEN seq + 1 ELSE seq
    BY <1>8 DEF Days!Finish
  <2>2. seq' \in Nat /\ seq <= seq'
    BY <1>2, <2>1
  <2>3. todoBatch' = Days!Ended(b, s) \/ todoBatch' = todoBatch
    BY <1>8 DEF Days!Finish
  <2>4. QED
    BY <1>3, <1>7, <2>2, <2>3
<1>9. ASSUME NEW b \in Days!B, NEW s \in {"blocked", "human_required", "review_required"},
             Days!EndRun(b, s)
      PROVE  RowsMove /\ seq' \in Nat
  <2>1. todoBatch' = Days!Ended(b, s) /\ seq' = seq
    BY <1>9 DEF Days!EndRun
  <2>2. QED
    BY <1>2, <1>7, <2>1
<1>10. ASSUME NEW b \in Days!B, NEW v \in BOOLEAN, NEW a \in BOOLEAN, Days!Adjudicate(b, v, a)
       PROVE  RowsMove /\ seq' \in Nat
  <2> DEFINE o == IF a /\ Days!Acceptable(b) THEN "accepted" ELSE "review_required"
             f == Days!FrozenFacts(b)
             y == [todoBatch[b] EXCEPT !.state = "adjudicated", !.reviewed = v, !.outcome = o, !.facts = f]
  <2>1. todoBatch' = [todoBatch EXCEPT ![b] = y] /\ seq' = seq
    BY <1>1, <1>10 DEF Days!Adjudicate, BatchRows, DayInv
  <2>2. todoBatch[b].scope \in SUBSET DayTodos /\ f = [t \in todoBatch[b].scope |-> todo[t].done]
    BY <1>1 DEF Days!FrozenFacts, BatchRows
  <2>3. \A t \in DayTodos : todo[t].done \in Nat /\ (todo[t].status = "completed" => todo[t].done > 0)
    BY DEF DayInv, Dated, TodoRows
  <2>4. f \in FactRows
    <3>1. f \in [todoBatch[b].scope -> Nat]
      BY <2>2, <2>3
    <3>2. QED
      BY <2>2, <3>1 DEF FactRows
  <2>5. o = "accepted" => \A t \in todoBatch[b].scope : t \in DOMAIN f /\ f[t] > 0
    BY <2>2, <2>3 DEF Days!Acceptable, Days!IsDone
  <2>6. o \in {"accepted", "review_required", None} /\ "adjudicated" \in Days!States
    BY DEF Days!States
  <2> HIDE DEF o, f
  <2>7. y \in BatchRows /\ y.outcome = o /\ y.scope = todoBatch[b].scope /\ y.facts = f
        /\ y.seal = todoBatch[b].seal
    BY <1>1, <2>4, <2>6 DEF BatchRows
  <2>8. Founded(y)
    BY <2>5, <2>7 DEF Founded
  <2> HIDE DEF y
  <2>9. seq' \in Nat /\ seq <= seq' /\ y.seal <= seq'
    BY <1>1, <1>2, <2>1, <2>7
  <2>10. QED
    BY <2>1, <2>7, <2>8, <2>9, OneBatchMoves
<1>11. ASSUME NEW b \in Days!B, Days!Seal(b) PROVE RowsMove /\ seq' \in Nat
  <2> DEFINE y == [todoBatch[b] EXCEPT !.state = "sealed", !.seal = seq + 1]
  <2>1. todoBatch' = [todoBatch EXCEPT ![b] = y] /\ seq' = seq + 1
    BY <1>1, <1>11 DEF Days!Seal, BatchRows, DayInv
  <2> DEFINE n == seq + 1
             z == [todoBatch[b] EXCEPT !.state = "sealed", !.seal = n]
  <2>2. n \in Nat /\ seq <= n /\ seq' = n /\ todoBatch' = [todoBatch EXCEPT ![b] = z]
    BY <1>2, <2>1
  <2> HIDE DEF n
  <2>3. z \in BatchRows /\ z.outcome = todoBatch[b].outcome /\ z.scope = todoBatch[b].scope
        /\ z.facts = todoBatch[b].facts /\ z.seal = n
    BY <1>1, <2>2 DEF BatchRows, Days!States
  <2> HIDE DEF z
  <2>4. z.seal <= n
    BY <2>2, <2>3
  <2>5. QED
    BY <2>2, <2>3, <2>4, OneBatchGoesOn
<1>12. ASSUME NEW b \in Days!B, Days!Release(b) PROVE RowsMove /\ seq' \in Nat
  <2> DEFINE y == [todoBatch[b] EXCEPT !.state = "released"]
  <2>1. todoBatch' = [todoBatch EXCEPT ![b] = y] /\ seq' = seq
    BY <1>12 DEF Days!Release
  <2>2. y \in BatchRows /\ y.outcome = todoBatch[b].outcome /\ y.scope = todoBatch[b].scope
        /\ y.facts = todoBatch[b].facts /\ y.seal = todoBatch[b].seal
    BY <1>1 DEF BatchRows, Days!States
  <2> HIDE DEF y
  <2>3. seq' \in Nat /\ seq <= seq' /\ y.seal <= seq'
    BY <1>1, <1>2, <2>1, <2>2
  <2>4. QED
    BY <2>1, <2>2, <2>3, OneBatchGoesOn
<1>13. ASSUME NEW b \in Days!B, Days!Create(b) PROVE RowsMove /\ seq' \in Nat
  <2>1. selected \in SUBSET DayTodos /\ selected' = selected /\ None # "accepted"
    BY <1>13 DEF DayInv, Days!Create, Days!TodoAssumption
  <2>2. CASE Days!Unresolved' = {}
    <3>1. PICK o \in {"accepted", "review_required", None} :
              todoBatch' = [todoBatch EXCEPT ![b] = Days!SealedAtOnce(o)]
      BY <1>13, <2>2 DEF Days!Create
    <3> DEFINE f == [t \in selected |-> todo'[t].done]
               y == Days!SealedAtOnce(o)
    <3>2. seq' = seq + 1
      BY <1>13, <2>2 DEF Days!Create
    <3>3. \A t \in selected : todo'[t].done \in Nat /\ todo'[t].done > 0
      <4>1. \A t \in selected : todo'[t].status = "completed"
        BY <2>1, <2>2 DEF Days!Unresolved, Days!IsDone
      <4>2. \A t \in DayTodos : Dated(todo'[t])
        BY DEF TodoMoves
      <4>3. QED
        BY <2>1, <4>1, <4>2 DEF Dated, TodoRows
    <3>4. f \in FactRows
      <4>1. f \in [selected -> Nat]
        BY <3>3
      <4>2. QED
        BY <2>1, <4>1 DEF FactRows
    <3>5. y = [Days!NoBatch EXCEPT !.state = "sealed", !.scope = selected, !.seal = seq',
                                   !.reviewed = (o # None), !.outcome = o, !.facts = f]
      BY DEF Days!SealedAtOnce
    <3> HIDE DEF f, y
    <3>6. y = [state |-> "sealed", plan |-> {}, scope |-> selected, replay |-> {}, tried |-> {},
               outcome |-> o, reviewed |-> (o # None), facts |-> f, seal |-> seq + 1]
      BY <3>2, <3>5 DEF Days!NoBatch
    <3>7. \A t \in selected : t \in DOMAIN f /\ f[t] > 0
      BY <3>3 DEF f
    <3>8. seq + 1 \in Nat /\ (o # None) \in BOOLEAN
      BY <1>2
    <3>9. y \in BatchRows
      BY <2>1, <3>4, <3>6, <3>8 DEF BatchRows, Days!States
    <3>10. Founded(y)
      BY <3>6, <3>7 DEF Founded
    <3>11. seq' \in Nat /\ seq <= seq' /\ y.seal <= seq'
      BY <1>2, <3>2, <3>6
    <3>12. todoBatch' = [todoBatch EXCEPT ![b] = y]
      BY <3>1 DEF y
    <3>13. QED
      BY <3>9, <3>10, <3>11, <3>12, OneBatchMoves
  <2>3. CASE Days!Unresolved' # {}
    <3> DEFINE p == Days!PlanOf'
               y == [Days!NoBatch EXCEPT !.state = "queued", !.plan = p, !.scope = selected]
    <3>1. todoBatch' = [todoBatch EXCEPT ![b] = y]
      BY <1>13, <2>1, <2>3 DEF Days!Create, Days!Replanned
    <3>2. seq' \in Nat /\ seq <= seq'
      <4>1. seq' = IF Days!Reconciled = todo THEN seq ELSE seq + 1
        BY <1>13, <2>3 DEF Days!Create
      <4>2. QED
        BY <1>2, <4>1
    <3>3. p \in SUBSET DayTodos
      BY <2>1 DEF Days!PlanOf, Days!Eligible, Days!Unresolved
    <3>4. y = [Days!NoBatch EXCEPT !.state = "queued", !.plan = p, !.scope = selected]
      OBVIOUS
    <3> HIDE DEF p, y
    <3>5. y = [state |-> "queued", plan |-> p, scope |-> selected, replay |-> {}, tried |-> {},
               outcome |-> None, reviewed |-> FALSE, facts |-> <<>>, seal |-> 0]
      BY <3>4 DEF Days!NoBatch
    <3>6. y \in BatchRows
      BY <2>1, <3>3, <3>5, NoFactsYet DEF BatchRows, Days!States
    <3>7. Founded(y) /\ y.seal = 0
      BY <2>1, <3>5 DEF Founded
    <3>8. y.seal <= seq'
      BY <3>2, <3>7
    <3>9. QED
      BY <3>1, <3>2, <3>6, <3>7, <3>8, OneBatchMoves
  <2>4. QED
    BY <2>2, <2>3
<1>14. ASSUME \/ Days!Reset \/ Days!Reconcile
              \/ \E t \in DayTodos, s \in Days!Statuses : Days!Mark(t, s)
              \/ \E S \in Selections : Days!Select(S)
       PROVE  RowsMove /\ seq' \in Nat
  <2>1. todoBatch' = todoBatch /\ (seq' = seq \/ seq' = seq + 1)
    BY <1>14 DEF Days!Reset, Days!Reconcile, Days!Mark, Days!Select
  <2>2. QED
    BY <1>2, <1>3, <2>1
<1>15. QED
  BY <1>4, <1>5, <1>6, <1>8, <1>9, <1>10, <1>11, <1>12, <1>13, <1>14
     DEF Days!Next, Days!Operator, Days!Work

\* The other variables.
LEMMA EveryOtherMoves ==
    ASSUME Days!TodoAssumption, DayInv, Days!Next
    PROVE  /\ running' # None => running' \in Days!B \X DayTodos
           /\ selected' \subseteq DayTodos /\ resets' \in Nat
<1>1. /\ running # None => running \in Days!B \X DayTodos
      /\ selected \subseteq DayTodos /\ resets \in Nat /\ resets + 1 \in Nat
  BY DEF DayInv
<1>2. CASE Days!Operator
  BY <1>1, <1>2 DEF Days!Operator, Days!Reset, Days!Reconcile, Days!Mark, Days!Select, Days!TodoAssumption
<1>3. ASSUME NEW b \in Days!B, Days!Work(b)
      PROVE  /\ running' = running \/ running' = None \/ \E t \in DayTodos : running' = <<b, t>>
             /\ selected' = selected /\ resets' = resets
  <2>1. CASE Days!Create(b) \/ Days!Launch(b) \/ Days!Execute(b) \/ Days!Seal(b) \/ Days!Release(b)
    BY <2>1 DEF Days!Create, Days!Launch, Days!Execute, Days!Seal, Days!Release
  <2>2. ASSUME NEW r \in BOOLEAN, NEW a \in BOOLEAN, Days!Adjudicate(b, r, a)
        PROVE  running' = running /\ selected' = selected /\ resets' = resets
    BY <2>2 DEF Days!Adjudicate
  <2>3. ASSUME NEW s, Days!EndRun(b, s)
        PROVE  running' = None /\ selected' = selected /\ resets' = resets
    BY <2>3 DEF Days!EndRun
  <2>4. ASSUME NEW t \in DayTodos, Days!Start(b, t)
        PROVE  running' = <<b, t>> /\ selected' = selected /\ resets' = resets
    BY <2>4 DEF Days!Start
  <2>5. ASSUME NEW t \in DayTodos, NEW s, NEW r, NEW x, NEW e, Days!Finish(b, t, s, r, x, e)
        PROVE  running' = None /\ selected' = selected /\ resets' = resets
    BY <2>5 DEF Days!Finish
  <2>6. QED
    BY <1>3, <2>1, <2>2, <2>3, <2>4, <2>5 DEF Days!Work
<1>4. QED
  BY <1>1, <1>2, <1>3 DEF Days!Next

LEMMA DayStarts == ASSUME Days!TodoAssumption, Days!Init PROVE DayInv
<1>1. /\ todo = [t \in DayTodos |-> Days!Pending] /\ DOMAIN todo = DayTodos
      /\ \A t \in DayTodos : todo[t] = Days!Pending
  BY DEF Days!Init
<1>2. Dated(Days!Pending)
  BY DEF Days!Pending, Dated, TodoRows, Days!Statuses
<1>3. DOMAIN todo = DayTodos /\ todo = [t \in DayTodos |-> todo[t]] /\ \A t \in DayTodos : Dated(todo[t])
  BY <1>1, <1>2
<1>4. blocker \in [Days!B -> [DayTodos -> Raised \cup {None}]]
  BY DEF Days!Init
<1>5. Days!NoBatch \in BatchRows /\ Founded(Days!NoBatch) /\ Days!NoBatch.seal = 0
  BY NoFactsYet DEF Days!NoBatch, BatchRows, Days!States, Founded, Days!TodoAssumption
<1>6. todoBatch \in [Days!B -> BatchRows] /\ \A b \in Days!B : Founded(todoBatch[b]) /\ todoBatch[b].seal <= seq
  BY <1>5 DEF Days!Init
<1>7. QED
  BY <1>3, <1>4, <1>6 DEF DayInv, Days!Init, Days!TodoAssumption

LEMMA DayGoesOn == ASSUME Days!TodoAssumption, DayInv, [Days!Next]_(Days!vars) PROVE DayInv'
<1>1. CASE Days!Next
  <2>1. TodoMoves /\ BlockersMove /\ RowsMove /\ seq' \in Nat
    BY <1>1, EveryTodoMoves, EveryBlockerMoves, EveryRowMoves
  <2>2. QED
    BY <1>1, <2>1, EveryOtherMoves DEF TodoMoves, BlockersMove, RowsMove, DayInv
<1>2. CASE UNCHANGED Days!vars
  BY <1>2 DEF DayInv, Days!vars, Founded, Dated
<1>3. QED
  BY <1>1, <1>2

\* Among the contracts of the scope there is a newest one.
LEMMA NewestExists ==
    ASSUME DayInv, Days!Contracts # {}
    PROVE  Days!NewestContract \in Days!Contracts
<1> DEFINE Age(b) == seq - todoBatch[b].seal
           Ages == {Age(b) : b \in Days!Contracts}
<1>1. \A b \in Days!Contracts : Age(b) \in Nat /\ todoBatch[b].seal \in Nat
  BY DEF Days!Contracts, DayInv, BatchRows
<1>2. Ages \subseteq Nat /\ Ages # {}
  BY <1>1
<1>3. PICK n \in Ages : \A m \in Ages : <<m, n>> \notin OpToRel(<, Nat)
  BY <1>2, WFMin, NatLessThanWellFounded
<1>4. PICK b \in Days!Contracts : n = Age(b)
  OBVIOUS
<1>5. \A c \in Days!Contracts : Age(c) \in Ages
  OBVIOUS
<1>6. ASSUME NEW c \in Days!Contracts PROVE todoBatch[c].seal <= todoBatch[b].seal
  <2>1. <<Age(c), Age(b)>> \notin OpToRel(<, Nat)
    BY <1>3, <1>4, <1>5
  <2>2. Age(c) \in Nat /\ Age(b) \in Nat
    BY <1>1
  <2>3. ~(Age(c) < Age(b))
    BY <2>1, <2>2 DEF OpToRel
  <2>4. seq \in Nat /\ todoBatch[c].seal \in Nat /\ todoBatch[b].seal \in Nat
    BY <1>1 DEF DayInv
  <2>5. QED
    BY <2>3, <2>4
<1>7. QED
  BY <1>6 DEF Days!NewestContract

LEMMA DayIsProven == ASSUME DayInv PROVE DoneIsProven
<1>1. SUFFICES ASSUME Days!Completion = "accepted_done" PROVE DoneIsProven
  BY DEF DoneIsProven, Days!AcceptedIsProven
<1>2. Days!Contracts # {} /\ todoBatch[Days!NewestContract].outcome = "accepted"
  BY <1>1 DEF Days!Completion
<1>3. PICK b \in Days!Contracts : todoBatch[b].outcome = "accepted"
  BY <1>2, NewestExists
<1>4. b \in Days!B /\ todoBatch[b].state = "sealed" /\ todoBatch[b].reviewed /\ todoBatch[b].scope = selected
  BY DEF Days!Contracts
<1>5. Founded(todoBatch[b])
  BY <1>4 DEF DayInv
<1>6. QED
  BY <1>3, <1>4, <1>5 DEF DoneIsProven, Days!AcceptedIsProven, Founded

THEOREM DoneRestsOnAnAcceptedSeal ==
    ASSUME Days!TodoAssumption PROVE Days!Spec => []DoneIsProven
<1>1. Days!Init => DayInv
  BY DayStarts
<1>2. DayInv /\ [Days!Next]_(Days!vars) => DayInv'
  BY DayGoesOn
<1>3. DayInv => DoneIsProven
  BY DayIsProven
<1>4. QED
  BY <1>1, <1>2, <1>3, PTL DEF Days!Spec

\* What was completed stays completed through every replay and every later
\* Batch until an explicit reset, and a human blocker is closed only by the
\* release of its Batch or by a reset.
THEOREM TodosAreKept ==
    ASSUME Days!TodoAssumption PROVE Days!Spec => TodosKept
<1>1. ASSUME DayInv, Days!Next PROVE Days!KeptStep
  <2>1. TodoMoves /\ BlockersMove
    BY <1>1, EveryTodoMoves, EveryBlockerMoves
  <2>2. Days!CompletedStep
    BY <2>1 DEF TodoMoves, StaysDone, Days!CompletedStep, Days!IsDone
  <2>3. QED
    BY <2>1, <2>2 DEF BlockersMove, Days!KeptStep
<1>2. Days!Init => DayInv
  BY DayStarts
<1>3. DayInv /\ [Days!Next]_(Days!vars) => DayInv'
  BY DayGoesOn
<1>4. DayInv /\ [Days!Next]_(Days!vars) => [Days!KeptStep]_(Days!vars)
  BY <1>1
<1>5. QED
  BY <1>2, <1>3, <1>4, PTL DEF Days!Spec, TodosKept

-----------------------------------------------------------------------------
(* The claims on work items (WorkItemClaims), for any number of Agents,      *)
(* items, keys, claims and commands.                                         *)

Rows        == [item : Items, by : Agents, state : {"active", "expired", "resolved"}, until : Nat, key : Keys]
Decisions   == [claim : Nat, key : Keys]
Invocations == [claim : Nat, key : Keys, good : BOOLEAN]
Open        == {"planned", "running"}
Decided     == {"done", "review_required"}

ClaimShape ==
    /\ item \in [Items -> [state : Open \cup Decided, active : Nat \cup {None}]]
    /\ claims \in Seq(Rows) /\ decided \in Seq(Decisions) /\ invoked \in Seq(Invocations)
    /\ DOMAIN commands = Keys /\ DOMAIN call = Agents /\ claimClock \in Nat
    /\ \A a \in Agents : call[a] # None =>
          call[a].key \in Keys /\ call[a].req \in Claim!InvokeRequests(DOMAIN claims)

\* Only the claim that a running item points at may be active.
Pointed ==
    \A c \in DOMAIN claims : claims[c].state = "active" =>
        LET i == claims[c].item IN c = item[i].active /\ item[i].state = "running"

\* An item has one decision, on the claim it points at, or is still open.
ItemSettled ==
    /\ \A d \in DOMAIN decided :
          /\ decided[d].claim \in DOMAIN claims
          /\ LET i == claims[decided[d].claim].item
             IN  item[i].state \in Decided /\ decided[d].claim = item[i].active
    /\ \A d, e \in DOMAIN decided :
          claims[decided[d].claim].item = claims[decided[e].claim].item => d = e
    /\ \A i \in Items : item[i].state \in Decided =>
          \E d \in DOMAIN decided : claims[decided[d].claim].item = i

KeyOf(s) == {s[x].key : x \in DOMAIN s}
Once(s)  == \A x, y \in DOMAIN s : s[x].key = s[y].key => x = y

\* Every row was made by a command that is in the ledger, and by it alone.
Keyed ==
    /\ \A k \in KeyOf(claims) \cup KeyOf(decided) \cup KeyOf(invoked) : Claim!Known(k)
    /\ Once(claims) /\ Once(decided) /\ Once(invoked)
    /\ KeyOf(claims) \cap KeyOf(decided) = {} /\ KeyOf(claims) \cap KeyOf(invoked) = {}
    /\ KeyOf(decided) \cap KeyOf(invoked) = {}

ClaimInv == ClaimShape /\ Pointed /\ ItemSettled /\ Keyed /\ Claim!ReplayAnswered

LEMMA AppendedRow ==
    ASSUME NEW S, NEW s \in Seq(S), NEW x \in S, NEW t, t = Append(s, x)
    PROVE  /\ t \in Seq(S) /\ Len(t) = Len(s) + 1 /\ Len(s) + 1 \notin DOMAIN s
           /\ DOMAIN t = DOMAIN s \cup {Len(s) + 1} /\ Len(s) + 1 \in Nat /\ DOMAIN s \subseteq Nat
           /\ \A i \in DOMAIN s : t[i] = s[i]
           /\ t[Len(s) + 1] = x
<1>1. DOMAIN s = 1 .. Len(s) /\ DOMAIN t = 1 .. Len(s) + 1 /\ Len(s) \in Nat
  OBVIOUS
<1>2. QED
  BY <1>1

LEMMA Mapped ==
    ASSUME NEW S, NEW s \in Seq(S), NEW t \in [DOMAIN s -> S]
    PROVE  t \in Seq(S) /\ Len(t) = Len(s) /\ DOMAIN t = DOMAIN s
<1>1. DOMAIN s = 1 .. Len(s) /\ Len(s) \in Nat
  OBVIOUS
<1>2. QED
  BY <1>1

\* A new row under a fresh key.
LEMMA KeyAppended ==
    ASSUME NEW S, NEW s \in Seq(S), NEW x \in S, NEW t, t = Append(s, x),
           Once(s), x.key \notin KeyOf(s)
    PROVE  Once(t) /\ KeyOf(t) = KeyOf(s) \cup {x.key}
<1>1. /\ DOMAIN t = DOMAIN s \cup {Len(s) + 1} /\ t[Len(s) + 1] = x
      /\ \A i \in DOMAIN s : t[i] = s[i]
  BY AppendedRow
<1>2. KeyOf(t) = KeyOf(s) \cup {x.key}
  BY <1>1 DEF KeyOf
<1>3. Once(t)
  BY <1>1 DEF Once, KeyOf
<1>4. QED
  BY <1>2, <1>3

\* The old rows keep what identifies them, whether the claim renews a live one
\* or is made in place of the spent ones.
Kept(s, t) == \A c \in DOMAIN s : t[c].item = s[c].item /\ t[c].by = s[c].by /\ t[c].key = s[c].key

LEMMA Renewed ==
    ASSUME ClaimInv, NEW i \in Items, NEW a, NEW until \in Nat, NEW k,
           Claim!LiveClaims(i) # {}, claims' = Claim!Claimed(i, a, until, k)
    PROVE  /\ claims' \in Seq(Rows) /\ DOMAIN claims' = DOMAIN claims /\ Kept(claims, claims')
           /\ Len(claims') = Len(claims)
           /\ \A c \in DOMAIN claims : claims'[c].state = claims[c].state
<1>1. claims' = [c \in DOMAIN claims |-> IF c \in Claim!LiveClaims(i)
                                         THEN [claims[c] EXCEPT !.until = until] ELSE claims[c]]
  BY DEF Claim!Claimed
<1>2. \A c \in DOMAIN claims : claims[c] \in Rows
  BY DEF ClaimInv, ClaimShape
<1>3. \A c \in DOMAIN claims : /\ claims'[c] \in Rows /\ claims'[c].item = claims[c].item
                               /\ claims'[c].by = claims[c].by /\ claims'[c].key = claims[c].key
                               /\ claims'[c].state = claims[c].state
  BY <1>1, <1>2 DEF Rows
<1>4. claims' \in [DOMAIN claims -> Rows]
  BY <1>1, <1>3
<1>5. QED
  BY <1>3, <1>4, Mapped DEF Kept, ClaimInv, ClaimShape

LEMMA MadeAnew ==
    ASSUME ClaimInv, NEW i \in Items, NEW a \in Agents, NEW until \in Nat, NEW k \in Keys,
           Claim!LiveClaims(i) = {}, claims' = Claim!Claimed(i, a, until, k)
    PROVE  LET n == Len(claims) + 1
           IN  /\ claims' \in Seq(Rows) /\ DOMAIN claims' = DOMAIN claims \cup {n}
               /\ n \notin DOMAIN claims /\ n \in Nat /\ Len(claims') = n
               /\ Kept(claims, claims')
               /\ \A c \in DOMAIN claims :
                     claims'[c].state = "active" => claims[c].state = "active" /\ claims[c].item # i
               /\ claims'[n] = [item |-> i, by |-> a, state |-> "active", until |-> until, key |-> k]
<1> DEFINE n == Len(claims) + 1
           s == [c \in DOMAIN claims |->
                    IF claims[c].item = i /\ claims[c].state = "active" /\ claims[c].until <= claimClock
                    THEN [claims[c] EXCEPT !.state = "expired"] ELSE claims[c]]
           x == [item |-> i, by |-> a, state |-> "active", until |-> until, key |-> k]
<1>1. claims' = Append(s, x)
  BY DEF Claim!Claimed
<1>2. \A c \in DOMAIN claims : claims[c] \in Rows
  BY DEF ClaimInv, ClaimShape
<1>3. \A c \in DOMAIN claims : /\ s[c] \in Rows /\ s[c].item = claims[c].item
                               /\ s[c].by = claims[c].by /\ s[c].key = claims[c].key
  BY <1>2 DEF Rows
<1>4. \A c \in DOMAIN claims : s[c].state = "active" => claims[c].state = "active" /\ claims[c].item # i
  <2> SUFFICES ASSUME NEW c \in DOMAIN claims, s[c].state = "active"
               PROVE  claims[c].state = "active" /\ claims[c].item # i
    OBVIOUS
  <2>1. /\ claims[c].state = "active"
        /\ ~(claims[c].item = i /\ claims[c].state = "active" /\ claims[c].until <= claimClock)
    BY <1>2 DEF Rows
  <2>2. claims[c].until \in Nat /\ claimClock \in Nat
    BY <1>2 DEF Rows, ClaimInv, ClaimShape
  <2>3. claims[c].item = i => Claim!Live(c)
    BY <2>1, <2>2 DEF Claim!Live
  <2>4. QED
    BY <2>1, <2>3 DEF Claim!LiveClaims
<1>5. s \in Seq(Rows) /\ Len(s) = Len(claims) /\ DOMAIN s = DOMAIN claims
  <2>1. s \in [DOMAIN claims -> Rows]
    BY <1>3
  <2>2. claims \in Seq(Rows)
    BY DEF ClaimInv, ClaimShape
  <2>3. QED
    BY <2>1, <2>2, Mapped
<1>6. x \in Rows
  BY DEF Rows
<1> HIDE DEF s, x
<1>7. /\ claims' \in Seq(Rows) /\ DOMAIN claims' = DOMAIN claims \cup {n}
      /\ n \notin DOMAIN claims /\ n \in Nat /\ Len(claims') = n
      /\ \A c \in DOMAIN claims : claims'[c] = s[c]
      /\ claims'[n] = x
  BY <1>1, <1>5, <1>6, AppendedRow
<1>8. QED
  BY <1>3, <1>4, <1>7 DEF Kept, x

\* What an operation under a fresh key k leaves to be shown of the state after it.
Moved(k) ==
    /\ item' \in [Items -> [state : Open \cup Decided, active : Nat \cup {None}]]
    /\ claims' \in Seq(Rows) /\ decided' \in Seq(Decisions) /\ invoked' \in Seq(Invocations)
    /\ DOMAIN claims \subseteq DOMAIN claims'
    /\ Pointed' /\ ItemSettled'
    /\ \A j \in KeyOf(claims') \cup KeyOf(decided') \cup KeyOf(invoked') :
          j = k \/ j \in KeyOf(claims) \cup KeyOf(decided) \cup KeyOf(invoked)
    /\ Once(claims') /\ Once(decided') /\ Once(invoked')
    /\ KeyOf(claims') \cap KeyOf(decided') = {} /\ KeyOf(claims') \cap KeyOf(invoked') = {}
    /\ KeyOf(decided') \cap KeyOf(invoked') = {}

LEMMA RowFacts ==
    ASSUME ClaimInv
    PROVE  /\ DOMAIN claims \subseteq Nat
           /\ \A c \in DOMAIN claims : claims[c] \in Rows /\ claims[c].item \in Items
<1>1. claims \in Seq(Rows)
  BY DEF ClaimInv, ClaimShape
<1>2. DOMAIN claims \subseteq Nat /\ \A c \in DOMAIN claims : claims[c] \in Rows
  BY <1>1
<1>3. QED
  BY <1>2 DEF Rows

LEMMA RequestFacts ==
    ASSUME ClaimInv, Claim!ClaimAssumption, NEW r \in Claim!ClaimRequests
    PROVE  r.on \in Items /\ r.by \in Agents /\ claimClock + r.arg \in Nat
<1>1. r.on \in Items /\ r.by \in Agents /\ r.arg \in Leases
  BY DEF Claim!ClaimRequests
<1>2. r.arg \in Nat /\ claimClock \in Nat
  BY <1>1 DEF Claim!ClaimAssumption, ClaimInv, ClaimShape
<1>3. QED
  BY <1>1, <1>2

LEMMA ClaimRenews ==
    ASSUME ClaimInv, NEW k \in Keys, ~Claim!Known(k), NEW r \in Claim!ClaimRequests,
           Claim!ClaimAssumption, Claim!DoClaim(k, r), Claim!LiveClaims(r.on) # {}
    PROVE  Moved(k)
<1> DEFINE i == r.on
           c == CHOOSE x \in Claim!LiveClaims(i) : TRUE
<1>1. i \in Items /\ r.by \in Agents /\ claimClock + r.arg \in Nat
  BY RequestFacts
<1>2. /\ claims' = Claim!Claimed(i, r.by, claimClock + r.arg, k)
      /\ item' = [item EXCEPT ![i] = [state |-> "running", active |-> c]]
      /\ UNCHANGED <<decided, invoked>>
  BY DEF Claim!DoClaim
<1>3. c \in Claim!LiveClaims(i)
  OBVIOUS
<1>4. c \in DOMAIN claims /\ claims[c].item = i /\ claims[c].state = "active"
  BY <1>3 DEF Claim!LiveClaims, Claim!Live
<1>5. c = item[i].active /\ item[i].state = "running" /\ c \in Nat
  BY <1>4 DEF ClaimInv, Pointed, ClaimShape
<1> HIDE DEF c
<1>6. /\ claims' \in Seq(Rows) /\ DOMAIN claims' = DOMAIN claims
      /\ \A d \in DOMAIN claims : /\ claims'[d].item = claims[d].item /\ claims'[d].key = claims[d].key
                                  /\ claims'[d].state = claims[d].state
  BY <1>1, <1>2, Renewed DEF Kept
<1>7. item \in [Items -> [state : Open \cup Decided, active : Nat \cup {None}]]
  BY DEF ClaimInv, ClaimShape
<1>8. /\ item' \in [Items -> [state : Open \cup Decided, active : Nat \cup {None}]]
      /\ \A j \in Items : item'[j].state = item[j].state /\ item'[j].active = item[j].active
  BY <1>1, <1>2, <1>5, <1>7 DEF Open
<1>9. \A d \in DOMAIN claims : claims[d].item \in Items
  BY RowFacts
<1>10. Pointed' /\ ItemSettled'
  <2>1. Pointed'
    BY <1>6, <1>8, <1>9 DEF ClaimInv, Pointed
  <2>2. ItemSettled'
    BY <1>2, <1>6, <1>8, <1>9 DEF ClaimInv, ItemSettled
  <2>3. QED
    BY <2>1, <2>2
<1>11. KeyOf(claims') = KeyOf(claims) /\ Once(claims')
  BY <1>6 DEF KeyOf, Once, ClaimInv, Keyed
<1>12. QED
  BY <1>2, <1>6, <1>8, <1>10, <1>11 DEF Moved, ClaimInv, ClaimShape, Keyed

LEMMA ClaimMakes ==
    ASSUME ClaimInv, NEW k \in Keys, ~Claim!Known(k), NEW r \in Claim!ClaimRequests,
           Claim!ClaimAssumption, Claim!DoClaim(k, r), Claim!LiveClaims(r.on) = {}
    PROVE  Moved(k)
<1> DEFINE i == r.on
           n == Len(claims) + 1
<1>1. i \in Items /\ r.by \in Agents /\ claimClock + r.arg \in Nat
  BY RequestFacts
<1>2. /\ claims' = Claim!Claimed(i, r.by, claimClock + r.arg, k)
      /\ item' = [item EXCEPT ![i] = [state |-> "running", active |-> Len(claims')]]
      /\ UNCHANGED <<decided, invoked>> /\ item[i].state \in Open
  BY DEF Claim!DoClaim, Claim!MayClaim, Open
<1>3. /\ claims' \in Seq(Rows) /\ DOMAIN claims' = DOMAIN claims \cup {n}
      /\ n \notin DOMAIN claims /\ n \in Nat /\ Len(claims') = n
      /\ \A d \in DOMAIN claims : claims'[d].item = claims[d].item /\ claims'[d].key = claims[d].key
      /\ \A d \in DOMAIN claims :
            claims'[d].state = "active" => claims[d].state = "active" /\ claims[d].item # i
      /\ claims'[n].item = i /\ claims'[n].key = k
  <2>1. PICK u \in Nat, a \in Agents, j \in Items : u = claimClock + r.arg /\ a = r.by /\ j = i
    BY <1>1
  <2>2. claims' = Claim!Claimed(j, a, u, k)
    BY <1>2, <2>1
  <2>3. Claim!LiveClaims(j) = {}
    BY <2>1
  <2> DEFINE y == [item |-> j, by |-> a, state |-> "active", until |-> u, key |-> k]
  <2>4. /\ claims' \in Seq(Rows) /\ DOMAIN claims' = DOMAIN claims \cup {n}
        /\ n \notin DOMAIN claims /\ n \in Nat /\ Len(claims') = n
        /\ Kept(claims, claims')
        /\ \A d \in DOMAIN claims :
              claims'[d].state = "active" => claims[d].state = "active" /\ claims[d].item # j
        /\ claims'[n] = y
    BY <2>2, <2>3, MadeAnew, ZenonT(60)
  <2>5. y.item = i /\ y.key = k
    BY <2>1
  <2> HIDE DEF y
  <2>6. QED
    BY <2>4, <2>5, <2>1 DEF Kept
<1> HIDE DEF n
<1>4. item \in [Items -> [state : Open \cup Decided, active : Nat \cup {None}]]
  BY DEF ClaimInv, ClaimShape
<1>5. /\ item' \in [Items -> [state : Open \cup Decided, active : Nat \cup {None}]]
      /\ item'[i].state = "running" /\ item'[i].active = n
      /\ \A j \in Items \ {i} : item'[j] = item[j]
  BY <1>1, <1>2, <1>3, <1>4 DEF Open
<1>6. \A d \in DOMAIN claims : claims[d].item \in Items
  BY RowFacts
<1>7. Pointed'
  <2> SUFFICES ASSUME NEW d \in DOMAIN claims', claims'[d].state = "active"
               PROVE  LET j == claims'[d].item
                      IN  d = item'[j].active /\ item'[j].state = "running"
    BY DEF Pointed
  <2>1. CASE d = n
    BY <2>1, <1>3, <1>5
  <2>2. CASE d \in DOMAIN claims
    BY <2>2, <1>3, <1>5, <1>6 DEF ClaimInv, Pointed
  <2>3. QED
    BY <2>1, <2>2, <1>3
<1>8. ItemSettled'
  <2>1. \A d \in DOMAIN decided : /\ decided[d].claim \in DOMAIN claims
                                  /\ claims[decided[d].claim].item \in Items \ {i}
    BY <1>2, <1>6 DEF ClaimInv, ItemSettled, Open, Decided
  <2>2. \A j \in Items \ {i} : item'[j].state \in Decided =>
            \E d \in DOMAIN decided' : claims'[decided'[d].claim].item = j
    BY <2>1, <1>2, <1>3, <1>5 DEF ClaimInv, ItemSettled
  <2>3. item'[i].state \notin Decided
    BY <1>5 DEF Decided
  <2>4. /\ \A d \in DOMAIN decided' :
              /\ decided'[d].claim \in DOMAIN claims'
              /\ LET j == claims'[decided'[d].claim].item
                 IN  item'[j].state \in Decided /\ decided'[d].claim = item'[j].active
        /\ \A d, e \in DOMAIN decided' :
              claims'[decided'[d].claim].item = claims'[decided'[e].claim].item => d = e
    BY <2>1, <1>2, <1>3, <1>5 DEF ClaimInv, ItemSettled
  <2>5. QED
    BY <2>2, <2>3, <2>4 DEF ItemSettled
<1>9. k \notin KeyOf(claims) \cup KeyOf(decided) \cup KeyOf(invoked)
  BY DEF ClaimInv, Keyed
<1>10. KeyOf(claims') = KeyOf(claims) \cup {k} /\ Once(claims')
  BY <1>3, <1>9 DEF KeyOf, Once, ClaimInv, Keyed
<1>11. QED
  BY <1>2, <1>3, <1>5, <1>7, <1>8, <1>9, <1>10 DEF Moved, ClaimInv, ClaimShape, Keyed

LEMMA DecideMoves ==
    ASSUME ClaimInv, NEW k \in Keys, ~Claim!Known(k), NEW r \in Claim!DecideRequests(DOMAIN claims),
           Claim!DoDecide(k, r)
    PROVE  Moved(k)
<1> DEFINE c == r.on
           i == claims[c].item
           n == Len(decided) + 1
           verdict == IF r.arg = "accepted" THEN "done" ELSE "review_required"
<1>1. c \in DOMAIN claims /\ claims[c].state = "active"
  BY DEF Claim!DecideRequests, Claim!DoDecide, Claim!Valid, Claim!Live
<1>2. claims \in Seq(Rows) /\ claims[c] \in Rows /\ i \in Items /\ DOMAIN claims \subseteq Nat
  BY <1>1, RowFacts DEF ClaimInv, ClaimShape
<1>3. c = item[i].active /\ item[i].state = "running"
  BY <1>1 DEF ClaimInv, Pointed
<1>4. /\ decided' = Append(decided, [claim |-> c, key |-> k])
      /\ claims' = [claims EXCEPT ![c] = [claims[c] EXCEPT !.state = "resolved"]]
      /\ item' = [item EXCEPT ![i] = [item[i] EXCEPT !.state = verdict]]
      /\ invoked' = invoked
  BY <1>1, <1>2 DEF Claim!DoDecide
<1>5. item \in [Items -> [state : Open \cup Decided, active : Nat \cup {None}]]
  BY DEF ClaimInv, ClaimShape
<1>6. /\ item' \in [Items -> [state : Open \cup Decided, active : Nat \cup {None}]]
      /\ item'[i].state \in Decided /\ item'[i].active = c
      /\ \A j \in Items \ {i} : item'[j] = item[j]
  BY <1>2, <1>3, <1>4, <1>5 DEF Decided
<1>7. /\ claims' \in Seq(Rows) /\ DOMAIN claims' = DOMAIN claims
      /\ \A d \in DOMAIN claims : claims'[d].item = claims[d].item /\ claims'[d].key = claims[d].key
      /\ claims'[c].state = "resolved" /\ \A d \in DOMAIN claims \ {c} : claims'[d] = claims[d]
  <2> DEFINE x == [claims[c] EXCEPT !.state = "resolved"]
  <2>1. x \in Rows /\ x.item = claims[c].item /\ x.key = claims[c].key /\ x.state = "resolved"
    BY <1>2 DEF Rows
  <2>2. claims' = [claims EXCEPT ![c] = x]
    BY <1>4
  <2> HIDE DEF x
  <2>3. claims' \in [DOMAIN claims -> Rows]
    BY <2>1, <2>2, RowFacts, <1>2
  <2>4. claims' \in Seq(Rows) /\ DOMAIN claims' = DOMAIN claims
    BY <2>3, <1>2, Mapped
  <2>5. QED
    BY <2>1, <2>4, <2>2, <1>1, <1>2
<1>8. /\ decided' \in Seq(Decisions) /\ DOMAIN decided' = DOMAIN decided \cup {n}
      /\ n \notin DOMAIN decided /\ \A d \in DOMAIN decided : decided'[d] = decided[d]
      /\ decided'[n] = [claim |-> c, key |-> k]
  <2>1. decided \in Seq(Decisions) /\ [claim |-> c, key |-> k] \in Decisions
    BY <1>1, <1>2 DEF ClaimInv, ClaimShape, Decisions
  <2>2. QED
    BY <2>1, <1>4, AppendedRow
<1> HIDE DEF n
<1>9. \A d \in DOMAIN claims : claims[d].item \in Items
  BY RowFacts
<1>10. Pointed'
  <2> SUFFICES ASSUME NEW d \in DOMAIN claims', claims'[d].state = "active"
               PROVE  LET j == claims'[d].item
                      IN  d = item'[j].active /\ item'[j].state = "running"
    BY DEF Pointed
  <2>1. d \in DOMAIN claims /\ d # c /\ claims[d].state = "active" /\ claims[d].item # i
    BY <1>3, <1>7 DEF ClaimInv, Pointed
  <2>2. QED
    BY <2>1, <1>6, <1>7, <1>9 DEF ClaimInv, Pointed
<1>11. ItemSettled'
  <2>1. \A d \in DOMAIN decided : /\ decided[d].claim \in DOMAIN claims
                                  /\ claims[decided[d].claim].item \in Items \ {i}
    BY <1>3, <1>9 DEF ClaimInv, ItemSettled, Decided
  <2>2. \A d \in DOMAIN decided' :
            /\ decided'[d].claim \in DOMAIN claims'
            /\ LET j == claims'[decided'[d].claim].item
               IN  item'[j].state \in Decided /\ decided'[d].claim = item'[j].active
    <3> SUFFICES ASSUME NEW d \in DOMAIN decided'
                 PROVE  /\ decided'[d].claim \in DOMAIN claims'
                        /\ LET j == claims'[decided'[d].claim].item
                           IN  item'[j].state \in Decided /\ decided'[d].claim = item'[j].active
      OBVIOUS
    <3>1. CASE d = n
      BY <3>1, <1>1, <1>6, <1>7, <1>8
    <3>2. CASE d \in DOMAIN decided
      BY <3>2, <2>1, <1>6, <1>7, <1>8 DEF ClaimInv, ItemSettled
    <3>3. QED
      BY <3>1, <3>2, <1>8
  <2>3. \A d, e \in DOMAIN decided' :
            claims'[decided'[d].claim].item = claims'[decided'[e].claim].item => d = e
    <3>1. /\ \A d \in DOMAIN decided : claims'[decided'[d].claim].item = claims[decided[d].claim].item
          /\ claims'[decided'[n].claim].item = i
      BY <2>1, <1>1, <1>7, <1>8
    <3>2. QED
      BY <3>1, <2>1, <1>8 DEF ClaimInv, ItemSettled
  <2>4. \A j \in Items : item'[j].state \in Decided =>
            \E d \in DOMAIN decided' : claims'[decided'[d].claim].item = j
    <3> SUFFICES ASSUME NEW j \in Items, item'[j].state \in Decided
                 PROVE  \E d \in DOMAIN decided' : claims'[decided'[d].claim].item = j
      OBVIOUS
    <3>1. CASE j = i
      BY <3>1, <1>1, <1>7, <1>8
    <3>2. CASE j # i
      <4>1. PICK d \in DOMAIN decided : claims[decided[d].claim].item = j
        BY <3>2, <1>6 DEF ClaimInv, ItemSettled
      <4>2. QED
        BY <4>1, <2>1, <1>7, <1>8
    <3>3. QED
      BY <3>1, <3>2
  <2>5. QED
    BY <2>2, <2>3, <2>4 DEF ItemSettled
<1>12. k \notin KeyOf(claims) \cup KeyOf(decided) \cup KeyOf(invoked)
  BY DEF ClaimInv, Keyed
<1>13. KeyOf(decided') = KeyOf(decided) \cup {k} /\ Once(decided')
  BY <1>8, <1>12 DEF KeyOf, Once, ClaimInv, Keyed
<1>14. KeyOf(claims') = KeyOf(claims) /\ Once(claims')
  BY <1>7 DEF KeyOf, Once, ClaimInv, Keyed
<1>15. /\ KeyOf(claims') \cap KeyOf(decided') = {} /\ KeyOf(claims') \cap KeyOf(invoked') = {}
       /\ KeyOf(decided') \cap KeyOf(invoked') = {} /\ Once(invoked')
       /\ \A j \in KeyOf(claims') \cup KeyOf(decided') \cup KeyOf(invoked') :
             j = k \/ j \in KeyOf(claims) \cup KeyOf(decided) \cup KeyOf(invoked)
  BY <1>4, <1>12, <1>13, <1>14 DEF ClaimInv, Keyed
<1>16. invoked' \in Seq(Invocations)
  BY <1>4 DEF ClaimInv, ClaimShape
<1>17. QED
  BY <1>6, <1>7, <1>8, <1>10, <1>11, <1>13, <1>14, <1>15, <1>16 DEF Moved

LEMMA InvokeMoves ==
    ASSUME ClaimInv, NEW k \in Keys, ~Claim!Known(k), NEW r \in Claim!InvokeRequests(DOMAIN claims),
           Claim!DoInvoke(k, r)
    PROVE  Moved(k)
<1> DEFINE x == [claim |-> r.on, key |-> k, good |-> Claim!Live(r.on)]
<1>1. invoked' = Append(invoked, x) /\ UNCHANGED <<item, claims, decided>>
  BY DEF Claim!DoInvoke
<1>2. r.on \in DOMAIN claims /\ DOMAIN claims \subseteq Nat
  BY DEF Claim!InvokeRequests, ClaimInv, ClaimShape
<1>3. invoked \in Seq(Invocations) /\ x \in Invocations
  BY <1>2 DEF ClaimInv, ClaimShape, Invocations, Claim!Live
<1>4. k \notin KeyOf(claims) \cup KeyOf(decided) \cup KeyOf(invoked)
  BY DEF ClaimInv, Keyed
<1>5. x.key = k
  OBVIOUS
<1> HIDE DEF x
<1>6. Once(invoked') /\ KeyOf(invoked') = KeyOf(invoked) \cup {k} /\ invoked' \in Seq(Invocations)
  BY <1>1, <1>3, <1>4, <1>5, KeyAppended, AppendedRow DEF ClaimInv, Keyed
<1>7. Pointed' /\ ItemSettled'
  BY <1>1 DEF ClaimInv, Pointed, ItemSettled
<1>8. QED
  BY <1>1, <1>4, <1>6, <1>7 DEF Moved, ClaimInv, ClaimShape, Keyed

LEMMA OperationMoves ==
    ASSUME ClaimInv, Claim!ClaimAssumption, NEW k \in Keys, ~Claim!Known(k), NEW r \in Claim!Requests,
           Claim!Operation(k, r)
    PROVE  Moved(k)
<1>1. CASE r.op = "claim"
  <2>1. r \in Claim!ClaimRequests /\ Claim!DoClaim(k, r)
    BY <1>1 DEF Claim!Requests, Claim!DecideRequests, Claim!InvokeRequests, Claim!Operation
  <2>2. QED
    BY <2>1, ClaimRenews, ClaimMakes
<1>2. CASE r.op = "decide"
  <2>1. r \in Claim!DecideRequests(DOMAIN claims) /\ Claim!DoDecide(k, r)
    BY <1>2 DEF Claim!Requests, Claim!ClaimRequests, Claim!InvokeRequests, Claim!Operation
  <2>2. QED
    BY <2>1, DecideMoves
<1>3. CASE r.op = "invoke"
  <2>1. r \in Claim!InvokeRequests(DOMAIN claims) /\ Claim!DoInvoke(k, r)
    BY <1>3 DEF Claim!Requests, Claim!ClaimRequests, Claim!DecideRequests, Claim!Operation
  <2>2. QED
    BY <2>1, InvokeMoves
<1>4. QED
  BY <1>1, <1>2, <1>3 DEF Claim!Operation

\* Every request differs from the None of an empty place of the ledger.
LEMMA RequestIsSome ==
    ASSUME ClaimInv, Claim!ClaimAssumption, NEW r \in Claim!Requests
    PROVE  r # None
<1>1. DOMAIN claims \subseteq Nat
  BY RowFacts
<1>2. r \in Claim!ClaimRequests \cup Claim!DecideRequests(Nat) \cup Claim!InvokeRequests(Nat)
  BY <1>1 DEF Claim!Requests, Claim!DecideRequests, Claim!InvokeRequests
<1>3. QED
  BY <1>2 DEF Claim!ClaimAssumption

LEMMA TransactionStep ==
    ASSUME ClaimInv, Claim!ClaimAssumption, NEW k \in Keys, NEW r \in Claim!Requests, NEW v,
           Claim!Transaction(k, r, v), claimClock' = claimClock, DOMAIN call' = Agents,
           \A a \in Agents : call'[a] # None => call'[a] = call[a]
    PROVE  ClaimInv'
<1>1. r # None
  BY RequestIsSome
<1>2. CASE UNCHANGED <<item, claims, decided, invoked, commands, claimVersion>>
  <2>1. ClaimShape' /\ Pointed' /\ ItemSettled' /\ Keyed'
    BY <1>2 DEF ClaimInv, ClaimShape, Pointed, ItemSettled, Keyed, Claim!Known, Claim!InvokeRequests
  <2>2. CASE Claim!Verdict(k, r, v) # "run" /\ Claim!Answer(k, r, Claim!Verdict(k, r, v))
    <3>1. Claim!Verdict(k, r, v) = "refused" => commands[k] # r
      BY <1>1 DEF Claim!Verdict, Claim!Known
    <3>2. QED
      BY <2>1, <2>2, <3>1 DEF ClaimInv, Claim!Answer, Claim!ReplayAnswered, Claim!Refuses
  <2>3. CASE Claim!Verdict(k, r, v) = "run" /\ Claim!Answer(k, r, "refused")
    <3>1. commands[k] # r
      BY <1>1, <2>3 DEF Claim!Verdict, Claim!Known
    <3>2. QED
      BY <2>1, <2>3, <3>1 DEF ClaimInv, Claim!Answer, Claim!ReplayAnswered, Claim!Refuses
  <2>4. CASE Claim!Answer(k, r, "done")
    BY <2>1, <2>4 DEF ClaimInv, Claim!Answer, Claim!ReplayAnswered, Claim!Refuses
  <2>5. QED
    BY <2>2, <2>3, <2>4 DEF Claim!Transaction
<1>3. CASE /\ Claim!Verdict(k, r, v) = "run" /\ Claim!Operation(k, r)
           /\ commands' = [commands EXCEPT ![k] = r] /\ Claim!Answer(k, r, "done")
  <2>1. ~Claim!Known(k)
    BY <1>3 DEF Claim!Verdict
  <2>2. Moved(k)
    BY <1>3, <2>1, OperationMoves
  <2>3. /\ DOMAIN commands' = Keys /\ commands'[k] # None
        /\ \A j \in Keys : commands[j] # None => commands'[j] # None
    BY <1>1, <1>3 DEF ClaimInv, ClaimShape
  <2>4. ClaimShape'
    <3>1. \A a \in Agents : call'[a] # None =>
              call'[a].key \in Keys /\ call'[a].req \in Claim!InvokeRequests(DOMAIN claims')
      BY <2>2 DEF Moved, ClaimInv, ClaimShape, Claim!InvokeRequests
    <3>2. QED
      BY <3>1, <2>2, <2>3 DEF Moved, ClaimInv, ClaimShape
  <2>5. Keyed'
    <3>1. KeyOf(claims) \cup KeyOf(decided) \cup KeyOf(invoked) \subseteq Keys
      <4>1. claims \in Seq(Rows) /\ decided \in Seq(Decisions) /\ invoked \in Seq(Invocations)
        BY DEF ClaimInv, ClaimShape
      <4>2. /\ \A x \in DOMAIN claims : claims[x] \in Rows
            /\ \A x \in DOMAIN decided : decided[x] \in Decisions
            /\ \A x \in DOMAIN invoked : invoked[x] \in Invocations
        BY <4>1
      <4>3. QED
        BY <4>2 DEF KeyOf, Rows, Decisions, Invocations
    <3>2. \A j \in KeyOf(claims) \cup KeyOf(decided) \cup KeyOf(invoked) : commands[j] # None
      BY DEF ClaimInv, Keyed, Claim!Known
    <3>3. \A j \in KeyOf(claims') \cup KeyOf(decided') \cup KeyOf(invoked') : commands'[j] # None
      BY <2>2, <2>3, <3>1, <3>2 DEF Moved
    <3>4. QED
      BY <2>2, <3>3 DEF Moved, Keyed, Claim!Known
  <2>6. Claim!ReplayAnswered'
    BY <1>3 DEF Claim!Answer, Claim!ReplayAnswered, Claim!Refuses
  <2>7. QED
    BY <2>2, <2>4, <2>5, <2>6 DEF ClaimInv, Moved
<1>4. QED
  BY <1>2, <1>3 DEF Claim!Transaction

LEMMA ClaimStep ==
    ASSUME Claim!ClaimAssumption, ClaimInv, [Claim!Next]_(Claim!vars)
    PROVE  ClaimInv'
<1>1. ASSUME NEW a \in Agents, Claim!Command(a) PROVE ClaimInv'
  <2>1. PICK k \in Keys, r \in Claim!Requests, v \in Claim!Expected : Claim!Transaction(k, r, v)
    BY <1>1 DEF Claim!Command
  <2>2. UNCHANGED <<call, claimClock>> /\ DOMAIN call' = Agents
    BY <1>1 DEF Claim!Command, ClaimInv, ClaimShape
  <2>3. QED
    BY <2>1, <2>2, TransactionStep
<1>2. ASSUME NEW a \in Agents, Claim!Check(a) PROVE ClaimInv'
  <2>1. UNCHANGED <<item, claims, decided, invoked, commands, claimVersion, claimClock>>
    BY <1>2 DEF Claim!Check
  <2>2. PICK k \in Keys, r \in Claim!Requests :
            /\ r.op = "invoke"
            /\ \/ call' = [call EXCEPT ![a] = [key |-> k, req |-> r]] /\ reply' = None
               \/ Claim!Answer(k, r, "refused") /\ UNCHANGED call
    BY <1>2 DEF Claim!Check
  <2>3. r \in Claim!InvokeRequests(DOMAIN claims)
    BY <2>2 DEF Claim!Requests, Claim!ClaimRequests, Claim!DecideRequests
  <2>4. \A b \in Agents : call'[b] # None =>
            call'[b].key \in Keys /\ call'[b].req \in Claim!InvokeRequests(DOMAIN claims)
    <3> SUFFICES ASSUME NEW b \in Agents, call'[b] # None
                 PROVE  call'[b].key \in Keys /\ call'[b].req \in Claim!InvokeRequests(DOMAIN claims)
      OBVIOUS
    <3> DEFINE x == [key |-> k, req |-> r]
    <3>1. x.key = k /\ x.req = r
      OBVIOUS
    <3> HIDE DEF x
    <3>2. call'[b] = x \/ call'[b] = call[b]
      BY <2>2 DEF x, ClaimInv, ClaimShape
    <3>3. QED
      BY <2>3, <3>1, <3>2 DEF ClaimInv, ClaimShape
  <2>5. DOMAIN call' = Agents
    BY <2>2 DEF ClaimInv, ClaimShape
  <2>6. ClaimShape' /\ Pointed' /\ ItemSettled' /\ Keyed'
    BY <2>1, <2>4, <2>5 DEF ClaimInv, ClaimShape, Pointed, ItemSettled, Keyed, Claim!Known, Claim!InvokeRequests
  <2>7. Claim!ReplayAnswered'
    BY <2>2 DEF Claim!Answer, Claim!ReplayAnswered, Claim!Refuses
  <2>8. QED
    BY <2>6, <2>7 DEF ClaimInv
<1>3. ASSUME NEW a \in Agents, Claim!Invoke(a) PROVE ClaimInv'
  <2>1. PICK v \in Claim!Expected : Claim!Transaction(call[a].key, call[a].req, v)
    BY <1>3 DEF Claim!Invoke
  <2>2. call[a].key \in Keys /\ call[a].req \in Claim!Requests
    BY <1>3 DEF Claim!Invoke, ClaimInv, ClaimShape, Claim!Requests
  <2>3. claimClock' = claimClock /\ DOMAIN call' = Agents /\ \A b \in Agents : call'[b] # None => call'[b] = call[b]
    BY <1>3 DEF Claim!Invoke, ClaimInv, ClaimShape
  <2>4. QED
    BY <2>1, <2>2, <2>3, TransactionStep
<1>4. CASE Claim!Tick
  <2>1. UNCHANGED <<item, claims, decided, invoked, commands, call, claimVersion>> /\ claimClock' \in Nat /\ reply' = None
    BY <1>4 DEF Claim!Tick, ClaimInv, ClaimShape
  <2>2. ClaimShape' /\ Pointed' /\ ItemSettled' /\ Keyed'
    BY <2>1 DEF ClaimInv, ClaimShape, Pointed, ItemSettled, Keyed, Claim!Known, Claim!InvokeRequests
  <2>3. QED
    BY <2>1, <2>2 DEF ClaimInv, Claim!ReplayAnswered, Claim!Refuses
<1>5. CASE UNCHANGED Claim!vars
  <2>1. UNCHANGED <<item, claims, decided, invoked, commands, call, reply, claimClock>>
    BY <1>5 DEF Claim!vars
  <2>2. ClaimShape' /\ Pointed' /\ ItemSettled' /\ Keyed'
    BY <2>1 DEF ClaimInv, ClaimShape, Pointed, ItemSettled, Keyed, Claim!Known, Claim!InvokeRequests
  <2>3. QED
    BY <2>1, <2>2 DEF ClaimInv, Claim!ReplayAnswered, Claim!Refuses
<1>6. QED
  BY <1>1, <1>2, <1>3, <1>4, <1>5 DEF Claim!Next

LEMMA ClaimInvHolds == ASSUME Claim!ClaimAssumption PROVE Claim!Spec => []ClaimInv
<1>1. Claim!Init => ClaimInv
  <2> SUFFICES ASSUME Claim!Init PROVE ClaimInv
    OBVIOUS
  <2>1. claims = <<>> /\ decided = <<>> /\ invoked = <<>> /\ reply = None /\ claimClock = 0
    BY DEF Claim!Init
  <2>2. ClaimShape
    BY <2>1 DEF Claim!Init, ClaimShape, Open
  <2>3. Pointed /\ ItemSettled /\ Keyed /\ Claim!ReplayAnswered
    BY <2>1 DEF Claim!Init, Pointed, ItemSettled, Keyed, KeyOf, Once, Open, Decided, Claim!ReplayAnswered,
                Claim!Refuses
  <2>4. QED
    BY <2>2, <2>3 DEF ClaimInv
<1>2. ClaimInv /\ [Claim!Next]_(Claim!vars) => ClaimInv'
  BY ClaimStep
<1> QED BY <1>1, <1>2, PTL DEF Claim!Spec

LEMMA AtMostOne ==
    ASSUME NEW S, \A x, y \in S : x = y
    PROVE  /\ Claim!Cardinality(S) = IF S = {} THEN 0 ELSE 1
           /\ S = {} \/ \E x : S = {x}
<1>1. S = {} \/ \E x : S = {x}
  OBVIOUS
<1>2. Claim!Cardinality(S) = Cardinality(S)
  BY DEF Claim!Cardinality, Cardinality
<1>3. QED
  BY <1>1, <1>2, FS_EmptySet, FS_Singleton

\* The claims stay exclusive, for any Agents, items and lease lengths, from the
\* invariant that adds where an active claim is pointed at and which command of
\* the ledger made every row.
THEOREM ClaimsAreExclusive ==
    ASSUME Claim!ClaimAssumption
    PROVE  Claim!Spec => []ClaimsExclusive
<1>1. ClaimInv => Claim!OneHolder
  BY RowFacts DEF ClaimInv, Pointed, Claim!OneHolder, Claim!Live
<1>2. ClaimInv => Claim!DecisionByHolder
  <2> SUFFICES ASSUME ClaimInv, NEW i \in Items
               PROVE  LET of == {d \in DOMAIN decided : claims[decided[d].claim].item = i}
                      IN /\ item[i].state \in {"done", "review_required"} <=> Claim!Cardinality(of) = 1
                         /\ Claim!Cardinality(of) <= 1
                         /\ \A d \in of : decided[d].claim = item[i].active
    BY DEF Claim!DecisionByHolder
  <2> DEFINE of == {d \in DOMAIN decided : claims[decided[d].claim].item = i}
  <2>1. \A d, e \in of : d = e
    BY DEF ClaimInv, ItemSettled
  <2>2. Claim!Cardinality(of) = IF of = {} THEN 0 ELSE 1
    BY <2>1, AtMostOne
  <2>3. item[i].state \in {"done", "review_required"} <=> of # {}
    BY DEF ClaimInv, ItemSettled, Decided
  <2>4. \A d \in of : decided[d].claim = item[i].active
    BY DEF ClaimInv, ItemSettled
  <2>5. QED
    BY <2>2, <2>3, <2>4
<1>3. ClaimInv => Claim!EffectOnce
  <2> SUFFICES ASSUME ClaimInv, NEW k \in Keys
               PROVE  Claim!Cardinality({c \in DOMAIN claims : claims[c].key = k})
                      + Claim!Cardinality({d \in DOMAIN decided : decided[d].key = k})
                      + Claim!Cardinality({n \in DOMAIN invoked : invoked[n].key = k}) <= 1
    BY DEF Claim!EffectOnce
  <2> DEFINE C == {c \in DOMAIN claims : claims[c].key = k}
             D == {d \in DOMAIN decided : decided[d].key = k}
             N == {n \in DOMAIN invoked : invoked[n].key = k}
  <2>1. /\ \A x, y \in C : x = y
        /\ \A x, y \in D : x = y
        /\ \A x, y \in N : x = y
    BY DEF ClaimInv, Keyed, Once
  <2>2. /\ Claim!Cardinality(C) = IF C = {} THEN 0 ELSE 1
        /\ Claim!Cardinality(D) = IF D = {} THEN 0 ELSE 1
        /\ Claim!Cardinality(N) = IF N = {} THEN 0 ELSE 1
    BY <2>1, AtMostOne
  <2>3. (C = {} \/ D = {}) /\ (C = {} \/ N = {}) /\ (D = {} \/ N = {})
    <3>1. /\ C # {} => k \in KeyOf(claims)
          /\ D # {} => k \in KeyOf(decided)
          /\ N # {} => k \in KeyOf(invoked)
      BY DEF KeyOf
    <3>2. QED
      BY <3>1 DEF ClaimInv, Keyed
  <2> HIDE DEF C, D, N
  <2>4. Claim!Cardinality(C) + Claim!Cardinality(D) + Claim!Cardinality(N) <= 1
    BY <2>2, <2>3
  <2>5. QED
    BY <2>4 DEF C, D, N
<1>4. ClaimInv => ClaimsExclusive
  BY <1>1, <1>2, <1>3 DEF ClaimInv, ClaimsExclusive, Claim!Exclusive
<1> QED BY <1>4, ClaimInvHolds, PTL
=============================================================================
