----------------------------- MODULE TodoLedger -----------------------------
(***************************************************************************)
(* The Todo instances of one game, one per definition and period, and the  *)
(* scheduler thread that creates those of a new period.  A period starts   *)
(* at the reset hour of its rule; an instance keeps the period it was      *)
(* created with.  Time counts hours, a day has Day of them, a week Week    *)
(* days; the reset weekday is the first day of the week.                   *)
(***************************************************************************)
EXTENDS Integers, FiniteSets

CONSTANTS Defs, Weekly,  \* the Todo definitions, and the weekly ones
          Day, Week,     \* hours of a day, days of a week
          Midnight, ResetHour,  \* definitions that reset at hour 0, and the hour of the others
          From, End,    \* the clock runs between these
          MaxPatch, MaxReset, MaxVersion, MaxBack, MaxFail,  \* bounds
          Prompt,        \* whether the thread is quick
          None

LedgerAssumption ==
    /\ Weekly \subseteq Defs /\ Day \in Nat \ {0} /\ Week \in Nat \ {0}
    /\ Midnight \subseteq Defs /\ ResetHour \in 0 .. Day - 1
    /\ Prompt \in BOOLEAN /\ From >= Day * Week /\ End >= From
    /\ {MaxPatch, MaxReset, MaxVersion, MaxBack, MaxFail} \subseteq Nat

VARIABLES
    clock,
    hour,      \* hour[d]: the configured reset hour of definition d
    version,   \* version of the definitions' catalog
    inst,      \* inst[d][k]: instance of d for the period with key k
    pc, at,    \* the scheduler: its step, and the time it has read
    planned,   \* the candidates it has computed
    scheduled, last,  \* the boundary it waits for and the last it processed
    patches, resets, backs, fails
sched == <<pc, at, planned, scheduled, last>>
counts == <<patches, resets, backs, fails>>
vars == <<clock, hour, version, inst, sched, counts>>

Keys == (From \div Day) - Week .. End \div Day
NoInstance == [status |-> "absent"]

FirstHours == [d \in Defs |-> IF d \in Midnight THEN 0 ELSE ResetHour]

---------------------------------------------------------------------------
(* Periods                                                                 *)

Period(d, h, t) ==
    LET day   == (t - h) \div Day
        first == IF d \in Weekly THEN day - (day % Week) ELSE day
        start == first * Day + h
    IN  [key |-> first, start |-> start,
         end |-> start + Day * (IF d \in Weekly THEN Week ELSE 1)]

Existing(d) == {k \in Keys : inst[d][k] # NoInstance}
Latest(d)   == inst[d][CHOOSE k \in Existing(d) : \A j \in Existing(d) : j <= k]

ConfiguredRule(d, t) == hour[d]

\* The configured rule waits until the period of the newest instance is over.
RuleIn(d, t) ==
    LET latest == Latest(d)
    IN  IF Existing(d) # {} /\ latest.start <= t /\ t < latest.end THEN latest.rule ELSE hour[d]

Candidate(d, t) == LET rule == RuleIn(d, t)
                       p    == Period(d, rule, t)
                   IN  [key |-> p.key, start |-> p.start, end |-> p.end,
                        rule |-> rule, version |-> version]

Candidates(t) == [d \in Defs |-> Candidate(d, t)]

---------------------------------------------------------------------------
(* Reconciling a set of candidates                                         *)

Created(c) ==
    [status |-> "pending", start |-> c.start, end |-> c.end, rule |-> c.rule,
     version |-> c.version, touched |-> FALSE, blocked |-> FALSE]

\* Only what nothing has happened to adopts a repaired definition.
RefreshedAlways(i, c) ==
    IF i.version # c.version THEN [i EXCEPT !.version = c.version, !.rule = c.rule, !.status = "pending"]
    ELSE i

Refreshed(i, c) ==
    IF i.version # c.version /\ ~i.touched /\ i.status \notin {"completed", "in_progress"}
    THEN [i EXCEPT !.version = c.version, !.rule = c.rule, !.status = "pending"]
    ELSE i

SetBack(i, c) == [i EXCEPT !.status = "pending", !.rule = c.rule, !.version = c.version]

\* A blocker of a period that no candidate of the game and cadence has is retired.
NewestPeriods(d, cs) ==
    LET keys == {cs[e].key : e \in {e \in Defs : (e \in Weekly) = (d \in Weekly)}}
    IN  {CHOOSE k \in keys : \A j \in keys : j <= k}

SamePeriods(d, cs) == {cs[e].key : e \in {e \in Defs : (e \in Weekly) = (d \in Weekly)}}

Retired(i, d, k, cs, explicit) ==
    IF explicit \/ k \notin SamePeriods(d, cs) THEN [i EXCEPT !.blocked = FALSE] ELSE i

Ledger(cs, intent) ==
    [d \in Defs |-> [k \in Keys |->
        LET i    == inst[d][k]
            mine == k = cs[d].key
        IN  IF i = NoInstance THEN (IF mine THEN Created(cs[d]) ELSE NoInstance)
            ELSE Retired(IF ~mine THEN i
                         ELSE IF intent = "reset" THEN SetBack(i, cs[d]) ELSE Refreshed(i, cs[d]),
                         d, k, cs, mine /\ intent = "reset")]]

\* A reset refuses, as a whole, when one of the instances is in progress.
MayApply(cs, intent) ==
    intent = "reset" =>
        \A d \in Defs : LET i == inst[d][cs[d].key] IN i # NoInstance => i.status # "in_progress"

Apply(cs, intent) == MayApply(cs, intent) /\ inst' = Ledger(cs, intent)

---------------------------------------------------------------------------
(* The scheduler thread                                                    *)

Init ==
    /\ clock = From /\ hour = FirstHours /\ version = 1
    /\ inst = [d \in Defs |-> [k \in Keys |->
                  LET p == Period(d, FirstHours[d], From)
                  IN  IF k = p.key
                      THEN Created([start |-> p.start, end |-> p.end, rule |-> FirstHours[d], version |-> 1])
                      ELSE NoInstance]]
    /\ pc = "read" /\ at = From /\ planned = None /\ scheduled = None /\ last = None
    /\ patches = 0 /\ resets = 0 /\ backs = 0 /\ fails = 0

\* The thread reads the clock and sees whether its boundary is due.
ReadStrictly ==
    /\ pc = "read" /\ at' = clock
    /\ pc' = IF scheduled # None /\ clock > scheduled THEN "due" ELSE "next"
    /\ UNCHANGED <<clock, hour, version, inst, planned, scheduled, last, counts>>

Read ==
    /\ pc = "read" /\ at' = clock
    /\ pc' = IF scheduled # None /\ clock >= scheduled THEN "due" ELSE "next"
    /\ UNCHANGED <<clock, hour, version, inst, planned, scheduled, last, counts>>

\* The candidates are computed before the write transaction begins.
Plan ==
    /\ pc = "due" /\ planned' = Candidates(at) /\ pc' = "write"
    /\ UNCHANGED <<clock, hour, version, inst, at, scheduled, last, counts>>

\* The intent of the scheduler: a boundary never resets what is still current.
ResetIntent == "reset"
Intent == "reconcile"

Write ==
    /\ pc = "write" /\ Apply(planned, Intent)
    /\ pc' = "read" /\ planned' = None /\ last' = scheduled /\ scheduled' = None
    /\ UNCHANGED <<clock, hour, version, at, counts>>

\* A failure is recorded and tried again.
FailKeepsPlan ==
    /\ pc \in {"due", "write"} /\ fails < MaxFail /\ fails' = fails + 1
    /\ pc' = "read"
    /\ UNCHANGED <<clock, hour, version, inst, at, planned, scheduled, last, patches, resets, backs>>

Fail ==
    /\ pc \in {"due", "write"} /\ fails < MaxFail /\ fails' = fails + 1
    /\ pc' = "read" /\ planned' = None
    /\ UNCHANGED <<clock, hour, version, inst, at, scheduled, last, patches, resets, backs>>

Boundary(t) == LET ends == {Candidate(d, t).end : d \in Defs}
               IN  CHOOSE e \in ends : \A f \in ends : e <= f

\* A boundary that was processed is not waited for again; comparing nothing
\* with the boundary that is waited for ends the thread.
Schedule ==
    /\ pc = "next"
    /\ \E b \in {Boundary(at)} :
           IF last # None /\ b <= last
           THEN /\ pc' = IF scheduled = None THEN "read" ELSE "dead"
                /\ scheduled' = scheduled
           ELSE /\ pc' = "read"
                /\ scheduled' = IF scheduled = None \/ b < scheduled THEN b ELSE scheduled
    /\ UNCHANGED <<clock, hour, version, inst, at, planned, last, counts>>

---------------------------------------------------------------------------
(* The Manager and its environment                                         *)

\* Requests reconcile or reset in one transaction.
Request(intent) ==
    /\ intent = "reset" => resets < MaxReset
    /\ resets' = IF intent = "reset" THEN resets + 1 ELSE resets
    /\ \E cs \in {Candidates(clock)} : Apply(cs, intent)
    /\ UNCHANGED <<clock, hour, version, sched, patches, backs, fails>>

\* A start of the Manager reconciles, perhaps with a new catalog, and starts a new thread.
Restart(v) ==
    /\ v \in {version, version + 1} /\ v <= MaxVersion /\ version' = v
    /\ \E cs \in {[d \in Defs |-> [Candidate(d, clock) EXCEPT !.version = v]]} : Apply(cs, "startup")
    /\ pc' = "read" /\ at' = clock /\ planned' = None /\ scheduled' = None /\ last' = None
    /\ UNCHANGED <<clock, hour, counts>>

PatchPolicy(d, h) ==
    /\ patches < MaxPatch /\ patches' = patches + 1
    /\ h # hour[d] /\ hour' = [hour EXCEPT ![d] = h]
    /\ UNCHANGED <<clock, version, inst, sched, resets, backs, fails>>

\* The work on the current instance of a definition.
Work(d, s) ==
    LET k == Candidate(d, clock).key
        i == inst[d][k]
    IN  /\ i # NoInstance /\ i.status # "completed" /\ s # i.status
        /\ s = "completed" => i.status = "in_progress" /\ ~i.blocked
        /\ inst' = [inst EXCEPT ![d][k] = [i EXCEPT !.status = s, !.touched = TRUE,
                                             !.blocked = @ \/ s = "blocked"]]
        /\ UNCHANGED <<clock, hour, version, sched, counts>>

\* A prompt thread needs less than an hour from one look at the clock to the next.
Tick ==
    /\ Prompt => pc = "read" /\ scheduled # None /\ clock < scheduled
    /\ clock < End /\ clock' = clock + 1
    /\ UNCHANGED <<hour, version, inst, sched, counts>>

ClockBack ==
    /\ backs < MaxBack /\ backs' = backs + 1 /\ clock > From /\ clock' = clock - 1
    /\ UNCHANGED <<hour, version, inst, sched, patches, resets, fails>>

Scheduler == Read \/ Plan \/ Write \/ Schedule

Next ==
    \/ Scheduler \/ Fail \/ Tick \/ ClockBack
    \/ \E intent \in {"reconcile", "reset"} : Request(intent)
    \/ \E v \in 1 .. MaxVersion : Restart(v)
    \/ \E d \in Defs : \/ \E h \in 0 .. Day - 1 : PatchPolicy(d, h)
                       \/ \E s \in {"in_progress", "completed", "blocked"} : Work(d, s)

Spec == Init /\ [][Next]_vars
LiveSpec == Spec /\ WF_vars(Scheduler) /\ WF_vars(Tick)

---------------------------------------------------------------------------
(* Properties                                                              *)

TypeOK ==
    /\ clock \in From .. End /\ hour \in [Defs -> 0 .. Day - 1]
    /\ \A d \in Defs : \A k \in Existing(d) :
          /\ inst[d][k].status \in {"pending", "in_progress", "completed", "blocked"}
          /\ inst[d][k].start < inst[d][k].end
          /\ inst[d][k].start \div Day = k
    /\ pc \in {"read", "due", "write", "next", "dead"} /\ (pc = "write") = (planned # None)

\* Whatever has been worked on is only taken back by an explicit reset: no
\* boundary, start, policy change or new catalog touches it.
HistoryStep ==
    \A d \in Defs, k \in Keys :
        (inst[d][k] # NoInstance /\ inst[d][k].touched /\ resets' = resets)
        => /\ inst'[d][k].version = inst[d][k].version
           /\ inst[d][k].status = "completed" => inst'[d][k].status = "completed"
           /\ inst[d][k].status # "pending" => inst'[d][k].status # "pending"
HistoryKept == [][HistoryStep]_vars

\* A policy change waits: the instance whose period is running is the current
\* one, under every configured rule.
ActiveIsCurrent ==
    \A d \in Defs : Existing(d) # {} /\ Latest(d).start <= clock /\ clock < Latest(d).end =>
        inst[d][Candidate(d, clock).key] = Latest(d)

\* The thread finds every boundary: the current period gets its instances.
Missing(d) == inst[d][Candidate(d, clock).key] = NoInstance
PeriodAppears == \A d \in Defs : Missing(d) ~> ~Missing(d)

\* "A clock boundary creates the newly-current period" (manager_todos.py:80):
\* the current instance is one whose own period has not ended.
BoundaryCreatesPeriod ==
    (pc = "read" /\ last # None /\ at = clock /\ scheduled = None) =>
        \A d \in Defs : ~Missing(d) => clock < inst[d][Candidate(d, clock).key].end

\* "A blocker belongs to one immutable Todo period" (sqlite_store.py): it is
\* not retired while that period is the current one, except by a reset.
BlockerStep ==
    \A d \in Defs : LET k == Candidate(d, clock).key
                    IN  (inst[d][k] # NoInstance /\ inst[d][k].blocked /\ resets' = resets)
                        => inst'[d][k].blocked
BlockerOfPeriodKept == [][BlockerStep]_vars

\* "keep the lifecycle worker alive" (todo_reset_scheduler.py:72).
SchedulerAlive == pc # "dead"
=============================================================================
