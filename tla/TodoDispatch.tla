---------------------------- MODULE TodoDispatch ----------------------------
(***************************************************************************)
(* The Manager-owned policy that says whether a fresh Batch may execute a  *)
(* Todo.  A fact record f has                                              *)
(*   status    status of the Todo instance                                 *)
(*   risk      its frozen risk                                             *)
(*   released  its reason is the release of a human takeover               *)
(*   blocker   kind of the newest active blocker, or None                  *)
(*   again     that blocker is retryable                                   *)
(*   retry     the latest attempt is retryable                             *)
(*   transient the latest reason is one of the fixed transient failures    *)
(*   bound     a promoted manifest binds operation, definition, capability *)
(*             and risk                                                    *)
(*   resumable the binding supports a resume                               *)
(***************************************************************************)
EXTENDS Naturals, Sequences

CONSTANT None

Statuses == {"pending", "in_progress", "completed", "skipped", "blocked",
             "review_required", "human_required"}

Dispositions == {"eligible", "completed_skip", "terminal_skip", "deferred_review",
                 "deferred_human", "deferred_forbidden", "reconcile_required", "unsupported"}

Routine(f) == f.risk \in {"routine_action", "observe_only"}

RetryableReview(f) ==
    LET transient == f.transient /\ f.blocker \in {None, "review_required"}
    IN  /\ f.status = "review_required" /\ Routine(f)
        /\ f.blocker = None \/ (f.blocker = "review_required" /\ f.again) \/ transient
        /\ f.retry \/ transient

\* The next full Batch must observe the game again after a human released it.
ReleasedGate(f) ==
    f.status = "review_required" /\ f.blocker = None /\ f.released /\ Routine(f)

RetryableBlock(f) ==
    /\ f.status = "blocked" /\ Routine(f)
    /\ \/ f.blocker = None
       \/ f.blocker \in {"contract_invariant", "review_required"} /\ f.again

\* A fresh Batch treats these as pending.
Effective(f) ==
    IF RetryableReview(f) \/ ReleasedGate(f) \/ RetryableBlock(f) THEN "pending" ELSE f.status

ReviewHolds(f) ==
    /\ \/ f.status = "review_required" /\ ~ReleasedGate(f)
       \/ f.blocker = "review_required"
    /\ ~RetryableReview(f)
    /\ ~(RetryableBlock(f) /\ f.blocker = "review_required")

\* The first rule that applies decides.
Rules(f) ==
    << <<f.status = "completed", "completed_skip">>,
       <<f.status = "skipped", "terminal_skip">>,
       <<f.risk = "forbidden" \/ f.blocker = "forbidden", "deferred_forbidden">>,
       <<f.status = "human_required" \/ f.blocker = "human_required", "deferred_human">>,
       <<ReviewHolds(f), "deferred_review">>,
       <<Effective(f) = "in_progress", "reconcile_required">>,
       <<Effective(f) # "pending", "unsupported">>,
       <<~Routine(f), "deferred_review">>,
       <<~f.bound, "unsupported">>,
       <<TRUE, "eligible">> >>

Disposition(f) ==
    LET rules == Rules(f)
        first == CHOOSE i \in DOMAIN rules :
                    rules[i][1] /\ \A j \in DOMAIN rules : j < i => ~rules[j][1]
    IN  rules[first][2]

\* A same-run resume needs a retryable attempt, a binding for it and no blocker.
MayResume(f) == f.retry /\ f.resumable /\ f.blocker = None
=============================================================================
