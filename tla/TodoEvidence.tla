---------------------------- MODULE TodoEvidence ----------------------------
(***************************************************************************)
(* What is proven of a Todo and what stops it: the chain of checkpoints    *)
(* and the life of its blockers, by the rules of execution_control.py.     *)
(*                                                                         *)
(* A checkpoint follows the current one, with more progress and a later    *)
(* time, on screenshots and at most one action receipt that are not newer  *)
(* than itself.  An invalidation follows it with the same progress.  A     *)
(* blocker is raised as revision 1, resolved, and may be reopened.         *)
(* All facts have one scope; a candidate of another scope is refused.      *)
(***************************************************************************)
EXTENDS Naturals, Sequences, FiniteSets

CONSTANTS Codes,        \* blocker codes
          MaxTime, MaxProgress, MaxChain, MaxBlockers, MaxRevisions   \* bounds

TodoEvidenceAssumption ==
    {MaxTime, MaxProgress, MaxChain, MaxBlockers, MaxRevisions} \subseteq Nat

VARIABLES now,
          unknown,     \* times at which an action of unknown effect was recorded
          chain,       \* the accepted checkpoints
          blockers     \* of each blocker the accepted revisions

vars == <<now, unknown, chain, blockers>>

Times == 0..MaxTime
Last(s) == s[Len(s)]

Checkpoints == [valid : BOOLEAN, progress : 0..MaxProgress, at : Times]
Revisions == [code : Codes, ambiguous : BOOLEAN, active : BOOLEAN, receipt : BOOLEAN, at : Times]

TypeOK ==
    /\ now \in Times /\ unknown \subseteq Times
    /\ chain \in Seq(Checkpoints) /\ \A i \in 1..(Len(chain) - 1) : chain[i].at < chain[i + 1].at
    /\ \A b \in DOMAIN blockers :
          /\ blockers[b] \in Seq(Revisions)
          /\ \A i \in 1..(Len(blockers[b]) - 1) : blockers[b][i].at < blockers[b][i + 1].at

Init == now = 0 /\ unknown = {} /\ chain = <<>> /\ blockers = <<>>

Tick ==
    now < MaxTime /\ now' = now + 1 /\ UNCHANGED <<unknown, chain, blockers>>
RecordUnknown ==
    unknown' = unknown \cup {now} /\ UNCHANGED <<now, chain, blockers>>

---------------------------------------------------------------------------
(* A frame before an action proves nothing; other frames and the receipt   *)
(* must not be newer than the checkpoint.                                  *)
Evidence(seen, phase) == phase # "before_action" /\ seen <= now

ProgressesIfValid(current, p) == current.valid => current.progress < p
Progresses(current, p) == current.progress < p
RecordCheckpoint ==
    \E p \in 0..MaxProgress, seen \in Times, ph \in {"before_action", "after_action", "checkpoint"} :
       /\ Len(chain) < MaxChain /\ Evidence(seen, ph)
       /\ chain # <<>> => Progresses(Last(chain), p) /\ Last(chain).at < now
       /\ chain' = Append(chain, [valid |-> TRUE, progress |-> p, at |-> now])
       /\ UNCHANGED <<now, unknown, blockers>>

Invalidate ==
    \E seen \in Times, ph \in {"before_action", "recovery"} :
       /\ chain # <<>> /\ Len(chain) < MaxChain /\ Evidence(seen, ph)
       /\ Last(chain).valid /\ Last(chain).at < now
       /\ chain' = Append(chain, [valid |-> FALSE, progress |-> Last(chain).progress, at |-> now])
       /\ UNCHANGED <<now, unknown, blockers>>

---------------------------------------------------------------------------
Current(b) == Last(blockers[b])
(* active_todo_blockers: of each blocker the highest revision, if active.  *)
Active == {b \in DOMAIN blockers : Current(b).active}

(* A receipt that a blocker refers to is not newer than the transition.    *)
ReceiptFits(named) == named => \E t \in unknown : t <= now
NoDuplicate(code)  == \A b \in Active : Current(b).code # code
AnyAmbiguity(ambiguous, named) == TRUE
Ambiguity(ambiguous, named) == ambiguous => named

Raise ==
    \E code \in Codes, ambiguous, named \in BOOLEAN :
       /\ Len(blockers) < MaxBlockers
       /\ Ambiguity(ambiguous, named) /\ ReceiptFits(named) /\ NoDuplicate(code)
       /\ blockers' = Append(blockers, <<[code |-> code, ambiguous |-> ambiguous, active |-> TRUE,
                                          receipt |-> named, at |-> now]>>)
       /\ UNCHANGED <<now, unknown, chain>>

ReviseAnytime(b, active) ==
    /\ Len(blockers[b]) < MaxRevisions
    /\ blockers' = [blockers EXCEPT ![b] = Append(@, [Last(@) EXCEPT !.active = active, !.at = now])]
    /\ UNCHANGED <<now, unknown, chain>>
(* The identity stays, the revision and the time grow; the receipt of the  *)
(* origin need not be named again.                                         *)
Revise(b, active) ==
    \E named \in BOOLEAN :
       /\ Len(blockers[b]) < MaxRevisions /\ Current(b).at < now /\ ReceiptFits(named)
       /\ blockers' = [blockers EXCEPT ![b] =
             Append(@, [Last(@) EXCEPT !.active = active, !.receipt = named, !.at = now])]
       /\ UNCHANGED <<now, unknown, chain>>
Resolve == \E b \in Active : Revise(b, FALSE)
Reopen  == \E b \in DOMAIN blockers \ Active : Revise(b, TRUE)

Next == Tick \/ RecordUnknown \/ RecordCheckpoint \/ Invalidate \/ Raise \/ Resolve \/ Reopen
Spec == Init /\ [][Next]_vars

---------------------------------------------------------------------------
(* Proven progress only grows along the chain, however many invalidations  *)
(* lie between two valid checkpoints: what was invalidated cannot be       *)
(* proven again at the same index.                                         *)
ProvenProgressGrows ==
    \A i, j \in DOMAIN chain :
       i < j /\ chain[i].valid /\ chain[j].valid => chain[i].progress < chain[j].progress

(* A blocker of an ambiguous action, in whatever revision, goes back to an *)
(* action of unknown effect that was recorded before it was raised.        *)
AmbiguityHasOrigin ==
    \A b \in DOMAIN blockers :
       Current(b).ambiguous => \E t \in unknown : t <= blockers[b][1].at

Sound == ProvenProgressGrows /\ AmbiguityHasOrigin

(* A Todo has at most one active blocker of a code.                        *)
OneActivePerCode ==
    \A a, b \in Active : Current(a).code = Current(b).code => a = b
=============================================================================
