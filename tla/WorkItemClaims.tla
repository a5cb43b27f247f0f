--------------------------- MODULE WorkItemClaims ---------------------------
(***************************************************************************)
(* Agent work items, their claims and what named Agents do under them:     *)
(* claim, renew, decide and invoke a typed capability.  Every command runs *)
(* under an idempotency key, in one transaction that first looks the key   *)
(* up, then compares the expected state version, then runs the operation.  *)
(* A capability call checks its claim in a transaction of its own, before. *)
(***************************************************************************)
EXTENDS Integers, Sequences, FiniteSets, TLC

CONSTANTS Agents, Items, Keys,
          Leases,     \* the lease lengths an Agent may ask for
          End,        \* bound on the clock
          MaxClaim,   \* bound on the claims that are created
          MaxVersion, \* bound on the state version
          None

ClaimRequests     == [op : {"claim"}, on : Items, by : Agents, arg : Leases]
DecideRequests(C) == [op : {"decide"}, on : C, by : Agents, arg : {"accepted", "rejected"}]
InvokeRequests(C) == [op : {"invoke"}, on : C, by : Agents, arg : {"capability"}]

ClaimAssumption == /\ Leases \subseteq Nat \ {0} /\ {End, MaxClaim, MaxVersion} \subseteq Nat
                   /\ None \notin Nat \cup ClaimRequests \cup DecideRequests(Nat) \cup InvokeRequests(Nat)

VARIABLES item,     \* item -> its state and active claim
          claims,   \* the claim rows: item, claimant, state, end of the lease and the key that made it
          decided,  \* the decision rows: claim and key
          invoked,  \* the invocation rows: claim, key, and whether the claim was still good
          ledger,   \* key -> the request and the receipt it was answered with, or None
          call,     \* Agent -> the capability call whose claim it has checked, or None
          reply,    \* the last answer: what it was, and whether its command was in the ledger
          version,  \* the state version
          now
Interchangeable == Permutations(Keys)
vars == <<item, claims, decided, invoked, ledger, call, reply, version, now>>

Requests == ClaimRequests \cup DecideRequests(DOMAIN claims) \cup InvokeRequests(DOMAIN claims)

Live(c)  == claims[c].state = "active" /\ claims[c].until > now
(* What _validate_active_claim asks of a claim. *)
ValidUnresolved(c, a) == claims[c].until > now /\ claims[c].by = a  \* mutant: forgets the state
Valid(c, a) == Live(c) /\ claims[c].by = a

Init == /\ item = [i \in Items |-> [state |-> "planned", active |-> None]]
        /\ claims = <<>> /\ decided = <<>> /\ invoked = <<>>
        /\ ledger = [k \in Keys |-> None]
        /\ call = [a \in Agents |-> None] /\ reply = None
        /\ version = 0 /\ now = 0

---------------------------------------------------------------------------
(* The operations                                                          *)

MayClaim(i, a) == \/ item[i].state = "planned"
                  \/ /\ item[i].state = "running"
                     /\ LET c == item[i].active
                        IN \/ Valid(c, a)
                           \/ claims[c].state = "expired"
                           \/ claims[c].until <= now

LiveAnywhere(i) == {c \in DOMAIN claims : Live(c)}  \* mutant: forgets the work item
NoLiveClaims(i) == {}  \* mutant: the store inserts without looking
LiveClaims(i) == {c \in DOMAIN claims : claims[c].item = i /\ Live(c)}

(* The rows after a claims i: a live claim is renewed, or the spent ones   *)
(* are marked expired and a new one is made.                               *)
Claimed(i, a, until, k) ==
    IF LiveClaims(i) # {}
    THEN [c \in DOMAIN claims |-> IF c \in LiveClaims(i)
                                  THEN [claims[c] EXCEPT !.until = until] ELSE claims[c]]
    ELSE Append([c \in DOMAIN claims |->
                   IF claims[c].item = i /\ claims[c].state = "active" /\ claims[c].until <= now
                   THEN [claims[c] EXCEPT !.state = "expired"] ELSE claims[c]],
                [item |-> i, by |-> a, state |-> "active", until |-> until, key |-> k])

DoClaim(k, r) ==
    /\ MayClaim(r.on, r.by)
    /\ \A c \in LiveClaims(r.on) : claims[c].by = r.by
    /\ claims' = Claimed(r.on, r.by, now + r.arg, k)
    /\ Len(claims') <= MaxClaim
    /\ LET live == LiveClaims(r.on)
           c == IF live # {} THEN CHOOSE x \in live : TRUE ELSE Len(claims')
       IN item' = [item EXCEPT ![r.on] = [state |-> "running", active |-> c]]
    /\ UNCHANGED <<decided, invoked>>

DoDecide(k, r) ==
    /\ Valid(r.on, r.by)
    /\ decided' = Append(decided, [claim |-> r.on, key |-> k])
    /\ claims' = [claims EXCEPT ![r.on].state = "resolved"]
    /\ item' = [item EXCEPT ![claims[r.on].item].state =
                    IF r.arg = "accepted" THEN "done" ELSE "review_required"]
    /\ UNCHANGED invoked

DoInvoke(k, r) ==
    /\ invoked' = Append(invoked, [claim |-> r.on, key |-> k, good |-> Live(r.on)])
    /\ UNCHANGED <<item, claims, decided>>

Operation(k, r) == \/ r.op = "claim" /\ DoClaim(k, r)
                   \/ r.op = "decide" /\ DoDecide(k, r)
                   \/ r.op = "invoke" /\ DoInvoke(k, r)
(* Whether the operation raises: its transaction is rolled back. *)
Raises(r) == \/ r.op = "claim" /\ ~(MayClaim(r.on, r.by) /\ \A c \in LiveClaims(r.on) : claims[c].by = r.by)
             \/ r.op = "decide" /\ ~Valid(r.on, r.by)

---------------------------------------------------------------------------
(* Commands                                                                *)

Known(k) == ledger[k] # None
Stale(v) == v # None /\ v # version
VersionFirst(k, r, v) == IF Stale(v) THEN "refused"  \* mutant: compares the version first
                         ELSE IF Known(k) THEN IF ledger[k] = r THEN "replayed" ELSE "conflict" ELSE "run"
UnknownKey(k, r, v) == IF Stale(v) THEN "refused" ELSE "run"  \* mutant: forgets the lookup
(* What run_idempotent does before it runs the operation. *)
Verdict(k, r, v) == IF Known(k) THEN IF ledger[k] = r THEN "replayed" ELSE "conflict"
                    ELSE IF Stale(v) THEN "refused" ELSE "run"

(* The versions an Agent may have read. *)
Expected == {v \in {None, version, version - 1} : v # -1}

Answer(k, r, what) == reply' = [op |-> r.op, what |-> what, same |-> ledger[k] = r]

(* The transaction of command r under key k, expecting version v. *)
Transaction(k, r, v) ==
    \/ /\ Verdict(k, r, v) # "run" /\ Answer(k, r, Verdict(k, r, v))
       /\ UNCHANGED <<item, claims, decided, invoked, ledger, version>>
    \/ /\ Verdict(k, r, v) = "run" /\ Raises(r) /\ Answer(k, r, "refused")
       /\ UNCHANGED <<item, claims, decided, invoked, ledger, version>>
    \/ /\ Verdict(k, r, v) = "run" /\ ~Raises(r) /\ version < MaxVersion
       /\ Operation(k, r)
       /\ ledger' = [ledger EXCEPT ![k] = r]
       /\ version' = version + 1
       /\ Answer(k, r, "done")

(* A claim or a decision is one transaction.  An Agent sends it, or sends  *)
(* it again, expecting the version it has read, now or before, or none.      *)
Command(a) == /\ call[a] = None
              /\ \E k \in Keys, r \in Requests, v \in Expected :
                    r.by = a /\ r.op # "invoke" /\ Transaction(k, r, v)
              /\ UNCHANGED <<call, now>>

(* A capability call looks at its claim first, outside the transaction. *)
Check(a) == /\ call[a] = None
            /\ \E k \in Keys, r \in Requests :
                  /\ r.by = a /\ r.op = "invoke"
                  /\ IF Valid(r.on, a)
                     THEN call' = [call EXCEPT ![a] = [key |-> k, req |-> r]] /\ reply' = None
                     ELSE Answer(k, r, "refused") /\ UNCHANGED call
            /\ UNCHANGED <<item, claims, decided, invoked, ledger, version, now>>

Invoke(a) == /\ call[a] # None
             /\ \E v \in Expected : Transaction(call[a].key, call[a].req, v)
             /\ call' = [call EXCEPT ![a] = None]
             /\ UNCHANGED now

Tick == now < End /\ now' = now + 1
        /\ reply' = None
        /\ UNCHANGED <<item, claims, decided, invoked, ledger, call, version>>

Next == \/ \E a \in Agents : Command(a) \/ Check(a) \/ Invoke(a)
        \/ Tick
Spec == Init /\ [][Next]_vars

---------------------------------------------------------------------------
(* Properties                                                              *)

(* The state of the ledger: an active claim is a row of its own item. *)
TypeOK ==
    /\ \A i \in Items : /\ item[i].state \in {"planned", "running", "done", "review_required"}
                        /\ item[i].state = "planned" <=> item[i].active = None
                        /\ item[i].active # None => /\ item[i].active \in DOMAIN claims
                                                    /\ claims[item[i].active].item = i
    /\ \A c \in DOMAIN claims : claims[c].state \in {"active", "expired", "resolved"}
    /\ version \in 0..MaxVersion /\ now \in 0..End

(* Renewals, recoveries of a spent lease and rival claims never leave two  *)
(* good claims on one work item.                                           *)
OneHolder == \A b, c \in DOMAIN claims :
                claims[b].item = claims[c].item /\ Live(b) /\ Live(c) => b = c

(* A work item is decided once, by the last Agent that claimed it: an      *)
(* Agent whose lease was taken over cannot decide it any more.             *)
DecisionByHolder ==
    \A i \in Items :
        LET of == {d \in DOMAIN decided : claims[decided[d].claim].item = i}
        IN /\ item[i].state \in {"done", "review_required"} <=> Cardinality(of) = 1
           /\ Cardinality(of) <= 1
           /\ \A d \in of : decided[d].claim = item[i].active

(* A command that is sent again, with the same or with another version,    *)
(* never makes a second claim, decision or invocation.                     *)
EffectOnce ==
    \A k \in Keys : Cardinality({c \in DOMAIN claims : claims[c].key = k})
                    + Cardinality({d \in DOMAIN decided : decided[d].key = k})
                    + Cardinality({n \in DOMAIN invoked : invoked[n].key = k}) <= 1

Refuses(ops) == /\ reply # None /\ reply.what = "refused"
                /\ reply.op \in ops /\ reply.same
(* An Agent that lost the answer to a committed claim or decision gets it  *)
(* when it asks again, whatever has happened to the state version and to   *)
(* the claim since.                                                        *)
ReplayAnswered == ~Refuses({"claim", "decide"})

Exclusive == OneHolder /\ DecisionByHolder /\ EffectOnce /\ ReplayAnswered

(* test_contract.py:538, "test_write_requires_idempotency_and_replays_     *)
(* same_receipt", of a capability call: it is not so, the claim is looked  *)
(* at before the key, and a spent claim refuses the retry.                 *)
InvocationReplayed == ~Refuses({"invoke"})

(* manager.py:11903, "Agent capability requests require workItemId,        *)
(* claimId and fencingToken", read as: what the call does, it does under a *)
(* good claim.  It is not so, the claim may be decided, or expire, between *)
(* the check and the transaction.                                          *)
EffectUnderClaim == \A n \in DOMAIN invoked : invoked[n].good
=============================================================================
