------------------------------ MODULE GameClose ------------------------------
(***************************************************************************)
(* The two ways in which game_launcher.py takes a client down, over a      *)
(* Windows process table whose identifiers are used again.                 *)
(*                                                                         *)
(*   "queue"   close_for_queue: the clients of one configured installation,*)
(*             bound to the (image, creation time) read at the start, each *)
(*             one verified again on the handle that is then acted on.     *)
(*   "started" close_started: what a launch of the Manager left running,   *)
(*             as the identifiers that were not there before the launch.   *)
(*                                                                         *)
(* A process is told from the next one under the same identifier by the    *)
(* number of its birth, which stands for its creation time.  The clock of  *)
(* the waits is left out: a wait ends at any of its polls (a deadline may  *)
(* always have passed), and there is at least one poll.                    *)
(***************************************************************************)
EXTENDS Naturals

CONSTANTS
    Pids,       \* the process identifiers Windows hands out here
    MaxBorn,    \* bound: processes that are ever created
    Modes,      \* which of {"queue", "started"} a run looks at
    None        \* an identifier nobody has, a handle that is not open

VARIABLES
    table,      \* Windows: identifier -> the entry tasklist shows, or None
    born,       \* how many processes have been created
    handle,     \* the identifier whose handle the closer holds, or None
    pc,         \* where the closer is
    mode,       \* which closer it is
    pass,       \* 1, 2: WM_CLOSE, 3: (forced) termination; "started" has a 4th
    bound,      \* queue: initial, the birth each identifier was bound to
    targets,    \* the identifiers this pass still has to act on
    listing,    \* identifiers of the enumeration that is being filtered
    asOf,       \* how many births that enumeration could see
    remaining,  \* remaining (and unknown) of the last observation
    baseline,   \* started: receipt.baseline_process_ids
    preexisting, \* started: births of the clients alive when the launch began
    launched,   \* started: the birth of the client this launch created, or 0
    cancelled,  \* the durable cancellation or human gate behind cancel_requested
    killed,     \* the processes that were terminated: [born, image, late]
    receipt     \* "none", then "closed" (or already closed), "close-failed", "raised"

windows == <<table, born>>
closer == <<pc, mode, pass, bound, targets, listing, asOf, remaining, baseline, launched, preexisting>>
vars == <<table, born, handle, closer, cancelled, killed, receipt>>

\* What the image of a process is to the binding of the game: its client, a
\* client of another installation, one whose path cannot be read, or another
\* program, of a name the registry does not know.
Images == {"client", "foreign", "unreadable", "other"}
Process == [born : 1 .. MaxBorn, image : Images, live : BOOLEAN]

GameCloseAssumption ==
    MaxBorn \in Nat /\ Modes \subseteq {"queue", "started"} /\ None \notin Process

Free == {p \in Pids : table[p] = None}
Named == {p \in Pids : table[p] # None /\ table[p].image # "other"}
Live == {p \in Pids : table[p] # None /\ table[p].live}

Init ==
    /\ table = [p \in Pids |-> None]
    /\ born = 0
    /\ handle = None
    /\ mode \in Modes
    /\ pc = "before"
    /\ pass = 0
    /\ bound = [p \in Pids |-> 0]
    /\ targets = {} /\ listing = {} /\ asOf = 0 /\ remaining = {}
    /\ baseline = {} /\ launched = 0 /\ preexisting = {}
    /\ cancelled = FALSE
    /\ killed = {}
    /\ receipt = "none"

----------------------------------------------------------------------------
(* Windows and the people and programs that use it.                        *)

Create(p, image) ==
    /\ p \in Free
    /\ born < MaxBorn
    /\ born' = born + 1
    /\ table' = [table EXCEPT ![p] = [born |-> born + 1, image |-> image, live |-> TRUE]]

Spawn ==
    /\ \E p \in Pids, image \in Images : Create(p, image)
    /\ UNCHANGED <<handle, closer, cancelled, killed, receipt>>

\* A process ends: of itself, asked by WM_CLOSE, or closed by a person.
Exit ==
    /\ \E p \in Live : table' = [table EXCEPT ![p].live = FALSE]
    /\ UNCHANGED <<born, handle, closer, cancelled, killed, receipt>>

\* The entry of an ended process stays listed while a handle to it is open, and
\* its identifier is not handed out again before.
Reap ==
    /\ \E p \in Pids \ Live :
        /\ table[p] # None
        /\ p # handle
        /\ table' = [table EXCEPT ![p] = None]
    /\ UNCHANGED <<born, handle, closer, cancelled, killed, receipt>>

Cancel ==
    /\ mode = "queue"
    /\ ~cancelled
    /\ cancelled' = TRUE
    /\ UNCHANGED <<windows, handle, closer, killed, receipt>>

----------------------------------------------------------------------------
(* Reading the process table.  _list_enumerated runs tasklist; what each    *)
(* entry is gets asked afterwards, one identifier at a time.                *)

Enumerate(next) ==
    /\ listing' = Named
    /\ asOf' = born
    /\ pc' = next

\* _list_running: of the listed identifiers, the ones with a live process now.
Running(listed) == listed \cap Live

\* _queue_close_snapshot: an entry that has exited is nothing to close, an
\* identity that cannot be read or has another name than the listed one is a
\* blocker, a positively foreign installation is outside the binding.
Verified(listed) == {p \in Running(listed) : table[p].image = "client"}
UnknownIgnored(listed) == {}
Unknown(listed) == {p \in Running(listed) : table[p].image = "unreadable"}
Remaining(listed) == Verified(listed) \cup Unknown(listed)

----------------------------------------------------------------------------
(* close_for_queue.                                                        *)

NeverRaises == FALSE
CancelRequested == cancelled

Raise ==
    /\ handle' = None
    /\ pc' = "done"
    /\ receipt' = "raised"
    /\ UNCHANGED <<windows, mode, pass, bound, targets, listing, asOf, remaining, baseline, launched,
                   preexisting, cancelled, killed>>

\* cancel_requested raises at every point where the code asks it.
Raised ==
    /\ mode = "queue"
    /\ pc \in {"before", "list", "act", "poll", "final", "seal"}
    /\ CancelRequested
    /\ Raise

\* tasklist fails or times out: GameLaunchError leaves either closer.
TasklistFails ==
    /\ pc \in {"before", "list", "poll", "final", "owned", "wait", "residue"}
    /\ Raise

QueueBegin ==
    /\ mode = "queue" /\ pc = "before"
    /\ ~CancelRequested
    /\ Enumerate("bind")
    /\ UNCHANGED <<windows, handle, mode, pass, bound, targets, remaining, baseline, launched, preexisting, cancelled,
                   killed, receipt>>

Bind ==
    /\ pc = "bind"
    /\ bound' = [p \in Pids |-> IF p \in Verified(listing) THEN table[p].born ELSE 0]
    /\ remaining' = Remaining(listing)
    /\ pass' = 1
    /\ pc' = "list"
    /\ UNCHANGED <<windows, handle, mode, targets, listing, asOf, baseline, launched, preexisting, cancelled, killed, receipt>>

PassLists ==
    /\ pc = "list"
    /\ ~CancelRequested
    /\ Enumerate("select")
    /\ UNCHANGED <<windows, handle, mode, pass, bound, targets, remaining, baseline, launched, preexisting, cancelled,
                   killed, receipt>>

\* Only the instances of the first snapshot are acted on.  With none of them
\* left the passes end, whatever else is running.
SameInstance(p) == table[p].born = bound[p]

PassSelects ==
    /\ pc = "select"
    /\ \E chosen \in {{p \in Verified(listing) : SameInstance(p)}} :
        IF chosen = {}
        THEN /\ remaining' = Remaining(listing)
             /\ pc' = "final"
             /\ UNCHANGED targets
        ELSE /\ targets' = chosen
             /\ pc' = "act"
             /\ UNCHANGED remaining
    /\ UNCHANGED <<windows, handle, mode, pass, bound, listing, asOf, baseline, launched, preexisting, cancelled, killed,
                   receipt>>

\* OpenProcess and the identity on the handle it returned: no process, another
\* one, or one that cannot be read is left alone.  An open handle pins the
\* identifier, so what follows acts on this process and no later one.
HandleIsClient(p) == table[p].image = "client"
HandleVerifies(p) == table[p].image = "client" /\ SameInstance(p)

OpenTarget ==
    /\ pc = "act" /\ handle = None
    /\ ~CancelRequested
    /\ \E p \in targets :
        IF table[p] # None /\ HandleVerifies(p)
        THEN /\ handle' = p
             /\ pc' = "call"
             /\ UNCHANGED targets
        ELSE /\ targets' = targets \ {p}
             /\ pc' = IF targets = {p} THEN "poll" ELSE "act"
             /\ UNCHANGED handle
    /\ UNCHANGED <<windows, mode, pass, bound, listing, asOf, remaining, baseline, launched, preexisting, cancelled,
                   killed, receipt>>

\* The audit line, the last look at the cancellation, then the request: in the
\* third pass TerminateProcess, which the system may refuse, before it WM_CLOSE,
\* whose effect is an Exit of the process or none.
CallTarget ==
    /\ pc = "call"
    /\ handle' = None
    /\ targets' = targets \ {handle}
    /\ pc' = IF targets = {handle} THEN "poll" ELSE "act"
    /\ \/ /\ pass = 3 /\ handle \in Live
          /\ table' = [table EXCEPT ![handle].live = FALSE]
          /\ killed' = killed \cup {[born |-> table[handle].born, image |-> table[handle].image,
                                     late |-> cancelled]}
       \/ UNCHANGED <<table, killed>>
    /\ UNCHANGED <<born, mode, pass, bound, listing, asOf, remaining, baseline, launched, preexisting, cancelled, receipt>>

Poll ==
    /\ pc = "poll"
    /\ ~CancelRequested
    /\ Enumerate("look")
    /\ UNCHANGED <<windows, handle, mode, pass, bound, targets, remaining, baseline, launched, preexisting, cancelled,
                   killed, receipt>>

\* Nothing left: done.  Else poll again, or the deadline has passed and the
\* next pass begins.
Look ==
    /\ pc = "look"
    /\ remaining' = Remaining(listing)
    /\ \/ remaining' = {} /\ pc' = "final" /\ UNCHANGED pass
       \/ remaining' # {} /\ pc' = "poll" /\ UNCHANGED pass
       \/ remaining' # {} /\ pass < 3 /\ pc' = "list" /\ pass' = pass + 1
       \/ remaining' # {} /\ pass = 3 /\ pc' = "final" /\ UNCHANGED pass
    /\ UNCHANGED <<windows, handle, mode, bound, targets, listing, asOf, baseline, launched, preexisting, cancelled,
                   killed, receipt>>

FinalLists ==
    /\ pc = "final"
    /\ ~CancelRequested
    /\ Enumerate("seal")
    /\ UNCHANGED <<windows, handle, mode, pass, bound, targets, remaining, baseline, launched, preexisting, cancelled,
                   killed, receipt>>

FinalReceipt ==
    /\ pc = "seal"
    /\ ~CancelRequested
    /\ remaining' = Remaining(listing)
    /\ receipt' = IF remaining' = {} THEN "closed" ELSE "close-failed"
    /\ pc' = "done"
    /\ UNCHANGED <<windows, handle, mode, pass, bound, targets, listing, asOf, baseline, launched, preexisting, cancelled,
                   killed>>

----------------------------------------------------------------------------
(* A launch, and close_started after it.                                   *)

\* baseline = _list_running(names), before the executable or the official tool
\* is started.
LaunchBaseline ==
    /\ mode = "started" /\ pc = "before"
    /\ baseline' = Running(Named)
    /\ preexisting' = {table[p].born : p \in Running(Named)}
    /\ pc' = "launching"
    /\ UNCHANGED <<windows, handle, mode, pass, bound, targets, listing, asOf, remaining, launched, cancelled,
                   killed, receipt>>

LaunchClient ==
    /\ pc = "launching"
    /\ \E p \in Pids : Create(p, "client")
    /\ launched' = born + 1
    /\ pc' = "owned"
    /\ UNCHANGED <<handle, mode, pass, bound, targets, listing, asOf, remaining, baseline, preexisting, cancelled, killed,
                   receipt>>

\* _list_running - baseline: the identifiers close_started and each of its
\* waits take for the Manager's own.
OwnedUnscoped == Running(Named)
Owned == Running(Named) \ baseline

StartedBegin ==
    /\ pc = "owned"
    /\ \E mine \in {Owned} :
        /\ targets' = mine
        /\ remaining' = mine
        /\ pc' = IF mine = {} THEN "residue" ELSE "ask"
    /\ pass' = 1
    /\ UNCHANGED <<windows, handle, mode, bound, listing, asOf, baseline, launched, preexisting, cancelled, killed, receipt>>

\* Passes 1 and 2 post WM_CLOSE, pass 3 is taskkill, which asks too; what the
\* asked process does is an Exit or nothing.
StartedAsks ==
    /\ pc = "ask" /\ pass < 4
    /\ pc' = "wait"
    /\ UNCHANGED <<windows, handle, mode, pass, bound, targets, listing, asOf, remaining, baseline, launched, preexisting,
                   cancelled, killed, receipt>>

\* taskkill /PID p /T /F, one identifier after another: whatever process has
\* the identifier by then (its children go with it and are not shown here).
StartedKills ==
    /\ pc = "ask" /\ pass = 4
    /\ \E p \in targets :
        /\ targets' = targets \ {p}
        /\ pc' = IF targets = {p} THEN "wait" ELSE "ask"
        /\ IF p \in Live
           THEN \/ /\ table' = [table EXCEPT ![p].live = FALSE]
                   /\ killed' = killed \cup {[born |-> table[p].born, image |-> table[p].image,
                                              late |-> FALSE]}
                \/ UNCHANGED <<table, killed>>
           ELSE UNCHANGED <<table, killed>>
    /\ UNCHANGED <<born, handle, mode, pass, bound, listing, asOf, remaining, baseline, launched, preexisting, cancelled,
                   receipt>>

\* Four passes: WM_CLOSE, WM_CLOSE again, taskkill, taskkill /F.
AlwaysMore == TRUE
MorePasses == pass < 4

StartedWaits ==
    /\ pc = "wait"
    /\ \E mine \in {Owned} :
        /\ remaining' = mine
        /\ \/ mine = {} /\ pc' = "residue" /\ UNCHANGED <<targets, pass>>
           \/ mine # {} /\ pc' = "wait" /\ UNCHANGED <<targets, pass>>
           \/ mine # {} /\ MorePasses /\ pc' = "ask" /\ pass' = pass + 1 /\ targets' = mine
           \/ mine # {} /\ ~MorePasses /\ pc' = "residue" /\ UNCHANGED <<targets, pass>>
    /\ UNCHANGED <<windows, handle, mode, bound, listing, asOf, baseline, launched, preexisting, cancelled, killed, receipt>>

\* _listed_cleanup_residuals: a live entry outside the baseline is left over.
StartedReceipt ==
    /\ pc = "residue"
    /\ asOf' = born
    /\ remaining' = remaining \cup Owned
    /\ receipt' = IF remaining' # {} THEN "close-failed" ELSE "closed"
    /\ pc' = "done"
    /\ UNCHANGED <<windows, handle, mode, pass, bound, targets, listing, baseline, launched, preexisting, cancelled, killed>>

----------------------------------------------------------------------------

Next ==
    \/ Spawn \/ Exit \/ Reap \/ Cancel
    \/ Raised \/ TasklistFails
    \/ QueueBegin \/ Bind \/ PassLists \/ PassSelects \/ OpenTarget \/ CallTarget \/ Poll \/ Look
    \/ FinalLists \/ FinalReceipt
    \/ LaunchBaseline \/ LaunchClient \/ StartedBegin \/ StartedAsks \/ StartedKills \/ StartedWaits
    \/ StartedReceipt

Spec == Init /\ [][Next]_vars

----------------------------------------------------------------------------

TypeOK ==
    /\ table \in [Pids -> Process \cup {None}]
    /\ born \in 0 .. MaxBorn
    /\ handle \in Pids \cup {None}
    /\ bound \in [Pids -> 0 .. MaxBorn]
    /\ targets \subseteq Pids /\ listing \subseteq Pids /\ remaining \subseteq Pids /\ baseline \subseteq Pids
    /\ asOf \in 0 .. MaxBorn /\ launched \in 0 .. MaxBorn /\ pass \in 0 .. 4
    /\ killed \subseteq [born : 1 .. MaxBorn, image : Images, late : BOOLEAN]

\* "Newly spawned instances remain blockers and cannot silently acquire the
\* original instance's close authorization": what the queue terminates is a
\* client of the configured installation that was there when it was bound, and
\* never the process that has its identifier by now.
QueueKillsOnlyBound ==
    mode = "queue" => \A k \in killed : k.image = "client" /\ k.born \in {bound[p] : p \in Pids}

\* A cancellation or a human gate that lands while a client is taken down costs
\* at most the one process whose request was already on its way.
AtMostOneAfterCancel == \A k, l \in killed : k.late /\ l.late => k = l

\* A receipt that lets the queue start the next game is true of the machine: no
\* client of the installation, and none that could be one, is left from before
\* the enumeration the receipt is built on.
ClosedMeansGone ==
    mode = "queue" /\ receipt = "closed" =>
        \A p \in Live : table[p].image \in {"client", "unreadable"} => table[p].born > asOf

\* A client somebody had open before the launch is never closed, whatever
\* happens to its identifier and to those of the other processes.
PreexistingSpared == \A k \in killed : k.born \notin preexisting

KillsSafely == /\ QueueKillsOnlyBound /\ AtMostOneAfterCancel
               /\ ClosedMeansGone /\ PreexistingSpared

\* docs/integrations/yeyu-orchestration-responsibility.md:18 -- after a normal
\* end or an ordinary failure the game this round started is closed.
LaunchedGone ==
    mode = "started" /\ receipt = "closed" => \A p \in Live : table[p].born # launched

\* docs/integrations/orchestration-contract.md:50 -- a process of unknown
\* identity must not be terminated by force.
ForcedOnlyKnown == \A k \in killed : k.image # "other"

=============================================================================
