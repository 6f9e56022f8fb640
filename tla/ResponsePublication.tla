------------------------- MODULE ResponsePublication -------------------------
(***************************************************************************)
(* Owner-fenced publication of a turn's replies (coordination/response.py, *)
(* with the settlement of attempt_store.py, coordination/snapshot.py and   *)
(* attempt_recovery.py that competes with it).                             *)
(*                                                                         *)
(* Two stores that cannot commit together are kept in step: the            *)
(* coordinator (intents, obligations, append dispatches, receipts, the     *)
(* execution) and the message bus (the reply rows, the resource claims).   *)
(* For each reply route the owner freezes an intent, records a dispatch,   *)
(* appends the row to the bus and then commits the receipt.  A crash, a    *)
(* refused transaction or a registry write may fall between any two.       *)
(*                                                                         *)
(* The model follows one execution with one attempt.  It starts where the  *)
(* native turn has finished: the attempt is settling and publication is    *)
(* ready.  The owner's process and a recovery process act on it.           *)
(***************************************************************************)
EXTENDS Integers, FiniteSets, TLC

CONSTANTS Route,        \* reply routes (exact targets) of the execution
          Owner,        \* the process that runs the attempt's owner
          Recovery,     \* a process recovering the owner after a stop
          NoOne,        \* nobody holds the write locks
          MaxCalls,     \* bound: publication calls of the owner
          MaxWrites,    \* bound: registry writes by other threads
          MaxLives,     \* bound: restarts of the owner's process
          MaxFaults     \* bound: refused transactions and failed appends

ASSUME RouteAssumption == Route # {} /\ IsFiniteSet(Route)
ASSUME ActorAssumption == Owner # Recovery /\ NoOne \notin {Owner, Recovery}
ASSUME BoundAssumption ==
    MaxCalls \in Nat /\ MaxWrites \in Nat /\ MaxLives \in Nat /\ MaxFaults \in Nat

VARIABLES
    \* The coordinator's durable rows.
    intent,        \* routes with a frozen PublicationIntents row
    dispatch,      \* routes with a PublicationAppendDispatches row
    receipt,       \* routes with a PublicationEvidence row
    obligation,    \* lifecycle of each route's ResponseObligation
    execution,     \* lifecycle of the execution; active while it is current
    \* The bus.
    row,           \* routes whose keyed reply row is durable
    claims,        \* the attempt's resource claims are held; it took some
    \* The registry.
    registry,      \* revision, the owner's entry revision and its status
    \* The processes.
    process,       \* the owner's process is alive
    fence,         \* the owner's process still holds the attempt's fence
    act,           \* what each process is doing
    lock,          \* holder of the registry read and coordinator write locks
    \* Bounds and history.
    sends,         \* history: appends to the bus tried for each route
    calls, writes, lives, faults

durable == <<intent, dispatch, receipt, obligation, execution>>
bus == <<row, claims>>
bounds == <<calls, writes, lives, faults>>
vars == <<durable, bus, registry, process, fence, act, lock, sends, bounds>>

Actor == {Owner, Recovery}

(***************************************************************************)
(* A process: "idle", or between two steps of a call.  `todo` is the       *)
(* replies the current loop has left, `route` the one in hand, `cut` the   *)
(* registry captured at the boundary, `first` whether this call inserted   *)
(* the dispatch, `next` where a completed route returns to.                *)
(***************************************************************************)
Registry == [revision : Nat, entry : Nat, status : {"running", "idle", "stopped"}]
Step == {"idle", "refused", "prepare", "freeze", "publish", "dispatch",
         "settle", "append", "commit", "resolve", "abandon", "abandoning"}
Activity == [pc : Step, todo : SUBSET Route, route : Route, cut : Registry,
             first : BOOLEAN, next : {"publish", "resolve"}]

Idle == [pc |-> "idle", todo |-> {}, route |-> CHOOSE r \in Route : TRUE,
         cut |-> [revision |-> 0, entry |-> 0, status |-> "running"],
         first |-> FALSE, next |-> "publish"]

Init ==
    /\ intent = {} /\ dispatch = {} /\ receipt = {}
    /\ obligation = [r \in Route |-> "pending"]
    /\ execution = "active"
    /\ row = {} /\ claims = TRUE
    /\ registry = [revision |-> 0, entry |-> 0, status |-> "running"]
    /\ process = TRUE /\ fence = TRUE
    /\ act = [a \in Actor |-> Idle]
    /\ lock = NoOne
    /\ sends = [r \in Route |-> 0]
    /\ calls = 0 /\ writes = 0 /\ lives = 0 /\ faults = 0

-----------------------------------------------------------------------------
(* Helpers *)

Becomes(a, k) == act' = [act EXCEPT ![a] = k]

\* A raised refusal ends the call; `fence` and the durable rows stay.
Refused(a) == Becomes(a, [Idle EXCEPT !.pc = "refused"])

\* RegistrySelection.current: the revision captured is still the registry's.
\* A recovery's RegistryEntriesCut compares only the owner's own entry.
Current(a) ==
    IF a = Owner THEN act[a].cut.revision = registry.revision
                 ELSE act[a].cut.entry = registry.entry

\* require_publishing_intent: every body is frozen, this one still publishing.
PublishingIntent(r) ==
    /\ intent = Route
    /\ obligation[r] = "publishing"

\* The end of a route's call: the next reply, or the end of the loop.
Continue(a) ==
    LET left == act[a].todo \ {act[a].route}
    IN  Becomes(a, IF left = {} /\ act[a].next = "publish" THEN Idle
                   ELSE [act[a] EXCEPT !.pc = act[a].next, !.todo = left])

RegistryWrite(entry, status) ==
    /\ lock = NoOne
    /\ registry' = [revision |-> registry.revision + 1,
                    entry |-> registry.entry + entry, status |-> status]

-----------------------------------------------------------------------------
(* LiveResponseOwner._publish_owned: freeze every reply, then publish each *)

\* publish_responses, called by the turn that holds the attempt's fence.
PublishResponses ==
    /\ process /\ fence /\ calls < MaxCalls
    /\ act[Owner].pc \in {"idle", "refused"}
    /\ registry.status = "running"
    /\ calls' = calls + 1
    /\ Becomes(Owner, [Idle EXCEPT !.pc = "prepare", !.todo = Route])
    /\ UNCHANGED <<durable, bus, registry, process, fence, lock, sends,
                   writes, lives, faults>>

\* publish_fenced_response alone, for one route: an answer that was lost is
\* asked for again.
PublishAgain(r) ==
    /\ process /\ fence /\ calls < MaxCalls
    /\ act[Owner].pc \in {"idle", "refused"}
    /\ calls' = calls + 1
    /\ Becomes(Owner, [Idle EXCEPT !.pc = "publish", !.todo = {r}])
    /\ UNCHANGED <<durable, bus, registry, process, fence, lock, sends,
                   writes, lives, faults>>

\* session.capture and require_live: the cut every later transaction of this
\* route's call is checked against.
Capture(r) ==
    LET k == act[Owner]
    IN  /\ k.pc \in {"prepare", "publish"} /\ r \in k.todo
        /\ IF registry.status = "running"
             THEN Becomes(Owner, [k EXCEPT !.pc = IF k.pc = "prepare" THEN "freeze"
                                                                     ELSE "dispatch",
                                           !.route = r, !.cut = registry])
             ELSE Refused(Owner)
        /\ UNCHANGED <<durable, bus, registry, process, fence, lock, sends, bounds>>

\* The next reply to freeze, or the publishing loop once all are frozen.
Frozen ==
    LET k == act[Owner]
        left == k.todo \ {k.route}
    IN  Becomes(Owner, IF left = {}
                       THEN [k EXCEPT !.pc = "publish", !.todo = Route]
                       ELSE [k EXCEPT !.pc = "prepare", !.todo = left])

\* prepare_fenced_response, Tx1.
Prepare ==
    LET r == act[Owner].route
        fits == IF r \in intent THEN obligation[r] = "publishing"
                                ELSE obligation[r] = "pending"
    IN  /\ act[Owner].pc = "freeze" /\ lock = NoOne
        /\ IF Current(Owner) /\ execution = "active" /\ fits
             THEN /\ intent' = intent \cup {r}
                  /\ obligation' = [obligation EXCEPT ![r] = "publishing"]
                  /\ Frozen
             ELSE Refused(Owner) /\ UNCHANGED <<intent, obligation>>
        /\ UNCHANGED <<dispatch, receipt, execution, bus, registry, process,
                       fence, lock, sends, bounds>>

\* Mutant: the prior dispatch of an earlier call is taken for this call's own.
DispatchAgain ==
    LET k == act[Owner]
    IN  /\ k.pc = "dispatch" /\ lock = NoOne
        /\ IF k.route \in receipt /\ Current(Owner)
             THEN Continue(Owner) /\ UNCHANGED dispatch
             ELSE IF Current(Owner) /\ execution = "active" /\ PublishingIntent(k.route)
             THEN /\ dispatch' = dispatch \cup {k.route}
                  /\ Becomes(Owner, [k EXCEPT !.pc = "settle", !.first = TRUE])
             ELSE Refused(Owner) /\ UNCHANGED dispatch
        /\ UNCHANGED <<intent, receipt, obligation, execution, bus, registry,
                       process, fence, lock, sends, bounds>>

\* _settle_fenced_response, its first transaction: the durable barrier that
\* tells the first append from a lost one.
Dispatch ==
    LET k == act[Owner]
    IN  /\ k.pc = "dispatch" /\ lock = NoOne
        /\ IF k.route \in receipt /\ Current(Owner)
             THEN Continue(Owner) /\ UNCHANGED dispatch
             ELSE IF Current(Owner) /\ execution = "active" /\ PublishingIntent(k.route)
             THEN /\ dispatch' = dispatch \cup {k.route}
                  /\ Becomes(Owner, [k EXCEPT !.pc = "settle",
                                              !.first = k.route \notin dispatch])
             ELSE Refused(Owner) /\ UNCHANGED dispatch
        /\ UNCHANGED <<intent, receipt, obligation, execution, bus, registry,
                       process, fence, lock, sends, bounds>>

\* Mutant: the second transaction trusts the first one's registry check.
SettleStale ==
    LET k == act[Owner]
    IN  /\ k.pc = "settle" /\ lock = NoOne
        /\ IF k.route \in receipt
             THEN Continue(Owner) /\ UNCHANGED lock
             ELSE IF /\ execution = "active" /\ PublishingIntent(k.route)
                     /\ k.route \in dispatch /\ (k.route \in row \/ k.first)
             THEN /\ lock' = Owner
                  /\ Becomes(Owner, [k EXCEPT !.pc = IF k.route \in row THEN "commit"
                                                                       ELSE "append"])
             ELSE Refused(Owner) /\ UNCHANGED lock
        /\ UNCHANGED <<durable, bus, registry, process, fence, sends, bounds>>

\* Its second transaction: a receipt is read again, a row that exists is
\* acknowledged, an absent one is appended by the call that dispatched it.
Settle ==
    LET k == act[Owner]
    IN  /\ k.pc = "settle" /\ lock = NoOne
        /\ IF k.route \in receipt /\ Current(Owner)
             THEN Continue(Owner) /\ UNCHANGED lock
             ELSE IF /\ Current(Owner) /\ execution = "active" /\ PublishingIntent(k.route)
                     /\ k.route \in dispatch /\ (k.route \in row \/ k.first)
             THEN /\ lock' = Owner
                  /\ Becomes(Owner, [k EXCEPT !.pc = IF k.route \in row THEN "commit"
                                                                       ELSE "append"])
             ELSE Refused(Owner) /\ UNCHANGED lock
        /\ UNCHANGED <<durable, bus, registry, process, fence, sends, bounds>>

\* _publish_keyed_response_unlocked: the bus commits on its own.
Append ==
    /\ act[Owner].pc = "append"
    /\ row' = row \cup {act[Owner].route}
    /\ sends' = [sends EXCEPT ![act[Owner].route] = @ + 1]
    /\ Becomes(Owner, [act[Owner] EXCEPT !.pc = "commit"])
    /\ UNCHANGED <<durable, claims, registry, process, fence, lock, bounds>>

\* The append is refused by the bus or by its checks.
AppendFails ==
    /\ act[Owner].pc = "append" /\ faults < MaxFaults
    /\ faults' = faults + 1
    /\ sends' = [sends EXCEPT ![act[Owner].route] = @ + 1]
    /\ lock' = NoOne
    /\ Refused(Owner)
    /\ UNCHANGED <<durable, bus, registry, process, fence, calls, writes, lives>>

-----------------------------------------------------------------------------
(* PublicationAppendDispatches.complete, of a publication or a resolution *)

Last(a) == \A r \in Route \ {act[a].route} : obligation[r] = "published"

\* finish_publications: the bus releases the claims before the SQL commit.
ReleaseClaims(a) ==
    /\ act[a].pc = "commit" /\ Last(a) /\ claims
    /\ claims' = FALSE
    /\ UNCHANGED <<durable, row, registry, process, fence, act, lock, sends, bounds>>

\* Mutant: the last route's commit does not wait for the claims' release.
CommitUnreleased(a) ==
    LET r == act[a].route
    IN  /\ act[a].pc = "commit"
        /\ receipt' = receipt \cup {r}
        /\ obligation' = [obligation EXCEPT ![r] = "published"]
        /\ execution' = IF Last(a) THEN "completed" ELSE execution
        /\ lock' = NoOne
        /\ Continue(a)
        /\ UNCHANGED <<intent, dispatch, bus, registry, process, fence, sends, bounds>>

\* The SQL commit: the receipt, the obligation and, with the last route, the
\* attempt, the execution, its assignments and the owner's pointer.
Commit(a) ==
    LET r == act[a].route
    IN  /\ act[a].pc = "commit" /\ ~(Last(a) /\ claims)
        /\ receipt' = receipt \cup {r}
        /\ obligation' = [obligation EXCEPT ![r] = "published"]
        /\ execution' = IF Last(a) THEN "completed" ELSE execution
        /\ lock' = NoOne
        /\ Continue(a)
        /\ UNCHANGED <<intent, dispatch, bus, registry, process, fence, sends, bounds>>

-----------------------------------------------------------------------------
(* PublicationAppendDispatches.resolve_retained: acknowledge existing rows *)

Resolving(a) ==
    Becomes(a, [Idle EXCEPT !.pc = "resolve", !.todo = intent \ receipt,
                            !.cut = registry, !.next = "resolve"])

\* SelectedParticipant.prepare: a live owner, before its next turn.
PrepareTurn ==
    /\ process /\ registry.status = "idle"
    /\ act[Owner].pc \in {"idle", "refused"}
    /\ execution = "active"
    /\ Resolving(Owner)
    /\ UNCHANGED <<durable, bus, registry, process, fence, lock, sends, bounds>>

\* RecoveryMonitorCapability.recover_owners: the owner was stopped, its
\* process is gone and its pointer is unresolved.
RecoverOwner ==
    /\ ~process /\ registry.status = "stopped"
    /\ act[Recovery].pc \in {"idle", "refused"}
    /\ execution = "active"
    /\ Resolving(Recovery)
    /\ UNCHANGED <<durable, bus, registry, process, fence, lock, sends, bounds>>

\* Mutant: a dispatch counts as the acknowledgement of its row.
ResolveDispatched(a, r) ==
    LET k == act[a]
    IN  /\ k.pc = "resolve" /\ r \in k.todo /\ lock = NoOne
        /\ IF Current(a) /\ execution = "active" /\ PublishingIntent(r) /\ r \in dispatch
             THEN lock' = a /\ Becomes(a, [k EXCEPT !.pc = "commit", !.route = r])
             ELSE Refused(a) /\ UNCHANGED lock
        /\ UNCHANGED <<durable, bus, registry, process, fence, sends, bounds>>

ResolveRow(a, r) ==
    LET k == act[a]
    IN  /\ k.pc = "resolve" /\ r \in k.todo /\ lock = NoOne
        /\ IF /\ Current(a) /\ execution = "active" /\ PublishingIntent(r)
              /\ r \in dispatch /\ r \in row
             THEN lock' = a /\ Becomes(a, [k EXCEPT !.pc = "commit", !.route = r])
             ELSE Refused(a) /\ UNCHANGED lock
        /\ UNCHANGED <<durable, bus, registry, process, fence, sends, bounds>>

\* Nothing retained is left.  A recovery goes on to settle the attempt when
\* the pointer is still unresolved (DispatchedOwnerLoss.settle).
Resolved(a) ==
    /\ act[a].pc = "resolve" /\ act[a].todo = {}
    /\ Becomes(a, IF a = Recovery /\ execution = "active"
                  THEN [act[a] EXCEPT !.pc = "abandon"] ELSE Idle)
    /\ UNCHANGED <<durable, bus, registry, process, fence, lock, sends, bounds>>

-----------------------------------------------------------------------------
(* Settlement without a publication *)

\* SelectedRequest._settle_unknown after a refused call: the owner's own
\* fail_unknown, on a cut of its own.
FailUnknown ==
    /\ process /\ fence /\ act[Owner].pc = "refused"
    /\ registry.status = "running"
    /\ Becomes(Owner, [Idle EXCEPT !.pc = "abandon", !.cut = registry])
    /\ UNCHANGED <<durable, bus, registry, process, fence, lock, sends, bounds>>

\* Mutant: frozen publications do not hold back the settlement.
AbandonFrozen(a) ==
    /\ act[a].pc = "abandon" /\ lock = NoOne
    /\ IF Current(a) /\ execution = "active"
         THEN /\ lock' = a /\ claims' = FALSE
              /\ Becomes(a, [act[a] EXCEPT !.pc = "abandoning"])
         ELSE Becomes(a, Idle) /\ UNCHANGED <<lock, claims>>
    /\ UNCHANGED <<durable, row, registry, process, fence, sends, bounds>>

\* fail_unknown and terminalize_dead_attempt refuse while a publication is
\* frozen; otherwise settle releases the claims on the bus first.
Abandon(a) ==
    /\ act[a].pc = "abandon" /\ lock = NoOne
    /\ IF Current(a) /\ execution = "active" /\ intent = {}
         THEN /\ lock' = a /\ claims' = FALSE
              /\ Becomes(a, [act[a] EXCEPT !.pc = "abandoning"])
         ELSE Becomes(a, Idle) /\ UNCHANGED <<lock, claims>>
    /\ UNCHANGED <<durable, row, registry, process, fence, sends, bounds>>

\* RecoverySnapshot.settle commits: failed stands for failed or deferred.
CommitAbandon(a) ==
    /\ act[a].pc = "abandoning"
    /\ execution' = "failed"
    /\ obligation' = [r \in Route |-> "failed"]
    /\ lock' = NoOne
    /\ Becomes(a, Idle)
    /\ UNCHANGED <<intent, dispatch, receipt, bus, registry, process, fence, sends, bounds>>

-----------------------------------------------------------------------------
(* Failures and the rest of the system *)

\* A store is busy, held for maintenance or full: the transaction is refused.
Unavailable(a) ==
    /\ act[a].pc \in {"freeze", "dispatch", "settle", "resolve", "abandon"}
    /\ faults < MaxFaults /\ faults' = faults + 1
    /\ Refused(a)
    /\ UNCHANGED <<durable, bus, registry, process, fence, lock, sends,
                   calls, writes, lives>>

\* The SQL commit fails after the bus has committed: only the SQL rolls back.
RollBack(a) ==
    /\ act[a].pc \in {"commit", "abandoning"}
    /\ faults < MaxFaults /\ faults' = faults + 1
    /\ lock' = NoOne
    /\ Refused(a)
    /\ UNCHANGED <<durable, bus, registry, process, fence, sends, calls, writes, lives>>

Unlock(a) == lock' = IF lock = a THEN NoOne ELSE lock

\* The owner's process dies at any point; its uncommitted SQL goes with it.
Crash ==
    /\ process /\ process' = FALSE /\ fence' = FALSE
    /\ Becomes(Owner, Idle) /\ Unlock(Owner)
    /\ UNCHANGED <<durable, bus, registry, sends, bounds>>

CrashRecovery ==
    /\ act[Recovery] # Idle /\ faults < MaxFaults
    /\ faults' = faults + 1
    /\ Becomes(Recovery, Idle) /\ Unlock(Recovery)
    /\ UNCHANGED <<durable, bus, registry, process, fence, sends, calls, writes, lives>>

\* The owner's process is started again; the fence's token died with the old.
Restart ==
    /\ ~process /\ lives < MaxLives
    /\ lives' = lives + 1 /\ process' = TRUE
    /\ RegistryWrite(1, "idle")
    /\ UNCHANGED <<durable, bus, fence, act, lock, sends, calls, writes, faults>>

\* release_turn, when the turn's call is over.
FinishTurn ==
    /\ process /\ registry.status = "running" /\ act[Owner].pc \in {"idle", "refused"}
    /\ RegistryWrite(1, "idle") /\ fence' = FALSE
    /\ UNCHANGED <<durable, bus, process, act, lock, sends, bounds>>

\* The owner is stopped, whatever it is doing; a held read lock delays it.
StopOwner ==
    /\ registry.status # "stopped"
    /\ RegistryWrite(1, "stopped")
    /\ UNCHANGED <<durable, bus, process, fence, act, lock, sends, bounds>>

\* Another thread writes the registry.
OtherWrite ==
    /\ writes < MaxWrites /\ writes' = writes + 1
    /\ RegistryWrite(0, registry.status)
    /\ UNCHANGED <<durable, bus, process, fence, act, lock, sends, calls, lives, faults>>

-----------------------------------------------------------------------------
OwnerStep ==
    \/ PublishResponses \/ Prepare \/ Dispatch \/ Settle \/ Append \/ AppendFails
    \/ PrepareTurn \/ FailUnknown
    \/ \E r \in Route : PublishAgain(r) \/ Capture(r)

SharedStep(a) ==
    \/ ReleaseClaims(a) \/ Commit(a) \/ Resolved(a)
    \/ Abandon(a) \/ CommitAbandon(a) \/ Unavailable(a) \/ RollBack(a)
    \/ \E r \in Route : ResolveRow(a, r)

Environment ==
    \/ Crash \/ CrashRecovery \/ Restart \/ FinishTurn \/ StopOwner \/ OtherWrite

Next == OwnerStep \/ RecoverOwner \/ (\E a \in Actor : SharedStep(a)) \/ Environment

Spec == Init /\ [][Next]_vars

-----------------------------------------------------------------------------
(* Properties *)

\* Every variable keeps the shape of its rows, and the locks have a holder
\* exactly while a process is inside a transaction that spans a bus write.
TypeOK ==
    /\ intent \subseteq Route /\ dispatch \subseteq Route
    /\ receipt \subseteq Route /\ row \subseteq Route
    /\ obligation \in [Route -> {"pending", "publishing", "published", "failed"}]
    /\ execution \in {"active", "completed", "failed"}
    /\ claims \in BOOLEAN /\ process \in BOOLEAN /\ fence \in BOOLEAN
    /\ registry \in Registry
    /\ act \in [Actor -> Activity]
    /\ lock \in Actor \cup {NoOne}
    /\ \A a \in Actor :
          (lock = a) <=> act[a].pc \in {"append", "commit", "abandoning"}
    /\ sends \in [Route -> Nat]
    /\ calls \in 0..MaxCalls /\ writes \in 0..MaxWrites
    /\ lives \in 0..MaxLives /\ faults \in 0..MaxFaults

\* A reply is handed to the bus at most once, whatever crashes, refusals,
\* restarts, repeated calls and recoveries follow: "no automatic retry is
\* authorized" once a dispatch is durable (_settle_fenced_response).
SentAtMostOnce == \A r \in Route : sends[r] <= 1

\* A row on the bus can always still be acknowledged: its dispatch is durable,
\* every reply of the execution was frozen before it, and either its receipt
\* is recorded or the execution is still current with the route publishing.
\* So no settlement ever overtakes a published reply (resolve_retained).
RowIsRecoverable ==
    \A r \in row :
        /\ r \in dispatch /\ intent = Route
        /\ r \in receipt \/ (execution = "active" /\ obligation[r] = "publishing")

\* The coordinator never acknowledges a reply the bus does not hold, and an
\* execution completes exactly when all of its replies are acknowledged.
AcknowledgedHasRow ==
    /\ receipt \subseteq row
    /\ \A r \in Route : r \in receipt <=> obligation[r] = "published"
    /\ execution = "completed" <=> receipt = Route

\* A settled attempt leaves no resource claim behind, although the claims are
\* on the bus and the settlement in the coordinator (release_resources).
SettledHoldsNoClaim == execution # "active" => ~claims

\* Nothing is appended once the registry no longer shows the owner's turn
\* running: "A stop before the boundary refuses publication, whereas a
\* concurrent stop linearizes after commit" (module docstring).
AppendsWhileRunning ==
    [][row' # row => registry.status = "running" /\ process]_vars
=============================================================================
