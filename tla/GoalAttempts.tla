---------------------------- MODULE GoalAttempts ----------------------------
(***************************************************************************)
(* The goal attempt ledger: the SQLite tables goal generations, attempts,  *)
(* work decisions and provider usage, the GoalAttemptStore instances       *)
(* (one per process) that write them, and the callers inside those         *)
(* processes.                                                              *)
(*                                                                         *)
(* A store method is one transaction, followed by an attestation (fsync    *)
(* and a readback on a fresh connection) that runs after COMMIT without    *)
(* the write lock.  The commit and the attestation are therefore two       *)
(* steps: another process may commit in between, and the attestation may   *)
(* fail although the row is visible.  A method that raises before COMMIT   *)
(* leaves the ledger as it was and is not an action, except where it       *)
(* changes what the process remembers.                                     *)
(***************************************************************************)
EXTENDS Naturals, FiniteSets

CONSTANTS GoalId,        \* goal identities
          AttemptId,     \* attempt identities, minted by reserve
          Grant,         \* ready-grant secrets, minted by _ready_change
          WorkDecision,  \* identities of explicit retries and fresh orders
          UsageChargeId, \* provider response identities
          Store,         \* GoalAttemptStore instances, one per process
          Caller,        \* threads of control that call a store
          StoreOf,       \* the store each caller uses
          NoAttemptId, NoGrant, NoGoal,
          MaxGeneration  \* bound on generation numbers

ASSUME StoreOfAssumption == StoreOf \in [Caller -> Store]
ASSUME MaxGenerationAssumption == MaxGeneration \in Nat
ASSUME AbsenceAssumption ==
    NoAttemptId \notin AttemptId /\ NoGrant \notin Grant /\ NoGoal \notin GoalId

VARIABLES
    generations, \* durable: the generation row of each goal
    attempts,    \* durable: the attempt row of each attempt identity
    decisions,   \* durable: used work decisions, [goal, decision, generation]
    usage,       \* durable: charged provider responses, [attempt, response]
    readyGrants, \* per store: _ready_grants, entries [goal, generation, grant]
    owned,       \* per store: _owned
    call,        \* per caller: what it is in the middle of
    minted,      \* every grant secret drawn so far
    published,   \* history: grants that some store published after attestation
    authority,   \* history: the grant each reservation consumed
    launches     \* history: how often claim_launch returned a permit

ledger == <<generations, attempts, decisions, usage>>
memory == <<readyGrants, owned>>
history == <<published, authority, launches>>
vars == <<ledger, memory, call, minted, history>>

-----------------------------------------------------------------------------
(* Lifecycles of a generation and phases of an attempt. *)

GenerationSuccessors ==
    [absent    |-> {},
     ready     |-> {"ready", "reserved", "cancelled"},
     reserved  |-> {"ready", "blocked", "completed", "cancelled"},
     blocked   |-> {"ready", "cancelled"},
     completed |-> {},
     cancelled |-> {}]

AttemptSuccessors ==
    [unrecorded |-> {},
     reserved   |-> {"claimed", "failed", "resolved"},
     claimed    |-> {"failed", "succeeded", "resolved"},
     failed     |-> {"resolved"},
     succeeded  |-> {},
     resolved   |-> {}]

Lifecycle == {"absent", "ready", "reserved", "blocked", "completed", "cancelled"}
Phase == {"unrecorded", "reserved", "claimed", "failed", "succeeded", "resolved"}
Resolution == {"none", "failed", "stopped", "decided", "cleared"}

\* The ledger stores sha256(grant) and never the grant: an injective image.
GrantDigest(grant) == <<"sha256", grant>>
NoDigest == <<"empty", NoGrant>>

Generation(number, lifecycle, attempt, digest) ==
    [number |-> number, lifecycle |-> lifecycle, attempt |-> attempt, digest |-> digest]

NoGeneration == Generation(0, "absent", NoAttemptId, NoDigest)

AttemptRecord(goal, number, phase, resolution) ==
    [goal |-> goal, generation |-> number, phase |-> phase, resolution |-> resolution]

NoAttempt == AttemptRecord(NoGoal, 0, "unrecorded", "none")

GenerationRows ==
    [number : Nat, lifecycle : Lifecycle, attempt : AttemptId \cup {NoAttemptId},
     digest : {GrantDigest(k) : k \in Grant} \cup {NoDigest}]
AttemptRows ==
    [goal : GoalId \cup {NoGoal}, generation : Nat, phase : Phase, resolution : Resolution]

\* Where a caller stands: between calls, holding a grant, a reservation or a
\* launch permit, or between the COMMIT and the attestation of one method.
Steps == {"idle", "granted", "reserved", "launched",
          "attest_ready", "attest_recovered", "attest_reserve", "attest_claim",
          "attest_retire"}

CallState(step, goal, number, attempt, grant) ==
    [step |-> step, goal |-> goal, generation |-> number, attempt |-> attempt,
     grant |-> grant]

Idle == CallState("idle", NoGoal, 0, NoAttemptId, NoGrant)

CallStates ==
    [step : Steps, goal : GoalId \cup {NoGoal}, generation : Nat,
     attempt : AttemptId \cup {NoAttemptId}, grant : Grant \cup {NoGrant}]

GrantEntries == [goal : GoalId, generation : Nat, grant : Grant]

TypeOK ==
    /\ generations \in [GoalId -> GenerationRows]
    /\ attempts \in [AttemptId -> AttemptRows]
    /\ decisions \subseteq [goal : GoalId, decision : WorkDecision, generation : Nat]
    /\ usage \subseteq [attempt : AttemptId, response : UsageChargeId]
    /\ readyGrants \in [Store -> SUBSET GrantEntries]
    /\ owned \in [Store -> SUBSET AttemptId]
    /\ call \in [Caller -> CallStates]
    /\ minted \subseteq Grant
    /\ published \subseteq Grant
    /\ authority \in [AttemptId -> Grant \cup {NoGrant}]
    /\ launches \in [AttemptId -> Nat]

Init ==
    /\ generations = [g \in GoalId |-> NoGeneration]
    /\ attempts = [a \in AttemptId |-> NoAttempt]
    /\ decisions = {}
    /\ usage = {}
    /\ readyGrants = [s \in Store |-> {}]
    /\ owned = [s \in Store |-> {}]
    /\ call = [c \in Caller |-> Idle]
    /\ minted = {}
    /\ published = {}
    /\ authority = [a \in AttemptId |-> NoGrant]
    /\ launches = [a \in AttemptId |-> 0]

-----------------------------------------------------------------------------
(* Rows as the transactions read and write them. *)

Advance(g, row) ==
    /\ row.lifecycle \in GenerationSuccessors[generations[g].lifecycle]
    /\ generations' = [generations EXCEPT ![g] = row]

AdvanceAttempt(a, phase, resolution) ==
    /\ phase \in AttemptSuccessors[attempts[a].phase]
    /\ attempts' = [attempts EXCEPT ![a].phase = phase, ![a].resolution = resolution]

UnreservedReady(g) ==
    generations[g].lifecycle = "ready" /\ generations[g].attempt = NoAttemptId

HasReadyGrant(g, number, grant) ==
    /\ generations[g].lifecycle = "ready"
    /\ generations[g].number = number
    /\ generations[g].digest = GrantDigest(grant)

\* The row and the attempt both still belong to reservation a.
IsCurrent(g, number, a, phase) ==
    /\ generations[g] = Generation(number, "reserved", a, NoDigest)
    /\ attempts[a].goal = g
    /\ attempts[a].generation = number
    /\ attempts[a].phase = phase

HoldsReadyGrant(s, g) ==
    \E e \in readyGrants[s] :
        e.goal = g /\ HasReadyGrant(g, e.generation, e.grant)

Forget(s, g, number) ==
    {e \in readyGrants[s] : ~(e.goal = g /\ e.generation = number)}

\* Mutant: an owner's attempt is settled without its exit release.
OwnerPresumedExited(a) == a = a

OwnerExited(a) == \A c \in Caller : call[c].attempt # a

\* Mutant: the grant is published before the commit is attested.
ReadyChangePublishedEarly(c, g, number, grant, step) ==
    /\ number <= MaxGeneration
    /\ grant \notin minted
    /\ minted' = minted \cup {grant}
    /\ readyGrants' = [readyGrants EXCEPT ![StoreOf[c]] =
         @ \cup {[goal |-> g, generation |-> number, grant |-> grant]}]
    /\ call' = [call EXCEPT ![c] = CallState(step, g, number, NoAttemptId, grant)]
    /\ UNCHANGED <<owned, history>>

\* The transaction of _ready_change: a fresh secret whose digest makes the
\* row ready; the secret itself stays with the caller until attestation.
ReadyChange(c, g, number, grant, step) ==
    /\ number <= MaxGeneration
    /\ grant \notin minted
    /\ minted' = minted \cup {grant}
    /\ call' = [call EXCEPT ![c] = CallState(step, g, number, NoAttemptId, grant)]
    /\ UNCHANGED <<memory, history>>

-----------------------------------------------------------------------------
(* Entering and recovering READY. *)

\* Mutant: a retired goal identity may be created again.
CreateGoalOverRetired(c, g, grant) ==
    /\ call[c].step = "idle"
    /\ generations[g].lifecycle \in {"absent", "cancelled"}
    /\ ReadyChange(c, g, 1, grant, "attest_ready")
    /\ generations' =
         [generations EXCEPT ![g] = Generation(1, "ready", NoAttemptId, GrantDigest(grant))]
    /\ UNCHANGED <<attempts, decisions, usage>>

CreateGoal(c, g, grant) ==
    /\ call[c].step = "idle"
    /\ generations[g] = NoGeneration
    /\ ReadyChange(c, g, 1, grant, "attest_ready")
    /\ generations' =
         [generations EXCEPT ![g] = Generation(1, "ready", NoAttemptId, GrantDigest(grant))]
    /\ UNCHANGED <<attempts, decisions, usage>>

\* ready_goal_grant_locked: this store's own acknowledged grant ...
ReadyGrant(c, g) ==
    /\ call[c].step = "idle"
    /\ \E e \in readyGrants[StoreOf[c]] :
         /\ e.goal = g
         /\ HasReadyGrant(g, e.generation, e.grant)
         /\ call' = [call EXCEPT ![c] =
                       CallState("granted", g, e.generation, NoAttemptId, e.grant)]
    /\ UNCHANGED <<ledger, memory, minted, history>>

\* ... or, without one, a rotated grant for the same generation.
RecoverUnreservedReady(c, g, grant) ==
    /\ call[c].step = "idle"
    /\ UnreservedReady(g)
    /\ ~HoldsReadyGrant(StoreOf[c], g)
    /\ ReadyChange(c, g, generations[g].number, grant, "attest_recovered")
    /\ Advance(g, Generation(generations[g].number, "ready", NoAttemptId, GrantDigest(grant)))
    /\ UNCHANGED <<attempts, decisions, usage>>

\* fsync and readback succeeded: only now does the store know the grant.
AttestReady(c) ==
    LET k == call[c]
        s == StoreOf[c]
    IN
    /\ k.step \in {"attest_ready", "attest_recovered"}
    /\ HasReadyGrant(k.goal, k.generation, k.grant)
    /\ readyGrants' = [readyGrants EXCEPT ![s] =
         Forget(s, k.goal, k.generation)
           \cup {[goal |-> k.goal, generation |-> k.generation, grant |-> k.grant]}]
    /\ published' = published \cup {k.grant}
    /\ call' = [call EXCEPT ![c] =
         IF k.step = "attest_recovered" THEN [k EXCEPT !.step = "granted"] ELSE Idle]
    /\ UNCHANGED <<ledger, owned, minted, authority, launches>>

-----------------------------------------------------------------------------
(* Launching: reserve, then claim_launch. *)

Reserve(c, a) ==
    LET k == call[c] IN
    /\ k.step = "granted"
    /\ UnreservedReady(k.goal)
    /\ HasReadyGrant(k.goal, k.generation, k.grant)
    /\ attempts[a] = NoAttempt
    /\ attempts' = [attempts EXCEPT ![a] =
         AttemptRecord(k.goal, k.generation, "reserved", "none")]
    /\ Advance(k.goal, Generation(k.generation, "reserved", a, NoDigest))
    /\ authority' = [authority EXCEPT ![a] = k.grant]
    /\ call' = [call EXCEPT ![c] = [k EXCEPT !.step = "attest_reserve", !.attempt = a]]
    /\ UNCHANGED <<decisions, usage, memory, minted, published, launches>>

AttestReserve(c) ==
    LET k == call[c]
        s == StoreOf[c]
    IN
    /\ k.step = "attest_reserve"
    /\ IsCurrent(k.goal, k.generation, k.attempt, "reserved")
    /\ readyGrants' = [readyGrants EXCEPT ![s] = Forget(s, k.goal, k.generation)]
    /\ owned' = [owned EXCEPT ![s] = @ \cup {k.attempt}]
    /\ call' = [call EXCEPT ![c] = [k EXCEPT !.step = "reserved"]]
    /\ UNCHANGED <<ledger, minted, history>>

ClaimLaunch(c) ==
    LET k == call[c] IN
    /\ k.step = "reserved"
    /\ k.attempt \in owned[StoreOf[c]]
    /\ IsCurrent(k.goal, k.generation, k.attempt, "reserved")
    /\ AdvanceAttempt(k.attempt, "claimed", "none")
    /\ call' = [call EXCEPT ![c] = [k EXCEPT !.step = "attest_claim"]]
    /\ UNCHANGED <<generations, decisions, usage, memory, minted, history>>

\* Mutant: the permit is returned without the readback.
AttestClaimUnread(c) ==
    LET k == call[c] IN
    /\ k.step = "attest_claim"
    /\ owned' = [owned EXCEPT ![StoreOf[c]] = @ \ {k.attempt}]
    /\ launches' = [launches EXCEPT ![k.attempt] = @ + 1]
    /\ call' = [call EXCEPT ![c] = [k EXCEPT !.step = "launched"]]
    /\ UNCHANGED <<ledger, readyGrants, minted, published, authority>>

\* The permit is returned: the caller launches a native turn.
AttestClaim(c) ==
    LET k == call[c] IN
    /\ k.step = "attest_claim"
    /\ IsCurrent(k.goal, k.generation, k.attempt, "claimed")
    /\ owned' = [owned EXCEPT ![StoreOf[c]] = @ \ {k.attempt}]
    /\ launches' = [launches EXCEPT ![k.attempt] = @ + 1]
    /\ call' = [call EXCEPT ![c] = [k EXCEPT !.step = "launched"]]
    /\ UNCHANGED <<ledger, readyGrants, minted, published, authority>>

-----------------------------------------------------------------------------
(* Settling a launched turn, by the caller that holds its permit. *)

Holding(c) ==
    /\ call[c].step = "launched"
    /\ IsCurrent(call[c].goal, call[c].generation, call[c].attempt, "claimed")

\* Mutant: the next ready row keeps the generation number.
AdvanceReadySameNumber(c, g, a, phase, resolution, grant) ==
    /\ ReadyChange(c, g, generations[g].number, grant, "attest_ready")
    /\ AdvanceAttempt(a, phase, resolution)
    /\ Advance(g, Generation(generations[g].number, "ready", NoAttemptId, GrantDigest(grant)))
    /\ UNCHANGED <<decisions, usage>>

\* advance_ready: the attempt's outcome and the next ready generation.
AdvanceReady(c, g, a, phase, resolution, grant) ==
    LET number == generations[g].number + 1 IN
    /\ ReadyChange(c, g, number, grant, "attest_ready")
    /\ AdvanceAttempt(a, phase, resolution)
    /\ Advance(g, Generation(number, "ready", NoAttemptId, GrantDigest(grant)))
    /\ UNCHANGED <<decisions, usage>>

RecordVerifiedProgress(c, grant) ==
    /\ Holding(c)
    /\ AdvanceReady(c, call[c].goal, call[c].attempt, "succeeded", "none", grant)

Stop(c, grant) ==
    /\ Holding(c)
    /\ AdvanceReady(c, call[c].goal, call[c].attempt, "failed", "stopped", grant)

RecordVerifiedCompletion(c) ==
    LET k == call[c] IN
    /\ Holding(c)
    /\ AdvanceAttempt(k.attempt, "succeeded", "none")
    /\ Advance(k.goal, Generation(k.generation, "completed", k.attempt, NoDigest))
    /\ call' = [call EXCEPT ![c] = Idle]
    /\ UNCHANGED <<decisions, usage, memory, minted, history>>

\* Reservation.fail, also reached through retire_unverified and fail_origin.
Fail(c) ==
    LET k == call[c] IN
    /\ Holding(c)
    /\ AdvanceAttempt(k.attempt, "failed", "failed")
    /\ Advance(k.goal, Generation(k.generation, "blocked", k.attempt, NoDigest))
    /\ call' = [call EXCEPT ![c] = Idle]
    /\ UNCHANGED <<decisions, usage, memory, minted, history>>

RecordProviderUsage(c, response) ==
    /\ Holding(c)
    /\ usage' = usage \cup {[attempt |-> call[c].attempt, response |-> response]}
    /\ UNCHANGED <<generations, attempts, decisions, memory, call, minted, history>>

-----------------------------------------------------------------------------
(* Explicit decisions about work nobody is running. *)

\* settle_stopped_owners: the permit is rebuilt from the ledger, but only
\* for an owner whose release says its process has exited.
StopReleasedOwner(c, g, grant) ==
    LET a == generations[g].attempt IN
    /\ call[c].step = "idle"
    /\ generations[g].lifecycle = "reserved"
    /\ OwnerExited(a)
    /\ IsCurrent(g, generations[g].number, a, "claimed")
    /\ AdvanceReady(c, g, a, "failed", "stopped", grant)

\* Mutant: the decision is checked but never recorded.
CheckDecisionOnly(g, decision) ==
    /\ \A used \in decisions : ~(used.goal = g /\ used.decision = decision)
    /\ UNCHANGED decisions

ClaimDecision(g, decision) ==
    /\ \A used \in decisions : ~(used.goal = g /\ used.decision = decision)
    /\ decisions' = decisions \cup
         {[goal |-> g, decision |-> decision, generation |-> generations[g].number]}

AuthorizeReadyRecovery(c, g, decision, grant) ==
    LET number == generations[g].number + 1 IN
    /\ call[c].step = "idle"
    /\ UnreservedReady(g)
    /\ ClaimDecision(g, decision)
    /\ ReadyChange(c, g, number, grant, "attest_ready")
    /\ Advance(g, Generation(number, "ready", NoAttemptId, GrantDigest(grant)))
    /\ UNCHANGED <<attempts, usage>>

AuthorizeRetry(c, g, decision, grant) ==
    LET number == generations[g].number + 1
        a == generations[g].attempt
    IN
    /\ call[c].step = "idle"
    /\ generations[g].lifecycle = "blocked"
    /\ attempts[a].goal = g /\ attempts[a].generation = generations[g].number
    /\ attempts[a].phase = "failed"
    /\ ClaimDecision(g, decision)
    /\ AdvanceAttempt(a, "resolved", "decided")
    /\ ReadyChange(c, g, number, grant, "attest_ready")
    /\ Advance(g, Generation(number, "ready", NoAttemptId, GrantDigest(grant)))
    /\ UNCHANGED usage

\* An attempt retires with its goal when the generation's lifecycle permits.
RetireAttempt(g) ==
    LET a == generations[g].attempt IN
    IF a = NoAttemptId
    THEN generations[g].lifecycle = "ready" /\ UNCHANGED attempts
    ELSE /\ attempts[a].goal = g /\ attempts[a].generation = generations[g].number
         /\ \/ generations[g].lifecycle = "reserved"
               /\ "failed" \in AttemptSuccessors[attempts[a].phase]
            \/ generations[g].lifecycle = "blocked" /\ attempts[a].phase = "failed"
         /\ AdvanceAttempt(a, "resolved", "cleared")

RetireGoal(c, g) ==
    LET row == generations[g] IN
    /\ call[c].step = "idle"
    /\ RetireAttempt(g)
    /\ Advance(g, Generation(row.number, "cancelled", row.attempt, NoDigest))
    /\ call' = [call EXCEPT ![c] =
         CallState("attest_retire", g, row.number, row.attempt, NoGrant)]
    /\ UNCHANGED <<decisions, usage, memory, minted, history>>

AttestRetire(c) ==
    LET k == call[c]
        s == StoreOf[c]
    IN
    /\ k.step = "attest_retire"
    /\ generations[k.goal] = Generation(k.generation, "cancelled", k.attempt, NoDigest)
    /\ readyGrants' = [readyGrants EXCEPT ![s] = Forget(s, k.goal, k.generation)]
    /\ owned' = [owned EXCEPT ![s] = @ \ {k.attempt}]
    /\ call' = [call EXCEPT ![c] = Idle]
    /\ UNCHANGED <<ledger, minted, history>>

-----------------------------------------------------------------------------
(* Errors and crashes. *)

\* A method raises: a refused transaction, a busy store, or a failed fsync or
\* readback.  claim_launch forgets the reservation on every way out.
Raise(c) ==
    LET k == call[c] IN
    /\ k.step # "idle"
    /\ owned' = [owned EXCEPT ![StoreOf[c]] =
         IF k.step \in {"reserved", "attest_claim"} THEN @ \ {k.attempt} ELSE @]
    /\ call' = [call EXCEPT ![c] = Idle]
    /\ UNCHANGED <<ledger, readyGrants, minted, history>>

\* The process dies and a new one opens the ledger: grants and ownership are
\* process-local and start empty.
Crash(s) ==
    /\ readyGrants' = [readyGrants EXCEPT ![s] = {}]
    /\ owned' = [owned EXCEPT ![s] = {}]
    /\ call' = [c \in Caller |-> IF StoreOf[c] = s THEN Idle ELSE call[c]]
    /\ UNCHANGED <<ledger, minted, history>>

CallerStep(c) ==
    \/ \E g \in GoalId, grant \in Grant :
          \/ CreateGoal(c, g, grant)
          \/ RecoverUnreservedReady(c, g, grant)
          \/ StopReleasedOwner(c, g, grant)
    \/ \E g \in GoalId, grant \in Grant, decision \in WorkDecision :
          \/ AuthorizeReadyRecovery(c, g, decision, grant)
          \/ AuthorizeRetry(c, g, decision, grant)
    \/ \E g \in GoalId : ReadyGrant(c, g) \/ RetireGoal(c, g)
    \/ \E a \in AttemptId : Reserve(c, a)
    \/ \E grant \in Grant : RecordVerifiedProgress(c, grant) \/ Stop(c, grant)
    \/ \E response \in UsageChargeId : RecordProviderUsage(c, response)
    \/ AttestReady(c) \/ AttestReserve(c) \/ AttestClaim(c) \/ AttestRetire(c)
    \/ ClaimLaunch(c) \/ RecordVerifiedCompletion(c) \/ Fail(c) \/ Raise(c)

Next == (\E c \in Caller : CallerStep(c)) \/ (\E s \in Store : Crash(s))

Spec == Init /\ [][Next]_vars

-----------------------------------------------------------------------------
(* Safety. *)

Recorded(a) == attempts[a].phase # "unrecorded"

\* An attempt is unresolved (reserved or claimed) exactly when its goal's
\* generation row is reserved by it: no settlement, retry, stop or retirement
\* ever leaves a half-settled pair of rows, and no second attempt is reserved
\* over an unresolved one (Reservation.require_current, Generation.advance).
UnresolvedIsCurrent ==
    /\ \A a \in AttemptId : attempts[a].phase \in {"reserved", "claimed"} =>
         /\ attempts[a].goal \in GoalId
         /\ generations[attempts[a].goal] =
              Generation(attempts[a].generation, "reserved", a, NoDigest)
    /\ \A g \in GoalId : generations[g].lifecycle = "reserved" =>
         /\ generations[g].attempt \in AttemptId
         /\ attempts[generations[g].attempt].goal = g
         /\ attempts[generations[g].attempt].phase \in {"reserved", "claimed"}

\* One permit per attempt, and one launched attempt per goal generation,
\* whatever crashes, failed attestations and rotated grants come between
\* reserve and claim_launch.
AtMostOneLaunch ==
    \A a, b \in AttemptId :
        /\ launches[a] <= 1
        /\ launches[a] = 1 /\ launches[b] = 1 /\ attempts[a].goal = attempts[b].goal
             /\ attempts[a].generation = attempts[b].generation => a = b

\* Two callers never run turns of one goal at the same time: settling a
\* stopped owner's attempt waits for the exact exited owner's release
\* (settle_stopped_owners), and a failed turn blocks the goal by itself.
AtMostOneRunningTurn ==
    \A c, d \in Caller :
        call[c].step = "launched" /\ call[d].step = "launched"
          /\ call[c].goal = call[d].goal => c = d

\* Every reservation spent a grant that a store had published after a
\* complete commit, fsync and readback (_ready_change): a grant whose
\* attestation failed starts no work, although its digest is in the row.
ReservedFromAcknowledgedGrant ==
    \A a \in AttemptId : Recorded(a) => authority[a] \in published

\* A goal's generation number advances only for a recorded reason: verified
\* progress, a stopped turn, or an explicit decision, and a decision that
\* resolved an attempt resolved the attempt of that very generation.
EveryGenerationExplained ==
    \A g \in GoalId : \A number \in 1 .. generations[g].number - 1 :
        \/ \E a \in AttemptId :
              /\ attempts[a].goal = g /\ attempts[a].generation = number
              /\ attempts[a].phase = "succeeded" \/ attempts[a].resolution = "stopped"
        \/ \E used \in decisions : used.goal = g /\ used.generation = number

\* What is settled stays settled: a completed or cancelled goal and a
\* succeeded or resolved attempt never change, no row is forgotten, and a
\* goal's generation number never goes back.
SettledStep ==
    /\ \A g \in GoalId :
         /\ generations[g].lifecycle \in {"completed", "cancelled"} =>
              generations'[g] = generations[g]
         /\ generations'[g].number >= generations[g].number
    /\ \A a \in AttemptId :
         attempts[a].phase \in {"succeeded", "resolved"} => attempts'[a] = attempts[a]
    /\ decisions \subseteq decisions'
SettledWorkIsFinal == [][SettledStep]_vars

-----------------------------------------------------------------------------
(* The ledger implements GoalTurns. *)

StatusOf(g) ==
    CASE generations[g].lifecycle = "absent" -> "none"
      [] generations[g].lifecycle \in {"completed", "cancelled"} -> "closed"
      [] OTHER -> "open"

Turns == INSTANCE GoalTurns WITH
    status <- [g \in GoalId |-> StatusOf(g)],
    spent <- [g \in GoalId |->
        {attempts[a].generation : a \in {b \in AttemptId :
            attempts[b].goal = g /\ launches[b] > 0}}],
    turn <- [c \in Caller |-> IF call[c].step = "launched" THEN call[c].goal ELSE NoGoal]

\* The ledger with its crashes, lost grants and failed attestations runs the
\* turns of a goal one at a time, in strictly increasing generations, and
\* starts none once the goal is completed or cancelled.
ImplementsGoalTurns == Turns!TurnSpec
=============================================================================
