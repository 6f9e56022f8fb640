----------------------------- MODULE GoalWaits -----------------------------
(***************************************************************************)
(* Goal standby: an agent whose goal needs other agents' results records a *)
(* wait that names them, and its goal stops starting turns.  Three things  *)
(* end a wait without its owner's help: a direct reply from a named agent  *)
(* that one of the owner's turns has handled; the end of a named agent's   *)
(* turn, when no named agent works and none has replied; and the owner's   *)
(* own observation that everyone it waits for is dead or waits for it.     *)
(*                                                                         *)
(* Every write holds the registry's lock, but replies are read without it: *)
(* a release captures a review, reads the bus unlocked, and publishes only *)
(* after rechecking what it captured.  Waits and registry are two files: a *)
(* process may die between the two writes.                                 *)
(***************************************************************************)
EXTENDS Integers, Sequences, FiniteSets

CONSTANTS
    Agents,      \* threads that hold goals
    MaxTurns,    \* bound on the turns begun, over all agents
    MaxMessages, \* bound on the direct messages committed
    MaxWaits,    \* bound on the waits recorded
    MaxUpsets    \* bound on goal changes and process deaths together

ASSUME BoundsAssumption ==
    /\ IsFiniteSet(Agents)
    /\ {MaxTurns, MaxMessages, MaxWaits, MaxUpsets} \subseteq Nat

VARIABLES
    threads,  \* the registry row of each agent
    waits,    \* goal_waits.sqlite3: the recorded waits
    bus,      \* committed direct messages, in sequence order
    work,     \* what the running turn of an agent is doing
    taken,    \* the messages whose turn has begun
    releases, \* terminal callbacks and observations under way
    ended,    \* how each wait ended, by wait ID ("open" until then)
    changes,  \* goal changes made
    faults    \* processes that died

vars == <<threads, waits, bus, work, taken, releases, ended, changes, faults>>

NoTurn == 0
NoInput == 0

-----------------------------------------------------------------------------
(* What a registry snapshot and the wait table say.                        *)

Rows == [up : BOOLEAN, owner : Nat, turn : Nat, gen : Nat, done : Nat,
         goal : Nat, rev : Nat, active : BOOLEAN]

Waits == [id : Nat, owner : Agents, goal : Nat, rev : Nat, after : Nat,
          targets : SUBSET Agents, turn : Nat]

\* A live presence whose projected activity is busy.
Working(a) == threads[a].up /\ threads[a].turn # NoTurn

\* What same_thread compares: launch, turn, owner and presence.
Fence(a) == <<threads[a].up, threads[a].owner, threads[a].turn, threads[a].gen>>

GoalOf(a) == <<threads[a].goal, threads[a].rev, threads[a].active>>

\* The wait recorded under the agent's active goal: a set of at most one.
Resolve(a) == {w \in waits : /\ threads[a].active
                             /\ w.owner = a
                             /\ w.goal = threads[a].goal}

CurrentFor(w) ==
    /\ threads[w.owner].active
    /\ threads[w.owner].goal = w.goal
    /\ threads[w.owner].rev >= w.rev

CurrentWaits(a) == {w \in Resolve(a) : CurrentFor(w)}

Matches(w, n) == /\ n > w.after
                 /\ bus[n].to = w.owner
                 /\ bus[n].from \in w.targets

HasReply(w) == \E n \in DOMAIN bus : Matches(w, n)

ReceivedAfter(a, n) == \E m \in DOMAIN bus : m > n /\ bus[m].to = a

\* Only the exact latest completed turn of a running thread is its own witness.
IdleAfter(a, gen) ==
    /\ threads[a].up
    /\ threads[a].turn = NoTurn
    /\ threads[a].done = gen

\* A peer that waits is independent only in a turn that did not report the wait;
\* one that does not wait is independent while it lives.
Independent(a) ==
    IF CurrentWaits(a) = {}
    THEN threads[a].up
    ELSE Working(a) /\ \A w \in CurrentWaits(a) : threads[a].turn # w.turn

\* Every dependency of a member of the group is inside it, or dead; none is independent.
Closes(group, owner, targets) ==
    /\ owner \in group
    /\ \A a \in group :
         \A t \in IF a = owner THEN targets ELSE UNION {w.targets : w \in CurrentWaits(a)} :
             t # owner => /\ ~Independent(t)
                          /\ CurrentWaits(t) # {} => t \in group

\* The group a wait on these targets reaches holds no independent worker.
ClosedGroup(owner, targets) == \E group \in SUBSET Agents : Closes(group, owner, targets)

-----------------------------------------------------------------------------
(* Turns, messages and goals.                                              *)

NoReview == [kind |-> "none"]

NoWork == [input |-> NoInput, goal |-> 0, step |-> "idle", review |-> NoReview]

TurnsBegun == UNION {{a} \X (1..threads[a].gen) : a \in Agents}

Undisturbed == changes + faults < MaxUpsets

\* Lease a turn for this input.
Lease(a, input) ==
    /\ threads[a].up
    /\ threads[a].turn = NoTurn
    /\ Cardinality(TurnsBegun) < MaxTurns
    /\ threads' = [threads EXCEPT ![a].turn = threads[a].gen + 1, ![a].gen = @ + 1]
    /\ work' = [work EXCEPT ![a] = [input |-> input, step |-> "working", review |-> NoReview,
                                    goal |-> IF threads[a].active THEN threads[a].goal ELSE 0]]
    /\ UNCHANGED <<waits, bus, releases, ended, changes, faults>>

\* The scheduler continues an active goal only while it has no wait.
ContinueGoal(a) ==
    /\ threads[a].active
    /\ Resolve(a) = {}
    /\ Lease(a, NoInput)
    /\ UNCHANGED taken

\* The user's own input starts a turn, wait or no wait.
OwnerInput(a) == Lease(a, NoInput) /\ UNCHANGED taken

\* A delivered message starts one turn, and is never replayed.
DeliverInput(a, n) ==
    /\ n \in DOMAIN bus \ taken
    /\ bus[n].to = a
    /\ Lease(a, n)
    /\ taken' = taken \cup {n}

Send(a, b) ==
    /\ Working(a)
    /\ a # b
    /\ Len(bus) < MaxMessages
    /\ bus' = Append(bus, [from |-> a, to |-> b])
    /\ UNCHANGED <<threads, waits, work, taken, releases, ended, changes, faults>>

\* The release of the turn leaves one callback.
FinishTurn(a) ==
    /\ Working(a)
    /\ work[a].review = NoReview
    /\ threads' = [threads EXCEPT ![a].turn = NoTurn, ![a].done = threads[a].turn]
    /\ work' = [work EXCEPT ![a] = NoWork]
    /\ releases' = releases \cup {[kind |-> "finish", host |-> a, gen |-> threads[a].turn,
                                   todo |-> {}, step |-> "start", review |-> NoReview]}
    /\ UNCHANGED <<waits, bus, taken, ended, changes, faults>>

\* These waits end, for this reason.
Ended(gone, how) ==
    ended' = [i \in DOMAIN ended |-> IF \E w \in gone : w.id = i THEN how ELSE ended[i]]

\* Editing a goal keeps its wait.
EditGoal(a) ==
    /\ Undisturbed
    /\ threads' = [threads EXCEPT ![a].rev = @ + 1]
    /\ changes' = changes + 1
    /\ UNCHANGED <<waits, bus, work, taken, releases, ended, faults>>

\* A pause, a resumption, a report or a replacement saves the goal and then clears
\* the wait of the goal it changed; a process that dies between the two leaves it.
Changed(row) == {[row EXCEPT !.rev = @ + 1],
                 [row EXCEPT !.rev = @ + 1, !.active = ~@],
                 [row EXCEPT !.goal = @ + 1, !.rev = 0, !.active = TRUE]}

ChangeGoal(a, row, dies) ==
    LET gone == {w \in waits : w.owner = a /\ w.goal = threads[a].goal /\ ~dies}
    IN  /\ Undisturbed
        /\ row \in Changed(threads[a])
        /\ threads' = [threads EXCEPT ![a] = row]
        /\ waits' = waits \ gone
        /\ Ended(gone, "withdrawn")
        /\ changes' = IF dies THEN changes ELSE changes + 1
        /\ faults' = IF dies THEN faults + 1 ELSE faults
        /\ UNCHANGED <<bus, work, taken, releases>>

-----------------------------------------------------------------------------
(* A process dies, and its owner is started again.                         *)

\* The rows of the table once the host of an agent is dead, and what dies with it.
Dead(rows, a) == [rows EXCEPT ![a].up = FALSE]

DiesWith(a) ==
    /\ Undisturbed
    /\ faults' = faults + 1
    /\ work' = [work EXCEPT ![a] = NoWork]
    /\ releases' = {r \in releases : r.host # a}

HostDies(a) ==
    /\ threads[a].up
    /\ threads' = Dead(threads, a)
    /\ DiesWith(a)
    /\ UNCHANGED <<waits, bus, taken, ended, changes>>

\* A new owner withdraws the turn its predecessor held.
StartOwner(a) ==
    /\ ~threads[a].up
    /\ threads' = [threads EXCEPT ![a].up = TRUE, ![a].owner = @ + 1,
                                  ![a].turn = NoTurn, ![a].done = NoTurn]
    /\ UNCHANGED <<waits, bus, work, taken, releases, ended, changes, faults>>

-----------------------------------------------------------------------------
(* Declaring standby: reviewed unlocked, published under the lock.         *)

\* The review captures the goal, its wait, the bus cut, and the owner and every
\* target as they are.  A call that leaves an earlier reply unreviewed is refused
\* without effect, so the calls modelled have reviewed what the cut shows.
PrepareStandby(a, targets) ==
    /\ Working(a)
    /\ work[a].step = "working"
    /\ work[a].review = NoReview
    /\ threads[a].active
    /\ Len(ended) < MaxWaits
    /\ work' = [work EXCEPT ![a].review =
                  [kind |-> "standby", goal |-> GoalOf(a), wait |-> Resolve(a),
                   fences |-> [t \in targets \cup {a} |-> Fence(t)],
                   targets |-> targets, through |-> Len(bus)]]
    /\ UNCHANGED <<threads, waits, bus, taken, releases, ended, changes, faults>>

StandbyAllowed(a, review) ==
    /\ GoalOf(a) = review.goal
    /\ Resolve(a) = review.wait
    /\ \A t \in DOMAIN review.fences : Fence(t) = review.fences[t]
    /\ \E t \in review.targets : threads[t].up
    /\ ~ClosedGroup(a, review.targets)

\* Mutant: a second standby of a goal leaves the first one recorded.
RecordWaitBeside(a) ==
    LET review == work[a].review
    IN  /\ waits' = waits \cup
                      {[id |-> Len(ended) + 1, owner |-> a, goal |-> threads[a].goal,
                        rev |-> threads[a].rev + 1, after |-> review.through,
                        targets |-> review.targets, turn |-> threads[a].turn]}
        /\ ended' = Append(ended, "open")

\* The wait is committed before the registry: a crash leaves the goal waiting.
RecordWait(a) ==
    LET review == work[a].review
        goal == threads[a].goal
        old == {w \in waits : w.owner = a /\ w.goal = goal}
    IN  /\ waits' = (waits \ old) \cup
                      {[id |-> Len(ended) + 1, owner |-> a, goal |-> goal,
                        rev |-> threads[a].rev + 1, after |-> review.through,
                        targets |-> review.targets, turn |-> threads[a].turn]}
        /\ ended' = Append([i \in DOMAIN ended |->
                              IF \E w \in old : w.id = i THEN "replaced" ELSE ended[i]], "open")

PublishStandby(a) ==
    /\ work[a].review.kind = "standby"
    /\ Len(ended) < MaxWaits
    /\ StandbyAllowed(a, work[a].review)
    /\ RecordWait(a)
    /\ threads' = [threads EXCEPT ![a].rev = @ + 1]
    /\ work' = [work EXCEPT ![a].review = NoReview]
    /\ UNCHANGED <<bus, taken, releases, changes, faults>>

RefuseStandby(a) ==
    /\ work[a].review.kind = "standby"
    /\ ~StandbyAllowed(a, work[a].review)
    /\ work' = [work EXCEPT ![a].review = NoReview]
    /\ UNCHANGED <<threads, waits, bus, taken, releases, ended, changes, faults>>

PublishStandbyDies(a) ==
    /\ work[a].review.kind = "standby"
    /\ Len(ended) < MaxWaits
    /\ StandbyAllowed(a, work[a].review)
    /\ RecordWait(a)
    /\ threads' = Dead(threads, a)
    /\ DiesWith(a)
    /\ UNCHANGED <<bus, taken, changes>>

-----------------------------------------------------------------------------
(* A handled reply consumes the wait.                                      *)

\* GoalWaitReview: the fence and the wait to find unchanged.
Review(w) == [kind |-> "wait", wait |-> w, fence |-> Fence(w.owner), through |-> 0]

StillCurrent(review) ==
    /\ Fence(review.wait.owner) = review.fence
    /\ Resolve(review.wait.owner) = {review.wait}
    /\ CurrentFor(review.wait)

\* Mutant: a message from a target answers a wait declared after it.
AnsweredAnyTime(a) == {w \in Resolve(a) : bus[work[a].input].from \in w.targets}

\* The wait of an agent that its turn's input answers.
Answered(a) == {w \in Resolve(a) : Matches(w, work[a].input)}

\* Before its turn ends, a handled input looks for the wait it answers.
ReviewReply(a) ==
    /\ Working(a)
    /\ work[a].step = "working"
    /\ work[a].review = NoReview
    /\ work[a].input # NoInput
    /\ work' = [work EXCEPT
                  ![a].step = "settled",
                  ![a].review = IF Answered(a) = {} THEN NoReview
                                ELSE Review(CHOOSE w \in Answered(a) : TRUE)]
    /\ UNCHANGED <<threads, waits, bus, taken, releases, ended, changes, faults>>

\* The goal the turn began with must still be the active one.
ConsumeReply(a) ==
    LET review == work[a].review
        gone == {w \in waits : /\ StillCurrent(review)
                               /\ work[a].goal = threads[a].goal
                               /\ w.id = review.wait.id}
    IN  /\ review.kind = "wait"
        /\ waits' = waits \ gone
        /\ Ended(gone, "answered")
        /\ work' = [work EXCEPT ![a].review = NoReview]
        /\ UNCHANGED <<threads, bus, taken, releases, changes, faults>>

-----------------------------------------------------------------------------
(* Releases: the callback of a finished turn, and the owner's observation. *)

Instead(r, next) == releases' = (releases \ {r}) \cup next

\* A callback goes on with its next wait, if there is one; an observation has only one.
Dropped(r) == IF r.todo = {} THEN {}
              ELSE {[r EXCEPT !.step = "next", !.review = NoReview]}

\* Mutant: an agent that waits itself has nothing to report.
TargetingUnlessWaiting(a) == {w \in waits : a \in w.targets /\ CurrentWaits(a) = {}}

\* GoalWaitStore.targeting.
Targeting(a) == {w \in waits : a \in w.targets}

\* The callback of a turn that is still its thread's latest looks up the waits on it.
FindWaits(r) ==
    /\ r.step = "start"
    /\ Instead(r, IF IdleAfter(r.host, r.gen)
                  THEN Dropped([r EXCEPT !.todo = Targeting(r.host)])
                  ELSE {})
    /\ UNCHANGED <<threads, waits, bus, work, taken, ended, changes, faults>>

Releasable(w) ==
    /\ Resolve(w.owner) = {w}
    /\ CurrentFor(w)
    /\ \A t \in w.targets : ~Working(t)

NextWait(r) ==
    /\ r.step = "next"
    /\ \E w \in r.todo :
         LET rest == [r EXCEPT !.todo = @ \ {w}]
         IN  Instead(r, IF Releasable(w)
                        THEN {[rest EXCEPT !.step = "read", !.review = Review(w)]}
                        ELSE Dropped(rest))
    /\ UNCHANGED <<threads, waits, bus, work, taken, ended, changes, faults>>

\* A drain that ticks looks at its own standby.
Observe(a) ==
    /\ threads[a].up
    /\ \A r \in releases : r.kind = "observe" => r.host # a
    /\ ~Working(a)
    /\ \E w \in CurrentWaits(a) :
         /\ ClosedGroup(a, w.targets)
         /\ releases' = releases \cup {[kind |-> "observe", host |-> a, gen |-> 0, todo |-> {},
                                        step |-> "read", review |-> Review(w)]}
    /\ UNCHANGED <<threads, waits, bus, work, taken, ended, changes, faults>>

\* The bus is read without the registry lock.
ReadReplies(r) ==
    /\ r.step = "read"
    /\ Instead(r, IF HasReply(r.review.wait) THEN Dropped(r)
                  ELSE {[r EXCEPT !.step = "publish", !.review.through = Len(bus)]})
    /\ UNCHANGED <<threads, waits, bus, work, taken, ended, changes, faults>>

\* Mutant: a changed owner or turn fence ends the release.
RecaptureGivesUp(r) ==
    /\ r.step = "publish"
    /\ ~StillCurrent(r.review)
    /\ Instead(r, Dropped(r))
    /\ UNCHANGED <<threads, waits, bus, work, taken, ended, changes, faults>>

\* A new owner or turn fence needs a fresh silence read for this same wait.
Recapture(r) ==
    LET w == r.review.wait
    IN  /\ r.step = "publish"
        /\ ~StillCurrent(r.review)
        /\ Instead(r, IF Resolve(w.owner) = {w} /\ CurrentFor(w)
                      THEN {[r EXCEPT !.step = "read", !.review = Review(w)]}
                      ELSE Dropped(r))
        /\ UNCHANGED <<threads, waits, bus, work, taken, ended, changes, faults>>

\* So does a message received since the read.
ReadAgain(r) ==
    /\ r.step = "publish"
    /\ StillCurrent(r.review)
    /\ ReceivedAfter(r.review.wait.owner, r.review.through)
    /\ Instead(r, {[r EXCEPT !.step = "read"]})
    /\ UNCHANGED <<threads, waits, bus, work, taken, ended, changes, faults>>

\* Mutant: the silence read before the lock was taken is trusted.
SilentWhenRead(r) == r.step = "publish" /\ StillCurrent(r.review)

\* Nothing the review captured has changed, and nothing has arrived since the read.
Silent(r) ==
    /\ r.step = "publish"
    /\ StillCurrent(r.review)
    /\ ~ReceivedAfter(r.review.wait.owner, r.review.through)

\* Mutant: the callback does not look at the other targets again.
JustifiedWhenRead(r) ==
    LET w == r.review.wait
    IN  IF r.kind = "finish"
        THEN IdleAfter(r.host, r.gen)
        ELSE ~Working(w.owner) /\ ClosedGroup(w.owner, w.targets)

\* Why the release was begun still holds.
Justified(r) ==
    LET w == r.review.wait
    IN  IF r.kind = "finish"
        THEN IdleAfter(r.host, r.gen) /\ \A t \in w.targets : ~Working(t)
        ELSE ~Working(w.owner) /\ ClosedGroup(w.owner, w.targets)

Noted(w) == [threads EXCEPT ![w.owner].rev = @ + 1]

\* The note is committed to the goal, then exactly the reviewed wait is cleared.
Release(r) ==
    LET w == r.review.wait
    IN  /\ Silent(r)
        /\ Justified(r)
        /\ threads' = Noted(w)
        /\ waits' = {v \in waits : v.id # w.id}
        /\ Ended({w}, "released")
        /\ Instead(r, Dropped(r))
        /\ UNCHANGED <<bus, work, taken, changes, faults>>

ReleaseRefused(r) ==
    /\ Silent(r)
    /\ ~Justified(r)
    /\ Instead(r, Dropped(r))
    /\ UNCHANGED <<threads, waits, bus, work, taken, ended, changes, faults>>

\* The releasing process dies after the note and before the wait is cleared.
ReleaseDies(r) ==
    /\ Silent(r)
    /\ Justified(r)
    /\ threads' = Dead(Noted(r.review.wait), r.host)
    /\ DiesWith(r.host)
    /\ UNCHANGED <<waits, bus, taken, ended, changes>>

-----------------------------------------------------------------------------

Init ==
    /\ threads = [a \in Agents |-> [up |-> TRUE, owner |-> 1, turn |-> NoTurn, gen |-> 0,
                                    done |-> NoTurn, goal |-> 1, rev |-> 0, active |-> TRUE]]
    /\ waits = {}
    /\ bus = <<>>
    /\ work = [a \in Agents |-> NoWork]
    /\ taken = {}
    /\ releases = {}
    /\ ended = <<>>
    /\ changes = 0
    /\ faults = 0

ReleaseStep(r) ==
    \/ FindWaits(r)
    \/ NextWait(r)
    \/ ReadReplies(r)
    \/ Recapture(r)
    \/ ReadAgain(r)
    \/ Release(r)
    \/ ReleaseRefused(r)

Next ==
    \/ \E a \in Agents :
         \/ ContinueGoal(a)
         \/ OwnerInput(a)
         \/ \E n \in DOMAIN bus : DeliverInput(a, n)
         \/ \E b \in Agents : Send(a, b)
         \/ FinishTurn(a)
         \/ EditGoal(a)
         \/ \E row \in Changed(threads[a]), dies \in BOOLEAN : ChangeGoal(a, row, dies)
         \/ HostDies(a)
         \/ StartOwner(a)
         \/ \E targets \in (SUBSET (Agents \ {a})) \ {{}} : PrepareStandby(a, targets)
         \/ PublishStandby(a)
         \/ RefuseStandby(a)
         \/ PublishStandbyDies(a)
         \/ ReviewReply(a)
         \/ ConsumeReply(a)
         \/ Observe(a)
    \/ \E r \in releases : ReleaseStep(r) \/ ReleaseDies(r)

Spec == Init /\ [][Next]_vars

\* Workers of a live process run on: a callback, once registered, takes its steps.
Fairness ==
    \A a \in Agents, gen \in 1..MaxTurns :
        WF_vars(\E r \in releases : r.host = a /\ r.gen = gen /\ ReleaseStep(r))

FairSpec == Spec /\ Fairness

-----------------------------------------------------------------------------

\* Every row, wait and release has the shape the code gives it, at most one wait is
\* recorded per goal, and the waits still open are exactly the recorded ones.
TypeOK ==
    /\ threads \in [Agents -> Rows]
    /\ waits \subseteq Waits
    /\ \A v, w \in waits : v.owner = w.owner /\ v.goal = w.goal => v = w
    /\ {w.id : w \in waits} = {i \in DOMAIN ended : ended[i] = "open"}
    /\ \A n \in DOMAIN bus : bus[n] \in [from : Agents, to : Agents]
    /\ taken \subseteq DOMAIN bus
    /\ \A r \in releases : threads[r.host].up
    /\ \A a \in Agents : work[a] # NoWork => Working(a)

\* This step ends the wait, for this reason.
EndsAs(w, how) == ended[w.id] = "open" /\ ended'[w.id] = how

SilentWhenReleased == \A w \in waits : EndsAs(w, "released") => ~HasReply(w)

\* A wait that recovery releases as unanswered has no qualifying direct reply on the bus
\* at that moment: publish_unanswered reads replies without the lock, and a message that
\* lands in between is read before the release goes on.
ReleasedInSilence == [][SilentWhenReleased]_vars

RepliedWhenAnswered == \A w \in waits : EndsAs(w, "answered") => HasReply(w)

\* A wait is consumed as answered only by a reply that came after its own cut, from a
\* target it names: a turn that handles a message and then declares standby on its sender
\* does not consume its own new wait when it settles.
AnsweredByItsReply == [][RepliedWhenAnswered]_vars

IdleWhenReleased ==
    \A w \in waits : EndsAs(w, "released") =>
        \A t \in w.targets :
            Working(t) => \E v \in CurrentWaits(t) : v.turn = threads[t].turn

\* A wait is released only while every agent it names is idle, dead, or about to wait
\* itself: one that took up work during the unlocked read keeps the wait.
ReleasedOnlyWhenNobodyWorks == [][IdleWhenReleased]_vars

\* Somebody will look at the wait: an agent it names works, or the callback of that
\* agent's finished turn is still to run.
AttendedBy(w, t) ==
    /\ t \in w.targets
    /\ \/ Working(t)
       \/ \E r \in releases : r.kind = "finish" /\ r.host = t /\ r.gen = threads[t].done

\* Mutual standby never persists unnoticed: while no process has died, a closed group
\* none of whose waits is answered has a named agent still at work, or the callback of a
\* named agent's finished turn is on its way to it.  (A reply to one of its waits is
\* itself a turn to come.)
ClosedGroupIsAttended ==
    \A w \in waits, group \in SUBSET Agents :
        /\ faults = 0
        /\ CurrentFor(w)
        /\ Closes(group, w.owner, w.targets)
        /\ \A v \in waits : v.owner \in group => ~HasReply(v)
        => \E v \in waits, t \in Agents : v.owner \in group /\ AttendedBy(v, t)

\* The callback of a finished turn releases every unanswered wait on it, unless someone the
\* wait names works again or dies, a reply arrives, or the owner gives the wait up.
FinishedTurnReleases ==
    \A id \in 1..MaxWaits :
        (\E w \in waits, r \in releases :
            /\ w.id = id
            /\ CurrentFor(w)
            /\ r.host \in w.targets
            /\ r.step = "start"
            /\ r.gen = threads[r.host].done)
        ~> (\A w \in waits : w.id = id /\ CurrentFor(w) =>
               \/ HasReply(w)
               \/ \E t \in w.targets : Working(t) \/ ~threads[t].up)

=============================================================================
