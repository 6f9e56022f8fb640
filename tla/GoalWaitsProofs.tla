-------------------------- MODULE GoalWaitsProofs --------------------------
(***************************************************************************)
(* How a goal wait ends, for every set of agents and every bound: it is    *)
(* released only in silence and while nobody it names works, and consumed  *)
(* only by a reply of its own.                                             *)
(*                                                                         *)
(* The argument: the bus only grows, so a silence read up to a cut stays   *)
(* true of that cut (ReadWasSilent) and a reply once seen stays there      *)
(* (ReviewHasReply); and wait IDs are minted once (WaitsMinted), so that   *)
(* the wait a review names is the wait the release ends.                   *)
(*                                                                         *)
(* Then the types, and that mutual standby never persists unnoticed: a     *)
(* wait nobody attends is younger than every wait of those it names        *)
(* (LookedAfter), so a closed group cannot be left with such waits only.   *)
(***************************************************************************)
EXTENDS GoalWaits, TLAPS

\* A leaf that names no prover is for Zenon; arithmetic and records go to SMT.
USE ZenonT(30)

Messages == [from : Agents, to : Agents]

Fences == BOOLEAN \X Nat \X Nat \X Nat

WaitReviews == [kind : {"wait"}, wait : Waits, fence : Fences, through : Nat]

StandbyReviews ==
    [kind : {"standby"}, goal : Nat \X Nat \X BOOLEAN, wait : SUBSET Waits,
     fences : UNION {[group -> Fences] : group \in SUBSET Agents},
     targets : SUBSET Agents, through : Nat]

Works == [input : Nat, goal : Nat, step : {"idle", "working", "settled"},
          review : {NoReview} \cup WaitReviews \cup StandbyReviews]

Releases == [kind : {"finish", "observe"}, host : Agents, gen : Nat, todo : SUBSET Waits,
             step : {"start", "next", "read", "publish"},
             review : {NoReview} \cup WaitReviews]

Endings == {"open", "withdrawn", "replaced", "answered", "released"}

\* The types of what the steps read.
Typed ==
    /\ threads \in [Agents -> Rows]
    /\ waits \in SUBSET Waits
    /\ bus \in Seq(Messages)
    /\ work \in [Agents -> Works]
    /\ releases \in SUBSET Releases
    /\ ended \in Seq(Endings)
    /\ \A r \in releases : r.step \in {"read", "publish"} => r.review \in WaitReviews

\* The ID of a recorded wait was minted for it alone.
WaitsMinted ==
    /\ \A w \in waits : w.id \in DOMAIN ended
    /\ \A v, w \in waits : v.id = w.id => v = w

\* A release that has read the bus saw no reply up to its cut.
ReadWasSilent ==
    \A r \in releases : r.step = "publish" =>
        /\ r.review.through <= Len(bus)
        /\ \A n \in DOMAIN bus : n <= r.review.through => ~Matches(r.review.wait, n)

\* A settled turn that reviews a wait has seen its reply.
ReviewHasReply ==
    \A a \in Agents :
        /\ work[a].input # NoInput => work[a].input \in DOMAIN bus
        /\ work[a].review.kind = "wait" =>
             work[a].review \in WaitReviews /\ HasReply(work[a].review.wait)

IInv == Typed /\ WaitsMinted /\ ReadWasSilent /\ ReviewHasReply

-----------------------------------------------------------------------------
(* Facts about the helpers.                                                *)

USE DEF NoTurn, NoInput

LEMMA NoReviewIsNone ==
    /\ NoReview.kind = "none"
    /\ NoReview \notin WaitReviews
    /\ NoWork \in Works /\ NoWork.input = NoInput /\ NoWork.review = NoReview
BY DEF NoReview, NoWork, Works, WaitReviews

LEMMA FenceType ==
    ASSUME Typed, NEW a \in Agents
    PROVE  Fence(a) \in Fences /\ GoalOf(a) \in Nat \X Nat \X BOOLEAN
<1>1. threads[a] \in Rows
  BY DEF Typed
<1>. QED
  BY <1>1 DEF Fence, Fences, GoalOf, Rows

LEMMA ReviewType ==
    ASSUME Typed, NEW w \in Waits
    PROVE  Review(w) \in WaitReviews
<1>1. w.owner \in Agents
  BY DEF Waits
<1>. QED
  BY <1>1, FenceType DEF Review, WaitReviews

LEMMA ResolveIsWait ==
    ASSUME Typed, NEW a
    PROVE  Resolve(a) \subseteq waits /\ Resolve(a) \subseteq Waits
BY DEF Typed, Resolve

\* The rows the steps write.
LEMMA RowWrites ==
    ASSUME NEW row \in Rows, NEW n \in Nat, NEW m \in Nat
    PROVE  /\ [row EXCEPT !.rev = n] \in Rows
           /\ [row EXCEPT !.up = FALSE] \in Rows
           /\ [row EXCEPT !.turn = n, !.gen = m] \in Rows
           /\ [row EXCEPT !.turn = n, !.done = m] \in Rows
           /\ [row EXCEPT !.rev = n, !.active = ~row.active] \in Rows
           /\ [row EXCEPT !.goal = m, !.rev = n, !.active = TRUE] \in Rows
           /\ [row EXCEPT !.up = TRUE, !.owner = m, !.turn = n, !.done = n] \in Rows
<1>1. [row EXCEPT !.rev = n] \in Rows
  BY DEF Rows
<1>2. [row EXCEPT !.up = FALSE] \in Rows
  BY DEF Rows
<1>3. [row EXCEPT !.turn = n, !.gen = m] \in Rows
  BY DEF Rows
<1>4. [row EXCEPT !.turn = n, !.done = m] \in Rows
  BY DEF Rows
<1>5. [row EXCEPT !.rev = n, !.active = ~row.active] \in Rows
  BY DEF Rows
<1>6. [row EXCEPT !.goal = m, !.rev = n, !.active = TRUE] \in Rows
  BY DEF Rows
<1>7. [row EXCEPT !.up = TRUE, !.owner = m, !.turn = n, !.done = n] \in Rows
  BY DEF Rows
<1>. QED
  BY <1>1, <1>2, <1>3, <1>4, <1>5, <1>6, <1>7

LEMMA RevisionType ==
    ASSUME NEW rows \in [Agents -> Rows], NEW a \in Agents
    PROVE  [rows EXCEPT ![a].rev = @ + 1] \in [Agents -> Rows]
<1>. DEFINE n == rows[a].rev + 1
<1>1. rows[a] \in Rows /\ n \in Nat
  BY SMTT(30) DEF Rows
<1>2. [rows EXCEPT ![a].rev = @ + 1] = [rows EXCEPT ![a] = [rows[a] EXCEPT !.rev = n]]
  OBVIOUS
<1>. HIDE DEF n
<1>3. [rows[a] EXCEPT !.rev = n] \in Rows
  BY <1>1, RowWrites
<1>. QED
  BY <1>2, <1>3

LEMMA DeadType ==
    ASSUME NEW rows \in [Agents -> Rows], NEW a \in Agents
    PROVE  Dead(rows, a) \in [Agents -> Rows]
<1>1. [rows[a] EXCEPT !.up = FALSE] \in Rows
  BY RowWrites
<1>. QED
  BY <1>1 DEF Dead

\* Giving up on a wait leaves a callback to its other waits.
LEMMA DroppedType ==
    ASSUME NEW r \in Releases
    PROVE  /\ Dropped(r) \subseteq Releases
           /\ \A q \in Dropped(r) : q.step = "next"
BY DEF Dropped, Releases

LEMMA EndedType ==
    ASSUME NEW e \in Seq(Endings), NEW gone, NEW how \in Endings
    PROVE  LET f == [i \in DOMAIN e |-> IF \E w \in gone : w.id = i THEN how ELSE e[i]]
           IN  f \in Seq(Endings) /\ DOMAIN f = DOMAIN e
BY SMTT(30)

\* A message once on the bus stays there as it is.
LEMMA BusGrows ==
    ASSUME bus \in Seq(Messages), NEW m \in Messages, bus' = Append(bus, m)
    PROVE  /\ bus' \in Seq(Messages)
           /\ Len(bus') = Len(bus) + 1
           /\ Len(bus) \in Nat
           /\ DOMAIN bus = 1..Len(bus) /\ DOMAIN bus' = 1..Len(bus')
           /\ \A n \in DOMAIN bus : n \in DOMAIN bus' /\ bus'[n] = bus[n]
BY SMTT(30)

-----------------------------------------------------------------------------
(* What leaves each conjunct alone.                                        *)

LEMMA WaitsFrame ==
    ASSUME WaitsMinted, waits' \subseteq waits, DOMAIN ended' = DOMAIN ended
    PROVE  WaitsMinted'
BY DEF WaitsMinted

LEMMA ReadsFrame ==
    ASSUME ReadWasSilent, bus' = bus, \A r \in releases' : r \in releases \/ r.step # "publish"
    PROVE  ReadWasSilent'
BY DEF ReadWasSilent, Matches

LEMMA WorkFrame ==
    ASSUME ReviewHasReply, bus' = bus,
           \A a \in Agents : \/ work'[a] = work[a]
                             \/ /\ work'[a].input = NoInput \/ work'[a].input \in DOMAIN bus
                                /\ work'[a].review.kind # "wait"
    PROVE  ReviewHasReply'
BY DEF ReviewHasReply, HasReply, Matches
-----------------------------------------------------------------------------
(* The actions preserve the invariant.                                     *)

LEMMA InitInv == Init => IInv
<1>1. ASSUME Init PROVE Typed
  <2>1. threads \in [Agents -> Rows]
    BY <1>1 DEF Init, Rows
  <2>2. work \in [Agents -> Works]
    BY <1>1, NoReviewIsNone DEF Init
  <2>. QED
    BY SMTT(30), <1>1, <2>1, <2>2 DEF Init, Typed
<1>2. ASSUME Init PROVE WaitsMinted /\ ReadWasSilent /\ ReviewHasReply
  BY <1>2, NoReviewIsNone DEF Init, WaitsMinted, ReadWasSilent, ReviewHasReply
<1>. QED
  BY <1>1, <1>2 DEF IInv

\* A leased turn names the message it was leased for.
LEMMA LeaseInv ==
    ASSUME IInv, NEW a \in Agents, NEW input \in Nat, Lease(a, input),
           input = NoInput \/ input \in DOMAIN bus
    PROVE  IInv'
<1>1. threads' \in [Agents -> Rows]
  <2>. DEFINE n == threads[a].gen + 1
  <2>1. threads[a] \in Rows /\ n \in Nat
    BY SMTT(30) DEF IInv, Typed, Rows
  <2>2. threads' = [threads EXCEPT ![a] = [threads[a] EXCEPT !.turn = n, !.gen = n]]
    BY DEF Lease
  <2>. HIDE DEF n
  <2>3. [threads[a] EXCEPT !.turn = n, !.gen = n] \in Rows
    BY <2>1, RowWrites
  <2>. QED
    BY <2>2, <2>3 DEF IInv, Typed
<1>2. work' \in [Agents -> Works]
  <2>1. (IF threads[a].active THEN threads[a].goal ELSE 0) \in Nat
    BY DEF IInv, Typed, Rows
  <2>. QED
    BY <2>1 DEF Lease, IInv, Typed, Works
<1>3. Typed'
  BY <1>1, <1>2 DEF Lease, IInv, Typed
<1>4. ReviewHasReply'
  <2>1. /\ work'[a].input = input
        /\ work'[a].review = NoReview
        /\ \A b \in Agents : b # a => work'[b] = work[b]
    BY DEF Lease, IInv, Typed
  <2>. QED
    BY <2>1, WorkFrame, NoReviewIsNone DEF Lease, IInv
<1>. QED
  BY <1>3, <1>4, WaitsFrame, ReadsFrame DEF Lease, IInv

LEMMA SendInv ==
    ASSUME IInv, NEW a \in Agents, NEW b \in Agents, Send(a, b)
    PROVE  IInv'
<1>1. [from |-> a, to |-> b] \in Messages
  BY DEF Messages
<1>2. /\ bus' \in Seq(Messages)
      /\ Len(bus') = Len(bus) + 1
      /\ Len(bus) \in Nat
      /\ DOMAIN bus = 1..Len(bus) /\ DOMAIN bus' = 1..Len(bus')
      /\ \A n \in DOMAIN bus : n \in DOMAIN bus' /\ bus'[n] = bus[n]
  BY <1>1, BusGrows DEF Send, IInv, Typed
<1>3. Typed'
  BY <1>2 DEF Send, IInv, Typed
<1>4. WaitsMinted'
  BY DEF Send, IInv, WaitsMinted
<1>5. ReadWasSilent'
  <2>. SUFFICES ASSUME NEW r \in releases, r.step = "publish"
                PROVE  /\ r.review.through <= Len(bus')
                       /\ \A n \in DOMAIN bus' : n <= r.review.through => ~Matches(r.review.wait, n)'
    BY DEF Send, ReadWasSilent
  <2>1. r.review.through \in Nat
    BY DEF IInv, Typed, WaitReviews
  <2>2. /\ r.review.through <= Len(bus)
        /\ \A n \in DOMAIN bus : n <= r.review.through => ~Matches(r.review.wait, n)
    BY DEF IInv, ReadWasSilent
  <2>. QED
    BY SMTT(30), <1>2, <2>1, <2>2 DEF Matches
<1>6. ReviewHasReply'
  <2>. SUFFICES ASSUME NEW c \in Agents
                PROVE  /\ work[c].input # NoInput => work[c].input \in DOMAIN bus'
                       /\ work[c].review.kind = "wait" =>
                            work[c].review \in WaitReviews /\ HasReply(work[c].review.wait)'
    BY DEF Send, ReviewHasReply
  <2>1. work[c].input # NoInput => work[c].input \in DOMAIN bus'
    BY <1>2 DEF IInv, ReviewHasReply
  <2>2. work[c].review.kind = "wait" =>
            work[c].review \in WaitReviews /\ HasReply(work[c].review.wait)
    BY DEF IInv, ReviewHasReply
  <2>3. ASSUME work[c].review.kind = "wait" PROVE HasReply(work[c].review.wait)'
    <3>1. PICK n \in DOMAIN bus : Matches(work[c].review.wait, n)
      BY <2>2, <2>3 DEF HasReply
    <3>2. n \in DOMAIN bus' /\ bus'[n] = bus[n] /\ work' = work
      BY <1>2 DEF Send
    <3>. QED
      BY <3>1, <3>2 DEF HasReply, Matches
  <2>. QED
    BY <2>1, <2>2, <2>3
<1>. QED
  BY <1>3, <1>4, <1>5, <1>6 DEF IInv

LEMMA FinishInv ==
    ASSUME IInv, NEW a \in Agents, FinishTurn(a)
    PROVE  IInv'
<1>. DEFINE callback == [kind |-> "finish", host |-> a, gen |-> threads[a].turn,
                         todo |-> {}, step |-> "start", review |-> NoReview]
<1>1. threads' \in [Agents -> Rows] /\ work' \in [Agents -> Works]
  <2>. DEFINE n == threads[a].turn
  <2>1. threads[a] \in Rows /\ n \in Nat
    BY DEF IInv, Typed, Rows
  <2>2. threads' = [threads EXCEPT ![a] = [threads[a] EXCEPT !.turn = 0, !.done = n]]
    BY DEF FinishTurn
  <2>. HIDE DEF n
  <2>3. [threads[a] EXCEPT !.turn = 0, !.done = n] \in Rows
    BY <2>1, RowWrites
  <2>. QED
    BY <2>2, <2>3, NoReviewIsNone DEF FinishTurn, IInv, Typed
<1>2. callback \in Releases /\ callback.step = "start"
  BY DEF IInv, Typed, Rows, Releases
<1>3. releases' = releases \cup {callback}
  BY DEF FinishTurn
<1>. HIDE DEF callback
<1>4. Typed'
  BY <1>1, <1>2, <1>3 DEF FinishTurn, IInv, Typed
<1>5. ReviewHasReply'
  <2>1. work'[a] = NoWork /\ \A b \in Agents : b # a => work'[b] = work[b]
    BY DEF FinishTurn, IInv, Typed
  <2>. QED
    BY <2>1, WorkFrame, NoReviewIsNone DEF FinishTurn, IInv
<1>6. ReadWasSilent'
  BY <1>2, <1>3, ReadsFrame DEF FinishTurn, IInv
<1>. QED
  BY <1>4, <1>5, <1>6, WaitsFrame DEF FinishTurn, IInv

LEMMA EditInv ==
    ASSUME IInv, NEW a \in Agents, EditGoal(a)
    PROVE  IInv'
<1>1. threads' \in [Agents -> Rows]
  BY RevisionType DEF EditGoal, IInv, Typed
<1>. QED
  BY <1>1 DEF EditGoal, IInv, Typed, WaitsMinted, ReadWasSilent, ReviewHasReply, HasReply, Matches

LEMMA ChangeInv ==
    ASSUME IInv, NEW a \in Agents, NEW row, NEW dies \in BOOLEAN, ChangeGoal(a, row, dies)
    PROVE  IInv'
<1>1. row \in Rows
  <2>. DEFINE n == threads[a].rev + 1  m == threads[a].goal + 1
  <2>1. threads[a] \in Rows /\ n \in Nat /\ m \in Nat
    BY SMTT(30) DEF IInv, Typed, Rows
  <2>2. row \in {[threads[a] EXCEPT !.rev = n],
                [threads[a] EXCEPT !.rev = n, !.active = ~threads[a].active],
                [threads[a] EXCEPT !.goal = m, !.rev = 0, !.active = TRUE]}
    BY DEF ChangeGoal, Changed
  <2>. HIDE DEF n, m
  <2>3. [threads[a] EXCEPT !.rev = n] \in Rows
    BY <2>1, RowWrites
  <2>4. [threads[a] EXCEPT !.rev = n, !.active = ~threads[a].active] \in Rows
    BY <2>1, RowWrites
  <2>5. [threads[a] EXCEPT !.goal = m, !.rev = 0, !.active = TRUE] \in Rows
    BY <2>1, RowWrites
  <2>. QED
    BY <2>2, <2>3, <2>4, <2>5
<1>2. threads' \in [Agents -> Rows]
  BY <1>1 DEF ChangeGoal, IInv, Typed
<1>3. ended' \in Seq(Endings) /\ DOMAIN ended' = DOMAIN ended
  <2>. DEFINE gone == {w \in waits : w.owner = a /\ w.goal = threads[a].goal /\ ~dies}
  <2>1. Ended(gone, "withdrawn")
    BY DEF ChangeGoal
  <2>2. ended \in Seq(Endings)
    BY DEF IInv, Typed
  <2>. HIDE DEF gone
  <2>3. "withdrawn" \in Endings
    BY DEF Endings
  <2>. QED
    BY <2>1, <2>2, <2>3, EndedType DEF Ended
<1>4. waits' \subseteq waits /\ UNCHANGED <<bus, work, releases>>
  BY DEF ChangeGoal
<1>5. Typed'
  BY <1>2, <1>3, <1>4 DEF IInv, Typed
<1>. QED
  BY <1>3, <1>4, <1>5, WaitsFrame, ReadsFrame, WorkFrame DEF IInv

\* What dies with a host holds no review and is not read again.
LEMMA DiesWithInv ==
    ASSUME IInv, NEW a \in Agents, DiesWith(a), bus' = bus
    PROVE  /\ work' \in [Agents -> Works]
           /\ releases' \subseteq releases
           /\ ReadWasSilent' /\ ReviewHasReply'
<1>1. work' \in [Agents -> Works] /\ releases' \subseteq releases
  BY NoReviewIsNone DEF DiesWith, IInv, Typed
<1>2. work'[a] = NoWork /\ \A b \in Agents : b # a => work'[b] = work[b]
  BY DEF DiesWith, IInv, Typed
<1>3. ReviewHasReply'
  BY <1>2, WorkFrame, NoReviewIsNone DEF IInv
<1>. QED
  BY <1>1, <1>3, ReadsFrame DEF IInv

LEMMA HostDiesInv ==
    ASSUME IInv, NEW a \in Agents, HostDies(a)
    PROVE  IInv'
<1>1. /\ work' \in [Agents -> Works]
      /\ releases' \subseteq releases
      /\ ReadWasSilent' /\ ReviewHasReply'
  BY DiesWithInv DEF HostDies
<1>2. Typed'
  BY <1>1, DeadType DEF HostDies, IInv, Typed
<1>. QED
  BY <1>1, <1>2, WaitsFrame DEF HostDies, IInv

LEMMA StartOwnerInv ==
    ASSUME IInv, NEW a \in Agents, StartOwner(a)
    PROVE  IInv'
<1>1. threads' \in [Agents -> Rows]
  <2>. DEFINE m == threads[a].owner + 1
  <2>1. threads[a] \in Rows /\ m \in Nat
    BY SMTT(30) DEF IInv, Typed, Rows
  <2>2. threads' = [threads EXCEPT ![a] =
                      [threads[a] EXCEPT !.up = TRUE, !.owner = m, !.turn = 0, !.done = 0]]
    BY DEF StartOwner
  <2>. HIDE DEF m
  <2>3. [threads[a] EXCEPT !.up = TRUE, !.owner = m, !.turn = 0, !.done = 0] \in Rows
    BY <2>1, RowWrites
  <2>. QED
    BY <2>2, <2>3 DEF IInv, Typed
<1>2. Typed'
  BY <1>1 DEF StartOwner, IInv, Typed
<1>. QED
  BY <1>2, WaitsFrame, ReadsFrame, WorkFrame DEF StartOwner, IInv

\* A step of a turn that leaves no wait under review.
LEMMA UnreviewedInv ==
    ASSUME IInv, NEW a \in Agents, NEW review \in {NoReview} \cup StandbyReviews,
           work' = [work EXCEPT ![a].review = review], bus' = bus
    PROVE  work' \in [Agents -> Works] /\ ReviewHasReply'
<1>1. /\ work'[a] = [work[a] EXCEPT !.review = review]
      /\ work'[a].input = work[a].input /\ work'[a].review = review
      /\ \A b \in Agents : b # a => work'[b] = work[b]
  BY DEF IInv, Typed, Works
<1>2. [work[a] EXCEPT !.review = review] \in Works
  BY DEF IInv, Typed, Works
<1>3. work' \in [Agents -> Works]
  BY <1>2 DEF IInv, Typed
<1>4. review.kind # "wait"
  BY NoReviewIsNone DEF StandbyReviews
<1>5. work[a].input = NoInput \/ work[a].input \in DOMAIN bus
  BY DEF IInv, ReviewHasReply
<1>. QED
  BY <1>1, <1>3, <1>4, <1>5, WorkFrame DEF IInv

LEMMA PrepareInv ==
    ASSUME IInv, NEW a \in Agents, NEW targets \in SUBSET Agents, PrepareStandby(a, targets)
    PROVE  IInv'
<1>. DEFINE fences == [t \in targets \cup {a} |-> Fence(t)]
            review == [kind |-> "standby", goal |-> GoalOf(a), wait |-> Resolve(a),
                       fences |-> fences, targets |-> targets, through |-> Len(bus)]
<1>1. review \in StandbyReviews
  <2>1. fences \in [targets \cup {a} -> Fences] /\ targets \cup {a} \in SUBSET Agents
    BY FenceType DEF IInv
  <2>2. fences \in UNION {[group -> Fences] : group \in SUBSET Agents}
    BY <2>1
  <2>3. Resolve(a) \in SUBSET Waits /\ GoalOf(a) \in Nat \X Nat \X BOOLEAN /\ Len(bus) \in Nat
    BY SMTT(30), ResolveIsWait, FenceType DEF IInv, Typed
  <2>. HIDE DEF fences
  <2>. QED
    BY <2>2, <2>3 DEF StandbyReviews
<1>2. work' = [work EXCEPT ![a].review = review]
  BY DEF PrepareStandby
<1>. HIDE DEF review
<1>3. work' \in [Agents -> Works] /\ ReviewHasReply'
  BY <1>1, <1>2, UnreviewedInv DEF PrepareStandby
<1>4. Typed'
  BY <1>3 DEF PrepareStandby, IInv, Typed
<1>. QED
  BY <1>3, <1>4, WaitsFrame, ReadsFrame DEF PrepareStandby, IInv

LEMMA RefuseInv ==
    ASSUME IInv, NEW a \in Agents, RefuseStandby(a)
    PROVE  IInv'
<1>1. work' \in [Agents -> Works] /\ ReviewHasReply'
  BY UnreviewedInv DEF RefuseStandby
<1>2. Typed'
  BY <1>1 DEF RefuseStandby, IInv, Typed
<1>. QED
  BY <1>1, <1>2, WaitsFrame, ReadsFrame DEF RefuseStandby, IInv

\* A recorded wait takes an ID that no wait has had.
LEMMA RecordInv ==
    ASSUME IInv, NEW a \in Agents, work[a].review.kind = "standby", RecordWait(a)
    PROVE  waits' \in SUBSET Waits /\ ended' \in Seq(Endings) /\ WaitsMinted'
<1>. DEFINE old == {w \in waits : w.owner = a /\ w.goal = threads[a].goal}
            new == [id |-> Len(ended) + 1, owner |-> a, goal |-> threads[a].goal,
                    rev |-> threads[a].rev + 1, after |-> work[a].review.through,
                    targets |-> work[a].review.targets, turn |-> threads[a].turn]
            kept == [i \in DOMAIN ended |->
                       IF \E w \in old : w.id = i THEN "replaced" ELSE ended[i]]
<1>1. waits' = (waits \ old) \cup {new} /\ ended' = Append(kept, "open")
  BY DEF RecordWait
<1>2. ended \in Seq(Endings) /\ Len(ended) \in Nat /\ DOMAIN ended = 1..Len(ended)
  BY SMTT(30) DEF IInv, Typed
<1>3. new \in Waits /\ new.id = Len(ended) + 1
  <2>1. work[a].review \in StandbyReviews
    BY NoReviewIsNone DEF IInv, Typed, Works, WaitReviews
  <2>2. work[a].review.through \in Nat /\ work[a].review.targets \in SUBSET Agents
    BY <2>1 DEF StandbyReviews
  <2>3. threads[a].goal \in Nat /\ threads[a].rev + 1 \in Nat /\ threads[a].turn \in Nat
    BY SMTT(30) DEF IInv, Typed, Rows
  <2>. QED
    BY SMTT(30), <1>2, <2>2, <2>3 DEF Waits
<1>4. kept \in Seq(Endings) /\ DOMAIN kept = DOMAIN ended
  <2>1. "replaced" \in Endings
    BY DEF Endings
  <2>. HIDE DEF old
  <2>. QED
    BY <1>2, <2>1, EndedType
<1>5. waits \ old \subseteq waits
  OBVIOUS
<1>. HIDE DEF old, new, kept
<1>6. ended' \in Seq(Endings) /\ DOMAIN ended' = 1..(Len(ended) + 1)
  <2>1. "open" \in Endings
    BY DEF Endings
  <2>2. Len(kept) = Len(ended)
    BY SMTT(30), <1>2, <1>4
  <2>. QED
    BY SMTT(30), <1>1, <1>2, <1>4, <2>1, <2>2
<1>7. waits' \in SUBSET Waits
  BY <1>1, <1>3, <1>5 DEF IInv, Typed
<1>8. \A w \in waits : w.id \in 1..Len(ended)
  BY <1>2 DEF IInv, WaitsMinted
<1>9. WaitsMinted'
  BY SMTT(30), <1>1, <1>2, <1>3, <1>5, <1>6, <1>8 DEF IInv, WaitsMinted
<1>. QED
  BY <1>6, <1>7, <1>9

LEMMA PublishInv ==
    ASSUME IInv, NEW a \in Agents, PublishStandby(a)
    PROVE  IInv'
<1>1. waits' \in SUBSET Waits /\ ended' \in Seq(Endings) /\ WaitsMinted'
  BY RecordInv DEF PublishStandby
<1>2. work' \in [Agents -> Works] /\ ReviewHasReply'
  BY UnreviewedInv DEF PublishStandby
<1>3. threads' \in [Agents -> Rows]
  BY RevisionType DEF PublishStandby, IInv, Typed
<1>4. Typed'
  BY <1>1, <1>2, <1>3 DEF PublishStandby, IInv, Typed
<1>. QED
  BY <1>1, <1>2, <1>4, ReadsFrame DEF PublishStandby, IInv

LEMMA PublishDiesInv ==
    ASSUME IInv, NEW a \in Agents, PublishStandbyDies(a)
    PROVE  IInv'
<1>1. waits' \in SUBSET Waits /\ ended' \in Seq(Endings) /\ WaitsMinted'
  BY RecordInv DEF PublishStandbyDies
<1>2. /\ work' \in [Agents -> Works]
      /\ releases' \subseteq releases
      /\ ReadWasSilent' /\ ReviewHasReply'
  BY DiesWithInv DEF PublishStandbyDies
<1>3. Typed'
  BY <1>1, <1>2, DeadType DEF PublishStandbyDies, IInv, Typed
<1>. QED
  BY <1>1, <1>2, <1>3 DEF IInv

LEMMA ReviewReplyInv ==
    ASSUME IInv, NEW a \in Agents, ReviewReply(a)
    PROVE  IInv'
<1>. DEFINE w == CHOOSE v \in Answered(a) : TRUE
            review == IF Answered(a) = {} THEN NoReview ELSE Review(w)
<1>1. Answered(a) # {} => w \in Waits /\ Matches(w, work[a].input)
  BY ResolveIsWait DEF Answered, IInv
<1>2. Answered(a) # {} => /\ review = Review(w)
                          /\ Review(w) \in WaitReviews
                          /\ Review(w).wait = w
  BY <1>1, ReviewType DEF Review, IInv
<1>3. Answered(a) = {} => review = NoReview
  OBVIOUS
<1>4. work' = [work EXCEPT ![a].step = "settled", ![a].review = review]
  BY DEF ReviewReply
<1>. HIDE DEF w, review
<1>5. /\ work'[a] = [work[a] EXCEPT !.step = "settled", !.review = review]
      /\ \A b \in Agents : b # a => work'[b] = work[b]
  BY <1>4 DEF IInv, Typed
<1>6. /\ work'[a] \in Works
      /\ work'[a].input = work[a].input /\ work'[a].review = review
  <2>1. work[a] \in Works /\ review \in {NoReview} \cup WaitReviews
    BY <1>2, <1>3 DEF IInv, Typed
  <2>. QED
    BY <1>5, <2>1 DEF Works
<1>7. work' \in [Agents -> Works]
  BY <1>4, <1>5, <1>6 DEF IInv, Typed
<1>8. Typed'
  BY <1>7 DEF ReviewReply, IInv, Typed
<1>9. work[a].input \in DOMAIN bus /\ bus' = bus
  BY DEF ReviewReply, IInv, ReviewHasReply
<1>10. ReviewHasReply'
  <2>1. CASE Answered(a) = {}
    BY <1>3, <1>5, <1>6, <1>9, <2>1, WorkFrame, NoReviewIsNone DEF IInv
  <2>2. CASE Answered(a) # {}
    <3>1. work'[a].review \in WaitReviews /\ work'[a].review.wait = w
      BY <1>2, <1>6, <2>2
    <3>2. \E n \in DOMAIN bus' : n > w.after /\ bus'[n].to = w.owner /\ bus'[n].from \in w.targets
      BY <1>1, <1>9, <2>2 DEF Matches
    <3>3. HasReply(work[a].review.wait)'
      BY <3>1, <3>2 DEF HasReply, Matches
    <3>4. \A b \in Agents : b # a =>
              /\ work'[b].input # NoInput => work'[b].input \in DOMAIN bus'
              /\ work'[b].review.kind = "wait" =>
                   work'[b].review \in WaitReviews /\ HasReply(work[b].review.wait)'
      BY <1>5, <1>9 DEF IInv, ReviewHasReply, HasReply, Matches
    <3>. QED
      BY <1>6, <1>9, <3>1, <3>3, <3>4 DEF ReviewHasReply
  <2>. QED
    BY <2>1, <2>2
<1>. QED
  BY <1>8, <1>10, WaitsFrame, ReadsFrame DEF ReviewReply, IInv

LEMMA ConsumeInv ==
    ASSUME IInv, NEW a \in Agents, ConsumeReply(a)
    PROVE  IInv'
<1>. DEFINE gone == {w \in waits : /\ StillCurrent(work[a].review)
                                  /\ work[a].goal = threads[a].goal
                                  /\ w.id = work[a].review.wait.id}
<1>1. /\ waits' = waits \ gone /\ Ended(gone, "answered")
      /\ work' = [work EXCEPT ![a].review = NoReview]
      /\ UNCHANGED <<threads, bus, releases>>
  BY DEF ConsumeReply
<1>. HIDE DEF gone
<1>2. ended' \in Seq(Endings) /\ DOMAIN ended' = DOMAIN ended
  <2>1. ended \in Seq(Endings) /\ "answered" \in Endings
    BY DEF IInv, Typed, Endings
  <2>. QED
    BY <1>1, <2>1, EndedType DEF Ended
<1>3. work' \in [Agents -> Works] /\ ReviewHasReply'
  BY <1>1, UnreviewedInv
<1>4. Typed'
  BY <1>1, <1>2, <1>3 DEF IInv, Typed
<1>. QED
  BY <1>1, <1>2, <1>3, <1>4, WaitsFrame, ReadsFrame DEF IInv

\* A release step that publishes nothing.
LEMMA InsteadInv ==
    ASSUME IInv, NEW r \in releases, NEW next \in SUBSET Releases, Instead(r, next),
           \A q \in next : /\ q.step # "publish"
                           /\ q.step = "read" => q.review \in WaitReviews,
           bus' = bus
    PROVE  /\ releases' \in SUBSET Releases
           /\ \A q \in releases' : q.step \in {"read", "publish"} => q.review \in WaitReviews
           /\ ReadWasSilent'
<1>1. \A q \in releases' : q \in releases \/ q \in next
  BY DEF Instead
<1>2. \A q \in releases' : q \in releases \/ q.step # "publish"
  BY <1>1
<1>3. ReadWasSilent'
  BY <1>2, ReadsFrame DEF IInv
<1>. QED
  BY <1>1, <1>3 DEF IInv, Typed

\* So the whole invariant, when the step changes nothing else.
LEMMA InsteadOnly ==
    ASSUME IInv, NEW r \in releases, NEW next \in SUBSET Releases, Instead(r, next),
           \A q \in next : /\ q.step # "publish"
                           /\ q.step = "read" => q.review \in WaitReviews,
           UNCHANGED <<threads, waits, bus, work, taken, ended, changes, faults>>
    PROVE  IInv'
<1>1. /\ releases' \in SUBSET Releases
      /\ \A q \in releases' : q.step \in {"read", "publish"} => q.review \in WaitReviews
      /\ ReadWasSilent'
  BY InsteadInv
<1>2. Typed'
  BY <1>1 DEF IInv, Typed
<1>. QED
  BY <1>1, <1>2, WaitsFrame, WorkFrame DEF IInv

LEMMA FindWaitsInv ==
    ASSUME IInv, NEW r \in releases, FindWaits(r)
    PROVE  IInv'
<1>. DEFINE found == [r EXCEPT !.todo = Targeting(r.host)]
            next == IF IdleAfter(r.host, r.gen) THEN Dropped(found) ELSE {}
<1>1. found \in Releases
  BY DEF IInv, Typed, Releases, Targeting
<1>. HIDE DEF found
<1>2. next \in SUBSET Releases /\ \A q \in next : q.step = "next"
  BY <1>1, DroppedType
<1>3. Instead(r, next)
  BY DEF FindWaits, found
<1>. HIDE DEF next
<1>. QED
  BY <1>2, <1>3, InsteadOnly DEF FindWaits

LEMMA NextWaitInv ==
    ASSUME IInv, NEW r \in releases, NextWait(r)
    PROVE  IInv'
<1>1. PICK w \in r.todo :
        LET rest == [r EXCEPT !.todo = @ \ {w}]
        IN  Instead(r, IF Releasable(w)
                       THEN {[rest EXCEPT !.step = "read", !.review = Review(w)]}
                       ELSE Dropped(rest))
  BY DEF NextWait
<1>. DEFINE rest == [r EXCEPT !.todo = @ \ {w}]
            read == [rest EXCEPT !.step = "read", !.review = Review(w)]
            next == IF Releasable(w) THEN {read} ELSE Dropped(rest)
<1>2. Instead(r, next)
  BY <1>1
<1>3. rest \in Releases
  BY DEF IInv, Typed, Releases
<1>4. Review(w) \in WaitReviews
  BY ReviewType DEF IInv, Typed, Releases
<1>. HIDE DEF rest
<1>5. read \in Releases /\ read.step = "read" /\ read.review = Review(w)
  BY <1>3, <1>4 DEF Releases
<1>. HIDE DEF read
<1>6. /\ next \in SUBSET Releases
      /\ \A q \in next : q.step # "publish" /\ (q.step = "read" => q.review \in WaitReviews)
  BY <1>3, <1>4, <1>5, DroppedType
<1>. HIDE DEF next
<1>. QED
  BY <1>2, <1>6, InsteadOnly DEF NextWait

LEMMA ObserveInv ==
    ASSUME IInv, NEW a \in Agents, Observe(a)
    PROVE  IInv'
<1>1. PICK w \in CurrentWaits(a) :
        releases' = releases \cup {[kind |-> "observe", host |-> a, gen |-> 0, todo |-> {},
                                    step |-> "read", review |-> Review(w)]}
  BY DEF Observe
<1>. DEFINE seen == [kind |-> "observe", host |-> a, gen |-> 0, todo |-> {},
                     step |-> "read", review |-> Review(w)]
<1>2. Review(w) \in WaitReviews
  BY ResolveIsWait, ReviewType DEF CurrentWaits, IInv
<1>3. seen \in Releases /\ seen.step = "read" /\ seen.review \in WaitReviews
  BY <1>2 DEF Releases
<1>4. releases' = releases \cup {seen}
  BY <1>1
<1>. HIDE DEF seen
<1>5. Typed'
  BY <1>3, <1>4 DEF Observe, IInv, Typed
<1>6. ReadWasSilent'
  BY <1>3, <1>4, ReadsFrame DEF Observe, IInv
<1>. QED
  BY <1>5, <1>6, WaitsFrame, WorkFrame DEF Observe, IInv

\* The cut of a read that saw no reply is the end of the bus it read.
LEMMA ReadRepliesInv ==
    ASSUME IInv, NEW r \in releases, ReadReplies(r)
    PROVE  IInv'
<1>1. CASE HasReply(r.review.wait)
  <2>1. Instead(r, Dropped(r))
    BY <1>1 DEF ReadReplies
  <2>2. Dropped(r) \in SUBSET Releases /\ \A q \in Dropped(r) : q.step = "next"
    BY DroppedType DEF IInv, Typed
  <2>. QED
    BY <2>1, <2>2, InsteadOnly DEF ReadReplies
<1>2. CASE ~HasReply(r.review.wait)
  <2>. DEFINE read == [r EXCEPT !.step = "publish", !.review.through = Len(bus)]
  <2>1. releases' = (releases \ {r}) \cup {read}
    BY <1>2 DEF ReadReplies, Instead
  <2>2. r \in Releases /\ r.review \in WaitReviews /\ Len(bus) \in Nat
    BY SMTT(30) DEF ReadReplies, IInv, Typed
  <2>3. /\ [r.review EXCEPT !.through = Len(bus)] \in WaitReviews
        /\ [r.review EXCEPT !.through = Len(bus)].through = Len(bus)
        /\ [r.review EXCEPT !.through = Len(bus)].wait = r.review.wait
    BY <2>2 DEF WaitReviews
  <2>4. /\ read \in Releases /\ read.step = "publish" /\ read.review \in WaitReviews
        /\ read.review.through = Len(bus) /\ read.review.wait = r.review.wait
    <3>. DEFINE review == [r.review EXCEPT !.through = Len(bus)]
    <3>1. read = [r EXCEPT !.step = "publish", !.review = review]
      BY <2>2 DEF Releases
    <3>. HIDE DEF review
    <3>2. /\ read \in Releases
          /\ read.step = "publish" /\ read.review = review
      <4>1. review \in WaitReviews
        BY <2>3 DEF review
      <4>. QED
        BY <2>2, <3>1, <4>1 DEF Releases
    <3>. QED
      BY <2>3, <3>2 DEF review
  <2>. HIDE DEF read
  <2>5. Typed'
    BY <2>1, <2>4 DEF ReadReplies, IInv, Typed
  <2>6. ReadWasSilent'
    <3>. SUFFICES ASSUME NEW q \in releases', q.step = "publish"
                  PROVE  /\ q.review.through <= Len(bus)
                         /\ \A n \in DOMAIN bus : n <= q.review.through => ~Matches(q.review.wait, n)
      BY DEF ReadReplies, ReadWasSilent, Matches
    <3>1. CASE q = read
      BY SMTT(30), <1>2, <2>2, <2>4, <3>1 DEF HasReply
    <3>2. CASE q \in releases
      BY <3>2 DEF IInv, ReadWasSilent
    <3>. QED
      BY <2>1, <3>1, <3>2
  <2>. QED
    BY <2>5, <2>6, WaitsFrame, WorkFrame DEF ReadReplies, IInv
<1>. QED
  BY <1>1, <1>2

LEMMA RecaptureInv ==
    ASSUME IInv, NEW r \in releases, Recapture(r)
    PROVE  IInv'
<1>. DEFINE w == r.review.wait
            read == [r EXCEPT !.step = "read", !.review = Review(w)]
            next == IF Resolve(w.owner) = {w} /\ CurrentFor(w) THEN {read} ELSE Dropped(r)
<1>1. Instead(r, next)
  BY DEF Recapture
<1>2. r \in Releases /\ Review(w) \in WaitReviews
  BY ReviewType DEF Recapture, IInv, Typed, WaitReviews
<1>3. read \in Releases /\ read.step = "read" /\ read.review = Review(w)
  BY <1>2 DEF Releases
<1>. HIDE DEF read
<1>4. /\ next \in SUBSET Releases
      /\ \A q \in next : q.step # "publish" /\ (q.step = "read" => q.review \in WaitReviews)
  BY <1>2, <1>3, DroppedType
<1>. HIDE DEF next
<1>. QED
  BY <1>1, <1>4, InsteadOnly DEF Recapture

LEMMA ReadAgainInv ==
    ASSUME IInv, NEW r \in releases, ReadAgain(r)
    PROVE  IInv'
<1>. DEFINE read == [r EXCEPT !.step = "read"]
<1>1. Instead(r, {read})
  BY DEF ReadAgain
<1>2. read \in Releases /\ read.step = "read" /\ read.review \in WaitReviews
  <2>1. r \in Releases /\ r.review \in WaitReviews
    BY DEF ReadAgain, IInv, Typed
  <2>. QED
    BY <2>1 DEF Releases
<1>. HIDE DEF read
<1>. QED
  BY <1>1, <1>2, InsteadOnly DEF ReadAgain

LEMMA ReleaseInv ==
    ASSUME IInv, NEW r \in releases, Release(r)
    PROVE  IInv'
<1>. DEFINE w == r.review.wait
<1>1. w \in Waits /\ w.owner \in Agents
  BY DEF Release, Silent, IInv, Typed, WaitReviews, Waits
<1>2. threads' \in [Agents -> Rows]
  BY <1>1, RevisionType DEF Release, Noted, IInv, Typed
<1>3. waits' \subseteq waits /\ bus' = bus /\ work' = work
  BY DEF Release
<1>4. ended' \in Seq(Endings) /\ DOMAIN ended' = DOMAIN ended
  <2>1. ended \in Seq(Endings) /\ "released" \in Endings
    BY DEF IInv, Typed, Endings
  <2>2. Ended({w}, "released")
    BY DEF Release
  <2>. QED
    BY <2>1, <2>2, EndedType DEF Ended
<1>5. Instead(r, Dropped(r)) /\ Dropped(r) \in SUBSET Releases /\ \A q \in Dropped(r) : q.step = "next"
  BY DroppedType DEF Release, IInv, Typed
<1>6. /\ releases' \in SUBSET Releases
      /\ \A q \in releases' : q.step \in {"read", "publish"} => q.review \in WaitReviews
      /\ ReadWasSilent'
  BY <1>3, <1>5, InsteadInv
<1>7. Typed'
  BY <1>2, <1>3, <1>4, <1>6 DEF IInv, Typed
<1>. QED
  BY <1>3, <1>4, <1>6, <1>7, WaitsFrame, WorkFrame DEF IInv

LEMMA ReleaseRefusedInv ==
    ASSUME IInv, NEW r \in releases, ReleaseRefused(r)
    PROVE  IInv'
<1>1. Instead(r, Dropped(r)) /\ Dropped(r) \in SUBSET Releases /\ \A q \in Dropped(r) : q.step = "next"
  BY DroppedType DEF ReleaseRefused, IInv, Typed
<1>. QED
  BY <1>1, InsteadOnly DEF ReleaseRefused

LEMMA ReleaseDiesInv ==
    ASSUME IInv, NEW r \in releases, ReleaseDies(r)
    PROVE  IInv'
<1>1. r.review.wait.owner \in Agents /\ r.host \in Agents
  BY DEF ReleaseDies, Silent, IInv, Typed, WaitReviews, Waits, Releases
<1>2. Noted(r.review.wait) \in [Agents -> Rows]
  BY <1>1, RevisionType DEF Noted, IInv, Typed
<1>3. threads' \in [Agents -> Rows]
  BY <1>1, <1>2, DeadType DEF ReleaseDies
<1>4. /\ work' \in [Agents -> Works]
      /\ releases' \subseteq releases
      /\ ReadWasSilent' /\ ReviewHasReply'
  BY <1>1, DiesWithInv DEF ReleaseDies
<1>5. Typed'
  BY <1>3, <1>4 DEF ReleaseDies, IInv, Typed
<1>. QED
  BY <1>4, <1>5, WaitsFrame DEF ReleaseDies, IInv

LEMMA NextInv == IInv /\ [Next]_vars => IInv'
<1>. SUFFICES ASSUME IInv, [Next]_vars PROVE IInv'
  OBVIOUS
<1>1. ASSUME NEW a \in Agents, ContinueGoal(a) \/ OwnerInput(a) PROVE IInv'
  BY <1>1, LeaseInv DEF ContinueGoal, OwnerInput
<1>2. ASSUME NEW a \in Agents, NEW n \in DOMAIN bus, DeliverInput(a, n) PROVE IInv'
  <2>1. n \in Nat
    BY SMTT(30) DEF IInv, Typed
  <2>. QED
    BY <1>2, <2>1, LeaseInv DEF DeliverInput
<1>3. ASSUME NEW a \in Agents,
             \/ \E b \in Agents : Send(a, b)
             \/ FinishTurn(a)
             \/ EditGoal(a)
             \/ \E row \in Changed(threads[a]), dies \in BOOLEAN : ChangeGoal(a, row, dies)
             \/ HostDies(a)
             \/ StartOwner(a)
      PROVE  IInv'
  BY <1>3, SendInv, FinishInv, EditInv, ChangeInv, HostDiesInv, StartOwnerInv
<1>4. ASSUME NEW a \in Agents,
             \/ \E targets \in (SUBSET (Agents \ {a})) \ {{}} : PrepareStandby(a, targets)
             \/ PublishStandby(a)
             \/ RefuseStandby(a)
             \/ PublishStandbyDies(a)
             \/ ReviewReply(a)
             \/ ConsumeReply(a)
             \/ Observe(a)
      PROVE  IInv'
  BY <1>4, PrepareInv, PublishInv, RefuseInv, PublishDiesInv, ReviewReplyInv, ConsumeInv, ObserveInv
<1>5. ASSUME NEW r \in releases, ReleaseStep(r) \/ ReleaseDies(r) PROVE IInv'
  BY <1>5, FindWaitsInv, NextWaitInv, ReadRepliesInv, RecaptureInv, ReadAgainInv, ReleaseInv,
     ReleaseRefusedInv, ReleaseDiesInv DEF ReleaseStep
<1>6. CASE UNCHANGED vars
  BY <1>6 DEF vars, IInv, Typed, WaitsMinted, ReadWasSilent, ReviewHasReply, HasReply, Matches
<1>. QED
  BY <1>1, <1>2, <1>3, <1>4, <1>5, <1>6 DEF Next

\* The inductive invariant holds throughout: typed state, wait IDs minted once, silence read
\* up to the cut, and a reply behind every wait a settling turn reviews.
THEOREM Invariance == Spec => []IInv
<1>1. Init => IInv
  BY InitInv
<1>2. IInv /\ [Next]_vars => IInv'
  BY NextInv
<1>. QED
  BY <1>1, <1>2, PTL DEF Spec

-----------------------------------------------------------------------------
(* How a wait ends.                                                        *)

\* Four kinds of step record a wait or write how one ended.
LEMMA EndingSteps ==
    ASSUME [Next]_vars
    PROVE  \/ waits' = waits /\ ended' = ended
           \/ \E a \in Agents : \E row, dies : ChangeGoal(a, row, dies)
           \/ \E a \in Agents : RecordWait(a) /\ work[a].review.kind = "standby"
           \/ \E a \in Agents : ConsumeReply(a)
           \/ \E r \in releases : Release(r)
<1>1. ASSUME NEW a \in Agents,
             \/ ContinueGoal(a)
             \/ OwnerInput(a)
             \/ \E n \in DOMAIN bus : DeliverInput(a, n)
             \/ \E b \in Agents : Send(a, b)
             \/ FinishTurn(a)
             \/ EditGoal(a)
             \/ HostDies(a)
             \/ StartOwner(a)
             \/ \E targets \in (SUBSET (Agents \ {a})) \ {{}} : PrepareStandby(a, targets)
             \/ RefuseStandby(a)
             \/ ReviewReply(a)
             \/ Observe(a)
      PROVE  waits' = waits /\ ended' = ended
  BY <1>1 DEF ContinueGoal, OwnerInput, DeliverInput, Lease, Send, FinishTurn, EditGoal, HostDies,
     StartOwner, PrepareStandby, RefuseStandby, ReviewReply, Observe
<1>2. ASSUME NEW a \in Agents, PublishStandby(a) \/ PublishStandbyDies(a)
      PROVE  RecordWait(a) /\ work[a].review.kind = "standby"
  BY <1>2 DEF PublishStandby, PublishStandbyDies
<1>3. ASSUME NEW r \in releases, ReleaseStep(r) \/ ReleaseDies(r)
      PROVE  (waits' = waits /\ ended' = ended) \/ Release(r)
  BY <1>3 DEF ReleaseStep, FindWaits, NextWait, ReadReplies, Recapture, ReadAgain, ReleaseRefused,
     ReleaseDies
<1>4. CASE UNCHANGED vars
  BY <1>4 DEF vars
<1>. QED
  BY <1>1, <1>2, <1>3, <1>4 DEF Next

\* A change of the goal or a new standby withdraws or replaces a wait.
LEMMA OtherEndings ==
    ASSUME IInv, NEW w \in waits, NEW how \in {"released", "answered"}, EndsAs(w, how)
    PROVE  /\ ended' # ended
           /\ \A a, row, dies : ~ChangeGoal(a, row, dies)
           /\ \A a : ~RecordWait(a)
<1>1. w.id \in DOMAIN ended /\ ended[w.id] = "open" /\ ended'[w.id] = how
  BY DEF IInv, WaitsMinted, EndsAs
<1>2. ended' # ended
  BY <1>1
<1>3. ASSUME NEW a, NEW row, NEW dies, ChangeGoal(a, row, dies) PROVE FALSE
  BY <1>1, <1>3 DEF ChangeGoal, Ended
<1>4. ASSUME NEW a, RecordWait(a) PROVE FALSE
  <2>. DEFINE old == {v \in waits : v.owner = a /\ v.goal = threads[a].goal}
              kept == [i \in DOMAIN ended |->
                         IF \E v \in old : v.id = i THEN "replaced" ELSE ended[i]]
  <2>1. ended' = Append(kept, "open")
    BY <1>4 DEF RecordWait
  <2>2. kept \in Seq(Endings) /\ DOMAIN kept = DOMAIN ended
    <3>1. ended \in Seq(Endings) /\ "replaced" \in Endings
      BY DEF IInv, Typed, Endings
    <3>. HIDE DEF old
    <3>. QED
      BY <3>1, EndedType
  <2>3. kept[w.id] \in {"replaced", "open"}
    BY <1>1
  <2>. HIDE DEF kept
  <2>4. ended'[w.id] = kept[w.id]
    BY SMTT(30), <1>1, <2>1, <2>2
  <2>. QED
    BY <1>1, <2>3, <2>4
<1>. QED
  BY <1>2, <1>3, <1>4

\* A wait that ends as released is the one under review of a release.
LEMMA ReleasedByRelease ==
    ASSUME IInv, [Next]_vars, NEW w \in waits, EndsAs(w, "released")
    PROVE  \E r \in releases : Release(r) /\ r.review.wait = w
<1>1. w.id \in DOMAIN ended /\ ended[w.id] = "open" /\ ended'[w.id] = "released"
  BY DEF IInv, WaitsMinted, EndsAs
<1>2. ASSUME NEW a \in Agents, ConsumeReply(a) PROVE FALSE
  BY <1>1, <1>2 DEF ConsumeReply, Ended
<1>3. ASSUME NEW r \in releases, Release(r) PROVE r.review.wait = w
  <2>1. r.review.wait.id = w.id
    BY <1>1, <1>3 DEF Release, Ended
  <2>2. r.review.wait \in waits
    BY <1>3 DEF Release, Silent, StillCurrent, Resolve
  <2>. QED
    BY <2>1, <2>2 DEF IInv, WaitsMinted
<1>4. "released" \in {"released", "answered"}
  OBVIOUS
<1>. QED
  BY <1>2, <1>3, <1>4, EndingSteps, OtherEndings

\* A wait that ends as answered is the one under review of a settling turn.
LEMMA AnsweredByConsume ==
    ASSUME IInv, [Next]_vars, NEW w \in waits, EndsAs(w, "answered")
    PROVE  \E a \in Agents : ConsumeReply(a) /\ work[a].review.wait = w
<1>1. w.id \in DOMAIN ended /\ ended[w.id] = "open" /\ ended'[w.id] = "answered"
  BY DEF IInv, WaitsMinted, EndsAs
<1>2. ASSUME NEW r \in releases, Release(r) PROVE FALSE
  BY <1>1, <1>2 DEF Release, Ended
<1>3. ASSUME NEW a \in Agents, ConsumeReply(a) PROVE work[a].review.wait = w
  <2>1. PICK v \in waits : /\ v.id = w.id
                           /\ StillCurrent(work[a].review)
                           /\ v.id = work[a].review.wait.id
    BY <1>1, <1>3 DEF ConsumeReply, Ended
  <2>2. work[a].review.wait \in waits
    BY <2>1 DEF StillCurrent, Resolve
  <2>. QED
    BY <2>1, <2>2 DEF IInv, WaitsMinted
<1>4. "answered" \in {"released", "answered"}
  OBVIOUS
<1>. QED
  BY <1>2, <1>3, <1>4, EndingSteps, OtherEndings

\* publish_unanswered never releases a wait over a reply: whatever the bus received between
\* the unlocked read and the release, no qualifying reply is on it when the wait ends.
THEOREM WaitsReleasedInSilence == Spec => ReleasedInSilence
<1>1. ASSUME IInv, [Next]_vars PROVE SilentWhenReleased
  <2>. SUFFICES ASSUME NEW w \in waits, EndsAs(w, "released"), HasReply(w) PROVE FALSE
    BY DEF SilentWhenReleased
  <2>1. PICK r \in releases : Release(r) /\ r.review.wait = w
    BY <1>1, ReleasedByRelease
  <2>2. PICK n \in DOMAIN bus : Matches(w, n)
    BY DEF HasReply
  <2>3. n > r.review.through
    <3>1. n <= r.review.through => ~Matches(w, n)
      BY <1>1, <2>1 DEF Release, Silent, IInv, ReadWasSilent
    <3>2. n \in Nat /\ r.review.through \in Nat
      BY SMTT(30), <1>1, <2>1 DEF Release, Silent, IInv, Typed, WaitReviews
    <3>. QED
      BY SMTT(30), <2>2, <3>1, <3>2
  <2>. QED
    BY <2>1, <2>2, <2>3 DEF Release, Silent, ReceivedAfter, Matches
<1>2. IInv /\ [Next]_vars => [SilentWhenReleased]_vars
  BY <1>1
<1>. QED
  BY <1>2, Invariance, PTL DEF Spec, ReleasedInSilence

\* consume_reply_wait never takes a wait for answered without a reply that came after the
\* wait's own cut from an agent it names.
THEOREM WaitsAnsweredByTheirReply == Spec => AnsweredByItsReply
<1>1. ASSUME IInv, [Next]_vars PROVE RepliedWhenAnswered
  <2>. SUFFICES ASSUME NEW w \in waits, EndsAs(w, "answered") PROVE HasReply(w)
    BY DEF RepliedWhenAnswered
  <2>1. PICK a \in Agents : ConsumeReply(a) /\ work[a].review.wait = w
    BY <1>1, AnsweredByConsume
  <2>2. work[a].review.kind = "wait"
    BY <2>1 DEF ConsumeReply
  <2>3. HasReply(work[a].review.wait)
    BY <1>1, <2>2 DEF IInv, ReviewHasReply
  <2>. QED
    BY <2>1, <2>3
<1>2. IInv /\ [Next]_vars => [RepliedWhenAnswered]_vars
  BY <1>1
<1>. QED
  BY <1>2, Invariance, PTL DEF Spec, AnsweredByItsReply

\* Neither the callback of a finished turn nor the owner's observation releases a wait while
\* an agent it names does independent work.
THEOREM WaitsReleasedWhenIdle == Spec => ReleasedOnlyWhenNobodyWorks
<1>1. ASSUME IInv, [Next]_vars PROVE IdleWhenReleased
  <2>. SUFFICES ASSUME NEW w \in waits, EndsAs(w, "released"),
                       NEW t \in w.targets, Working(t)
                PROVE  \E v \in CurrentWaits(t) : v.turn = threads[t].turn
    BY DEF IdleWhenReleased
  <2>1. PICK r \in releases : Release(r) /\ r.review.wait = w
    BY <1>1, ReleasedByRelease
  <2>2. CASE r.kind = "finish"
    BY <2>1, <2>2 DEF Release, Justified
  <2>3. CASE r.kind # "finish"
    <3>1. ~Working(w.owner) /\ ClosedGroup(w.owner, w.targets)
      BY <2>1, <2>3 DEF Release, Justified
    <3>2. ~Independent(t)
      BY <3>1 DEF ClosedGroup, Closes
    <3>. QED
      BY <3>2 DEF Independent, Working
  <2>. QED
    BY <2>2, <2>3
<1>2. IInv /\ [Next]_vars => [IdleWhenReleased]_vars
  BY <1>1
<1>. QED
  BY <1>2, Invariance, PTL DEF Spec, ReleasedOnlyWhenNobodyWorks

-----------------------------------------------------------------------------
(* The recorded waits are the open ones, one for each goal; and a turn and *)
(* a release are those of a running process.                               *)

OneWaitPerGoal == \A v, w \in waits : v.owner = w.owner /\ v.goal = w.goal => v = w

OpenIsRecorded == {w.id : w \in waits} = {i \in DOMAIN ended : ended[i] = "open"}

HostsUp == \A r \in releases : threads[r.host].up

WorkersWork == \A a \in Agents : work[a] # NoWork => Working(a)

\* A wait that ends stops being open, and no other does.
LEMMA OpenAfterEnding ==
    ASSUME WaitsMinted, OpenIsRecorded, NEW gone \in SUBSET waits, NEW how, how # "open",
           waits' = waits \ gone, Ended(gone, how)
    PROVE  OpenIsRecorded'
<1>1. /\ DOMAIN ended' = DOMAIN ended
      /\ \A i \in DOMAIN ended :
           ended'[i] = IF \E w \in gone : w.id = i THEN how ELSE ended[i]
  BY DEF Ended
<1>2. ASSUME NEW w \in waits' PROVE w.id \in DOMAIN ended' /\ ended'[w.id] = "open"
  <2>1. w \in waits /\ w \notin gone
    BY <1>2
  <2>2. w.id \in DOMAIN ended /\ ended[w.id] = "open"
    BY <2>1 DEF OpenIsRecorded
  <2>3. ~ \E v \in gone : v.id = w.id
    BY <2>1 DEF WaitsMinted
  <2>. QED
    BY <1>1, <2>2, <2>3
<1>3. ASSUME NEW i \in DOMAIN ended', ended'[i] = "open" PROVE \E w \in waits' : w.id = i
  <2>1. ended[i] = "open" /\ ~ \E v \in gone : v.id = i
    BY <1>1, <1>3
  <2>2. PICK w \in waits : w.id = i
    BY SMTT(30), <1>1, <2>1 DEF OpenIsRecorded
  <2>. QED
    BY <2>1, <2>2
<1>. QED
  BY SMTT(30), <1>2, <1>3 DEF OpenIsRecorded

\* What RecordWait writes.
Replaced(a) == {w \in waits : w.owner = a /\ w.goal = threads[a].goal}

NewWait(a) == [id |-> Len(ended) + 1, owner |-> a, goal |-> threads[a].goal,
               rev |-> threads[a].rev + 1, after |-> work[a].review.through,
               targets |-> work[a].review.targets, turn |-> threads[a].turn]

KeptEndings(a) ==
    [i \in DOMAIN ended |-> IF \E w \in Replaced(a) : w.id = i THEN "replaced" ELSE ended[i]]

LEMMA RecordFacts ==
    ASSUME IInv, NEW a \in Agents, RecordWait(a)
    PROVE  /\ waits' = (waits \ Replaced(a)) \cup {NewWait(a)}
           /\ ended' = Append(KeptEndings(a), "open")
           /\ KeptEndings(a) \in Seq(Endings) /\ DOMAIN KeptEndings(a) = DOMAIN ended
           /\ \A i \in DOMAIN ended : KeptEndings(a)[i] =
                IF \E w \in Replaced(a) : w.id = i THEN "replaced" ELSE ended[i]
           /\ Len(KeptEndings(a)) = Len(ended)
           /\ Len(ended) \in Nat /\ DOMAIN ended = 1..Len(ended)
<1>1. waits' = (waits \ Replaced(a)) \cup {NewWait(a)} /\ ended' = Append(KeptEndings(a), "open")
  BY DEF RecordWait, Replaced, NewWait, KeptEndings
<1>2. ended \in Seq(Endings) /\ Len(ended) \in Nat /\ DOMAIN ended = 1..Len(ended)
  BY SMTT(30) DEF IInv, Typed
<1>3. KeptEndings(a) \in Seq(Endings) /\ DOMAIN KeptEndings(a) = DOMAIN ended
  <2>1. "replaced" \in Endings
    BY DEF Endings
  <2>. QED
    BY <1>2, <2>1, EndedType DEF KeptEndings
<1>4. \A i \in DOMAIN ended : KeptEndings(a)[i] =
          IF \E w \in Replaced(a) : w.id = i THEN "replaced" ELSE ended[i]
  BY DEF KeptEndings
<1>5. Len(KeptEndings(a)) = Len(ended)
  BY SMTT(30), <1>2, <1>3
<1>. QED
  BY <1>1, <1>2, <1>3, <1>4, <1>5

\* The new wait is open, the one it replaces is not.
LEMMA RecordOpens ==
    ASSUME IInv, OneWaitPerGoal, OpenIsRecorded, NEW a \in Agents, RecordWait(a)
    PROVE  OneWaitPerGoal' /\ OpenIsRecorded'
<1>1. /\ waits' = (waits \ Replaced(a)) \cup {NewWait(a)}
      /\ ended' = Append(KeptEndings(a), "open")
      /\ KeptEndings(a) \in Seq(Endings) /\ DOMAIN KeptEndings(a) = DOMAIN ended
      /\ \A i \in DOMAIN ended : KeptEndings(a)[i] =
           IF \E w \in Replaced(a) : w.id = i THEN "replaced" ELSE ended[i]
      /\ Len(KeptEndings(a)) = Len(ended)
      /\ Len(ended) \in Nat /\ DOMAIN ended = 1..Len(ended)
  BY RecordFacts
<1>2. OneWaitPerGoal'
  <2>1. NewWait(a).owner = a /\ NewWait(a).goal = threads[a].goal
    BY DEF NewWait
  <2>2. \A w \in waits \ Replaced(a) : ~(w.owner = a /\ w.goal = threads[a].goal)
    BY DEF Replaced
  <2>. QED
    BY SMTT(30), <1>1, <2>1, <2>2 DEF OneWaitPerGoal
<1>3. /\ DOMAIN ended' = 1..(Len(ended) + 1)
      /\ ended'[Len(ended) + 1] = "open"
      /\ \A i \in DOMAIN ended : i \in DOMAIN ended' /\ ended'[i] = KeptEndings(a)[i]
      /\ \A i \in DOMAIN ended' : i \in DOMAIN ended \/ i = Len(ended) + 1
  BY SMTT(30), <1>1
<1>4. ASSUME NEW w \in waits' PROVE w.id \in DOMAIN ended' /\ ended'[w.id] = "open"
  <2>1. CASE w = NewWait(a)
    BY SMTT(30), <1>1, <1>3, <2>1 DEF NewWait
  <2>2. CASE w \in waits /\ w \notin Replaced(a)
    <3>1. w.id \in DOMAIN ended /\ ended[w.id] = "open"
      BY <2>2 DEF OpenIsRecorded
    <3>2. ~ \E v \in Replaced(a) : v.id = w.id
      BY <2>2 DEF Replaced, IInv, WaitsMinted
    <3>. QED
      BY <1>1, <1>3, <3>1, <3>2
  <2>. QED
    BY <1>1, <1>4, <2>1, <2>2
<1>5. ASSUME NEW i \in DOMAIN ended', ended'[i] = "open" PROVE \E w \in waits' : w.id = i
  <2>1. CASE i = Len(ended) + 1
    <3>1. NewWait(a).id = Len(ended) + 1
      BY DEF NewWait
    <3>. QED
      BY <1>1, <2>1, <3>1
  <2>2. CASE i \in DOMAIN ended
    <3>1. ended[i] = "open" /\ ~ \E v \in Replaced(a) : v.id = i
      BY <1>1, <1>3, <1>5, <2>2
    <3>2. PICK w \in waits : w.id = i
      BY <2>2, <3>1 DEF OpenIsRecorded
    <3>. QED
      BY <1>1, <3>1, <3>2
  <2>. QED
    BY <1>3, <1>5, <2>1, <2>2
<1>6. OpenIsRecorded'
  BY SMTT(30), <1>4, <1>5 DEF OpenIsRecorded
<1>. QED
  BY <1>2, <1>6

LEMMA WaitsStep ==
    ASSUME IInv, OneWaitPerGoal, OpenIsRecorded, [Next]_vars
    PROVE  OneWaitPerGoal' /\ OpenIsRecorded'
<1>1. ASSUME NEW gone \in SUBSET waits, NEW how, how # "open", waits' = waits \ gone, Ended(gone, how)
      PROVE  OneWaitPerGoal' /\ OpenIsRecorded'
  <2>1. OpenIsRecorded'
    BY <1>1, OpenAfterEnding DEF IInv
  <2>. QED
    BY <1>1, <2>1 DEF OneWaitPerGoal
<1>2. ASSUME NEW a \in Agents, NEW row, NEW dies, ChangeGoal(a, row, dies)
      PROVE  OneWaitPerGoal' /\ OpenIsRecorded'
  <2>. DEFINE gone == {w \in waits : w.owner = a /\ w.goal = threads[a].goal /\ ~dies}
  <2>1. gone \in SUBSET waits /\ waits' = waits \ gone /\ Ended(gone, "withdrawn")
    BY <1>2 DEF ChangeGoal
  <2>. HIDE DEF gone
  <2>. QED
    BY <1>1, <2>1
<1>3. ASSUME NEW a \in Agents, ConsumeReply(a) PROVE OneWaitPerGoal' /\ OpenIsRecorded'
  <2>. DEFINE gone == {w \in waits : /\ StillCurrent(work[a].review)
                                    /\ work[a].goal = threads[a].goal
                                    /\ w.id = work[a].review.wait.id}
  <2>1. gone \in SUBSET waits /\ waits' = waits \ gone /\ Ended(gone, "answered")
    BY <1>3 DEF ConsumeReply
  <2>. HIDE DEF gone
  <2>. QED
    BY <1>1, <2>1
<1>4. ASSUME NEW r \in releases, Release(r) PROVE OneWaitPerGoal' /\ OpenIsRecorded'
  <2>1. r.review.wait \in waits
    BY <1>4 DEF Release, Silent, StillCurrent, Resolve
  <2>2. waits' = waits \ {r.review.wait} /\ Ended({r.review.wait}, "released")
    BY <1>4, <2>1 DEF Release, IInv, WaitsMinted
  <2>. QED
    BY <1>1, <2>1, <2>2
<1>5. CASE waits' = waits /\ ended' = ended
  BY <1>5 DEF OneWaitPerGoal, OpenIsRecorded
<1>. QED
  BY <1>2, <1>3, <1>4, <1>5, EndingSteps, RecordOpens

\* The agent keeps its process and its turn.
SameRun(a) == /\ threads'[a].up = threads[a].up
              /\ threads'[a].turn = threads[a].turn
              /\ threads'[a].done = threads[a].done

\* Noting something in a goal leaves everything else of the row as it is.
LEMMA RevisionKeeps ==
    ASSUME IInv, NEW x \in Agents, threads' = [threads EXCEPT ![x].rev = @ + 1]
    PROVE  \A a \in Agents : /\ SameRun(a)
                             /\ threads'[a].goal = threads[a].goal
                             /\ threads'[a].active = threads[a].active
                             /\ threads'[a].rev >= threads[a].rev
<1>. SUFFICES ASSUME NEW a \in Agents
              PROVE  /\ SameRun(a)
                     /\ threads'[a].goal = threads[a].goal
                     /\ threads'[a].active = threads[a].active
                     /\ threads'[a].rev >= threads[a].rev
  OBVIOUS
<1>1. threads \in [Agents -> Rows] /\ threads[a] \in Rows
  BY DEF IInv, Typed
<1>2. threads'[a] = IF a = x THEN [threads[a] EXCEPT !.rev = threads[a].rev + 1] ELSE threads[a]
  BY <1>1
<1>. QED
  BY SMTT(30), <1>1, <1>2 DEF SameRun, Rows

\* A change of the goal is no change of the process.
LEMMA ChangeKeeps ==
    ASSUME IInv, NEW x \in Agents, NEW row, NEW dies, ChangeGoal(x, row, dies)
    PROVE  \A a \in Agents : SameRun(a)
<1>1. threads \in [Agents -> Rows] /\ threads[x] \in Rows
  BY DEF IInv, Typed
<1>2. row.up = threads[x].up /\ row.turn = threads[x].turn /\ row.done = threads[x].done
  BY <1>1 DEF ChangeGoal, Changed, Rows
<1>. QED
  BY <1>1, <1>2 DEF ChangeGoal, SameRun

LEMMA LeaseKeeps ==
    ASSUME IInv, NEW x \in Agents, NEW input, Lease(x, input)
    PROVE  /\ \A a \in Agents : /\ a # x => threads'[a] = threads[a] /\ work'[a] = work[a]
                                /\ threads'[a].up = threads[a].up
                                /\ threads'[a].done = threads[a].done
                                /\ threads'[a].goal = threads[a].goal
                                /\ threads'[a].rev = threads[a].rev
                                /\ threads'[a].active = threads[a].active
           /\ Working(x)'
           /\ work'[x].review = NoReview
<1>1. threads \in [Agents -> Rows] /\ threads[x] \in Rows /\ work \in [Agents -> Works]
  BY DEF IInv, Typed
<1>. DEFINE n == threads[x].gen + 1
<1>2. n # NoTurn
  BY SMTT(30), <1>1 DEF Rows
<1>3. threads' = [threads EXCEPT ![x] = [threads[x] EXCEPT !.turn = n, !.gen = n]]
  BY DEF Lease
<1>. HIDE DEF n
<1>4. threads'[x] = [threads[x] EXCEPT !.turn = n, !.gen = n]
  BY <1>1, <1>3
<1>5. /\ threads'[x].up = threads[x].up
      /\ threads'[x].turn = n
      /\ threads'[x].done = threads[x].done
      /\ threads'[x].goal = threads[x].goal
      /\ threads'[x].rev = threads[x].rev
      /\ threads'[x].active = threads[x].active
  BY <1>1, <1>4 DEF Rows
<1>6. \A a \in Agents : a # x => threads'[a] = threads[a] /\ work'[a] = work[a]
  BY <1>1, <1>3 DEF Lease
<1>7. Working(x)'
  BY <1>2, <1>5 DEF Working, Lease
<1>8. work'[x].review = NoReview
  BY <1>1 DEF Lease
<1>. QED
  BY <1>5, <1>6, <1>7, <1>8

LEMMA FinishKeeps ==
    ASSUME IInv, NEW x \in Agents, FinishTurn(x)
    PROVE  /\ \A a \in Agents : /\ a # x => threads'[a] = threads[a] /\ work'[a] = work[a]
                                /\ threads'[a].up = threads[a].up
                                /\ threads'[a].goal = threads[a].goal
                                /\ threads'[a].rev = threads[a].rev
                                /\ threads'[a].active = threads[a].active
           /\ threads'[x].done = threads[x].turn
           /\ work'[x] = NoWork
<1>1. threads \in [Agents -> Rows] /\ threads[x] \in Rows /\ work \in [Agents -> Works]
  BY DEF IInv, Typed
<1>2. threads' = [threads EXCEPT ![x] = [threads[x] EXCEPT !.turn = NoTurn, !.done = threads[x].turn]]
  BY DEF FinishTurn
<1>3. threads'[x] = [threads[x] EXCEPT !.turn = NoTurn, !.done = threads[x].turn]
  BY <1>1, <1>2
<1>4. /\ threads'[x].up = threads[x].up
      /\ threads'[x].done = threads[x].turn
      /\ threads'[x].goal = threads[x].goal
      /\ threads'[x].rev = threads[x].rev
      /\ threads'[x].active = threads[x].active
  BY <1>1, <1>3 DEF Rows
<1>5. \A a \in Agents : a # x => threads'[a] = threads[a] /\ work'[a] = work[a]
  BY <1>1, <1>2 DEF FinishTurn
<1>6. work'[x] = NoWork
  BY <1>1 DEF FinishTurn
<1>. QED
  BY <1>4, <1>5, <1>6

\* A host that dies takes its turn and its releases along.
LEMMA DeathKeeps ==
    ASSUME IInv, HostsUp, WorkersWork, NEW x \in Agents, DiesWith(x),
           \A a \in Agents : a # x => SameRun(a)
    PROVE  HostsUp' /\ WorkersWork'
<1>1. work'[x] = NoWork /\ \A a \in Agents : a # x => work'[a] = work[a]
  BY DEF DiesWith, IInv, Typed
<1>2. \A r \in releases' : r \in releases /\ r.host # x /\ r.host \in Agents
  BY DEF DiesWith, IInv, Typed, Releases
<1>3. HostsUp'
  BY <1>2 DEF HostsUp, SameRun
<1>4. WorkersWork'
  BY <1>1 DEF WorkersWork, Working, SameRun
<1>. QED
  BY <1>3, <1>4

\* A callback that goes on is still the callback of its turn.
LEMMA DroppedKeeps ==
    ASSUME NEW r \in Releases
    PROVE  /\ \A q \in Dropped(r) : /\ q.kind = r.kind /\ q.host = r.host /\ q.gen = r.gen
                                     /\ q.todo = r.todo /\ q.step = "next"
           /\ r.todo # {} => Dropped(r) # {}
BY DEF Dropped, Releases

\* The steps of a release are those of one host.
LEMMA ReleaseHost ==
    ASSUME IInv, NEW r \in releases, ReleaseStep(r)
    PROVE  \A q \in releases' : q \in releases \/ q.host = r.host
<1>. DEFINE Kept(next) == \A q \in next : q.host = r.host
<1>0. r \in Releases /\ r \in [kind : {"finish", "observe"}, host : Agents, gen : Nat,
        todo : SUBSET Waits, step : {"start", "next", "read", "publish"},
        review : {NoReview} \cup WaitReviews]
  BY DEF IInv, Typed, Releases
<1>1. ASSUME NEW next, Kept(next), Instead(r, next)
      PROVE  \A q \in releases' : q \in releases \/ q.host = r.host
  BY <1>1 DEF Instead
<1>2. Kept(Dropped(r))
  BY <1>0, DroppedKeeps
<1>3. CASE FindWaits(r)
  <2>. DEFINE found == [r EXCEPT !.todo = Targeting(r.host)]
  <2>1. found \in Releases /\ found.host = r.host
    BY <1>0 DEF Releases, Targeting, IInv, Typed
  <2>. HIDE DEF found
  <2>2. Kept(Dropped(found)) /\ Kept({})
    BY <2>1, DroppedKeeps
  <2>3. \/ Instead(r, Dropped(found)) \/ Instead(r, {})
    BY <1>3 DEF FindWaits, found
  <2>. QED
    BY <1>1, <2>2, <2>3
<1>4. CASE NextWait(r)
  <2>1. PICK w \in r.todo :
          LET rest == [r EXCEPT !.todo = @ \ {w}]
          IN  Instead(r, IF Releasable(w)
                         THEN {[rest EXCEPT !.step = "read", !.review = Review(w)]}
                         ELSE Dropped(rest))
    BY <1>4 DEF NextWait
  <2>. DEFINE rest == [r EXCEPT !.todo = @ \ {w}]
              read == [rest EXCEPT !.step = "read", !.review = Review(w)]
  <2>2. Instead(r, {read}) \/ Instead(r, Dropped(rest))
    BY <2>1
  <2>3. rest \in Releases /\ rest.host = r.host /\ read.host = r.host
    BY <1>0 DEF Releases
  <2>. HIDE DEF rest, read
  <2>4. Kept(Dropped(rest)) /\ Kept({read})
    BY <2>3, DroppedKeeps
  <2>. QED
    BY <1>1, <2>2, <2>4
<1>5. CASE ReadReplies(r) \/ Recapture(r) \/ ReadAgain(r)
  <2>1. \/ Instead(r, Dropped(r))
        \/ Instead(r, {[r EXCEPT !.step = "publish", !.review.through = Len(bus)]})
        \/ Instead(r, {[r EXCEPT !.step = "read", !.review = Review(r.review.wait)]})
        \/ Instead(r, {[r EXCEPT !.step = "read"]})
    BY <1>5 DEF ReadReplies, Recapture, ReadAgain
  <2>2. /\ [r EXCEPT !.step = "publish", !.review.through = Len(bus)].host = r.host
        /\ [r EXCEPT !.step = "read", !.review = Review(r.review.wait)].host = r.host
        /\ [r EXCEPT !.step = "read"].host = r.host
    BY <1>0
  <2>. QED
    BY <1>1, <1>2, <2>1, <2>2
<1>6. CASE Release(r) \/ ReleaseRefused(r)
  BY <1>1, <1>2, <1>6 DEF Release, ReleaseRefused
<1>. QED
  BY <1>3, <1>4, <1>5, <1>6 DEF ReleaseStep

LEMMA ProcessStep ==
    ASSUME IInv, HostsUp, WorkersWork, [Next]_vars
    PROVE  HostsUp' /\ WorkersWork'
<1>0. threads \in [Agents -> Rows] /\ work \in [Agents -> Works]
  BY DEF IInv, Typed
<1>00. \A r \in releases : r.host \in Agents
  BY DEF IInv, Typed, Releases
\* Nobody's process changes, and nobody takes up work.
<1>1. ASSUME \A a \in Agents : SameRun(a),
             \A a \in Agents : work'[a] # NoWork => work[a] # NoWork \/ Working(a),
             \A q \in releases' : \E r \in releases : q.host = r.host
      PROVE  HostsUp' /\ WorkersWork'
  <2>1. HostsUp'
    BY <1>00, <1>1 DEF HostsUp, SameRun
  <2>2. WorkersWork'
    BY <1>1 DEF WorkersWork, Working, SameRun
  <2>. QED
    BY <2>1, <2>2
<1>2. ASSUME NEW a \in Agents, NEW input, Lease(a, input) PROVE HostsUp' /\ WorkersWork'
  <2>1. HostsUp'
    <3>1. releases' = releases /\ \A b \in Agents : threads'[b].up = threads[b].up
      BY <1>2, LeaseKeeps DEF Lease
    <3>. QED
      BY <1>00, <3>1 DEF HostsUp
  <2>2. WorkersWork'
    BY <1>2, LeaseKeeps DEF WorkersWork, Working
  <2>. QED
    BY <2>1, <2>2
<1>3. ASSUME NEW a \in Agents, FinishTurn(a) PROVE HostsUp' /\ WorkersWork'
  <2>1. \A q \in releases' : q \in releases \/ q.host = a
    BY SMTT(30), <1>3 DEF FinishTurn
  <2>2. threads[a].up
    BY <1>3 DEF FinishTurn, Working
  <2>3. HostsUp'
    BY <1>00, <1>3, <2>1, <2>2, FinishKeeps DEF HostsUp
  <2>4. WorkersWork'
    BY <1>3, FinishKeeps DEF WorkersWork, Working
  <2>. QED
    BY <2>3, <2>4
<1>4. ASSUME NEW a \in Agents,
             \/ \E b \in Agents : Send(a, b)
             \/ EditGoal(a)
             \/ \E row \in Changed(threads[a]), dies \in BOOLEAN : ChangeGoal(a, row, dies)
      PROVE  HostsUp' /\ WorkersWork'
  <2>1. \A b \in Agents : SameRun(b)
    BY <1>4, RevisionKeeps, ChangeKeeps DEF Send, EditGoal, SameRun
  <2>2. work' = work /\ releases' = releases
    BY <1>4 DEF Send, EditGoal, ChangeGoal
  <2>. QED
    BY <1>1, <2>1, <2>2
<1>5. ASSUME NEW a \in Agents, HostDies(a) \/ PublishStandbyDies(a) PROVE HostsUp' /\ WorkersWork'
  <2>1. DiesWith(a) /\ \A b \in Agents : b # a => SameRun(b)
    BY <1>0, <1>5 DEF HostDies, PublishStandbyDies, Dead, SameRun
  <2>. QED
    BY <2>1, DeathKeeps
<1>6. ASSUME NEW a \in Agents, StartOwner(a) PROVE HostsUp' /\ WorkersWork'
  <2>1. work' = work /\ releases' = releases /\ ~threads[a].up
        /\ \A b \in Agents : b # a => threads'[b] = threads[b]
    BY <1>0, <1>6 DEF StartOwner
  <2>2. HostsUp'
    BY <1>00, <2>1 DEF HostsUp
  <2>3. WorkersWork'
    BY <2>1 DEF WorkersWork, Working
  <2>. QED
    BY <2>2, <2>3
<1>7. ASSUME NEW a \in Agents,
             \/ \E targets \in (SUBSET (Agents \ {a})) \ {{}} : PrepareStandby(a, targets)
             \/ PublishStandby(a)
             \/ RefuseStandby(a)
             \/ ReviewReply(a)
             \/ ConsumeReply(a)
      PROVE  HostsUp' /\ WorkersWork'
  <2>1. \A b \in Agents : SameRun(b)
    BY <1>7, RevisionKeeps DEF PrepareStandby, PublishStandby, RefuseStandby, ReviewReply,
       ConsumeReply, SameRun
  <2>2. releases' = releases /\ \A b \in Agents : b # a => work'[b] = work[b]
    BY <1>0, <1>7 DEF PrepareStandby, PublishStandby, RefuseStandby, ReviewReply, ConsumeReply
  <2>3. Working(a) \/ work[a] # NoWork
    BY <1>7, NoReviewIsNone DEF PrepareStandby, PublishStandby, RefuseStandby, ReviewReply, ConsumeReply
  <2>. QED
    BY <1>1, <2>1, <2>2, <2>3
<1>8. ASSUME NEW a \in Agents, Observe(a) PROVE HostsUp' /\ WorkersWork'
  <2>1. threads' = threads /\ work' = work /\ threads[a].up
        /\ \A q \in releases' : q \in releases \/ q.host = a
    BY SMTT(30), <1>8 DEF Observe
  <2>. QED
    BY <2>1 DEF HostsUp, WorkersWork, Working
<1>9. ASSUME NEW r \in releases, ReleaseStep(r) PROVE HostsUp' /\ WorkersWork'
  <2>1. threads' = threads \/ Release(r)
    BY <1>9 DEF ReleaseStep, FindWaits, NextWait, ReadReplies, Recapture, ReadAgain, ReleaseRefused
  <2>2. Release(r) => r.review.wait.owner \in Agents
    BY DEF Release, Silent, IInv, Typed, WaitReviews, Waits
  <2>3. \A a \in Agents : SameRun(a)
    BY <2>1, <2>2, RevisionKeeps DEF Release, Noted, SameRun
  <2>4. work' = work
    BY <1>9 DEF ReleaseStep, FindWaits, NextWait, ReadReplies, Recapture, ReadAgain, ReleaseRefused,
       Release
  <2>. QED
    BY <1>1, <1>9, <2>3, <2>4, ReleaseHost
<1>10. ASSUME NEW r \in releases, ReleaseDies(r) PROVE HostsUp' /\ WorkersWork'
  <2>1. r.host \in Agents /\ r.review.wait.owner \in Agents
    BY <1>10 DEF ReleaseDies, Silent, IInv, Typed, WaitReviews, Waits, Releases
  <2>2. threads' = Dead(Noted(r.review.wait), r.host) /\ DiesWith(r.host)
    BY <1>10 DEF ReleaseDies
  <2>3. ASSUME NEW a \in Agents, a # r.host PROVE SameRun(a)
    <3>1. threads'[a] = threads[a] \/ threads'[a] = [threads[a] EXCEPT !.rev = threads[a].rev + 1]
      BY <1>0, <2>1, <2>2, <2>3 DEF Dead, Noted
    <3>. QED
      BY <1>0, <3>1 DEF SameRun, Rows
  <2>. QED
    BY <2>1, <2>2, <2>3, DeathKeeps
<1>11. CASE UNCHANGED vars
  BY <1>11 DEF vars, HostsUp, WorkersWork, Working
<1>. QED
  BY <1>2, <1>3, <1>4, <1>5, <1>6, <1>7, <1>8, <1>9, <1>10, <1>11
     DEF Next, ContinueGoal, OwnerInput, DeliverInput

LEMMA TypeParts ==
    TypeOK <=> /\ threads \in [Agents -> Rows]
               /\ waits \subseteq Waits
               /\ OneWaitPerGoal /\ OpenIsRecorded
               /\ \A n \in DOMAIN bus : bus[n] \in Messages
               /\ taken \subseteq DOMAIN bus
               /\ HostsUp /\ WorkersWork
BY DEF TypeOK, OneWaitPerGoal, OpenIsRecorded, HostsUp, WorkersWork, Messages

\* The input of a turn is a message of the bus, which only grows.
LEMMA TakenStep ==
    ASSUME IInv, taken \subseteq DOMAIN bus, [Next]_vars
    PROVE  taken' \subseteq DOMAIN bus'
<1>1. ASSUME NEW a \in Agents, NEW b \in Agents, Send(a, b) PROVE taken' \subseteq DOMAIN bus'
  <2>1. [from |-> a, to |-> b] \in Messages
    BY DEF Messages
  <2>. QED
    BY <1>1, <2>1, BusGrows DEF Send, IInv, Typed
<1>2. ASSUME NEW a \in Agents, NEW n \in DOMAIN bus, DeliverInput(a, n)
      PROVE  taken' \subseteq DOMAIN bus'
  BY <1>2 DEF DeliverInput, Lease
<1>3. ASSUME NEW a \in Agents,
             \/ ContinueGoal(a)
             \/ OwnerInput(a)
             \/ FinishTurn(a)
             \/ EditGoal(a)
             \/ \E row \in Changed(threads[a]), dies \in BOOLEAN : ChangeGoal(a, row, dies)
             \/ HostDies(a)
             \/ StartOwner(a)
             \/ \E targets \in (SUBSET (Agents \ {a})) \ {{}} : PrepareStandby(a, targets)
             \/ PublishStandby(a)
             \/ RefuseStandby(a)
             \/ PublishStandbyDies(a)
             \/ ReviewReply(a)
             \/ ConsumeReply(a)
             \/ Observe(a)
      PROVE  taken' = taken /\ bus' = bus
  BY <1>3 DEF ContinueGoal, OwnerInput, Lease, FinishTurn, EditGoal, ChangeGoal, HostDies, StartOwner,
     PrepareStandby, PublishStandby, RefuseStandby, PublishStandbyDies, ReviewReply, ConsumeReply, Observe
<1>4. ASSUME NEW r \in releases, ReleaseStep(r) \/ ReleaseDies(r) PROVE taken' = taken /\ bus' = bus
  BY <1>4 DEF ReleaseStep, FindWaits, NextWait, ReadReplies, Recapture, ReadAgain, Release,
     ReleaseRefused, ReleaseDies
<1>5. CASE UNCHANGED vars
  BY <1>5 DEF vars
<1>. QED
  BY <1>1, <1>2, <1>3, <1>4, <1>5 DEF Next

\* Every wait still open is recorded, one for each goal, and no turn or release outlives its
\* process, whatever publishes, releases, dies or starts in between.
THEOREM TypeCorrect == Spec => []TypeOK
<1>1. Init => TypeOK
  <2>. SUFFICES ASSUME Init PROVE TypeOK
    OBVIOUS
  <2>1. IInv
    BY InitInv
  <2>2. waits = {} /\ releases = {} /\ ended = <<>> /\ taken = {} /\ bus = <<>>
    BY DEF Init
  <2>3. OpenIsRecorded
    BY SMTT(30), <2>2 DEF OpenIsRecorded
  <2>4. WorkersWork
    BY DEF WorkersWork, Init
  <2>5. \A n \in DOMAIN bus : bus[n] \in Messages
    BY SMTT(30), <2>2
  <2>. QED
    BY <2>1, <2>2, <2>3, <2>4, <2>5, TypeParts DEF IInv, Typed, OneWaitPerGoal, HostsUp
<1>2. IInv /\ TypeOK /\ [Next]_vars => TypeOK'
  <2>. SUFFICES ASSUME IInv, TypeOK, [Next]_vars PROVE TypeOK'
    OBVIOUS
  <2>1. OneWaitPerGoal /\ OpenIsRecorded /\ HostsUp /\ WorkersWork /\ taken \subseteq DOMAIN bus
    BY TypeParts
  <2>2. OneWaitPerGoal' /\ OpenIsRecorded'
    BY <2>1, WaitsStep
  <2>3. HostsUp' /\ WorkersWork'
    BY <2>1, ProcessStep
  <2>4. taken' \subseteq DOMAIN bus'
    BY <2>1, TakenStep
  <2>5. threads' \in [Agents -> Rows] /\ waits' \subseteq Waits /\ bus' \in Seq(Messages)
    BY NextInv DEF IInv, Typed
  <2>6. \A n \in DOMAIN bus' : bus'[n] \in Messages
    BY SMTT(30), <2>5
  <2>. QED
    BY <2>2, <2>3, <2>4, <2>5, <2>6
       DEF TypeOK, OneWaitPerGoal, OpenIsRecorded, HostsUp, WorkersWork, Messages
<1>. QED
  BY <1>1, <1>2, Invariance, PTL DEF Spec

-----------------------------------------------------------------------------
(* A closed group is attended.  While nobody died, an unanswered wait has  *)
(* a target at work, or a callback of a target's latest turn that has not  *)
(* dealt with it yet, or is younger than every wait of its targets, none   *)
(* of which has taken a turn since.  In a closed group every target waits  *)
(* in turn, so the oldest wait of the group is not of the last kind.       *)

\* While nobody died every process is up and every recorded wait is its goal's.
Standing ==
    /\ faults \in Nat
    /\ faults = 0 => /\ \A a \in Agents : threads[a].up
                     /\ \A w \in waits : CurrentFor(w)

\* A wait names somebody, and is prepared under an active goal.
Targeted ==
    /\ \A w \in waits : w.targets # {}
    /\ \A a \in Agents : work[a].review.kind = "standby" =>
         work[a].review.targets # {} /\ work[a].review.goal[3]

\* The callback of the latest turn of a target has the wait still to look at.
HeldFor(r, w) ==
    /\ r.kind = "finish" /\ r.host \in w.targets /\ r.gen = threads[r.host].done
    /\ \/ r.step = "start"
       \/ w \in r.todo
       \/ r.step \in {"read", "publish"} /\ r.review.wait = w

Youngest(w) == \A v \in waits : v.owner \in w.targets => v.id < w.id

LookedAfter ==
    faults = 0 => \A w \in waits : ~HasReply(w) =>
        \/ \E t \in w.targets : Working(t)
        \/ \E r \in releases : HeldFor(r, w)
        \/ Youngest(w)

\* Wait IDs are minted upwards: every set of recorded waits has an oldest one.
Ordered == \A S \in SUBSET waits : S # {} => \E u \in S : \A v \in S : ~(v.id < u.id)

AInv ==
    /\ IInv /\ OneWaitPerGoal /\ OpenIsRecorded /\ HostsUp /\ WorkersWork
    /\ Ordered /\ Standing /\ Targeted /\ LookedAfter

LEMMA StandingFrame ==
    ASSUME IInv, Standing, threads' \in [Agents -> Rows], faults' = faults, waits' \subseteq waits,
           \A a \in Agents : /\ threads'[a].up = threads[a].up
                             /\ threads'[a].goal = threads[a].goal
                             /\ threads'[a].active = threads[a].active
                             /\ threads'[a].rev >= threads[a].rev
    PROVE  Standing'
<1>. SUFFICES ASSUME faults = 0, NEW w \in waits PROVE CurrentFor(w)'
  BY DEF Standing
<1>1. CurrentFor(w) /\ w.owner \in Agents /\ w.rev \in Nat
  BY DEF Standing, IInv, Typed, Waits
<1>2. threads[w.owner].rev \in Nat /\ threads'[w.owner].rev \in Nat
  BY <1>1 DEF IInv, Typed, Rows
<1>. QED
  BY SMTT(30), <1>1, <1>2 DEF CurrentFor

\* A change of the goal clears the wait of the goal it changes, and no other is left.
LEMMA StandingChange ==
    ASSUME IInv, Standing, NEW a \in Agents, NEW row, NEW dies \in BOOLEAN, ChangeGoal(a, row, dies)
    PROVE  Standing'
<1>1. CASE dies
  <2>1. faults' = faults + 1
    BY <1>1 DEF ChangeGoal
  <2>. QED
    BY SMTT(30), <2>1 DEF Standing
<1>2. CASE ~dies
  <2>1. /\ faults' = faults
        /\ waits' = waits \ {w \in waits : w.owner = a /\ w.goal = threads[a].goal}
        /\ threads' = [threads EXCEPT ![a] = row]
    BY <1>2 DEF ChangeGoal
  <2>2. threads \in [Agents -> Rows]
    BY DEF IInv, Typed
  <2>. SUFFICES ASSUME faults = 0 PROVE (\A b \in Agents : threads'[b].up) /\ \A w \in waits' : CurrentFor(w)'
    BY <2>1 DEF Standing
  <2>3. \A b \in Agents : threads'[b].up
    BY ChangeKeeps DEF Standing, SameRun
  <2>4. ASSUME NEW w \in waits' PROVE CurrentFor(w)'
    <3>1. w \in waits /\ CurrentFor(w) /\ w.owner \in Agents
      BY <2>1 DEF Standing, IInv, Typed, Waits
    <3>2. w.owner # a
      BY <2>1, <2>4, <3>1 DEF CurrentFor
    <3>3. threads'[w.owner] = threads[w.owner]
      BY <2>1, <2>2, <3>1, <3>2
    <3>. QED
      BY <3>1, <3>3 DEF CurrentFor
  <2>. QED
    BY <2>3, <2>4
<1>. QED
  BY <1>1, <1>2

\* A standby is published with the revision it records.
LEMMA StandingPublish ==
    ASSUME IInv, Standing, Targeted, NEW a \in Agents, PublishStandby(a)
    PROVE  Standing'
<1>1. /\ threads' = [threads EXCEPT ![a].rev = @ + 1] /\ faults' = faults
      /\ waits' = (waits \ Replaced(a)) \cup {NewWait(a)}
  BY RecordFacts DEF PublishStandby
<1>2. \A b \in Agents : /\ threads'[b].up = threads[b].up
                        /\ threads'[b].goal = threads[b].goal
                        /\ threads'[b].active = threads[b].active
                        /\ threads'[b].rev >= threads[b].rev
  BY <1>1, RevisionKeeps DEF SameRun
<1>3. threads \in [Agents -> Rows] /\ threads' \in [Agents -> Rows]
  BY <1>1, RevisionType DEF IInv, Typed
<1>. SUFFICES ASSUME faults = 0, NEW w \in waits' PROVE CurrentFor(w)'
  BY <1>1, <1>2 DEF Standing
<1>4. CASE w \in waits
  <2>1. CurrentFor(w) /\ w.owner \in Agents /\ w.rev \in Nat
    BY <1>4 DEF Standing, IInv, Typed, Waits
  <2>2. threads[w.owner].rev \in Nat /\ threads'[w.owner].rev \in Nat
    BY <1>3, <2>1 DEF Rows
  <2>. QED
    BY SMTT(30), <1>2, <2>1, <2>2 DEF CurrentFor
<1>5. CASE w = NewWait(a)
  <2>1. w.owner = a /\ w.goal = threads[a].goal /\ w.rev = threads[a].rev + 1
    BY <1>5 DEF NewWait
  <2>2. threads'[a].rev = threads[a].rev + 1 /\ threads[a].rev \in Nat
    BY <1>1, <1>3 DEF Rows
  <2>3. threads[a].active
    <3>1. GoalOf(a) = work[a].review.goal /\ work[a].review.goal[3]
      BY DEF PublishStandby, StandbyAllowed, Targeted
    <3>. QED
      BY SMTT(30), <3>1 DEF GoalOf
  <2>. QED
    BY SMTT(30), <1>2, <2>1, <2>2, <2>3 DEF CurrentFor
<1>. QED
  BY <1>1, <1>4, <1>5

LEMMA StandingStep ==
    ASSUME IInv, IInv', Standing, Targeted, [Next]_vars
    PROVE  Standing'
<1>0. threads \in [Agents -> Rows] /\ threads' \in [Agents -> Rows] /\ faults \in Nat
  BY DEF IInv, Typed, Standing
<1>00. \A a \in Agents : threads[a].rev >= threads[a].rev
  BY SMTT(30), <1>0 DEF Rows
<1>1. ASSUME threads' = threads, faults' = faults, waits' \subseteq waits PROVE Standing'
  BY <1>0, <1>00, <1>1, StandingFrame
<1>2. ASSUME NEW x \in Agents, threads' = [threads EXCEPT ![x].rev = @ + 1], faults' = faults,
             waits' \subseteq waits
      PROVE  Standing'
  BY <1>0, <1>2, RevisionKeeps, StandingFrame DEF SameRun
<1>3. ASSUME NEW a \in Agents, DiesWith(a) PROVE Standing'
  <2>1. faults' = faults + 1
    BY <1>3 DEF DiesWith
  <2>. QED
    BY SMTT(30), <1>0, <2>1 DEF Standing
<1>4. ASSUME NEW a \in Agents, NEW input, Lease(a, input) PROVE Standing'
  <2>1. waits' = waits /\ faults' = faults
    BY <1>4 DEF Lease
  <2>2. \A b \in Agents : /\ threads'[b].up = threads[b].up
                          /\ threads'[b].goal = threads[b].goal
                          /\ threads'[b].active = threads[b].active
                          /\ threads'[b].rev >= threads[b].rev
    BY <1>00, <1>4, LeaseKeeps
  <2>. QED
    BY <1>0, <2>1, <2>2, StandingFrame
<1>5. ASSUME NEW a \in Agents, FinishTurn(a) PROVE Standing'
  <2>1. waits' = waits /\ faults' = faults
    BY <1>5 DEF FinishTurn
  <2>2. \A b \in Agents : /\ threads'[b].up = threads[b].up
                          /\ threads'[b].goal = threads[b].goal
                          /\ threads'[b].active = threads[b].active
                          /\ threads'[b].rev >= threads[b].rev
    BY <1>00, <1>5, FinishKeeps
  <2>. QED
    BY <1>0, <2>1, <2>2, StandingFrame
<1>6. ASSUME NEW a \in Agents, StartOwner(a) PROVE Standing'
  BY <1>6 DEF StartOwner, Standing
<1>7. ASSUME NEW a \in Agents,
             \/ \E b \in Agents : Send(a, b)
             \/ \E targets \in (SUBSET (Agents \ {a})) \ {{}} : PrepareStandby(a, targets)
             \/ RefuseStandby(a)
             \/ ReviewReply(a)
             \/ ConsumeReply(a)
             \/ Observe(a)
      PROVE  Standing'
  <2>1. threads' = threads /\ faults' = faults /\ waits' \subseteq waits
    BY <1>7 DEF Send, PrepareStandby, RefuseStandby, ReviewReply, ConsumeReply, Observe
  <2>. QED
    BY <1>1, <2>1
<1>8. ASSUME NEW a \in Agents, EditGoal(a) PROVE Standing'
  BY <1>2, <1>8 DEF EditGoal
<1>9. ASSUME NEW a \in Agents, HostDies(a) \/ PublishStandbyDies(a) PROVE Standing'
  BY <1>3, <1>9 DEF HostDies, PublishStandbyDies
<1>10. ASSUME NEW r \in releases, ReleaseStep(r) PROVE Standing'
  <2>1. CASE Release(r)
    <3>1. r.review.wait.owner \in Agents
      BY <2>1 DEF Release, Silent, IInv, Typed, WaitReviews, Waits
    <3>. QED
      BY <1>2, <2>1, <3>1 DEF Release, Noted
  <2>2. CASE ~Release(r)
    <3>1. threads' = threads /\ faults' = faults /\ waits' = waits
      BY <1>10, <2>2 DEF ReleaseStep, FindWaits, NextWait, ReadReplies, Recapture, ReadAgain,
         ReleaseRefused
    <3>. QED
      BY <1>1, <3>1
  <2>. QED
    BY <2>1, <2>2
<1>11. ASSUME NEW r \in releases, ReleaseDies(r) PROVE Standing'
  BY <1>3, <1>11 DEF ReleaseDies, IInv, Typed, Releases
<1>12. CASE UNCHANGED vars
  BY <1>1, <1>12 DEF vars
<1>. QED
  BY <1>4, <1>5, <1>6, <1>7, <1>8, <1>9, <1>10, <1>11, <1>12, StandingChange, StandingPublish
     DEF Next, ContinueGoal, OwnerInput, DeliverInput

LEMMA TargetedStep ==
    ASSUME IInv, Targeted, [Next]_vars
    PROVE  Targeted'
<1>. DEFINE Prepared(b) == work[b].review.kind = "standby" =>
                             work[b].review.targets # {} /\ work[b].review.goal[3]
<1>0. threads \in [Agents -> Rows] /\ work \in [Agents -> Works] /\ \A b \in Agents : Prepared(b)
  BY DEF IInv, Typed, Targeted
<1>1. \A w \in waits' : w.targets # {}
  <2>1. ASSUME NEW a \in Agents, RecordWait(a), work[a].review.kind = "standby"
        PROVE  \A w \in waits' : w.targets # {}
    <3>1. NewWait(a).targets # {}
      BY <2>1 DEF NewWait, Targeted
    <3>2. waits' = (waits \ Replaced(a)) \cup {NewWait(a)}
      BY <2>1, RecordFacts
    <3>. QED
      BY <3>1, <3>2 DEF Targeted
  <2>2. ASSUME waits' \subseteq waits PROVE \A w \in waits' : w.targets # {}
    BY <2>2 DEF Targeted
  <2>. QED
    BY <2>1, <2>2, EndingSteps DEF ChangeGoal, ConsumeReply, Release
<1>2. ASSUME NEW a \in Agents, \A b \in Agents : b # a => work'[b] = work[b],
             work'[a] = work[a] \/ work'[a].review = NoReview \/ work'[a].review.kind = "wait"
      PROVE  \A b \in Agents : Prepared(b)'
  BY <1>0, <1>2, NoReviewIsNone
<1>3. ASSUME work' = work PROVE \A b \in Agents : Prepared(b)'
  BY <1>0, <1>3
<1>4. ASSUME NEW a \in Agents, NEW targets, targets # {}, PrepareStandby(a, targets)
      PROVE  \A b \in Agents : Prepared(b)'
  <2>1. \A b \in Agents : b # a => work'[b] = work[b]
    BY <1>0, <1>4 DEF PrepareStandby
  <2>2. work'[a].review = [kind |-> "standby", goal |-> GoalOf(a), wait |-> Resolve(a),
                           fences |-> [t \in targets \cup {a} |-> Fence(t)],
                           targets |-> targets, through |-> Len(bus)]
    BY <1>0, <1>4 DEF PrepareStandby, Works
  <2>3. work'[a].review.targets = targets /\ work'[a].review.goal = GoalOf(a)
    BY SMTT(30), <2>2
  <2>4. GoalOf(a)[3] = threads[a].active /\ threads[a].active
    BY SMTT(30), <1>4 DEF GoalOf, PrepareStandby
  <2>. QED
    BY <1>0, <1>4, <2>1, <2>3, <2>4
<1>5. ASSUME NEW a \in Agents, NEW input, Lease(a, input) PROVE \A b \in Agents : Prepared(b)'
  BY <1>2, <1>5, LeaseKeeps
<1>6. ASSUME NEW a \in Agents,
             \/ FinishTurn(a)
             \/ PublishStandby(a)
             \/ RefuseStandby(a)
             \/ PublishStandbyDies(a)
             \/ HostDies(a)
             \/ ConsumeReply(a)
      PROVE  \A b \in Agents : Prepared(b)'
  <2>1. work' = [work EXCEPT ![a] = NoWork] \/ work' = [work EXCEPT ![a].review = NoReview]
    BY <1>6 DEF FinishTurn, PublishStandby, RefuseStandby, PublishStandbyDies, HostDies, DiesWith,
       ConsumeReply
  <2>2. \A b \in Agents : b # a => work'[b] = work[b]
    BY <1>0, <2>1
  <2>3. work'[a] = NoWork \/ work'[a] = [work[a] EXCEPT !.review = NoReview]
    BY <1>0, <2>1
  <2>4. work'[a].review = NoReview
    BY <1>0, <2>3, NoReviewIsNone DEF Works
  <2>. QED
    BY <1>2, <2>2, <2>4
<1>7. ASSUME NEW a \in Agents, ReviewReply(a) PROVE \A b \in Agents : Prepared(b)'
  <2>. DEFINE review == IF Answered(a) = {} THEN NoReview ELSE Review(CHOOSE w \in Answered(a) : TRUE)
  <2>1. review = NoReview \/ review.kind = "wait"
    BY DEF Review
  <2>2. work' = [work EXCEPT ![a].step = "settled", ![a].review = review]
    BY <1>7 DEF ReviewReply
  <2>. HIDE DEF review
  <2>3. work'[a].review = review /\ \A b \in Agents : b # a => work'[b] = work[b]
    BY <1>0, <2>2 DEF Works
  <2>. QED
    BY <1>2, <2>1, <2>3
<1>8. ASSUME NEW a \in Agents,
             \/ \E b \in Agents : Send(a, b)
             \/ EditGoal(a)
             \/ \E row \in Changed(threads[a]), dies \in BOOLEAN : ChangeGoal(a, row, dies)
             \/ StartOwner(a)
             \/ Observe(a)
      PROVE  work' = work
  BY <1>8 DEF Send, EditGoal, ChangeGoal, StartOwner, Observe
<1>9. ASSUME NEW r \in releases, ReleaseStep(r) PROVE work' = work
  BY <1>9 DEF ReleaseStep, FindWaits, NextWait, ReadReplies, Recapture, ReadAgain, ReleaseRefused,
     Release
<1>10. ASSUME NEW r \in releases, ReleaseDies(r) PROVE \A b \in Agents : Prepared(b)'
  <2>1. r.host \in Agents /\ DiesWith(r.host)
    BY <1>10 DEF ReleaseDies, IInv, Typed, Releases
  <2>2. work'[r.host] = NoWork /\ \A b \in Agents : b # r.host => work'[b] = work[b]
    BY <1>0, <2>1 DEF DiesWith
  <2>. QED
    BY <1>2, <2>1, <2>2, NoReviewIsNone
<1>11. \A b \in Agents : Prepared(b)'
  <2>. HIDE DEF Prepared
  <2>1. CASE UNCHANGED vars
    BY <1>3, <2>1 DEF vars
  <2>2. ASSUME NEW a \in Agents, NEW targets \in (SUBSET (Agents \ {a})) \ {{}} PROVE targets # {}
    BY <2>2
  <2>. QED
    BY <1>3, <1>4, <1>5, <1>6, <1>7, <1>8, <1>9, <1>10, <2>1, <2>2
       DEF Next, ContinueGoal, OwnerInput, DeliverInput
<1>. QED
  BY <1>1, <1>11 DEF Targeted

\* A step that ends nobody's turn and takes no wait from a callback.
LEMMA LookedFrame ==
    ASSUME IInv, LookedAfter, faults' = faults, waits' \subseteq waits,
           \A w \in waits' : HasReply(w) => HasReply(w)',
           \A a \in Agents : Working(a) => Working(a)',
           \A w \in waits' : \A r \in releases : ~HasReply(w) /\ HeldFor(r, w) =>
               (\E q \in releases' : HeldFor(q, w)') \/ (\E t \in w.targets : Working(t)')
    PROVE  LookedAfter'
<1>. SUFFICES ASSUME faults = 0, NEW w \in waits', ~HasReply(w)'
              PROVE  \/ \E t \in w.targets : Working(t)'
                     \/ \E r \in releases' : HeldFor(r, w)'
                     \/ Youngest(w)'
  BY DEF LookedAfter
<1>1. w \in waits /\ ~HasReply(w) /\ w.targets \subseteq Agents
  BY DEF IInv, Typed, Waits
<1>2. CASE \E t \in w.targets : Working(t)
  BY <1>1, <1>2
<1>3. CASE \E r \in releases : HeldFor(r, w)
  BY <1>1, <1>3
<1>4. CASE Youngest(w)
  BY <1>4 DEF Youngest
<1>. QED
  BY <1>1, <1>2, <1>3, <1>4 DEF LookedAfter

\* A step of another kind than a release keeps the callbacks.
LEMMA LookedSameRun ==
    ASSUME IInv, LookedAfter, faults' = faults, waits' \subseteq waits,
           \A w \in waits' : HasReply(w) => HasReply(w)',
           \A a \in Agents : SameRun(a),
           releases \subseteq releases'
    PROVE  LookedAfter'
<1>1. \A a \in Agents : Working(a) => Working(a)'
  BY DEF Working, SameRun
<1>2. \A r \in releases : r.host \in Agents
  BY DEF IInv, Typed, Releases
<1>3. \A w \in waits' : \A r \in releases : HeldFor(r, w) => r \in releases' /\ HeldFor(r, w)'
  BY <1>2 DEF HeldFor, SameRun
<1>. QED
  BY <1>1, <1>3, LookedFrame

LEMMA LookedLease ==
    ASSUME IInv, LookedAfter, NEW x \in Agents, NEW input, Lease(x, input)
    PROVE  LookedAfter'
<1>1. waits' = waits /\ bus' = bus /\ releases' = releases /\ faults' = faults
  BY DEF Lease
<1>2. \A a \in Agents : Working(a) => Working(a)'
  BY LeaseKeeps DEF Working
<1>3. \A r \in releases : r.host \in Agents
  BY DEF IInv, Typed, Releases
<1>4. \A a \in Agents : threads'[a].done = threads[a].done
  BY LeaseKeeps
<1>5. \A w \in waits' : \A r \in releases : HeldFor(r, w) => r \in releases' /\ HeldFor(r, w)'
  BY <1>1, <1>3, <1>4 DEF HeldFor
<1>6. \A w \in waits' : HasReply(w) => HasReply(w)'
  BY <1>1 DEF HasReply, Matches
<1>. QED
  BY <1>1, <1>2, <1>5, <1>6, LookedFrame

\* The turn that ends leaves its callback.
LEMMA LookedFinish ==
    ASSUME IInv, LookedAfter, NEW x \in Agents, FinishTurn(x)
    PROVE  LookedAfter'
<1>0. PICK callback : callback = [kind |-> "finish", host |-> x, gen |-> threads[x].turn,
                                  todo |-> {}, step |-> "start", review |-> NoReview]
  OBVIOUS
<1>1. /\ waits' = waits /\ bus' = bus /\ faults' = faults
      /\ releases' = releases \cup {callback}
  BY <1>0 DEF FinishTurn
<1>2. /\ callback.kind = "finish" /\ callback.host = x /\ callback.gen = threads[x].turn
      /\ callback.step = "start"
  BY <1>0
<1>. SUFFICES ASSUME faults = 0, NEW w \in waits, ~HasReply(w)'
              PROVE  \/ \E t \in w.targets : Working(t)'
                     \/ \E r \in releases' : HeldFor(r, w)'
                     \/ Youngest(w)'
  BY <1>1 DEF LookedAfter
<1>3. w.targets \subseteq Agents /\ ~HasReply(w)
  BY <1>1 DEF IInv, Typed, Waits, HasReply, Matches
<1>4. CASE x \in w.targets
  <2>1. HeldFor(callback, w)'
    BY <1>2, <1>4, FinishKeeps DEF HeldFor
  <2>. QED
    BY <1>1, <2>1
<1>5. CASE x \notin w.targets
  <2>1. \A t \in w.targets : threads'[t] = threads[t]
    BY <1>3, <1>5, FinishKeeps
  <2>2. CASE \E t \in w.targets : Working(t)
    BY <2>1, <2>2 DEF Working
  <2>3. CASE \E r \in releases : HeldFor(r, w)
    BY <1>1, <2>1, <2>3 DEF HeldFor
  <2>4. CASE Youngest(w)
    BY <1>1, <2>4 DEF Youngest
  <2>. QED
    BY <1>3, <2>2, <2>3, <2>4 DEF LookedAfter
<1>. QED
  BY <1>4, <1>5

\* A new wait is the youngest; an agent that declares one is at work.
LEMMA LookedPublish ==
    ASSUME IInv, WorkersWork, LookedAfter, NEW x \in Agents, PublishStandby(x)
    PROVE  LookedAfter'
<1>1. /\ threads' = [threads EXCEPT ![x].rev = @ + 1]
      /\ bus' = bus /\ releases' = releases /\ faults' = faults
      /\ RecordWait(x)
  BY DEF PublishStandby
<1>2. /\ waits' = (waits \ Replaced(x)) \cup {NewWait(x)}
      /\ Len(ended) \in Nat /\ DOMAIN ended = 1..Len(ended)
  BY <1>1, RecordFacts
<1>3. \A a \in Agents : SameRun(a)
  BY <1>1, RevisionKeeps
<1>4. Working(x)'
  <2>1. work[x] # NoWork
    BY NoReviewIsNone DEF PublishStandby
  <2>. QED
    BY <1>3, <2>1 DEF WorkersWork, Working, SameRun
<1>5. NewWait(x).id = Len(ended) + 1 /\ NewWait(x).owner = x
      /\ NewWait(x).targets = work[x].review.targets
  BY DEF NewWait
<1>6. \A v \in waits : v.id \in 1..Len(ended)
  BY <1>2 DEF IInv, WaitsMinted
<1>. SUFFICES ASSUME faults = 0, NEW w \in waits', ~HasReply(w)', ~ \E t \in w.targets : Working(t)'
              PROVE  (\E r \in releases' : HeldFor(r, w)') \/ Youngest(w)'
  BY <1>1 DEF LookedAfter
<1>7. x \notin w.targets
  BY <1>4
<1>8. CASE w = NewWait(x)
  <2>1. ASSUME NEW v \in waits', v.owner \in w.targets PROVE v.id < w.id
    <3>1. v \in waits
      BY <1>2, <1>5, <1>7, <2>1
    <3>. QED
      BY SMTT(30), <1>2, <1>5, <1>6, <1>8, <3>1
  <2>. QED
    BY <2>1 DEF Youngest
<1>9. CASE w \in waits
  <2>1. w.targets \subseteq Agents /\ ~HasReply(w)
    BY <1>1, <1>9 DEF IInv, Typed, Waits, HasReply, Matches
  <2>2. ~ \E t \in w.targets : Working(t)
    BY <1>3, <2>1 DEF Working, SameRun
  <2>3. CASE \E r \in releases : HeldFor(r, w)
    BY <1>1, <1>3, <2>1, <2>3 DEF HeldFor, SameRun
  <2>4. CASE Youngest(w)
    BY <1>2, <1>5, <1>7, <2>4 DEF Youngest
  <2>. QED
    BY <1>9, <2>1, <2>2, <2>3, <2>4 DEF LookedAfter
<1>. QED
  BY <1>2, <1>8, <1>9

\* A step of one release keeps every wait that another callback holds.
LEMMA LookedInstead ==
    ASSUME IInv, LookedAfter, NEW r \in releases, NEW next, Instead(r, next),
           faults' = faults, waits' \subseteq waits, bus' = bus, \A a \in Agents : SameRun(a),
           \A w \in waits' : ~HasReply(w) /\ HeldFor(r, w) =>
               (\E q \in next : HeldFor(q, w)') \/ (\E t \in w.targets : Working(t)')
    PROVE  LookedAfter'
<1>1. \A a \in Agents : Working(a) => Working(a)'
  BY DEF Working, SameRun
<1>2. \A q \in releases : q.host \in Agents
  BY DEF IInv, Typed, Releases
<1>3. releases' = (releases \ {r}) \cup next
  BY DEF Instead
<1>4. \A w \in waits' : \A q \in releases : q # r /\ HeldFor(q, w) => q \in releases' /\ HeldFor(q, w)'
  BY <1>2, <1>3 DEF HeldFor, SameRun
<1>5. \A w \in waits' : \A q \in releases : ~HasReply(w) /\ HeldFor(q, w) =>
          (\E p \in releases' : HeldFor(p, w)') \/ (\E t \in w.targets : Working(t)')
  BY <1>3, <1>4
<1>6. \A w \in waits' : HasReply(w) => HasReply(w)'
  BY DEF HasReply, Matches
<1>. QED
  BY <1>1, <1>5, <1>6, LookedFrame

\* A callback with waits left goes on with them.
LEMMA DroppedHolds ==
    ASSUME NEW r \in Releases, NEW w \in r.todo, r.kind = "finish", r.host \in w.targets,
           r.gen = threads'[r.host].done
    PROVE  \E q \in Dropped(r) : HeldFor(q, w)'
<1>1. PICK q \in Dropped(r) : TRUE
  BY DroppedKeeps
<1>2. q.kind = r.kind /\ q.host = r.host /\ q.gen = r.gen /\ q.todo = r.todo
  BY DroppedKeeps
<1>. QED
  BY <1>2 DEF HeldFor

LEMMA LookedFind ==
    ASSUME IInv, Standing, LookedAfter, NEW r \in releases, FindWaits(r)
    PROVE  LookedAfter'
<1>. DEFINE found == [r EXCEPT !.todo = Targeting(r.host)]
<1>1. /\ UNCHANGED <<threads, waits, bus, faults>> /\ r.step = "start"
      /\ Instead(r, IF IdleAfter(r.host, r.gen) THEN Dropped(found) ELSE {})
  BY DEF FindWaits
<1>2. /\ found \in Releases
      /\ found.kind = r.kind /\ found.host = r.host /\ found.gen = r.gen
      /\ found.todo = Targeting(r.host)
  BY DEF IInv, Typed, Releases, Targeting
<1>3. \A a \in Agents : SameRun(a)
  BY <1>1 DEF SameRun
<1>4. PICK f : f = found
  OBVIOUS
<1>5. PICK next : next = IF IdleAfter(r.host, r.gen) THEN Dropped(f) ELSE {}
  OBVIOUS
<1>6. CASE faults = 0
  <2>1. ASSUME NEW w \in waits', HeldFor(r, w), ~ \E t \in w.targets : Working(t)'
        PROVE  \E q \in next : HeldFor(q, w)'
    <3>1. r.host \in Agents /\ r.host \in w.targets /\ r.gen = threads[r.host].done
          /\ r.kind = "finish"
      BY <2>1 DEF HeldFor, IInv, Typed, Releases
    <3>2. ~Working(r.host)
      BY <1>1, <2>1, <3>1 DEF Working
    <3>3. IdleAfter(r.host, r.gen)
      BY <1>6, <3>1, <3>2 DEF IdleAfter, Working, Standing
    <3>4. w \in Targeting(r.host)
      BY <1>1, <3>1 DEF Targeting
    <3>5. f \in Releases /\ w \in f.todo /\ f.kind = "finish" /\ f.host \in w.targets
          /\ f.gen = threads'[f.host].done
      BY <1>1, <1>2, <1>4, <3>1, <3>4
    <3>. QED
      BY <1>5, <3>3, <3>5, DroppedHolds
  <2>. QED
    BY <1>1, <1>3, <1>4, <1>5, <2>1, LookedInstead
<1>7. CASE faults # 0
  BY <1>1, <1>7 DEF LookedAfter
<1>. QED
  BY <1>6, <1>7

\* The callback takes up a wait unless somebody it names works.
LEMMA LookedNext ==
    ASSUME IInv, OneWaitPerGoal, Standing, LookedAfter, NEW r \in releases, NextWait(r)
    PROVE  LookedAfter'
<1>1. UNCHANGED <<threads, waits, bus, faults>> /\ r.step = "next" /\ r \in Releases
  BY DEF NextWait, IInv, Typed
<1>2. PICK v \in r.todo :
        LET rest == [r EXCEPT !.todo = @ \ {v}]
        IN  Instead(r, IF Releasable(v)
                       THEN {[rest EXCEPT !.step = "read", !.review = Review(v)]}
                       ELSE Dropped(rest))
  BY DEF NextWait
<1>3. PICK rest : rest = [r EXCEPT !.todo = @ \ {v}]
  OBVIOUS
<1>4. PICK read : read = [rest EXCEPT !.step = "read", !.review = Review(v)]
  OBVIOUS
<1>5. PICK next : next = IF Releasable(v) THEN {read} ELSE Dropped(rest)
  OBVIOUS
<1>6. Instead(r, next)
  BY <1>2, <1>3, <1>4, <1>5
<1>7. /\ rest \in Releases /\ rest.kind = r.kind /\ rest.host = r.host /\ rest.gen = r.gen
      /\ rest.todo = r.todo \ {v}
  BY <1>1, <1>3 DEF Releases
<1>8. /\ read.kind = r.kind /\ read.host = r.host /\ read.gen = r.gen
      /\ read.todo = r.todo \ {v} /\ read.step = "read" /\ read.review.wait = v
  <2>1. Review(v).wait = v
    BY DEF Review
  <2>. QED
    BY <1>4, <1>7, <2>1 DEF Releases
<1>9. \A a \in Agents : SameRun(a)
  BY <1>1 DEF SameRun
<1>10. CASE faults = 0
  <2>1. ASSUME NEW w \in waits', HeldFor(r, w), ~ \E t \in w.targets : Working(t)'
        PROVE  \E q \in next : HeldFor(q, w)'
    <3>1. /\ r.kind = "finish" /\ r.host \in w.targets /\ r.gen = threads'[r.host].done
          /\ w \in r.todo /\ w \in waits
      BY <1>1, <2>1 DEF HeldFor
    <3>2. CASE Releasable(v)
      <4>1. HeldFor(read, w)'
        BY <1>8, <3>1 DEF HeldFor
      <4>. QED
        BY <1>5, <3>2, <4>1
    <3>3. CASE ~Releasable(v)
      <4>1. ASSUME w = v PROVE FALSE
        <5>1. CurrentFor(w) /\ \A t \in w.targets : ~Working(t)
          BY <1>1, <1>10, <2>1, <3>1 DEF Standing, Working
        <5>2. Resolve(w.owner) = {w}
          BY <3>1, <5>1 DEF Resolve, CurrentFor, OneWaitPerGoal
        <5>. QED
          BY <3>3, <4>1, <5>1, <5>2 DEF Releasable
      <4>2. w \in rest.todo
        BY <1>7, <3>1, <4>1
      <4>3. \E q \in Dropped(rest) : HeldFor(q, w)'
        BY <1>7, <3>1, <4>2, DroppedHolds
      <4>. QED
        BY <1>5, <3>3, <4>3
    <3>. QED
      BY <3>2, <3>3
  <2>. QED
    BY <1>1, <1>6, <1>9, <2>1, LookedInstead
<1>11. CASE faults # 0
  BY <1>1, <1>11 DEF LookedAfter
<1>. QED
  BY <1>10, <1>11

\* A read, or another one, of the wait in hand.
LEMMA LookedRead ==
    ASSUME IInv, OneWaitPerGoal, Standing, LookedAfter, NEW r \in releases,
           ReadReplies(r) \/ Recapture(r) \/ ReadAgain(r)
    PROVE  LookedAfter'
<1>1. UNCHANGED <<threads, waits, bus, faults>> /\ r \in Releases /\ r.step \in {"read", "publish"}
  BY DEF ReadReplies, Recapture, ReadAgain, IInv, Typed
<1>2. PICK next :
        /\ Instead(r, next)
        /\ \/ next = Dropped(r) /\ (ReadReplies(r) => HasReply(r.review.wait))
              /\ (Recapture(r) => ~(Resolve(r.review.wait.owner) = {r.review.wait} /\ CurrentFor(r.review.wait)))
              /\ ~ReadAgain(r)
           \/ next = {[r EXCEPT !.step = "publish", !.review.through = Len(bus)]}
           \/ next = {[r EXCEPT !.step = "read", !.review = Review(r.review.wait)]}
           \/ next = {[r EXCEPT !.step = "read"]}
  <2>1. CASE ReadReplies(r)
    <3>1. r.step = "read"
      BY <2>1 DEF ReadReplies
    <3>. QED
      BY <2>1, <3>1 DEF ReadReplies, Recapture, ReadAgain
  <2>2. CASE Recapture(r)
    BY <2>2 DEF ReadReplies, Recapture, ReadAgain
  <2>3. CASE ReadAgain(r)
    BY <2>3 DEF ReadAgain
  <2>. QED
    BY <2>1, <2>2, <2>3
<1>3. \A a \in Agents : SameRun(a)
  BY <1>1 DEF SameRun
<1>4. CASE faults = 0
  <2>1. ASSUME NEW w \in waits', ~HasReply(w), HeldFor(r, w) PROVE \E q \in next : HeldFor(q, w)'
    <3>1. /\ r.kind = "finish" /\ r.host \in w.targets /\ r.gen = threads'[r.host].done
          /\ w \in waits /\ (w \in r.todo \/ r.review.wait = w)
      BY <1>1, <2>1 DEF HeldFor
    <3>2. CASE next = Dropped(r)
      <4>1. r.review.wait # w
        <5>1. CurrentFor(w)
          BY <1>4, <3>1 DEF Standing
        <5>2. Resolve(w.owner) = {w}
          BY <3>1, <5>1 DEF Resolve, CurrentFor, OneWaitPerGoal
        <5>3. \A q : Dropped(r) = {q} => q.step = "next"
          BY <1>1, DroppedKeeps
        <5>4. /\ [r EXCEPT !.step = "publish", !.review.through = Len(bus)].step # "next"
              /\ [r EXCEPT !.step = "read", !.review = Review(r.review.wait)].step # "next"
              /\ [r EXCEPT !.step = "read"].step # "next"
          BY <1>1 DEF Releases
        <5>. QED
          BY <1>2, <2>1, <3>2, <5>1, <5>2, <5>3, <5>4
      <4>. QED
        BY <1>1, <3>1, <3>2, <4>1, DroppedHolds
    <3>3. ASSUME NEW q, next = {q}, q.kind = r.kind, q.host = r.host, q.gen = r.gen, q.todo = r.todo,
                 q.step \in {"read", "publish"}, q.review.wait = r.review.wait
          PROVE  \E p \in next : HeldFor(p, w)'
      <4>1. HeldFor(q, w)'
        BY <3>1, <3>3 DEF HeldFor
      <4>. QED
        BY <3>3, <4>1
    <3>4. CASE next = {[r EXCEPT !.step = "publish", !.review.through = Len(bus)]}
      <4>1. PICK q : q = [r EXCEPT !.step = "publish", !.review.through = Len(bus)]
        OBVIOUS
      <4>2. r.review \in WaitReviews
        BY <1>1 DEF IInv, Typed
      <4>3. q.review = [r.review EXCEPT !.through = Len(bus)] /\ q.kind = r.kind /\ q.host = r.host
            /\ q.gen = r.gen /\ q.todo = r.todo /\ q.step = "publish"
        BY <1>1, <4>1 DEF Releases
      <4>4. q.review.wait = r.review.wait
        BY <4>2, <4>3 DEF WaitReviews
      <4>. QED
        BY <3>3, <3>4, <4>1, <4>3, <4>4
    <3>5. CASE next = {[r EXCEPT !.step = "read", !.review = Review(r.review.wait)]}
      <4>1. PICK q : q = [r EXCEPT !.step = "read", !.review = Review(r.review.wait)]
        OBVIOUS
      <4>2. Review(r.review.wait).wait = r.review.wait
        BY DEF Review
      <4>3. q.review = Review(r.review.wait) /\ q.kind = r.kind /\ q.host = r.host
            /\ q.gen = r.gen /\ q.todo = r.todo /\ q.step = "read"
        BY <1>1, <4>1 DEF Releases
      <4>. QED
        BY <3>3, <3>5, <4>1, <4>2, <4>3
    <3>6. CASE next = {[r EXCEPT !.step = "read"]}
      <4>1. PICK q : q = [r EXCEPT !.step = "read"]
        OBVIOUS
      <4>2. q.review = r.review /\ q.kind = r.kind /\ q.host = r.host
            /\ q.gen = r.gen /\ q.todo = r.todo /\ q.step = "read"
        BY <1>1, <4>1 DEF Releases
      <4>. QED
        BY <3>3, <3>6, <4>1, <4>2
    <3>. QED
      BY <1>2, <3>2, <3>4, <3>5, <3>6
  <2>. QED
    BY <1>1, <1>2, <1>3, <2>1, LookedInstead
<1>5. CASE faults # 0
  BY <1>1, <1>5 DEF LookedAfter
<1>. QED
  BY <1>4, <1>5

\* The wait in hand is released, or kept because somebody it names works again.
LEMMA LookedRelease ==
    ASSUME IInv, Standing, LookedAfter, NEW r \in releases, Release(r) \/ ReleaseRefused(r)
    PROVE  LookedAfter'
<1>1. /\ Instead(r, Dropped(r)) /\ waits' \subseteq waits /\ bus' = bus /\ faults' = faults
      /\ r \in Releases /\ r.step = "publish" /\ Silent(r)
  BY DEF Release, ReleaseRefused, Silent, IInv, Typed
<1>2. r.review.wait.owner \in Agents
  BY <1>1 DEF IInv, Typed, WaitReviews, Waits
<1>3. \A a \in Agents : SameRun(a)
  BY <1>2, RevisionKeeps DEF Release, ReleaseRefused, Noted, SameRun
<1>4. CASE faults = 0
  <2>1. ASSUME NEW w \in waits', HeldFor(r, w), ~ \E t \in w.targets : Working(t)'
        PROVE  \E q \in Dropped(r) : HeldFor(q, w)'
    <3>1. /\ r.kind = "finish" /\ r.host \in w.targets /\ r.gen = threads[r.host].done
          /\ r.host \in Agents /\ w \in waits /\ w.targets \subseteq Agents
          /\ (w \in r.todo \/ r.review.wait = w)
      BY <1>1, <2>1 DEF HeldFor, Releases, IInv, Typed, Waits
    <3>2. r.gen = threads'[r.host].done
      BY <1>3, <3>1 DEF SameRun
    <3>3. r.review.wait # w
      <4>1. CASE Release(r)
        BY <2>1, <4>1 DEF Release
      <4>2. CASE ReleaseRefused(r)
        <5>1. \A t \in w.targets : ~Working(t)
          BY <1>3, <2>1, <3>1 DEF Working, SameRun
        <5>2. IdleAfter(r.host, r.gen)
          BY <1>4, <3>1, <5>1 DEF IdleAfter, Working, Standing
        <5>. QED
          BY <3>1, <4>2, <5>1, <5>2 DEF ReleaseRefused, Justified
      <4>. QED
        BY <4>1, <4>2
    <3>. QED
      BY <1>1, <3>1, <3>2, <3>3, DroppedHolds
  <2>2. PICK next : next = Dropped(r)
    OBVIOUS
  <2>. QED
    BY <1>1, <1>3, <2>1, <2>2, LookedInstead
<1>5. CASE faults # 0
  BY <1>1, <1>5 DEF LookedAfter
<1>. QED
  BY <1>4, <1>5

LEMMA LookedStep ==
    ASSUME AInv, [Next]_vars
    PROVE  LookedAfter'
<1>0. IInv /\ OneWaitPerGoal /\ WorkersWork /\ Standing /\ LookedAfter
  BY DEF AInv
<1>1. ASSUME NEW a \in Agents, DiesWith(a) PROVE LookedAfter'
  <2>1. faults' = faults + 1 /\ faults \in Nat
    BY <1>0, <1>1 DEF DiesWith, Standing
  <2>2. faults' # 0
    BY SMTT(30), <2>1
  <2>. QED
    BY <2>2 DEF LookedAfter
<1>2. ASSUME NEW a \in Agents, NEW b \in Agents, Send(a, b) PROVE LookedAfter'
  <2>1. [from |-> a, to |-> b] \in Messages
    BY DEF Messages
  <2>2. \A n \in DOMAIN bus : n \in DOMAIN bus' /\ bus'[n] = bus[n]
    BY <1>0, <1>2, <2>1, BusGrows DEF Send, IInv, Typed
  <2>3. \A w \in waits' : HasReply(w) => HasReply(w)'
    BY <2>2 DEF HasReply, Matches
  <2>. QED
    BY <1>0, <1>2, <2>3, LookedSameRun DEF Send, SameRun
<1>3. ASSUME NEW a \in Agents, NEW row, NEW dies \in BOOLEAN, ChangeGoal(a, row, dies) PROVE LookedAfter'
  <2>1. CASE dies
    <3>1. faults' = faults + 1 /\ faults \in Nat
      BY <1>0, <1>3, <2>1 DEF ChangeGoal, Standing
    <3>2. faults' # 0
      BY SMTT(30), <3>1
    <3>. QED
      BY <3>2 DEF LookedAfter
  <2>2. CASE ~dies
    <3>1. faults' = faults /\ waits' \subseteq waits /\ bus' = bus /\ releases' = releases
      BY <1>3, <2>2 DEF ChangeGoal
    <3>2. \A w \in waits' : HasReply(w) => HasReply(w)'
      BY <3>1 DEF HasReply, Matches
    <3>. QED
      BY <1>0, <1>3, <3>1, <3>2, ChangeKeeps, LookedSameRun
  <2>. QED
    BY <2>1, <2>2
<1>4. ASSUME NEW a \in Agents,
             \/ EditGoal(a)
             \/ \E targets \in (SUBSET (Agents \ {a})) \ {{}} : PrepareStandby(a, targets)
             \/ RefuseStandby(a)
             \/ ReviewReply(a)
             \/ ConsumeReply(a)
             \/ Observe(a)
      PROVE  LookedAfter'
  <2>1. /\ faults' = faults /\ waits' \subseteq waits /\ bus' = bus
        /\ releases \subseteq releases'
    BY <1>4 DEF EditGoal, PrepareStandby, RefuseStandby, ReviewReply, ConsumeReply, Observe
  <2>2. \A b \in Agents : SameRun(b)
    BY <1>0, <1>4, RevisionKeeps DEF EditGoal, PrepareStandby, RefuseStandby, ReviewReply, ConsumeReply,
       Observe, SameRun
  <2>3. \A w \in waits' : HasReply(w) => HasReply(w)'
    BY <2>1 DEF HasReply, Matches
  <2>. QED
    BY <1>0, <2>1, <2>2, <2>3, LookedSameRun
<1>5. ASSUME NEW a \in Agents, StartOwner(a) PROVE LookedAfter'
  BY <1>0, <1>5 DEF StartOwner, Standing, LookedAfter
<1>6. ASSUME NEW a \in Agents, HostDies(a) \/ PublishStandbyDies(a) PROVE LookedAfter'
  BY <1>1, <1>6 DEF HostDies, PublishStandbyDies
<1>7. ASSUME NEW r \in releases, ReleaseStep(r) PROVE LookedAfter'
  BY <1>0, <1>7, LookedFind, LookedNext, LookedRead, LookedRelease DEF ReleaseStep
<1>8. ASSUME NEW r \in releases, ReleaseDies(r) PROVE LookedAfter'
  BY <1>0, <1>1, <1>8 DEF ReleaseDies, IInv, Typed, Releases
<1>9. CASE UNCHANGED vars
  BY <1>0, <1>9 DEF vars, LookedAfter, HasReply, Matches, Working, HeldFor, Youngest
<1>10. ASSUME NEW a \in Agents, NEW input, Lease(a, input) PROVE LookedAfter'
  BY <1>0, <1>10, LookedLease
<1>11. ASSUME NEW a \in Agents, FinishTurn(a) \/ PublishStandby(a) PROVE LookedAfter'
  BY <1>0, <1>11, LookedFinish, LookedPublish
<1>. QED
  BY <1>2, <1>3, <1>4, <1>5, <1>6, <1>7, <1>8, <1>9, <1>10, <1>11
     DEF Next, ContinueGoal, OwnerInput, DeliverInput

LEMMA OrderedStep ==
    ASSUME IInv, Ordered, [Next]_vars
    PROVE  Ordered'
<1>1. ASSUME waits' \subseteq waits PROVE Ordered'
  BY <1>1 DEF Ordered
<1>2. ASSUME NEW a \in Agents, RecordWait(a) PROVE Ordered'
  <2>1. /\ waits' = (waits \ Replaced(a)) \cup {NewWait(a)}
        /\ Len(ended) \in Nat /\ DOMAIN ended = 1..Len(ended)
    BY <1>2, RecordFacts
  <2>2. PICK new : new = NewWait(a)
    OBVIOUS
  <2>3. new.id = Len(ended) + 1
    BY <2>2 DEF NewWait
  <2>4. \A v \in waits : v.id \in 1..Len(ended)
    BY <2>1 DEF IInv, WaitsMinted
  <2>5. (\A v \in waits : ~(new.id < v.id)) /\ ~(new.id < new.id)
    BY SMTT(30), <2>1, <2>3, <2>4
  <2>. SUFFICES ASSUME NEW S \in SUBSET waits', S # {} PROVE \E u \in S : \A v \in S : ~(v.id < u.id)
    BY DEF Ordered
  <2>6. CASE S \ {new} = {}
    <3>1. S = {new}
      BY <2>6
    <3>. QED
      BY <2>5, <3>1
  <2>7. CASE S \ {new} # {}
    <3>1. S \ {new} \in SUBSET waits
      BY <2>1, <2>2
    <3>2. PICK u \in S \ {new} : \A v \in S \ {new} : ~(v.id < u.id)
      BY <2>7, <3>1 DEF Ordered
    <3>3. ~(new.id < u.id)
      BY <2>5, <3>1
    <3>. QED
      BY <3>2, <3>3
  <2>. QED
    BY <2>6, <2>7
<1>3. ASSUME NEW a \in Agents, NEW row, NEW dies, ChangeGoal(a, row, dies) PROVE waits' \subseteq waits
  BY <1>3 DEF ChangeGoal
<1>4. ASSUME NEW a \in Agents, ConsumeReply(a) PROVE waits' \subseteq waits
  BY <1>4 DEF ConsumeReply
<1>5. ASSUME NEW r \in releases, Release(r) PROVE waits' \subseteq waits
  BY <1>5 DEF Release
<1>. QED
  BY <1>1, <1>2, <1>3, <1>4, <1>5, EndingSteps

LEMMA InitAttended == Init => AInv
<1>. SUFFICES ASSUME Init PROVE AInv
  OBVIOUS
<1>1. IInv
  BY InitInv
<1>2. /\ waits = {} /\ releases = {} /\ faults = 0 /\ ended = <<>>
      /\ \A a \in Agents : threads[a].up
  BY DEF Init
<1>3. \A a \in Agents : work[a] = NoWork
  BY DEF Init
<1>4. Standing /\ LookedAfter /\ OneWaitPerGoal /\ OpenIsRecorded /\ HostsUp
  BY SMTT(30), <1>2 DEF Standing, LookedAfter, OneWaitPerGoal, OpenIsRecorded, HostsUp
<1>5. WorkersWork /\ Ordered
  BY <1>2 DEF Init, WorkersWork, Ordered
<1>6. NoWork.review.kind = "none"
  BY SMTT(30) DEF NoWork, NoReview
<1>7. Targeted
  BY <1>2, <1>3, <1>6 DEF Targeted
<1>. QED
  BY <1>1, <1>4, <1>5, <1>7 DEF AInv

LEMMA AttendedInvariant == Spec => []AInv
<1>1. AInv /\ [Next]_vars => AInv'
  <2>. SUFFICES ASSUME AInv, [Next]_vars PROVE AInv'
    OBVIOUS
  <2>1. IInv'
    BY NextInv DEF AInv
  <2>2. OneWaitPerGoal' /\ OpenIsRecorded' /\ HostsUp' /\ WorkersWork'
    BY WaitsStep, ProcessStep DEF AInv
  <2>3. Standing' /\ Targeted'
    BY <2>1, StandingStep, TargetedStep DEF AInv
  <2>4. LookedAfter' /\ Ordered'
    BY LookedStep, OrderedStep DEF AInv
  <2>. QED
    BY <2>1, <2>2, <2>3, <2>4 DEF AInv
<1>. QED
  BY InitAttended, <1>1, PTL DEF Spec

\* Mutual standby never persists unnoticed: while no process has died, a closed group of
\* unanswered waits has a named agent at work or the callback of its finished turn on the way,
\* however publications, turns and releases interleave.  Were nobody coming, the oldest wait of
\* the group would be younger than the waits of those it names, who are in the group too.
THEOREM ClosedGroupsAreAttended == Spec => []ClosedGroupIsAttended
<1>1. AInv => ClosedGroupIsAttended
  <2>. SUFFICES ASSUME AInv, NEW w \in waits, NEW group \in SUBSET Agents, faults = 0, CurrentFor(w),
                       Closes(group, w.owner, w.targets),
                       \A v \in waits : v.owner \in group => ~HasReply(v),
                       ~ \E v \in waits, t \in Agents : v.owner \in group /\ AttendedBy(v, t)
                PROVE  FALSE
    BY DEF ClosedGroupIsAttended
  <2>1. IInv /\ OneWaitPerGoal /\ Ordered /\ Standing /\ Targeted /\ LookedAfter
    BY DEF AInv
  <2>2. \A v \in waits : v.targets \subseteq Agents /\ v.owner \in Agents /\ v.id \in Nat
    BY <2>1 DEF IInv, Typed, Waits
  <2>3. ASSUME NEW u \in waits, u.owner \in group PROVE Youngest(u)
    <3>1. ~ \E t \in u.targets : Working(t)
      BY <2>2, <2>3 DEF AttendedBy
    <3>2. ~ \E r \in releases : HeldFor(r, u)
      BY <2>2, <2>3 DEF AttendedBy, HeldFor
    <3>. QED
      BY <2>1, <2>3, <3>1, <3>2 DEF LookedAfter
  <2>4. PICK S : S = {u \in waits : u.owner \in group}
    OBVIOUS
  <2>5. S \in SUBSET waits /\ w \in S
    BY <2>4 DEF Closes
  <2>6. PICK u \in S : \A v \in S : ~(v.id < u.id)
    BY <2>1, <2>5 DEF Ordered
  <2>7. u \in waits /\ u.owner \in group /\ u.targets # {}
    BY <2>1, <2>4, <2>6 DEF Targeted
  <2>8. PICK t \in u.targets : TRUE
    BY <2>7
  <2>9. t \in Agents /\ threads[t].up
    BY <2>1, <2>2, <2>7 DEF Standing
  <2>10. CASE t = w.owner
    BY <2>3, <2>5, <2>6, <2>7, <2>10 DEF Youngest
  <2>11. CASE t # w.owner
    <3>0. CurrentFor(u)
      BY <2>1, <2>7 DEF Standing
    <3>1. u.owner = w.owner => u = w
      BY <2>1, <2>7, <3>0 DEF OneWaitPerGoal, CurrentFor
    <3>2. u \in CurrentWaits(u.owner)
      BY <2>7, <3>0 DEF CurrentWaits, Resolve, CurrentFor
    <3>3. t \in IF u.owner = w.owner THEN w.targets ELSE UNION {v.targets : v \in CurrentWaits(u.owner)}
      BY SMTT(30), <3>1, <3>2
    <3>4. ~Independent(t) /\ (CurrentWaits(t) # {} => t \in group)
      BY <2>7, <2>11, <3>3 DEF Closes
    <3>5. PICK v \in CurrentWaits(t) : TRUE
      BY <2>9, <3>4 DEF Independent
    <3>6. v \in waits /\ v.owner = t
      BY DEF CurrentWaits, Resolve
    <3>7. v \in S /\ v.id < u.id
      BY <2>3, <2>4, <2>7, <3>4, <3>5, <3>6 DEF Youngest
    <3>. QED
      BY <2>6, <3>7
  <2>. QED
    BY <2>10, <2>11
<1>. QED
  BY AttendedInvariant, <1>1, PTL

=============================================================================
