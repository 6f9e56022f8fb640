---------------------- MODULE ResponsePublicationProofs ----------------------
(***************************************************************************)
(* Proofs about ResponsePublication, for every set of routes and all       *)
(* bounds.  The inductive invariant adds to the properties what the rows   *)
(* of the two stores owe each other (Ledger) and what a process has        *)
(* established at each point of its call (Calls).                          *)
(***************************************************************************)
EXTENDS ResponsePublication, TLAPS

\* A leaf that names no prover is for Zenon; arithmetic and records go to SMT.
USE ZenonT(30)

\* What the coordinator's rows and the bus's rows owe each other.
Ledger ==
    /\ \A r \in Route : r \in intent <=> obligation[r] \in {"publishing", "published"}
    /\ dispatch # {} => intent = Route
    /\ row \subseteq dispatch
    /\ receipt \subseteq row
    /\ \A r \in Route : r \in receipt <=> obligation[r] = "published"
    /\ execution = "completed" <=> receipt = Route
    /\ execution = "failed" => intent = {}
    /\ execution # "active" => ~claims
    /\ \A r \in Route : sends[r] \in {0, 1} /\ (r \notin dispatch => sends[r] = 0)

\* A transaction about to commit a receipt, and one about to settle.
Committing(a) ==
    act[a].pc = "commit" =>
        act[a].route \in row /\ obligation[act[a].route] = "publishing"
                             /\ execution = "active"

Abandoning(a) ==
    act[a].pc = "abandoning" => intent = {} /\ execution = "active" /\ ~claims

\* A call lives in the owner's process, and the registry it captured is only
\* superseded by later ones.
CutFits ==
    /\ act[Owner].pc # "idle" => process
    /\ act[Owner].pc \in {"freeze", "dispatch", "settle"} =>
          /\ act[Owner].cut.revision <= registry.revision
          /\ act[Owner].cut.revision = registry.revision => registry.status = "running"

\* The call that inserted the dispatch has not sent anything yet.
FirstUnsent ==
    act[Owner].pc = "settle" /\ act[Owner].first =>
        act[Owner].route \in dispatch /\ sends[act[Owner].route] = 0

\* An append about to happen is the only one and happens in a running turn.
Appending ==
    act[Owner].pc = "append" =>
        /\ act[Owner].route \in dispatch \ row /\ sends[act[Owner].route] = 0
        /\ obligation[act[Owner].route] = "publishing" /\ execution = "active"
        /\ registry.status = "running" /\ process

Calls ==
    /\ \A a \in Actor : Committing(a) /\ Abandoning(a)
    /\ CutFits /\ FirstUnsent /\ Appending

IInv == TypeOK /\ Ledger /\ Calls

-----------------------------------------------------------------------------
\* Facts about the records of act that the cases below share.

LEMMA IdleType ==
    /\ Idle \in Activity /\ Idle.pc = "idle"
    /\ [Idle EXCEPT !.pc = "refused"] \in Activity
    /\ [Idle EXCEPT !.pc = "refused"].pc = "refused"
<1>1. (CHOOSE r \in Route : TRUE) \in Route
  BY RouteAssumption
<1> QED
  BY <1>1 DEF Idle, Activity, Registry, Step

\* Becomes changes one process and no other.
LEMMA Acting ==
    ASSUME act \in [Actor -> Activity], NEW a \in Actor, NEW k \in Activity, Becomes(a, k)
    PROVE  /\ act' \in [Actor -> Activity] /\ act'[a] = k
           /\ \A b \in Actor : b # a => act'[b] = act[b]
BY DEF Becomes

LEMMA Refusing ==
    ASSUME act \in [Actor -> Activity], NEW a \in Actor, Refused(a)
    PROVE  /\ act' \in [Actor -> Activity] /\ act'[a].pc = "refused"
           /\ \A b \in Actor : b # a => act'[b] = act[b]
BY IdleType, Acting DEF Refused

LEMMA Idling ==
    ASSUME act \in [Actor -> Activity], NEW a \in Actor, Becomes(a, Idle)
    PROVE  /\ act' \in [Actor -> Activity] /\ act'[a].pc = "idle"
           /\ \A b \in Actor : b # a => act'[b] = act[b]
BY IdleType, Acting

LEMMA Continuing ==
    ASSUME act \in [Actor -> Activity], NEW a \in Actor, Continue(a)
    PROVE  /\ act' \in [Actor -> Activity] /\ act'[a].pc \in {"idle", "publish", "resolve"}
           /\ \A b \in Actor : b # a => act'[b] = act[b]
<1> DEFINE left == act[a].todo \ {act[a].route}
           k == IF left = {} /\ act[a].next = "publish" THEN Idle
                ELSE [act[a] EXCEPT !.pc = act[a].next, !.todo = left]
<1>1. k \in Activity /\ k.pc \in {"idle", "publish", "resolve"}
  BY IdleType DEF Activity, Step
<1>2. Becomes(a, k)
  BY DEF Continue
<1> HIDE DEF k
<1> QED
  BY <1>1, <1>2, Acting

LEMMA Freezing ==
    ASSUME act \in [Actor -> Activity], Frozen
    PROVE  /\ act' \in [Actor -> Activity] /\ act'[Owner].pc \in {"publish", "prepare"}
           /\ act'[Recovery] = act[Recovery]
<1> DEFINE left == act[Owner].todo \ {act[Owner].route}
           k == IF left = {} THEN [act[Owner] EXCEPT !.pc = "publish", !.todo = Route]
                ELSE [act[Owner] EXCEPT !.pc = "prepare", !.todo = left]
<1>0. Owner \in Actor /\ Recovery \in Actor /\ Owner # Recovery
  BY ActorAssumption DEF Actor
<1>1. k \in Activity /\ k.pc \in {"publish", "prepare"}
  BY <1>0 DEF Activity, Step
<1>2. Becomes(Owner, k)
  BY DEF Frozen
<1> HIDE DEF k
<1> QED
  BY <1>0, <1>1, <1>2, Acting

LEMMA ResolvingType ==
    ASSUME act \in [Actor -> Activity], NEW a \in Actor, Resolving(a),
           intent \subseteq Route, registry \in Registry
    PROVE  /\ act' \in [Actor -> Activity] /\ act'[a].pc = "resolve"
           /\ \A b \in Actor : b # a => act'[b] = act[b]
<1> DEFINE k == [Idle EXCEPT !.pc = "resolve", !.todo = intent \ receipt,
                             !.cut = registry, !.next = "resolve"]
<1>1. k \in Activity /\ k.pc = "resolve"
  BY IdleType DEF Activity, Step
<1>2. Becomes(a, k)
  BY DEF Resolving
<1> HIDE DEF k
<1> QED
  BY <1>1, <1>2, Acting

-----------------------------------------------------------------------------
\* What each kind of step does to act: one process moves, the other does not.

LEMMA Actors == Owner \in Actor /\ Recovery \in Actor /\ Owner # Recovery
                /\ Actor = {Owner, Recovery} /\ NoOne \notin Actor
BY ActorAssumption DEF Actor

Others(a) == act' \in [Actor -> Activity] /\ \A b \in Actor : b # a => act'[b] = act[b]

LEMMA StartAct ==
    ASSUME TypeOK, PublishResponses \/ \E r \in Route : PublishAgain(r)
    PROVE  Others(Owner) /\ act'[Owner].pc \in {"prepare", "publish"}
<1>1. CASE PublishResponses
  <2> DEFINE k == [Idle EXCEPT !.pc = "prepare", !.todo = Route]
  <2>1. k \in Activity /\ k.pc = "prepare"
    BY IdleType DEF Activity, Step
  <2>2. Becomes(Owner, k)
    BY <1>1 DEF PublishResponses
  <2> HIDE DEF k
  <2> QED
    BY <2>1, <2>2, Acting, Actors DEF Others, TypeOK
<1>2. ASSUME NEW r \in Route, PublishAgain(r)
      PROVE  Others(Owner) /\ act'[Owner].pc \in {"prepare", "publish"}
  <2> DEFINE k == [Idle EXCEPT !.pc = "publish", !.todo = {r}]
  <2>1. k \in Activity /\ k.pc = "publish"
    BY IdleType DEF Activity, Step
  <2>2. Becomes(Owner, k)
    BY <1>2 DEF PublishAgain
  <2> HIDE DEF k
  <2> QED
    BY <2>1, <2>2, Acting, Actors DEF Others, TypeOK
<1> QED
  BY <1>1, <1>2

LEMMA CaptureAct ==
    ASSUME TypeOK, NEW r \in Route, Capture(r)
    PROVE  /\ Others(Owner)
           /\ \/ /\ act'[Owner].pc \in {"freeze", "dispatch"}
                 /\ act'[Owner].cut = registry /\ registry.status = "running"
              \/ act'[Owner].pc = "refused"
<1>1. CASE registry.status = "running"
  <2> DEFINE p == IF act[Owner].pc = "prepare" THEN "freeze" ELSE "dispatch"
             k == [act[Owner] EXCEPT !.pc = p, !.route = r, !.cut = registry]
  <2>0. p \in {"freeze", "dispatch"}
    OBVIOUS
  <2>2. Becomes(Owner, k)
    BY <1>1 DEF Capture
  <2> HIDE DEF p
  <2>3. act[Owner] \in Activity /\ registry \in Registry
    BY Actors DEF TypeOK
  <2>1. k \in Activity /\ k.pc \in {"freeze", "dispatch"} /\ k.cut = registry
    BY <2>0, <2>3 DEF Activity, Step
  <2> HIDE DEF k
  <2> QED
    BY <1>1, <2>1, <2>2, Acting, Actors DEF Others, TypeOK
<1>2. CASE registry.status # "running"
  BY <1>2, Refusing, Actors DEF Capture, Others, TypeOK
<1> QED
  BY <1>1, <1>2

LEMMA DispatchAct ==
    ASSUME TypeOK, Dispatch
    PROVE  /\ Others(Owner)
           /\ \/ /\ act'[Owner].pc \in {"idle", "publish", "resolve", "refused"}
                 /\ dispatch' = dispatch
              \/ /\ act'[Owner].pc = "settle" /\ act'[Owner].route = act[Owner].route
                 /\ act'[Owner].cut = act[Owner].cut
                 /\ act'[Owner].first = (act[Owner].route \notin dispatch)
                 /\ dispatch' = dispatch \cup {act[Owner].route}
                 /\ execution = "active" /\ PublishingIntent(act[Owner].route)
<1> DEFINE k == [act[Owner] EXCEPT !.pc = "settle",
                                   !.first = act[Owner].route \notin dispatch]
<1>1. CASE act[Owner].route \in receipt /\ Current(Owner)
  BY <1>1, Continuing, Actors DEF Dispatch, Others, TypeOK
<1>2. CASE /\ ~(act[Owner].route \in receipt /\ Current(Owner))
           /\ Current(Owner) /\ execution = "active" /\ PublishingIntent(act[Owner].route)
  <2>1. k \in Activity /\ k.pc = "settle" /\ k.route = act[Owner].route
        /\ k.cut = act[Owner].cut /\ k.first = (act[Owner].route \notin dispatch)
    <3>1. act[Owner] \in Activity
      BY Actors DEF TypeOK
    <3>2. "settle" \in Step
      BY DEF Step
    <3> QED BY <3>1, <3>2 DEF Activity
  <2>2. Becomes(Owner, k) /\ dispatch' = dispatch \cup {act[Owner].route}
    BY <1>2 DEF Dispatch
  <2> HIDE DEF k
  <2> QED
    BY <1>2, <2>1, <2>2, Acting, Actors DEF Others, TypeOK
<1>3. CASE /\ ~(act[Owner].route \in receipt /\ Current(Owner))
           /\ ~(Current(Owner) /\ execution = "active" /\ PublishingIntent(act[Owner].route))
  <2>1. Refused(Owner) /\ dispatch' = dispatch
    BY <1>3 DEF Dispatch
  <2> QED
    BY <2>1, Refusing, Actors DEF Others, TypeOK
<1> QED
  BY <1>1, <1>2, <1>3

LEMMA SettleAct ==
    ASSUME TypeOK, Settle
    PROVE  /\ Others(Owner)
           /\ \/ /\ act'[Owner].pc \in {"idle", "publish", "resolve", "refused"}
                 /\ lock' = lock
              \/ /\ act'[Owner].pc = (IF act[Owner].route \in row THEN "commit" ELSE "append")
                 /\ act'[Owner].route = act[Owner].route
                 /\ lock' = Owner /\ Current(Owner) /\ execution = "active"
                 /\ PublishingIntent(act[Owner].route) /\ act[Owner].route \in dispatch
                 /\ act[Owner].route \in row \/ act[Owner].first
<1> DEFINE k == [act[Owner] EXCEPT !.pc = IF act[Owner].route \in row THEN "commit" ELSE "append"]
           ready == /\ Current(Owner) /\ execution = "active"
                    /\ PublishingIntent(act[Owner].route)
                    /\ act[Owner].route \in dispatch
                    /\ (act[Owner].route \in row \/ act[Owner].first)
<1>1. CASE act[Owner].route \in receipt /\ Current(Owner)
  BY <1>1, Continuing, Actors DEF Settle, Others, TypeOK
<1>2. CASE ~(act[Owner].route \in receipt /\ Current(Owner)) /\ ready
  <2>1. k \in Activity /\ k.route = act[Owner].route
        /\ k.pc = (IF act[Owner].route \in row THEN "commit" ELSE "append")
    BY SMTT(30), Actors DEF Activity, Step, TypeOK
  <2>2. Becomes(Owner, k) /\ lock' = Owner
    BY <1>2 DEF Settle
  <2> HIDE DEF k
  <2> QED
    BY <1>2, <2>1, <2>2, Acting, Actors DEF Others, TypeOK
<1>3. CASE ~(act[Owner].route \in receipt /\ Current(Owner)) /\ ~ready
  <2>1. Refused(Owner) /\ lock' = lock
    BY <1>3 DEF Settle
  <2> QED
    BY <2>1, Refusing, Actors DEF Others, TypeOK
<1> QED
  BY <1>1, <1>2, <1>3

LEMMA AppendAct ==
    ASSUME TypeOK, Append
    PROVE  /\ Others(Owner) /\ act'[Owner].pc = "commit"
           /\ act'[Owner].route = act[Owner].route
<1> DEFINE k == [act[Owner] EXCEPT !.pc = "commit"]
<1>1. k \in Activity /\ k.pc = "commit" /\ k.route = act[Owner].route
  BY SMTT(30), Actors DEF Activity, Step, TypeOK
<1>2. Becomes(Owner, k)
  BY DEF Append
<1> HIDE DEF k
<1> QED
  BY <1>1, <1>2, Acting, Actors DEF Others, TypeOK

LEMMA ResolveAct ==
    ASSUME TypeOK, NEW a \in Actor, NEW r \in Route, ResolveRow(a, r)
    PROVE  /\ Others(a)
           /\ \/ act'[a].pc = "refused" /\ lock' = lock
              \/ /\ act'[a].pc = "commit" /\ act'[a].route = r /\ lock' = a
                 /\ execution = "active" /\ PublishingIntent(r) /\ r \in row
<1> DEFINE k == [act[a] EXCEPT !.pc = "commit", !.route = r]
           ready == /\ Current(a) /\ execution = "active" /\ PublishingIntent(r)
                    /\ r \in dispatch /\ r \in row
<1>1. CASE ready
  <2>1. k \in Activity /\ k.pc = "commit" /\ k.route = r
    BY DEF Activity, Step, TypeOK
  <2>2. Becomes(a, k) /\ lock' = a
    BY <1>1 DEF ResolveRow
  <2> HIDE DEF k
  <2> QED
    BY <1>1, <2>1, <2>2, Acting DEF Others, TypeOK
<1>2. CASE ~ready
  <2>1. Refused(a) /\ lock' = lock
    BY <1>2 DEF ResolveRow
  <2> QED
    BY <2>1, Refusing DEF Others, TypeOK
<1> QED
  BY <1>1, <1>2

LEMMA ResolvedAct ==
    ASSUME TypeOK, NEW a \in Actor, Resolved(a)
    PROVE  Others(a) /\ act'[a].pc \in {"abandon", "idle"}
<1> DEFINE k == IF a = Recovery /\ execution = "active"
                THEN [act[a] EXCEPT !.pc = "abandon"] ELSE Idle
<1>1. k \in Activity /\ k.pc \in {"abandon", "idle"}
  BY IdleType DEF Activity, Step, TypeOK
<1>2. Becomes(a, k)
  BY DEF Resolved
<1> HIDE DEF k
<1> QED
  BY <1>1, <1>2, Acting DEF Others, TypeOK

LEMMA FailAct ==
    ASSUME TypeOK, FailUnknown
    PROVE  Others(Owner) /\ act'[Owner].pc = "abandon"
<1> DEFINE k == [Idle EXCEPT !.pc = "abandon", !.cut = registry]
<1>1. k \in Activity /\ k.pc = "abandon"
  BY IdleType DEF Activity, Step, TypeOK
<1>2. Becomes(Owner, k)
  BY DEF FailUnknown
<1> HIDE DEF k
<1> QED
  BY <1>1, <1>2, Acting, Actors DEF Others, TypeOK

LEMMA AbandonAct ==
    ASSUME TypeOK, NEW a \in Actor, Abandon(a)
    PROVE  /\ Others(a)
           /\ \/ act'[a].pc = "idle" /\ lock' = lock /\ claims' = claims
              \/ /\ act'[a].pc = "abandoning" /\ lock' = a /\ claims' = FALSE
                 /\ intent = {} /\ execution = "active"
<1> DEFINE k == [act[a] EXCEPT !.pc = "abandoning"]
           ready == Current(a) /\ execution = "active" /\ intent = {}
<1>1. CASE ready
  <2>1. k \in Activity /\ k.pc = "abandoning"
    BY SMTT(30) DEF Activity, Step, TypeOK
  <2>2. Becomes(a, k) /\ lock' = a /\ claims' = FALSE
    BY <1>1 DEF Abandon
  <2> HIDE DEF k
  <2> QED
    BY <1>1, <2>1, <2>2, Acting DEF Others, TypeOK
<1>2. CASE ~ready
  <2>1. Becomes(a, Idle) /\ lock' = lock /\ claims' = claims
    BY <1>2 DEF Abandon
  <2> QED
    BY <2>1, Idling DEF Others, TypeOK
<1> QED
  BY <1>1, <1>2
-----------------------------------------------------------------------------
\* The type invariant in four parts.

RowTypes ==
    /\ intent \subseteq Route /\ dispatch \subseteq Route
    /\ receipt \subseteq Route /\ row \subseteq Route
    /\ obligation \in [Route -> {"pending", "publishing", "published", "failed"}]
    /\ execution \in {"active", "completed", "failed"}
    /\ claims \in BOOLEAN /\ process \in BOOLEAN /\ fence \in BOOLEAN

LockHeld ==
    /\ lock \in Actor \cup {NoOne}
    /\ \A a \in Actor :
          (lock = a) <=> act[a].pc \in {"append", "commit", "abandoning"}

BoundTypes ==
    /\ sends \in [Route -> Nat]
    /\ calls \in 0..MaxCalls /\ writes \in 0..MaxWrites
    /\ lives \in 0..MaxLives /\ faults \in 0..MaxFaults

LEMMA TypeParts ==
    /\ TypeOK <=> /\ RowTypes /\ registry \in Registry
                  /\ act \in [Actor -> Activity] /\ LockHeld /\ BoundTypes
    /\ TypeOK' <=> /\ RowTypes' /\ registry' \in Registry
                   /\ act' \in [Actor -> Activity] /\ LockHeld' /\ BoundTypes'
BY DEF TypeOK, RowTypes, LockHeld, BoundTypes

\* A registry write keeps the registry's shape and advances its revision.
LEMMA Writing ==
    ASSUME registry \in Registry, NEW e \in Nat,
           NEW s \in {"running", "idle", "stopped"}, RegistryWrite(e, s)
    PROVE  /\ registry' \in Registry /\ registry'.revision = registry.revision + 1
           /\ registry'.status = s /\ lock = NoOne
BY SMTT(30) DEF RegistryWrite, Registry

\* Every step keeps the types, and the locks with the process that holds them.

LEMMA TypeStep ==
    TypeOK /\ [Next]_vars => TypeOK'
<1> SUFFICES ASSUME TypeOK, [Next]_vars PROVE TypeOK'
  OBVIOUS
<1>1. CASE PublishResponses
  <2>1. Others(Owner) /\ act'[Owner].pc \in {"prepare", "publish"}
    BY <1>1, StartAct
  <2>2. RowTypes'
    BY <1>1, <2>1, Actors DEF PublishResponses, TypeOK, RowTypes, durable, bus, bounds, Others, Activity
  <2>3. registry' \in Registry /\ act' \in [Actor -> Activity]
    BY <1>1, <2>1 DEF PublishResponses, TypeOK, Others
  <2>4. LockHeld'
    BY <1>1, <2>1, Actors DEF PublishResponses, TypeOK, LockHeld, Others
  <2>5. BoundTypes'
    BY SMTT(30), <1>1, BoundAssumption DEF PublishResponses, TypeOK, BoundTypes, durable, bus, bounds
  <2> QED
    BY <2>2, <2>3, <2>4, <2>5, TypeParts
<1>2. ASSUME NEW r \in Route, PublishAgain(r) PROVE TypeOK'
  <2>1. Others(Owner) /\ act'[Owner].pc \in {"prepare", "publish"}
    BY <1>2, StartAct
  <2>2. RowTypes'
    BY <1>2, <2>1, Actors DEF PublishAgain, TypeOK, RowTypes, durable, bus, bounds, Others, Activity
  <2>3. registry' \in Registry /\ act' \in [Actor -> Activity]
    BY <1>2, <2>1 DEF PublishAgain, TypeOK, Others
  <2>4. LockHeld'
    BY <1>2, <2>1, Actors DEF PublishAgain, TypeOK, LockHeld, Others
  <2>5. BoundTypes'
    BY SMTT(30), <1>2, BoundAssumption DEF PublishAgain, TypeOK, BoundTypes, durable, bus, bounds
  <2> QED
    BY <2>2, <2>3, <2>4, <2>5, TypeParts
<1>3. ASSUME NEW r \in Route, Capture(r) PROVE TypeOK'
  <2>1. /\ Others(Owner)
        /\ act'[Owner].pc \in {"freeze", "dispatch", "refused"}
    BY <1>3, CaptureAct
  <2>2. RowTypes'
    BY <1>3, <2>1, Actors DEF Capture, TypeOK, RowTypes, durable, bus, bounds, Others, Activity
  <2>3. registry' \in Registry /\ act' \in [Actor -> Activity]
    BY <1>3, <2>1 DEF Capture, TypeOK, Others
  <2>4. LockHeld'
    BY <1>3, <2>1, Actors DEF Capture, TypeOK, LockHeld, Others
  <2>5. BoundTypes'
    BY <1>3, BoundAssumption DEF Capture, TypeOK, BoundTypes, durable, bus, bounds
  <2> QED
    BY <2>2, <2>3, <2>4, <2>5, TypeParts
<1>4. CASE Prepare
  <2>1. Others(Owner) /\ act'[Owner].pc \in {"publish", "prepare", "refused"}
    BY <1>4, Freezing, Refusing, Actors DEF Prepare, Others, TypeOK
  <2>2. RowTypes'
    BY SMTT(30), <1>4, <2>1, Actors DEF Prepare, TypeOK, RowTypes, durable, bus, bounds, Others, Activity
  <2>3. registry' \in Registry /\ act' \in [Actor -> Activity]
    BY <1>4, <2>1 DEF Prepare, TypeOK, Others
  <2>4. LockHeld'
    BY <1>4, <2>1, Actors DEF Prepare, TypeOK, LockHeld, Others
  <2>5. BoundTypes'
    BY <1>4, BoundAssumption DEF Prepare, TypeOK, BoundTypes, durable, bus, bounds
  <2> QED
    BY <2>2, <2>3, <2>4, <2>5, TypeParts
<1>5. CASE Dispatch
  <2>1. /\ Others(Owner)
        /\ act'[Owner].pc \in {"idle", "publish", "resolve", "refused", "settle"}
    BY <1>5, DispatchAct
  <2>2. RowTypes'
    BY SMTT(30), <1>5, <2>1, Actors DEF Dispatch, TypeOK, RowTypes, durable, bus, bounds, Others, Activity
  <2>3. registry' \in Registry /\ act' \in [Actor -> Activity]
    BY <1>5, <2>1 DEF Dispatch, TypeOK, Others
  <2>4. LockHeld'
    BY <1>5, <2>1, Actors DEF Dispatch, TypeOK, LockHeld, Others
  <2>5. BoundTypes'
    BY <1>5, BoundAssumption DEF Dispatch, TypeOK, BoundTypes, durable, bus, bounds
  <2> QED
    BY <2>2, <2>3, <2>4, <2>5, TypeParts
<1>6. CASE Settle
  <2>1. /\ Others(Owner)
        /\ \/ act'[Owner].pc \in {"idle", "publish", "resolve", "refused"} /\ lock' = lock
           \/ act'[Owner].pc \in {"commit", "append"} /\ lock' = Owner
    BY <1>6, SettleAct
  <2>2. RowTypes'
    BY <1>6, <2>1, Actors DEF Settle, TypeOK, RowTypes, durable, bus, bounds, Others, Activity
  <2>3. registry' \in Registry /\ act' \in [Actor -> Activity]
    BY <1>6, <2>1 DEF Settle, TypeOK, Others
  <2>4. LockHeld'
    BY <1>6, <2>1, Actors DEF Settle, TypeOK, LockHeld, Others
  <2>5. BoundTypes'
    BY <1>6, BoundAssumption DEF Settle, TypeOK, BoundTypes, durable, bus, bounds
  <2> QED
    BY <2>2, <2>3, <2>4, <2>5, TypeParts
<1>7. CASE Append
  <2>1. Others(Owner) /\ act'[Owner].pc = "commit" /\ act'[Owner].route = act[Owner].route
    BY <1>7, AppendAct
  <2>2. RowTypes'
    BY SMTT(30), <1>7, <2>1, Actors DEF Append, TypeOK, RowTypes, durable, bus, bounds, Others, Activity
  <2>3. registry' \in Registry /\ act' \in [Actor -> Activity]
    BY <1>7, <2>1 DEF Append, TypeOK, Others
  <2>4. LockHeld'
    BY <1>7, <2>1, Actors DEF Append, TypeOK, LockHeld, Others
  <2>5. BoundTypes'
    BY SMTT(30), <1>7, BoundAssumption DEF Append, TypeOK, BoundTypes, durable, bus, bounds, Actor, Activity
  <2> QED
    BY <2>2, <2>3, <2>4, <2>5, TypeParts
<1>8. CASE AppendFails
  <2>1. Others(Owner) /\ act'[Owner].pc = "refused"
    BY <1>8, Refusing, Actors DEF AppendFails, Others, TypeOK
  <2>2. RowTypes'
    BY <1>8, <2>1, Actors DEF AppendFails, TypeOK, RowTypes, durable, bus, bounds, Others, Activity
  <2>3. registry' \in Registry /\ act' \in [Actor -> Activity]
    BY <1>8, <2>1 DEF AppendFails, TypeOK, Others
  <2>4. LockHeld'
    BY <1>8, <2>1, Actors DEF AppendFails, TypeOK, LockHeld, Others
  <2>5. BoundTypes'
    BY SMTT(30), <1>8, BoundAssumption DEF AppendFails, TypeOK, BoundTypes, durable, bus, bounds, Actor, Activity
  <2> QED
    BY <2>2, <2>3, <2>4, <2>5, TypeParts
<1>9. CASE PrepareTurn
  <2>1. Others(Owner) /\ act'[Owner].pc = "resolve"
    BY <1>9, ResolvingType, Actors DEF PrepareTurn, Others, TypeOK
  <2>2. RowTypes'
    BY <1>9, <2>1, Actors DEF PrepareTurn, TypeOK, RowTypes, durable, bus, bounds, Others, Activity
  <2>3. registry' \in Registry /\ act' \in [Actor -> Activity]
    BY <1>9, <2>1 DEF PrepareTurn, TypeOK, Others
  <2>4. LockHeld'
    BY <1>9, <2>1, Actors DEF PrepareTurn, TypeOK, LockHeld, Others
  <2>5. BoundTypes'
    BY <1>9, BoundAssumption DEF PrepareTurn, TypeOK, BoundTypes, durable, bus, bounds
  <2> QED
    BY <2>2, <2>3, <2>4, <2>5, TypeParts
<1>10. CASE FailUnknown
  <2>1. Others(Owner) /\ act'[Owner].pc = "abandon"
    BY <1>10, FailAct
  <2>2. RowTypes'
    BY <1>10, <2>1, Actors DEF FailUnknown, TypeOK, RowTypes, durable, bus, bounds, Others, Activity
  <2>3. registry' \in Registry /\ act' \in [Actor -> Activity]
    BY <1>10, <2>1 DEF FailUnknown, TypeOK, Others
  <2>4. LockHeld'
    BY <1>10, <2>1, Actors DEF FailUnknown, TypeOK, LockHeld, Others
  <2>5. BoundTypes'
    BY <1>10, BoundAssumption DEF FailUnknown, TypeOK, BoundTypes, durable, bus, bounds
  <2> QED
    BY <2>2, <2>3, <2>4, <2>5, TypeParts
<1>11. CASE RecoverOwner
  <2>1. Others(Recovery) /\ act'[Recovery].pc = "resolve"
    BY <1>11, ResolvingType, Actors DEF RecoverOwner, Others, TypeOK
  <2>2. RowTypes'
    BY <1>11, <2>1, Actors DEF RecoverOwner, TypeOK, RowTypes, durable, bus, bounds, Others, Activity
  <2>3. registry' \in Registry /\ act' \in [Actor -> Activity]
    BY <1>11, <2>1 DEF RecoverOwner, TypeOK, Others
  <2>4. LockHeld'
    BY <1>11, <2>1, Actors DEF RecoverOwner, TypeOK, LockHeld, Others
  <2>5. BoundTypes'
    BY <1>11, BoundAssumption DEF RecoverOwner, TypeOK, BoundTypes, durable, bus, bounds
  <2> QED
    BY <2>2, <2>3, <2>4, <2>5, TypeParts
<1>12. ASSUME NEW a \in Actor, ReleaseClaims(a) PROVE TypeOK'
  <2>1. act' = act /\ act[a].pc = "commit"
    BY <1>12 DEF ReleaseClaims
  <2>2. RowTypes'
    BY <1>12, <2>1, Actors DEF ReleaseClaims, TypeOK, RowTypes, durable, bus, bounds, Others, Activity
  <2>3. registry' \in Registry /\ act' \in [Actor -> Activity]
    BY <1>12, <2>1 DEF ReleaseClaims, TypeOK, Others
  <2>4. LockHeld'
    BY <1>12, <2>1, Actors DEF ReleaseClaims, TypeOK, LockHeld, Others
  <2>5. BoundTypes'
    BY <1>12, BoundAssumption DEF ReleaseClaims, TypeOK, BoundTypes, durable, bus, bounds
  <2> QED
    BY <2>2, <2>3, <2>4, <2>5, TypeParts
<1>13. ASSUME NEW a \in Actor, Commit(a) PROVE TypeOK'
  <2>1. Others(a) /\ act'[a].pc \in {"idle", "publish", "resolve"}
    BY <1>13, Continuing DEF Commit, Others, TypeOK
  <2>2. RowTypes'
    BY SMTT(30), <1>13, <2>1, Actors DEF Commit, TypeOK, RowTypes, durable, bus, bounds, Others, Activity
  <2>3. registry' \in Registry /\ act' \in [Actor -> Activity]
    BY <1>13, <2>1 DEF Commit, TypeOK, Others
  <2>4. LockHeld'
    BY SMTT(30), <1>13, <2>1, Actors DEF Commit, TypeOK, LockHeld, Others
  <2>5. BoundTypes'
    BY <1>13, BoundAssumption DEF Commit, TypeOK, BoundTypes, durable, bus, bounds
  <2> QED
    BY <2>2, <2>3, <2>4, <2>5, TypeParts
<1>14. ASSUME NEW a \in Actor, Resolved(a) PROVE TypeOK'
  <2>1. Others(a) /\ act'[a].pc \in {"abandon", "idle"}
    BY <1>14, ResolvedAct
  <2>2. RowTypes'
    BY <1>14, <2>1, Actors DEF Resolved, TypeOK, RowTypes, durable, bus, bounds, Others, Activity
  <2>3. registry' \in Registry /\ act' \in [Actor -> Activity]
    BY <1>14, <2>1 DEF Resolved, TypeOK, Others
  <2>4. LockHeld'
    BY <1>14, <2>1, Actors DEF Resolved, TypeOK, LockHeld, Others
  <2>5. BoundTypes'
    BY <1>14, BoundAssumption DEF Resolved, TypeOK, BoundTypes, durable, bus, bounds
  <2> QED
    BY <2>2, <2>3, <2>4, <2>5, TypeParts
<1>15. ASSUME NEW a \in Actor, Abandon(a) PROVE TypeOK'
  <2>1. /\ Others(a)
        /\ \/ act'[a].pc = "idle" /\ lock' = lock /\ claims' = claims
           \/ act'[a].pc = "abandoning" /\ lock' = a /\ claims' = FALSE
    BY <1>15, AbandonAct
  <2>2. RowTypes'
    BY <1>15, <2>1, Actors DEF Abandon, TypeOK, RowTypes, durable, bus, bounds, Others, Activity
  <2>3. registry' \in Registry /\ act' \in [Actor -> Activity]
    BY <1>15, <2>1 DEF Abandon, TypeOK, Others
  <2>4. LockHeld'
    BY SMTT(30), <1>15, <2>1, Actors DEF Abandon, TypeOK, LockHeld, Others
  <2>5. BoundTypes'
    BY <1>15, BoundAssumption DEF Abandon, TypeOK, BoundTypes, durable, bus, bounds
  <2> QED
    BY <2>2, <2>3, <2>4, <2>5, TypeParts
<1>16. ASSUME NEW a \in Actor, CommitAbandon(a) PROVE TypeOK'
  <2>1. Others(a) /\ act'[a].pc = "idle"
    BY <1>16, Idling DEF CommitAbandon, Others, TypeOK
  <2>2. RowTypes'
    BY <1>16, <2>1, Actors DEF CommitAbandon, TypeOK, RowTypes, durable, bus, bounds, Others, Activity
  <2>3. registry' \in Registry /\ act' \in [Actor -> Activity]
    BY <1>16, <2>1 DEF CommitAbandon, TypeOK, Others
  <2>4. LockHeld'
    BY <1>16, <2>1, Actors DEF CommitAbandon, TypeOK, LockHeld, Others
  <2>5. BoundTypes'
    BY <1>16, BoundAssumption DEF CommitAbandon, TypeOK, BoundTypes, durable, bus, bounds
  <2> QED
    BY <2>2, <2>3, <2>4, <2>5, TypeParts
<1>17. ASSUME NEW a \in Actor, Unavailable(a) PROVE TypeOK'
  <2>1. Others(a) /\ act'[a].pc = "refused"
    BY <1>17, Refusing DEF Unavailable, Others, TypeOK
  <2>2. RowTypes'
    BY <1>17, <2>1, Actors DEF Unavailable, TypeOK, RowTypes, durable, bus, bounds, Others, Activity
  <2>3. registry' \in Registry /\ act' \in [Actor -> Activity]
    BY <1>17, <2>1 DEF Unavailable, TypeOK, Others
  <2>4. LockHeld'
    BY <1>17, <2>1, Actors DEF Unavailable, TypeOK, LockHeld, Others
  <2>5. BoundTypes'
    BY SMTT(30), <1>17, BoundAssumption DEF Unavailable, TypeOK, BoundTypes, durable, bus, bounds
  <2> QED
    BY <2>2, <2>3, <2>4, <2>5, TypeParts
<1>18. ASSUME NEW a \in Actor, RollBack(a) PROVE TypeOK'
  <2>1. Others(a) /\ act'[a].pc = "refused"
    BY <1>18, Refusing DEF RollBack, Others, TypeOK
  <2>2. RowTypes'
    BY <1>18, <2>1, Actors DEF RollBack, TypeOK, RowTypes, durable, bus, bounds, Others, Activity
  <2>3. registry' \in Registry /\ act' \in [Actor -> Activity]
    BY <1>18, <2>1 DEF RollBack, TypeOK, Others
  <2>4. LockHeld'
    BY <1>18, <2>1, Actors DEF RollBack, TypeOK, LockHeld, Others
  <2>5. BoundTypes'
    BY SMTT(30), <1>18, BoundAssumption DEF RollBack, TypeOK, BoundTypes, durable, bus, bounds
  <2> QED
    BY <2>2, <2>3, <2>4, <2>5, TypeParts
<1>19. ASSUME NEW a \in Actor, NEW r \in Route, ResolveRow(a, r) PROVE TypeOK'
  <2>1. /\ Others(a)
        /\ \/ act'[a].pc = "refused" /\ lock' = lock
           \/ act'[a].pc = "commit" /\ lock' = a
    BY <1>19, ResolveAct
  <2>2. RowTypes'
    BY <1>19, <2>1, Actors DEF ResolveRow, TypeOK, RowTypes, durable, bus, bounds, Others, Activity
  <2>3. registry' \in Registry /\ act' \in [Actor -> Activity]
    BY <1>19, <2>1 DEF ResolveRow, TypeOK, Others
  <2>4. LockHeld'
    BY SMTT(30), <1>19, <2>1, Actors DEF ResolveRow, TypeOK, LockHeld, Others
  <2>5. BoundTypes'
    BY <1>19, BoundAssumption DEF ResolveRow, TypeOK, BoundTypes, durable, bus, bounds
  <2> QED
    BY <2>2, <2>3, <2>4, <2>5, TypeParts
<1>20. CASE Crash
  <2>1. Others(Owner) /\ act'[Owner].pc = "idle"
    BY <1>20, Idling, Actors DEF Crash, Others, TypeOK
  <2>2. RowTypes'
    BY <1>20, <2>1, Actors DEF Crash, TypeOK, RowTypes, durable, bus, bounds, Others, Activity
  <2>3. registry' \in Registry /\ act' \in [Actor -> Activity]
    BY <1>20, <2>1 DEF Crash, TypeOK, Others
  <2>4. LockHeld'
    BY <1>20, <2>1, Actors DEF Crash, TypeOK, LockHeld, Others, Unlock
  <2>5. BoundTypes'
    BY <1>20, BoundAssumption DEF Crash, TypeOK, BoundTypes, durable, bus, bounds
  <2> QED
    BY <2>2, <2>3, <2>4, <2>5, TypeParts
<1>21. CASE CrashRecovery
  <2>1. Others(Recovery) /\ act'[Recovery].pc = "idle"
    BY <1>21, Idling, Actors DEF CrashRecovery, Others, TypeOK
  <2>2. RowTypes'
    BY <1>21, <2>1, Actors DEF CrashRecovery, TypeOK, RowTypes, durable, bus, bounds, Others, Activity
  <2>3. registry' \in Registry /\ act' \in [Actor -> Activity]
    BY <1>21, <2>1 DEF CrashRecovery, TypeOK, Others
  <2>4. LockHeld'
    BY <1>21, <2>1, Actors DEF CrashRecovery, TypeOK, LockHeld, Others, Unlock
  <2>5. BoundTypes'
    BY SMTT(30), <1>21, BoundAssumption DEF CrashRecovery, TypeOK, BoundTypes, durable, bus, bounds
  <2> QED
    BY <2>2, <2>3, <2>4, <2>5, TypeParts
<1>22. CASE Restart
  <2>1. registry' \in Registry /\ lock = NoOne /\ lock' = lock /\ act' = act
    BY <1>22, Writing DEF Restart, TypeOK
  <2>2. RowTypes'
    BY <1>22, <2>1, Actors DEF Restart, TypeOK, RowTypes, durable, bus, bounds, Others, Activity
  <2>3. registry' \in Registry /\ act' \in [Actor -> Activity]
    BY <1>22, <2>1 DEF Restart, TypeOK, Others
  <2>4. LockHeld'
    BY <1>22, <2>1, Actors DEF Restart, TypeOK, LockHeld, Others
  <2>5. BoundTypes'
    BY SMTT(30), <1>22, BoundAssumption DEF Restart, TypeOK, BoundTypes, durable, bus, bounds
  <2> QED
    BY <2>2, <2>3, <2>4, <2>5, TypeParts
<1>23. CASE FinishTurn
  <2>1. registry' \in Registry /\ lock = NoOne /\ lock' = lock /\ act' = act
    BY <1>23, Writing DEF FinishTurn, TypeOK
  <2>2. RowTypes'
    BY <1>23, <2>1, Actors DEF FinishTurn, TypeOK, RowTypes, durable, bus, bounds, Others, Activity
  <2>3. registry' \in Registry /\ act' \in [Actor -> Activity]
    BY <1>23, <2>1 DEF FinishTurn, TypeOK, Others
  <2>4. LockHeld'
    BY <1>23, <2>1, Actors DEF FinishTurn, TypeOK, LockHeld, Others
  <2>5. BoundTypes'
    BY <1>23, BoundAssumption DEF FinishTurn, TypeOK, BoundTypes, durable, bus, bounds
  <2> QED
    BY <2>2, <2>3, <2>4, <2>5, TypeParts
<1>24. CASE StopOwner
  <2>1. registry' \in Registry /\ lock = NoOne /\ lock' = lock /\ act' = act
    BY <1>24, Writing DEF StopOwner, TypeOK
  <2>2. RowTypes'
    BY <1>24, <2>1, Actors DEF StopOwner, TypeOK, RowTypes, durable, bus, bounds, Others, Activity
  <2>3. registry' \in Registry /\ act' \in [Actor -> Activity]
    BY <1>24, <2>1 DEF StopOwner, TypeOK, Others
  <2>4. LockHeld'
    BY <1>24, <2>1, Actors DEF StopOwner, TypeOK, LockHeld, Others
  <2>5. BoundTypes'
    BY <1>24, BoundAssumption DEF StopOwner, TypeOK, BoundTypes, durable, bus, bounds
  <2> QED
    BY <2>2, <2>3, <2>4, <2>5, TypeParts
<1>25. CASE OtherWrite
  <2>1. registry' \in Registry /\ lock = NoOne /\ lock' = lock /\ act' = act
    BY SMTT(30), <1>25, Writing DEF OtherWrite, TypeOK, Registry
  <2>2. RowTypes'
    BY <1>25, <2>1, Actors DEF OtherWrite, TypeOK, RowTypes, durable, bus, bounds, Others, Activity
  <2>3. registry' \in Registry /\ act' \in [Actor -> Activity]
    BY <1>25, <2>1 DEF OtherWrite, TypeOK, Others
  <2>4. LockHeld'
    BY <1>25, <2>1, Actors DEF OtherWrite, TypeOK, LockHeld, Others
  <2>5. BoundTypes'
    BY SMTT(30), <1>25, BoundAssumption DEF OtherWrite, TypeOK, BoundTypes, durable, bus, bounds
  <2> QED
    BY <2>2, <2>3, <2>4, <2>5, TypeParts
<1>26. CASE UNCHANGED vars
  BY SMTT(30), <1>26 DEF TypeOK, vars, durable, bus, bounds
<1> QED
  BY <1>1, <1>2, <1>3, <1>4, <1>5, <1>6, <1>7, <1>8, <1>9, <1>10, <1>11, <1>12, <1>13, <1>14, <1>15, <1>16, <1>17, <1>18, <1>19, <1>20, <1>21, <1>22, <1>23, <1>24, <1>25, <1>26 DEF Next, OwnerStep, SharedStep, Environment
-----------------------------------------------------------------------------
\* Every step keeps what the rows owe each other.

LEMMA LedgerStep ==
    TypeOK /\ Ledger /\ Calls /\ [Next]_vars => Ledger'
<1> SUFFICES ASSUME TypeOK, Ledger, Calls, [Next]_vars PROVE Ledger'
  OBVIOUS
<1>1. CASE PublishResponses
  BY <1>1 DEF PublishResponses, Ledger, durable, bus
<1>2. ASSUME NEW r \in Route, PublishAgain(r) PROVE Ledger'
  BY <1>2 DEF PublishAgain, Ledger, durable, bus
<1>3. ASSUME NEW r \in Route, Capture(r) PROVE Ledger'
  BY <1>3 DEF Capture, Ledger, durable, bus
<1>4. CASE Prepare
  <2> DEFINE r == act[Owner].route
  <2>1. r \in Route
    BY Actors DEF TypeOK, Activity
  <2>2. UNCHANGED <<dispatch, receipt, execution, row, claims, sends>>
    BY <1>4 DEF Prepare, bus
  <2>3. CASE intent' = intent /\ obligation' = obligation
    BY <2>2, <2>3 DEF Ledger
  <2>4. CASE /\ intent' = intent \cup {r}
             /\ obligation' = [obligation EXCEPT ![r] = "publishing"]
             /\ execution = "active"
             /\ r \in intent => obligation[r] = "publishing"
             /\ r \notin intent => obligation[r] = "pending"
    <3> HIDE DEF r
    <3> QED
      BY SMTT(30), <2>1, <2>2, <2>4 DEF Ledger, TypeOK
  <2> QED
    BY <1>4, <2>3, <2>4 DEF Prepare
<1>5. CASE Dispatch
  <2>1. UNCHANGED <<intent, receipt, obligation, execution, row, claims, sends>>
    BY <1>5 DEF Dispatch, bus
  <2>2. \/ dispatch' = dispatch
        \/ dispatch' = dispatch \cup {act[Owner].route} /\ intent = Route
    BY <1>5, DispatchAct DEF PublishingIntent
  <2> QED
    BY <2>1, <2>2 DEF Ledger
<1>6. CASE Settle
  BY <1>6 DEF Settle, Ledger, durable, bus
<1>7. CASE Append
  <2> DEFINE r == act[Owner].route
  <2>1. r \in Route /\ r \in dispatch /\ sends[r] = 0
    BY <1>7, Actors DEF Append, Calls, Appending, TypeOK, Activity
  <2>2. UNCHANGED <<durable, claims>> /\ row' = row \cup {r} /\ sends' = [sends EXCEPT ![r] = 1]
    BY SMTT(30), <1>7, <2>1 DEF Append, TypeOK
  <2> HIDE DEF r
  <2> QED
    BY SMTT(30), <2>1, <2>2 DEF Ledger, TypeOK, durable
<1>8. CASE AppendFails
  <2> DEFINE r == act[Owner].route
  <2>1. r \in Route /\ r \in dispatch /\ sends[r] = 0
    BY <1>8, Actors DEF AppendFails, Calls, Appending, TypeOK, Activity
  <2>2. UNCHANGED <<durable, bus>> /\ sends' = [sends EXCEPT ![r] = 1]
    BY SMTT(30), <1>8, <2>1 DEF AppendFails, TypeOK
  <2> HIDE DEF r
  <2> QED
    BY SMTT(30), <2>1, <2>2 DEF Ledger, TypeOK, durable, bus
<1>9. CASE PrepareTurn
  BY <1>9 DEF PrepareTurn, Ledger, durable, bus
<1>10. CASE FailUnknown
  BY <1>10 DEF FailUnknown, Ledger, durable, bus
<1>11. CASE RecoverOwner
  BY <1>11 DEF RecoverOwner, Ledger, durable, bus
<1>12. ASSUME NEW a \in Actor, ReleaseClaims(a) PROVE Ledger'
  BY <1>12 DEF ReleaseClaims, Ledger, durable
<1>13. ASSUME NEW a \in Actor, Commit(a) PROVE Ledger'
  <2> DEFINE r == act[a].route
  <2>1. r \in Route /\ r \in row /\ obligation[r] = "publishing" /\ execution = "active"
    BY <1>13 DEF Commit, Calls, Committing, TypeOK, Activity
  <2>2. /\ UNCHANGED <<intent, dispatch, row, claims, sends>>
        /\ receipt' = receipt \cup {r}
        /\ obligation' = [obligation EXCEPT ![r] = "published"]
        /\ execution' = IF Last(a) THEN "completed" ELSE execution
        /\ ~(Last(a) /\ claims)
    BY <1>13 DEF Commit, bus
  <2>3. Last(a) <=> receipt' = Route
    BY SMTT(30), <2>1, <2>2 DEF Last, Ledger, TypeOK
  <2> HIDE DEF r
  <2> QED
    BY <2>1, <2>2, <2>3 DEF Ledger, TypeOK
<1>14. ASSUME NEW a \in Actor, Resolved(a) PROVE Ledger'
  BY <1>14 DEF Resolved, Ledger, durable, bus
<1>15. ASSUME NEW a \in Actor, Abandon(a) PROVE Ledger'
  <2>1. claims' = claims \/ claims' = FALSE
    BY <1>15, AbandonAct
  <2> QED
    BY SMTT(30), <1>15, <2>1 DEF Abandon, Ledger, durable
<1>16. ASSUME NEW a \in Actor, CommitAbandon(a) PROVE Ledger'
  <2>1. intent = {} /\ execution = "active" /\ ~claims
    BY <1>16 DEF CommitAbandon, Calls, Abandoning
  <2>2. dispatch = {} /\ row = {} /\ receipt = {}
    BY <2>1, RouteAssumption DEF Ledger
  <2>3. /\ UNCHANGED <<intent, dispatch, receipt, row, claims, sends>>
        /\ execution' = "failed" /\ obligation' = [r \in Route |-> "failed"]
    BY <1>16 DEF CommitAbandon, bus
  <2> QED
    BY <2>1, <2>2, <2>3, RouteAssumption DEF Ledger
<1>17. ASSUME NEW a \in Actor, Unavailable(a) PROVE Ledger'
  BY <1>17 DEF Unavailable, Ledger, durable, bus
<1>18. ASSUME NEW a \in Actor, RollBack(a) PROVE Ledger'
  BY <1>18 DEF RollBack, Ledger, durable, bus
<1>19. ASSUME NEW a \in Actor, NEW r \in Route, ResolveRow(a, r) PROVE Ledger'
  BY <1>19 DEF ResolveRow, Ledger, durable, bus
<1>20. CASE Crash
  BY <1>20 DEF Crash, Ledger, durable, bus
<1>21. CASE CrashRecovery
  BY <1>21 DEF CrashRecovery, Ledger, durable, bus
<1>22. CASE Restart
  BY <1>22 DEF Restart, Ledger, durable, bus
<1>23. CASE FinishTurn
  BY <1>23 DEF FinishTurn, Ledger, durable, bus
<1>24. CASE StopOwner
  BY <1>24 DEF StopOwner, Ledger, durable, bus
<1>25. CASE OtherWrite
  BY <1>25 DEF OtherWrite, Ledger, durable, bus
<1>26. CASE UNCHANGED vars
  BY <1>26 DEF vars, Ledger, durable, bus
<1> QED
  BY <1>1, <1>2, <1>3, <1>4, <1>5, <1>6, <1>7, <1>8, <1>9, <1>10, <1>11, <1>12, <1>13, <1>14, <1>15, <1>16, <1>17, <1>18, <1>19, <1>20, <1>21, <1>22, <1>23, <1>24, <1>25, <1>26 DEF Next, OwnerStep, SharedStep, Environment

-----------------------------------------------------------------------------
\* Every step keeps what the processes have established in their calls.  A
\* process in a transaction holds the locks, so no other can undo its facts.

LEMMA CallsStep ==
    TypeOK /\ Ledger /\ Calls /\ [Next]_vars => Calls'
<1> SUFFICES ASSUME TypeOK, Ledger, Calls, [Next]_vars PROVE Calls'
  OBVIOUS
<1>0. /\ LockHeld /\ registry \in Registry /\ registry.revision \in Nat
      /\ act[Owner].cut.revision \in Nat
  BY TypeParts, Actors DEF Activity, Registry
<1>1. CASE PublishResponses
  <2>1. Others(Owner) /\ act'[Owner].pc \in {"prepare", "publish"}
    BY <1>1, StartAct
  <2>2. \A b \in Actor : Committing(b)' /\ Abandoning(b)'
    BY SMTT(30), <1>1, <1>0, <2>1, Actors DEF PublishResponses, Others, durable, bus, LockHeld, Calls, Committing, Abandoning
  <2>3. CutFits'
    BY <1>1, <1>0, <2>1, Actors DEF PublishResponses, Others, LockHeld, Calls, CutFits, Registry
  <2>4. FirstUnsent'
    BY <1>1, <1>0, <2>1, Actors DEF PublishResponses, Others, durable, LockHeld, Calls, FirstUnsent
  <2>5. Appending'
    BY <1>1, <1>0, <2>1, Actors DEF PublishResponses, Others, durable, bus, LockHeld, Calls, Appending
  <2> QED
    BY <2>2, <2>3, <2>4, <2>5 DEF Calls
<1>2. ASSUME NEW r \in Route, PublishAgain(r) PROVE Calls'
  <2>1. Others(Owner) /\ act'[Owner].pc \in {"prepare", "publish"}
    BY <1>2, StartAct
  <2>2. \A b \in Actor : Committing(b)' /\ Abandoning(b)'
    BY SMTT(30), <1>2, <1>0, <2>1, Actors DEF PublishAgain, Others, durable, bus, LockHeld, Calls, Committing, Abandoning
  <2>3. CutFits'
    BY <1>2, <1>0, <2>1, Actors DEF PublishAgain, Others, LockHeld, Calls, CutFits, Registry
  <2>4. FirstUnsent'
    BY <1>2, <1>0, <2>1, Actors DEF PublishAgain, Others, durable, LockHeld, Calls, FirstUnsent
  <2>5. Appending'
    BY <1>2, <1>0, <2>1, Actors DEF PublishAgain, Others, durable, bus, LockHeld, Calls, Appending
  <2> QED
    BY <2>2, <2>3, <2>4, <2>5 DEF Calls
<1>3. ASSUME NEW r \in Route, Capture(r) PROVE Calls'
  <2>1. /\ Others(Owner)
        /\ \/ /\ act'[Owner].pc \in {"freeze", "dispatch"}
              /\ act'[Owner].cut = registry /\ registry.status = "running"
           \/ act'[Owner].pc = "refused"
    BY <1>3, CaptureAct
  <2>2. \A b \in Actor : Committing(b)' /\ Abandoning(b)'
    BY SMTT(30), <1>3, <1>0, <2>1, Actors DEF Capture, Others, durable, bus, LockHeld, Calls, Committing, Abandoning
  <2>3. CutFits'
    BY SMTT(30), <1>3, <1>0, <2>1, Actors DEF Capture, Others, LockHeld, Calls, CutFits, Registry
  <2>4. FirstUnsent'
    BY <1>3, <1>0, <2>1, Actors DEF Capture, Others, durable, LockHeld, Calls, FirstUnsent
  <2>5. Appending'
    BY <1>3, <1>0, <2>1, Actors DEF Capture, Others, durable, bus, LockHeld, Calls, Appending
  <2> QED
    BY <2>2, <2>3, <2>4, <2>5 DEF Calls
<1>4. CASE Prepare
  <2>1. Others(Owner) /\ act'[Owner].pc \in {"publish", "prepare", "refused"}
    BY <1>4, Freezing, Refusing, Actors DEF Prepare, Others, TypeOK
  <2>2. \A b \in Actor : Committing(b)' /\ Abandoning(b)'
    BY <1>4, <1>0, <2>1, Actors DEF Prepare, Others, durable, bus, LockHeld, Calls, Committing, Abandoning
  <2>3. CutFits'
    BY <1>4, <1>0, <2>1, Actors DEF Prepare, Others, LockHeld, Calls, CutFits, Registry
  <2>4. FirstUnsent'
    BY <1>4, <1>0, <2>1, Actors DEF Prepare, Others, durable, LockHeld, Calls, FirstUnsent
  <2>5. Appending'
    BY <1>4, <1>0, <2>1, Actors DEF Prepare, Others, durable, bus, LockHeld, Calls, Appending
  <2> QED
    BY <2>2, <2>3, <2>4, <2>5 DEF Calls
<1>5. CASE Dispatch
  <2>1. /\ Others(Owner)
        /\ \/ act'[Owner].pc \in {"idle", "publish", "resolve", "refused"} /\ dispatch' = dispatch
           \/ /\ act'[Owner].pc = "settle" /\ act'[Owner].route = act[Owner].route
              /\ act'[Owner].cut = act[Owner].cut
              /\ act'[Owner].first = (act[Owner].route \notin dispatch)
              /\ dispatch' = dispatch \cup {act[Owner].route}
    BY <1>5, DispatchAct
  <2>2. \A b \in Actor : Committing(b)' /\ Abandoning(b)'
    BY <1>5, <1>0, <2>1, Actors DEF Dispatch, Others, durable, bus, LockHeld, Calls, Committing, Abandoning
  <2>3. CutFits'
    BY <1>5, <1>0, <2>1, Actors DEF Dispatch, Others, LockHeld, Calls, CutFits, Registry
  <2>4. FirstUnsent'
    BY <1>5, <1>0, <2>1, Actors DEF Dispatch, Others, durable, LockHeld, Calls, FirstUnsent, Ledger, TypeOK, Activity
  <2>5. Appending'
    BY <1>5, <1>0, <2>1, Actors DEF Dispatch, Others, durable, bus, LockHeld, Calls, Appending
  <2> QED
    BY <2>2, <2>3, <2>4, <2>5 DEF Calls
<1>6. CASE Settle
  <2>1. /\ Others(Owner)
        /\ \/ act'[Owner].pc \in {"idle", "publish", "resolve", "refused"} /\ lock' = lock
           \/ /\ act'[Owner].pc = (IF act[Owner].route \in row THEN "commit" ELSE "append")
              /\ act'[Owner].route = act[Owner].route
              /\ lock' = Owner /\ Current(Owner) /\ execution = "active"
              /\ PublishingIntent(act[Owner].route) /\ act[Owner].route \in dispatch
              /\ act[Owner].route \in row \/ act[Owner].first
    BY <1>6, SettleAct
  <2>2. \A b \in Actor : Committing(b)' /\ Abandoning(b)'
    BY SMTT(30), <1>6, <1>0, <2>1, Actors DEF Settle, Others, PublishingIntent, durable, bus, LockHeld, Calls, Committing, Abandoning
  <2>3. CutFits'
    BY <1>6, <1>0, <2>1, Actors DEF Settle, Others, LockHeld, Calls, CutFits, Registry
  <2>4. FirstUnsent'
    BY <1>6, <1>0, <2>1, Actors DEF Settle, Others, durable, LockHeld, Calls, FirstUnsent
  <2>5. Appending'
    BY <1>6, <1>0, <2>1, Actors DEF Settle, Others, PublishingIntent, Current, durable, bus, LockHeld, Calls, Appending, FirstUnsent, CutFits
  <2> QED
    BY <2>2, <2>3, <2>4, <2>5 DEF Calls
<1>7. CASE Append
  <2>1. Others(Owner) /\ act'[Owner].pc = "commit" /\ act'[Owner].route = act[Owner].route
    BY <1>7, AppendAct
  <2>2. \A b \in Actor : Committing(b)' /\ Abandoning(b)'
    BY SMTT(30), <1>7, <1>0, <2>1, Actors DEF Append, Others, durable, bus, LockHeld, Calls, Committing, Abandoning, Appending
  <2>3. CutFits'
    BY <1>7, <1>0, <2>1, Actors DEF Append, Others, LockHeld, Calls, CutFits, Registry
  <2>4. FirstUnsent'
    BY <1>7, <1>0, <2>1, Actors DEF Append, Others, durable, LockHeld, Calls, FirstUnsent
  <2>5. Appending'
    BY <1>7, <1>0, <2>1, Actors DEF Append, Others, durable, bus, LockHeld, Calls, Appending
  <2> QED
    BY <2>2, <2>3, <2>4, <2>5 DEF Calls
<1>8. CASE AppendFails
  <2>1. Others(Owner) /\ act'[Owner].pc = "refused"
    BY <1>8, Refusing, Actors DEF AppendFails, Others, TypeOK
  <2>2. \A b \in Actor : Committing(b)' /\ Abandoning(b)'
    BY SMTT(30), <1>8, <1>0, <2>1, Actors DEF AppendFails, Others, durable, bus, LockHeld, Calls, Committing, Abandoning
  <2>3. CutFits'
    BY <1>8, <1>0, <2>1, Actors DEF AppendFails, Others, LockHeld, Calls, CutFits, Registry
  <2>4. FirstUnsent'
    BY <1>8, <1>0, <2>1, Actors DEF AppendFails, Others, durable, LockHeld, Calls, FirstUnsent
  <2>5. Appending'
    BY <1>8, <1>0, <2>1, Actors DEF AppendFails, Others, durable, bus, LockHeld, Calls, Appending
  <2> QED
    BY <2>2, <2>3, <2>4, <2>5 DEF Calls
<1>9. CASE PrepareTurn
  <2>1. Others(Owner) /\ act'[Owner].pc = "resolve"
    BY <1>9, ResolvingType, Actors DEF PrepareTurn, Others, TypeOK
  <2>2. \A b \in Actor : Committing(b)' /\ Abandoning(b)'
    BY SMTT(30), <1>9, <1>0, <2>1, Actors DEF PrepareTurn, Others, durable, bus, LockHeld, Calls, Committing, Abandoning
  <2>3. CutFits'
    BY <1>9, <1>0, <2>1, Actors DEF PrepareTurn, Others, LockHeld, Calls, CutFits, Registry
  <2>4. FirstUnsent'
    BY <1>9, <1>0, <2>1, Actors DEF PrepareTurn, Others, durable, LockHeld, Calls, FirstUnsent
  <2>5. Appending'
    BY <1>9, <1>0, <2>1, Actors DEF PrepareTurn, Others, durable, bus, LockHeld, Calls, Appending
  <2> QED
    BY <2>2, <2>3, <2>4, <2>5 DEF Calls
<1>10. CASE FailUnknown
  <2>1. Others(Owner) /\ act'[Owner].pc = "abandon"
    BY <1>10, FailAct
  <2>2. \A b \in Actor : Committing(b)' /\ Abandoning(b)'
    BY SMTT(30), <1>10, <1>0, <2>1, Actors DEF FailUnknown, Others, durable, bus, LockHeld, Calls, Committing, Abandoning
  <2>3. CutFits'
    BY <1>10, <1>0, <2>1, Actors DEF FailUnknown, Others, LockHeld, Calls, CutFits, Registry
  <2>4. FirstUnsent'
    BY <1>10, <1>0, <2>1, Actors DEF FailUnknown, Others, durable, LockHeld, Calls, FirstUnsent
  <2>5. Appending'
    BY <1>10, <1>0, <2>1, Actors DEF FailUnknown, Others, durable, bus, LockHeld, Calls, Appending
  <2> QED
    BY <2>2, <2>3, <2>4, <2>5 DEF Calls
<1>11. CASE RecoverOwner
  <2>1. Others(Recovery) /\ act'[Recovery].pc = "resolve"
    BY <1>11, ResolvingType, Actors DEF RecoverOwner, Others, TypeOK
  <2>2. \A b \in Actor : Committing(b)' /\ Abandoning(b)'
    BY SMTT(30), <1>11, <1>0, <2>1, Actors DEF RecoverOwner, Others, durable, bus, LockHeld, Calls, Committing, Abandoning
  <2>3. CutFits'
    BY <1>11, <1>0, <2>1, Actors DEF RecoverOwner, Others, LockHeld, Calls, CutFits, Registry
  <2>4. FirstUnsent'
    BY <1>11, <1>0, <2>1, Actors DEF RecoverOwner, Others, durable, LockHeld, Calls, FirstUnsent
  <2>5. Appending'
    BY <1>11, <1>0, <2>1, Actors DEF RecoverOwner, Others, durable, bus, LockHeld, Calls, Appending
  <2> QED
    BY <2>2, <2>3, <2>4, <2>5 DEF Calls
<1>12. ASSUME NEW a \in Actor, ReleaseClaims(a) PROVE Calls'
  <2>1. act' = act /\ act[a].pc = "commit"
    BY <1>12 DEF ReleaseClaims
  <2>2. \A b \in Actor : Committing(b)' /\ Abandoning(b)'
    BY <1>12, <1>0, <2>1, Actors DEF ReleaseClaims, Others, durable, bus, LockHeld, Calls, Committing, Abandoning
  <2>3. CutFits'
    BY <1>12, <1>0, <2>1, Actors DEF ReleaseClaims, Others, LockHeld, Calls, CutFits, Registry
  <2>4. FirstUnsent'
    BY <1>12, <1>0, <2>1, Actors DEF ReleaseClaims, Others, durable, LockHeld, Calls, FirstUnsent
  <2>5. Appending'
    BY <1>12, <1>0, <2>1, Actors DEF ReleaseClaims, Others, durable, bus, LockHeld, Calls, Appending
  <2> QED
    BY <2>2, <2>3, <2>4, <2>5 DEF Calls
<1>13. ASSUME NEW a \in Actor, Commit(a) PROVE Calls'
  <2>1. Others(a) /\ act'[a].pc \in {"idle", "publish", "resolve"}
    BY <1>13, Continuing DEF Commit, Others, TypeOK
  <2>2. \A b \in Actor : Committing(b)' /\ Abandoning(b)'
    BY SMTT(30), <1>13, <1>0, <2>1, Actors DEF Commit, Others, durable, bus, LockHeld, Calls, Committing, Abandoning
  <2>3. CutFits'
    BY <1>13, <1>0, <2>1, Actors DEF Commit, Others, LockHeld, Calls, CutFits, Registry
  <2>4. FirstUnsent'
    BY <1>13, <1>0, <2>1, Actors DEF Commit, Others, durable, LockHeld, Calls, FirstUnsent
  <2>5. Appending'
    BY <1>13, <1>0, <2>1, Actors DEF Commit, Others, durable, bus, LockHeld, Calls, Appending
  <2> QED
    BY <2>2, <2>3, <2>4, <2>5 DEF Calls
<1>14. ASSUME NEW a \in Actor, Resolved(a) PROVE Calls'
  <2>1. Others(a) /\ act'[a].pc \in {"abandon", "idle"}
    BY <1>14, ResolvedAct
  <2>2. \A b \in Actor : Committing(b)' /\ Abandoning(b)'
    BY SMTT(30), <1>14, <1>0, <2>1, Actors DEF Resolved, Others, durable, bus, LockHeld, Calls, Committing, Abandoning
  <2>3. CutFits'
    BY <1>14, <1>0, <2>1, Actors DEF Resolved, Others, LockHeld, Calls, CutFits, Registry
  <2>4. FirstUnsent'
    BY <1>14, <1>0, <2>1, Actors DEF Resolved, Others, durable, LockHeld, Calls, FirstUnsent
  <2>5. Appending'
    BY <1>14, <1>0, <2>1, Actors DEF Resolved, Others, durable, bus, LockHeld, Calls, Appending
  <2> QED
    BY <2>2, <2>3, <2>4, <2>5 DEF Calls
<1>15. ASSUME NEW a \in Actor, Abandon(a) PROVE Calls'
  <2>1. /\ Others(a)
        /\ \/ act'[a].pc = "idle" /\ lock' = lock /\ claims' = claims
           \/ /\ act'[a].pc = "abandoning" /\ lock' = a /\ claims' = FALSE
              /\ intent = {} /\ execution = "active"
    BY <1>15, AbandonAct
  <2>2. \A b \in Actor : Committing(b)' /\ Abandoning(b)'
    BY SMTT(30), <1>15, <1>0, <2>1, Actors DEF Abandon, Others, durable, bus, LockHeld, Calls, Committing, Abandoning
  <2>3. CutFits'
    BY <1>15, <1>0, <2>1, Actors DEF Abandon, Others, LockHeld, Calls, CutFits, Registry
  <2>4. FirstUnsent'
    BY <1>15, <1>0, <2>1, Actors DEF Abandon, Others, durable, LockHeld, Calls, FirstUnsent
  <2>5. Appending'
    BY <1>15, <1>0, <2>1, Actors DEF Abandon, Others, durable, bus, LockHeld, Calls, Appending
  <2> QED
    BY <2>2, <2>3, <2>4, <2>5 DEF Calls
<1>16. ASSUME NEW a \in Actor, CommitAbandon(a) PROVE Calls'
  <2>1. Others(a) /\ act'[a].pc = "idle"
    BY <1>16, Idling DEF CommitAbandon, Others, TypeOK
  <2>2. \A b \in Actor : Committing(b)' /\ Abandoning(b)'
    BY SMTT(30), <1>16, <1>0, <2>1, Actors DEF CommitAbandon, Others, durable, bus, LockHeld, Calls, Committing, Abandoning
  <2>3. CutFits'
    BY <1>16, <1>0, <2>1, Actors DEF CommitAbandon, Others, LockHeld, Calls, CutFits, Registry
  <2>4. FirstUnsent'
    BY <1>16, <1>0, <2>1, Actors DEF CommitAbandon, Others, durable, LockHeld, Calls, FirstUnsent
  <2>5. Appending'
    BY <1>16, <1>0, <2>1, Actors DEF CommitAbandon, Others, durable, bus, LockHeld, Calls, Appending
  <2> QED
    BY <2>2, <2>3, <2>4, <2>5 DEF Calls
<1>17. ASSUME NEW a \in Actor, Unavailable(a) PROVE Calls'
  <2>1. Others(a) /\ act'[a].pc = "refused"
    BY <1>17, Refusing DEF Unavailable, Others, TypeOK
  <2>2. \A b \in Actor : Committing(b)' /\ Abandoning(b)'
    BY SMTT(30), <1>17, <1>0, <2>1, Actors DEF Unavailable, Others, durable, bus, LockHeld, Calls, Committing, Abandoning
  <2>3. CutFits'
    BY <1>17, <1>0, <2>1, Actors DEF Unavailable, Others, LockHeld, Calls, CutFits, Registry
  <2>4. FirstUnsent'
    BY <1>17, <1>0, <2>1, Actors DEF Unavailable, Others, durable, LockHeld, Calls, FirstUnsent
  <2>5. Appending'
    BY <1>17, <1>0, <2>1, Actors DEF Unavailable, Others, durable, bus, LockHeld, Calls, Appending
  <2> QED
    BY <2>2, <2>3, <2>4, <2>5 DEF Calls
<1>18. ASSUME NEW a \in Actor, RollBack(a) PROVE Calls'
  <2>1. Others(a) /\ act'[a].pc = "refused"
    BY <1>18, Refusing DEF RollBack, Others, TypeOK
  <2>2. \A b \in Actor : Committing(b)' /\ Abandoning(b)'
    BY <1>18, <1>0, <2>1, Actors DEF RollBack, Others, durable, bus, LockHeld, Calls, Committing, Abandoning
  <2>3. CutFits'
    BY <1>18, <1>0, <2>1, Actors DEF RollBack, Others, LockHeld, Calls, CutFits, Registry
  <2>4. FirstUnsent'
    BY <1>18, <1>0, <2>1, Actors DEF RollBack, Others, durable, LockHeld, Calls, FirstUnsent
  <2>5. Appending'
    BY <1>18, <1>0, <2>1, Actors DEF RollBack, Others, durable, bus, LockHeld, Calls, Appending
  <2> QED
    BY <2>2, <2>3, <2>4, <2>5 DEF Calls
<1>19. ASSUME NEW a \in Actor, NEW r \in Route, ResolveRow(a, r) PROVE Calls'
  <2>1. /\ Others(a)
        /\ \/ act'[a].pc = "refused" /\ lock' = lock
           \/ /\ act'[a].pc = "commit" /\ act'[a].route = r /\ lock' = a
              /\ execution = "active" /\ PublishingIntent(r) /\ r \in row
    BY <1>19, ResolveAct
  <2>2. \A b \in Actor : Committing(b)' /\ Abandoning(b)'
    BY SMTT(30), <1>19, <1>0, <2>1, Actors DEF ResolveRow, Others, PublishingIntent, durable, bus, LockHeld, Calls, Committing, Abandoning
  <2>3. CutFits'
    BY <1>19, <1>0, <2>1, Actors DEF ResolveRow, Others, LockHeld, Calls, CutFits, Registry
  <2>4. FirstUnsent'
    BY <1>19, <1>0, <2>1, Actors DEF ResolveRow, Others, durable, LockHeld, Calls, FirstUnsent
  <2>5. Appending'
    BY <1>19, <1>0, <2>1, Actors DEF ResolveRow, Others, PublishingIntent, durable, bus, LockHeld, Calls, Appending
  <2> QED
    BY <2>2, <2>3, <2>4, <2>5 DEF Calls
<1>20. CASE Crash
  <2>1. Others(Owner) /\ act'[Owner].pc = "idle"
    BY <1>20, Idling, Actors DEF Crash, Others, TypeOK
  <2>2. \A b \in Actor : Committing(b)' /\ Abandoning(b)'
    BY SMTT(30), <1>20, <1>0, <2>1, Actors DEF Crash, Others, durable, bus, LockHeld, Calls, Committing, Abandoning
  <2>3. CutFits'
    BY <1>20, <1>0, <2>1, Actors DEF Crash, Others, LockHeld, Calls, CutFits, Registry
  <2>4. FirstUnsent'
    BY <1>20, <1>0, <2>1, Actors DEF Crash, Others, durable, LockHeld, Calls, FirstUnsent
  <2>5. Appending'
    BY <1>20, <1>0, <2>1, Actors DEF Crash, Others, durable, bus, LockHeld, Calls, Appending
  <2> QED
    BY <2>2, <2>3, <2>4, <2>5 DEF Calls
<1>21. CASE CrashRecovery
  <2>1. Others(Recovery) /\ act'[Recovery].pc = "idle"
    BY <1>21, Idling, Actors DEF CrashRecovery, Others, TypeOK
  <2>2. \A b \in Actor : Committing(b)' /\ Abandoning(b)'
    BY <1>21, <1>0, <2>1, Actors DEF CrashRecovery, Others, durable, bus, LockHeld, Calls, Committing, Abandoning
  <2>3. CutFits'
    BY <1>21, <1>0, <2>1, Actors DEF CrashRecovery, Others, LockHeld, Calls, CutFits, Registry
  <2>4. FirstUnsent'
    BY <1>21, <1>0, <2>1, Actors DEF CrashRecovery, Others, durable, LockHeld, Calls, FirstUnsent
  <2>5. Appending'
    BY <1>21, <1>0, <2>1, Actors DEF CrashRecovery, Others, durable, bus, LockHeld, Calls, Appending
  <2> QED
    BY <2>2, <2>3, <2>4, <2>5 DEF Calls
<1>22. CASE Restart
  <2>1. /\ registry'.revision = registry.revision + 1 /\ registry' \in Registry
        /\ lock = NoOne /\ act' = act
    BY <1>22, Writing DEF Restart, TypeOK
  <2>2. \A b \in Actor : Committing(b)' /\ Abandoning(b)'
    BY <1>22, <1>0, <2>1, Actors DEF Restart, durable, bus, LockHeld, Calls, Committing, Abandoning
  <2>3. CutFits'
    BY <1>22, <1>0, <2>1, Actors DEF Restart, LockHeld, Calls, CutFits, Registry
  <2>4. FirstUnsent'
    BY <1>22, <1>0, <2>1, Actors DEF Restart, durable, LockHeld, Calls, FirstUnsent
  <2>5. Appending'
    BY <1>22, <1>0, <2>1, Actors DEF Restart, durable, bus, LockHeld, Calls, Appending
  <2> QED
    BY <2>2, <2>3, <2>4, <2>5 DEF Calls
<1>23. CASE FinishTurn
  <2>1. /\ registry'.revision = registry.revision + 1 /\ registry' \in Registry
        /\ lock = NoOne /\ act' = act
    BY <1>23, Writing DEF FinishTurn, TypeOK
  <2>2. \A b \in Actor : Committing(b)' /\ Abandoning(b)'
    BY <1>23, <1>0, <2>1, Actors DEF FinishTurn, durable, bus, LockHeld, Calls, Committing, Abandoning
  <2>3. CutFits'
    BY <1>23, <1>0, <2>1, Actors DEF FinishTurn, LockHeld, Calls, CutFits, Registry
  <2>4. FirstUnsent'
    BY <1>23, <1>0, <2>1, Actors DEF FinishTurn, durable, LockHeld, Calls, FirstUnsent
  <2>5. Appending'
    BY <1>23, <1>0, <2>1, Actors DEF FinishTurn, durable, bus, LockHeld, Calls, Appending
  <2> QED
    BY <2>2, <2>3, <2>4, <2>5 DEF Calls
<1>24. CASE StopOwner
  <2>1. /\ registry'.revision = registry.revision + 1 /\ registry' \in Registry
        /\ lock = NoOne /\ act' = act
    BY <1>24, Writing DEF StopOwner, TypeOK
  <2>2. \A b \in Actor : Committing(b)' /\ Abandoning(b)'
    BY <1>24, <1>0, <2>1, Actors DEF StopOwner, durable, bus, LockHeld, Calls, Committing, Abandoning
  <2>3. CutFits'
    BY SMTT(30), <1>24, <1>0, <2>1, Actors DEF StopOwner, LockHeld, Calls, CutFits, Registry
  <2>4. FirstUnsent'
    BY <1>24, <1>0, <2>1, Actors DEF StopOwner, durable, LockHeld, Calls, FirstUnsent
  <2>5. Appending'
    BY <1>24, <1>0, <2>1, Actors DEF StopOwner, durable, bus, LockHeld, Calls, Appending
  <2> QED
    BY <2>2, <2>3, <2>4, <2>5 DEF Calls
<1>25. CASE OtherWrite
  <2>1. /\ registry'.revision = registry.revision + 1 /\ registry' \in Registry
        /\ lock = NoOne /\ act' = act
    BY SMTT(30), <1>25, Writing DEF OtherWrite, TypeOK, Registry
  <2>2. \A b \in Actor : Committing(b)' /\ Abandoning(b)'
    BY <1>25, <1>0, <2>1, Actors DEF OtherWrite, durable, bus, LockHeld, Calls, Committing, Abandoning
  <2>3. CutFits'
    BY SMTT(30), <1>25, <1>0, <2>1, Actors DEF OtherWrite, LockHeld, Calls, CutFits, Registry
  <2>4. FirstUnsent'
    BY <1>25, <1>0, <2>1, Actors DEF OtherWrite, durable, LockHeld, Calls, FirstUnsent
  <2>5. Appending'
    BY <1>25, <1>0, <2>1, Actors DEF OtherWrite, durable, bus, LockHeld, Calls, Appending
  <2> QED
    BY <2>2, <2>3, <2>4, <2>5 DEF Calls
<1>26. CASE UNCHANGED vars
  BY <1>26 DEF vars, durable, bus, Calls, Committing, Abandoning, CutFits, FirstUnsent, Appending
<1> QED
  BY <1>1, <1>2, <1>3, <1>4, <1>5, <1>6, <1>7, <1>8, <1>9, <1>10, <1>11, <1>12, <1>13, <1>14, <1>15, <1>16, <1>17, <1>18, <1>19, <1>20, <1>21, <1>22, <1>23, <1>24, <1>25, <1>26 DEF Next, OwnerStep, SharedStep, Environment

-----------------------------------------------------------------------------
(* The theorems *)

LEMMA InitIInv == Init => IInv
<1> SUFFICES ASSUME Init PROVE IInv
  OBVIOUS
<1>0. \A a \in Actor : act[a] = Idle /\ act[a].pc = "idle"
  BY IdleType DEF Init
<1>1. TypeOK
  <2>1. RowTypes /\ registry \in Registry
    BY DEF Init, RowTypes, Registry
  <2>2. act \in [Actor -> Activity]
    BY IdleType DEF Init
  <2>3. LockHeld
    BY <1>0, Actors DEF Init, LockHeld
  <2>4. BoundTypes
    BY SMTT(30), BoundAssumption DEF Init, BoundTypes
  <2> QED
    BY <2>1, <2>2, <2>3, <2>4, TypeParts
<1>2. Ledger
  BY RouteAssumption DEF Init, Ledger
<1>3. Calls
  BY <1>0, Actors DEF Calls, Committing, Abandoning, CutFits, FirstUnsent, Appending
<1> QED
  BY <1>1, <1>2, <1>3 DEF IInv

LEMMA StepIInv == IInv /\ [Next]_vars => IInv'
BY TypeStep, LedgerStep, CallsStep DEF IInv

LEMMA Invariance == Spec => []IInv
BY InitIInv, StepIInv, PTL DEF Spec

\* The rows keep their shape, and the locks are held exactly by a process in a
\* transaction that spans a bus write (_settle_fenced_response, settle).
THEOREM TypeCorrect == Spec => []TypeOK
<1>1. IInv => TypeOK
  BY DEF IInv
<1> QED
  BY <1>1, Invariance, PTL

\* For every set of routes and however many calls, faults, crashes and
\* restarts: a reply is handed to the bus at most once, because the dispatch
\* row that _settle_fenced_response commits first is never taken for a new one.
THEOREM RepliesSentAtMostOnce == Spec => []SentAtMostOnce
<1>1. IInv => SentAtMostOnce
  BY SMTT(30) DEF IInv, Ledger, SentAtMostOnce
<1> QED
  BY <1>1, Invariance, PTL

\* A reply row on the bus is acknowledged or still acknowledgeable: no
\* settlement (fail_unknown, terminalize_dead_attempt) overtakes it.
THEOREM RowsStayRecoverable == Spec => []RowIsRecoverable
<1>1. IInv => RowIsRecoverable
  <2> SUFFICES ASSUME IInv, NEW r \in row
               PROVE  /\ r \in dispatch /\ intent = Route
                      /\ r \in receipt \/ (execution = "active" /\ obligation[r] = "publishing")
    BY DEF RowIsRecoverable
  <2>1. r \in Route /\ r \in dispatch /\ intent = Route
    BY DEF IInv, TypeOK, Ledger
  <2>2. r \notin receipt => execution = "active" /\ obligation[r] = "publishing"
    BY <2>1 DEF IInv, TypeOK, Ledger
  <2> QED
    BY <2>1, <2>2
<1> QED
  BY <1>1, Invariance, PTL

\* An acknowledged reply is on the bus, and an execution completes with its
\* last acknowledgement (PublicationAppendDispatches.complete).
THEOREM AcknowledgementsHaveRows == Spec => []AcknowledgedHasRow
<1>1. IInv => AcknowledgedHasRow
  BY DEF IInv, Ledger, AcknowledgedHasRow
<1> QED
  BY <1>1, Invariance, PTL

\* A settled attempt holds no claim, although the claims are on the bus and
\* the settlement in the coordinator (release_resources before the commit).
THEOREM SettledAttemptsHoldNoClaim == Spec => []SettledHoldsNoClaim
<1>1. IInv => SettledHoldsNoClaim
  BY DEF IInv, Ledger, SettledHoldsNoClaim
<1> QED
  BY <1>1, Invariance, PTL

\* A reply is appended only while the registry shows the owner's turn running:
\* the registry is checked under the locks the append keeps (Settle).
THEOREM NothingAppendedAfterStop == Spec => AppendsWhileRunning
<1>1. IInv /\ [Next]_vars =>
         [row' # row => registry.status = "running" /\ process]_vars
  <2> SUFFICES ASSUME IInv, [Next]_vars, row' # row
               PROVE  registry.status = "running" /\ process
    OBVIOUS
  <2>1. Append
    BY DEF Next, OwnerStep, SharedStep, Environment, vars, bus, PublishResponses,
           PublishAgain, Capture, Prepare, Dispatch, Settle, AppendFails, PrepareTurn,
           FailUnknown, RecoverOwner, ReleaseClaims, Commit, Resolved, Abandon,
           CommitAbandon, Unavailable, RollBack, ResolveRow, Crash, CrashRecovery,
           Restart, FinishTurn, StopOwner, OtherWrite
  <2> QED
    BY <2>1 DEF Append, IInv, Calls, Appending
<1> QED
  BY <1>1, Invariance, PTL DEF Spec, AppendsWhileRunning
=============================================================================
