-------------------------- MODULE RestartQueueProofs --------------------------
(***************************************************************************)
(* The restart queue, for every number of owners, requests, clients and    *)
(* watchers: one intent per owner, one fence per request, the fence hits   *)
(* the selected registration, and no request is orphaned.                  *)
(*                                                                         *)
(* The argument: only the watcher that holds the claim is in an attempt    *)
(* (Claimed), so nobody else touches the row it attempts; every other      *)
(* transaction rewrites rows that are absent or pending and leaves the     *)
(* others alone (Untouched); and a watcher that has not fenced yet works   *)
(* on a row that never was fenced, because only pending rows are listed.   *)
(***************************************************************************)
EXTENDS RestartQueue, TLAPS

\* A leaf that names no prover is for Zenon; arithmetic and records go to SMT.
USE ZenonT(30)

WatcherState ==
  [step : WatcherStep, todo : SUBSET (Request \X QueuedRestart),
   row : Request \cup {NoOne}, turns : Nat, claim : Nat, result : RestartState,
   signal : BOOLEAN]

Checked == [step : {"checked"}, owner : Owner, selection : Selection, target : Target]

Typed ==
  /\ rows \in [Request -> QueuedRestart \cup {Absent}]
  /\ registry \in [Owner -> Entry]
  /\ host \in [number : 1..MaxHost, alive : BOOLEAN]
  /\ open \in BOOLEAN
  /\ claim \in Watcher \cup {NoOne}
  /\ watcher \in [Watcher -> WatcherState]
  /\ client \in [Client -> Checked \cup {NotCalling, Starting}]
  /\ holds \in 0..MaxHolds /\ faults \in 0..MaxFaults
  /\ fences \in [Request -> Nat]
  /\ abandoned \subseteq Request

OneActive ==
  \A q, r \in Request :
    /\ rows[q].state \in ActiveState /\ rows[r].state \in ActiveState
    /\ rows[q].owner = rows[r].owner
    => q = r

Claimed ==
  \A w \in Watcher : claim = w <=> watcher[w].step \notin {"none", "spawned", "failing"}

\* What a watcher listed was pending, the row it attempts is its own, and until it fences
\* that row has not been fenced; after the fence its answer is not one that waits.
Attempts(w) ==
  /\ \A item \in watcher[w].todo : item[2].state = "pending"
  /\ watcher[w].step \in AttemptStep =>
       watcher[w].row \in Request /\ rows[watcher[w].row].state = "attempting"
  /\ watcher[w].step \in {"check", "fence"} => fences[watcher[w].row] = 0
  /\ watcher[w].step = "complete" /\ fences[watcher[w].row] # 0 =>
       watcher[w].result \in {"uncertain", "restarted"}

IInv ==
  /\ Typed
  /\ OneActive
  /\ Claimed
  /\ \A w \in Watcher : Attempts(w)
  /\ FencedOnce
  /\ PendingIsAttended

-----------------------------------------------------------------------------
(* Rows.                                                                   *)

Table == [Request -> QueuedRestart \cup {Absent}]

\* A transaction that only answers pending rows.
Aged(table) ==
  /\ table \in Table
  /\ \A r \in Request :
       table[r] # rows[r] =>
         /\ rows[r].state = "pending"
         /\ table[r] \in QueuedRestart /\ table[r].state \notin ActiveState

\* No row is rewritten once it left pending.
Untouched ==
  \A r \in Request : rows[r].state \notin {"absent", "pending"} => rows'[r] = rows[r]

LEMMA RowKinds ==
  ASSUME Typed, NEW r \in Request
  PROVE  /\ rows[r].state \in RestartState => rows[r] \in QueuedRestart
         /\ rows[r] \in QueuedRestart => rows[r].state \in RestartState
         /\ rows[r] = Absent \/ rows[r] \in QueuedRestart
         /\ Absent.state = "absent" /\ "absent" \notin RestartState
<1>1. rows[r] \in QueuedRestart \cup {Absent}
  BY DEF Typed
<1>2. Absent.state = "absent" /\ "absent" \notin RestartState
  BY SMTT(30) DEF Absent, RestartState
<1>3. rows[r] \in QueuedRestart => rows[r].state \in RestartState
  BY DEF QueuedRestart
<1>. QED
  BY <1>1, <1>2, <1>3

LEMMA TransitionKeeps ==
  ASSUME NEW q \in QueuedRestart, NEW state \in RestartState
  PROVE  /\ Transition(q, state) \in QueuedRestart
         /\ Transition(q, state).state = state /\ Transition(q, state).owner = q.owner
  BY SMTT(30) DEF Transition, QueuedRestart

LEMMA States ==
  /\ "pending" \in RestartState /\ "attempting" \in RestartState
  /\ "stale" \in RestartState \ ActiveState /\ "cancelled" \in RestartState \ ActiveState
  /\ "blocked" \in RestartState \ ActiveState
  /\ "uncertain" \in RestartState /\ "restarted" \in RestartState
  /\ ActiveState \subseteq RestartState
  BY SMTT(30) DEF RestartState, ActiveState

\* Answering some pending rows.
LEMMA AnsweringAges ==
  ASSUME Typed, NEW table, Aged(table), NEW state \in RestartState \ ActiveState, NEW D \in SUBSET Request,
         \A r \in D : table[r].state = "pending",
         NEW after, after = [r \in Request |-> IF r \in D THEN Transition(table[r], state) ELSE table[r]]
  PROVE  Aged(after)
<1>1. ASSUME NEW r \in D
      PROVE  /\ rows[r].state = "pending" /\ after[r] \in QueuedRestart /\ after[r].state = state
    <2>1. table[r] = rows[r]
      BY States DEF Aged, ActiveState
    <2>2. rows[r] \in QueuedRestart
      BY <2>1, RowKinds, States
    <2>. QED
      BY <2>1, <2>2, TransitionKeeps
<1>2. \A r \in Request : r \notin D => after[r] = table[r]
  OBVIOUS
<1>3. after \in Table
  <2>1. \A r \in Request : after[r] \in QueuedRestart \cup {Absent}
    BY <1>1, <1>2 DEF Aged, Table
  <2>. QED
    BY <2>1 DEF Table
<1>. QED
  BY <1>1, <1>2, <1>3 DEF Aged

LEMMA RowsAge == Typed => Aged(rows)
  BY DEF Typed, Aged, Table

LEMMA SettledAges == Typed => Aged(Settled)
<1>. SUFFICES ASSUME Typed PROVE Aged(Settled)
  OBVIOUS
<1>1. PICK D : D = {r \in Request : rows[r].state = "pending" /\ ~ProcessAlive(rows[r].selection.process)}
  OBVIOUS
<1>2. Settled = [r \in Request |-> IF r \in D THEN Transition(rows[r], "stale") ELSE rows[r]]
  BY <1>1 DEF Settled
<1>3. D \in SUBSET Request /\ \A r \in D : rows[r].state = "pending"
  BY <1>1
<1>4. Aged(rows) /\ "stale" \in RestartState \ ActiveState
  BY RowsAge, States
<1>. QED
  BY <1>2, <1>3, <1>4, AnsweringAges

\* An enqueue that met no attempting row of its owner supersedes a pending row only.
LEMMA SupersededAges ==
  ASSUME Typed, NEW c \in Client,
         ~ \E r \in ActiveRows(client[c].owner) : rows[r].state = "attempting"
  PROVE  /\ Aged(Superseded(c, Settled))
         /\ ActiveIn(Superseded(c, Settled), client[c].owner) = {}
<1>1. PICK table : table = Settled
  OBVIOUS
<1>2. PICK D : D = ActiveIn(table, client[c].owner)
  OBVIOUS
<1>3. Superseded(c, table) = [r \in Request |-> IF r \in D THEN Transition(table[r], "stale") ELSE table[r]]
  BY <1>2 DEF Superseded
<1>4. D \in SUBSET Request /\ Aged(table)
  BY <1>1, <1>2, SettledAges DEF ActiveIn
<1>5. ASSUME NEW r \in D PROVE table[r].state = "pending"
  <2>1. table[r].state \in ActiveState /\ table[r].owner = client[c].owner /\ r \in Request
    BY <1>2 DEF ActiveIn
  <2>2. table[r] = rows[r]
    BY <1>4, <2>1 DEF Aged
  <2>3. r \in ActiveRows(client[c].owner)
    BY <2>1, <2>2 DEF ActiveRows, ActiveIn
  <2>. QED
    BY <2>1, <2>2, <2>3 DEF ActiveState
<1>6. "stale" \in RestartState \ ActiveState
  BY States
<1>7. Aged(Superseded(c, table))
  <2>1. PICK after : after = Superseded(c, table)
    OBVIOUS
  <2>2. Aged(after)
    BY <1>3, <1>4, <1>5, <1>6, <2>1, AnsweringAges
  <2>. QED
    BY <2>1, <2>2
<1>8. ASSUME NEW r \in ActiveIn(Superseded(c, table), client[c].owner) PROVE FALSE
  <2>1. r \in Request /\ Superseded(c, table)[r].state \in ActiveState
        /\ Superseded(c, table)[r].owner = client[c].owner
    BY <1>8 DEF ActiveIn
  <2>2. CASE r \in D
    <3>1. Superseded(c, table)[r] = Transition(table[r], "stale")
      BY <1>3, <2>1, <2>2
    <3>2. table[r] \in QueuedRestart
      BY <1>4, <1>5, <2>1, <2>2, RowKinds, States DEF Aged, Typed, ActiveState
    <3>3. Transition(table[r], "stale").state = "stale"
      BY <3>2, TransitionKeeps, States
    <3>. QED
      BY <2>1, <3>1, <3>3 DEF ActiveState
  <2>3. CASE r \notin D
    <3>1. Superseded(c, table)[r] = table[r]
      BY <1>3, <2>1, <2>3
    <3>. QED
      BY <1>2, <2>1, <2>3, <3>1 DEF ActiveIn
  <2>. QED
    BY <2>2, <2>3
<1>. QED
  BY <1>1, <1>7, <1>8

LEMMA AgedRows ==
  ASSUME Typed, OneActive, Aged(rows')
  PROVE  OneActive' /\ Untouched /\ Pending' \subseteq Pending
<1>1. \A r \in Request : rows'[r].state \in ActiveState => rows'[r] = rows[r]
  BY DEF Aged
<1>2. \A r \in Request : rows[r].state \notin {"absent", "pending"} => rows'[r] = rows[r]
  BY DEF Aged
<1>3. "pending" \in ActiveState
  BY DEF ActiveState
<1>. QED
  BY <1>1, <1>2, <1>3 DEF OneActive, Untouched, Pending, Rows

-----------------------------------------------------------------------------
(* Watchers.                                                               *)

Away == {"none", "spawned", "failing"}

\* The watcher goes on as ws says, whatever it is signalled.
Same(ws, w) ==
  /\ watcher'[w].step = ws[w].step /\ watcher'[w].todo = ws[w].todo
  /\ watcher'[w].row = ws[w].row /\ watcher'[w].result = ws[w].result

Others(w) == \A v \in Watcher \ {w} : Same(watcher, v)

LEMMA SignalsKeep ==
  ASSUME NEW ws \in [Watcher -> WatcherState], watcher' = ws \/ watcher' = Signalled(ws)
  PROVE  watcher' \in [Watcher -> WatcherState] /\ \A w \in Watcher : Same(ws, w)
<1>1. CASE watcher' = ws
  BY <1>1 DEF Same
<1>2. CASE watcher' = Signalled(ws)
  <2>1. ASSUME NEW w \in Watcher PROVE watcher'[w] \in WatcherState /\ Same(ws, w)
    <3>1. watcher'[w] = ws[w] \/ watcher'[w] = [ws[w] EXCEPT !.signal = TRUE]
      BY <1>2 DEF Signalled
    <3>2. ws[w] \in WatcherState
      OBVIOUS
    <3>. QED
      BY <3>1, <3>2 DEF Same, WatcherState
  <2>2. watcher' = [w \in Watcher |-> watcher'[w]]
    BY <1>2 DEF Signalled
  <2>. QED
    BY <2>1, <2>2
<1>. QED
  BY <1>1, <1>2

\* One watcher changes in a record-valued step.
LEMMA OneMoves ==
  ASSUME Typed, NEW w \in Watcher, NEW next \in WatcherState, watcher' = [watcher EXCEPT ![w] = next]
  PROVE  watcher' \in [Watcher -> WatcherState] /\ watcher'[w] = next /\ Others(w)
<1>1. watcher \in [Watcher -> WatcherState]
  BY DEF Typed
<1>2. watcher'[w] = next /\ \A v \in Watcher \ {w} : watcher'[v] = watcher[v]
  BY <1>1
<1>. QED
  BY <1>1, <1>2 DEF Others, Same

LEMMA OneCommits ==
  ASSUME Typed, NEW w \in Watcher, NEW ws \in [Watcher -> WatcherState],
         \A v \in Watcher \ {w} : ws[v] = watcher[v],
         watcher' = ws \/ watcher' = Signalled(ws)
  PROVE  watcher' \in [Watcher -> WatcherState] /\ Others(w) /\ Same(ws, w)
<1>1. watcher' \in [Watcher -> WatcherState] /\ \A v \in Watcher : Same(ws, v)
  BY SignalsKeep
<1>. QED
  BY <1>1 DEF Others, Same

LEMMA StepSets ==
  /\ AttemptStep \cap Away = {} /\ AttemptStep \subseteq WatcherStep
  /\ {"check", "fence", "complete"} \subseteq AttemptStep /\ "stop" \in AttemptStep
  BY SMTT(30) DEF AttemptStep, Away, WatcherStep

LEMMA IdleStates ==
  /\ NotRunning \in WatcherState /\ NotRunning.step = "none" /\ NotRunning.todo = {}
  /\ \A step \in WatcherStep, signal \in BOOLEAN :
       /\ [NotRunning EXCEPT !.step = step] \in WatcherState
       /\ [NotRunning EXCEPT !.step = step].step = step
       /\ [NotRunning EXCEPT !.step = step].todo = {}
       /\ [NotRunning EXCEPT !.step = step, !.signal = signal] \in WatcherState
       /\ [NotRunning EXCEPT !.step = step, !.signal = signal].step = step
       /\ [NotRunning EXCEPT !.step = step, !.signal = signal].todo = {}
<1>1. "none" \in WatcherStep /\ "pending" \in RestartState /\ {} \in SUBSET (Request \X QueuedRestart)
  BY DEF WatcherStep, RestartState
<1>2. NotRunning \in WatcherState /\ NotRunning.step = "none" /\ NotRunning.todo = {}
  BY SMTT(30), <1>1 DEF NotRunning, WatcherState
<1>. QED
  BY <1>2 DEF WatcherState

LEMMA AttemptsKept ==
  ASSUME IInv, Untouched, fences' = fences, NEW w \in Watcher, Same(watcher, w)
  PROVE  Attempts(w)'
<1>1. watcher[w].step \in AttemptStep => rows'[watcher[w].row] = rows[watcher[w].row]
  BY DEF IInv, Attempts, Untouched
<1>. QED
  BY <1>1 DEF IInv, Attempts, Same

LEMMA AttemptsNothing ==
  ASSUME NEW w \in Watcher, watcher'[w].step \notin AttemptStep,
         \A item \in watcher'[w].todo : item[2].state = "pending"
  PROVE  Attempts(w)'
  BY StepSets DEF Attempts

LEMMA AttemptsOther ==
  ASSUME IInv, NEW w \in Watcher, claim # w, Same(watcher, w)
  PROVE  Attempts(w)'
<1>1. watcher[w].step \notin AttemptStep
  BY StepSets DEF IInv, Claimed, Away
<1>. QED
  BY <1>1, AttemptsNothing DEF IInv, Attempts, Same

LEMMA FencesKept ==
  ASSUME IInv, Untouched, fences' = fences
  PROVE  FencedOnce'
  BY DEF IInv, Untouched, FencedOnce

\* A step of the watcher that holds the claim and keeps it: the queue is attended.
LEMMA HolderMoves ==
  ASSUME IInv, NEW w \in Watcher, claim = w, claim' = claim, Typed', OneActive', FencedOnce',
         Others(w), watcher'[w].step \notin Away, Attempts(w)'
  PROVE  IInv'
<1>1. claim' # NoOne
  BY NoOneAssumption
<1>2. Claimed'
  BY DEF IInv, Claimed, Others, Same, Away
<1>3. ASSUME NEW v \in Watcher PROVE Attempts(v)'
  <2>1. CASE v = w
    BY <2>1
  <2>2. CASE v # w
    BY <2>2, AttemptsOther DEF Others
  <2>. QED
    BY <2>1, <2>2
<1>. QED
  BY <1>1, <1>2, <1>3 DEF IInv, PendingIsAttended, Attended

LEMMA HolderLoops ==
  ASSUME IInv, NEW w \in Watcher, claim = w, claim' = claim, Typed', OneActive', Untouched,
         fences' = fences, Others(w), watcher'[w].step \notin Away \cup AttemptStep,
         \A item \in watcher'[w].todo : item[2].state = "pending"
  PROVE  IInv'
  BY FencesKept, AttemptsNothing, HolderMoves

\* A step that moves no watcher and takes no attention away.
LEMMA NobodyMoves ==
  ASSUME IInv, Typed', Aged(rows'), claim' = claim, fences' = fences, abandoned \subseteq abandoned',
         \A w \in Watcher : Same(watcher, w),
         Pending' \subseteq abandoned' \/ \A c \in Client : client[c].step = "starting" => client'[c].step = "starting"
  PROVE  IInv'
<1>1. OneActive' /\ Untouched /\ Pending' \subseteq Pending
  BY AgedRows DEF IInv
<1>2. FencedOnce' /\ \A w \in Watcher : Attempts(w)'
  BY <1>1, FencesKept, AttemptsKept
<1>3. Claimed'
  BY DEF IInv, Claimed, Same
<1>4. PendingIsAttended'
  BY <1>1 DEF IInv, PendingIsAttended, Attended, Same
<1>. QED
  BY <1>1, <1>2, <1>3, <1>4 DEF IInv

\* A watcher starts, loses, exits, dies or fails: it holds nothing afterwards.
LEMMA AwayMoves ==
  ASSUME IInv, NEW w \in Watcher, Typed', Aged(rows'), fences' = fences, Others(w),
         watcher'[w].step \in Away, watcher'[w].todo = {}, claim' = ClaimWithout(w), PendingIsAttended'
  PROVE  IInv'
<1>1. OneActive' /\ Untouched
  BY AgedRows DEF IInv
<1>2. FencedOnce'
  BY <1>1, FencesKept
<1>3. Claimed'
  <2>. SUFFICES ASSUME NEW v \in Watcher PROVE (claim' = v) <=> watcher'[v].step \notin Away
    BY DEF Claimed, Away
  <2>1. CASE v = w
    BY <2>1, NoOneAssumption DEF ClaimWithout
  <2>2. CASE v # w
    <3>1. watcher'[v].step = watcher[v].step
      BY <2>2 DEF Others, Same
    <3>2. (claim' = v) <=> (claim = v)
      BY <2>2, NoOneAssumption DEF ClaimWithout
    <3>3. (claim = v) <=> watcher[v].step \notin Away
      BY DEF IInv, Claimed, Away
    <3>. QED
      BY <3>1, <3>2, <3>3
  <2>. QED
    BY <2>1, <2>2
<1>4. ASSUME NEW v \in Watcher PROVE Attempts(v)'
  <2>1. CASE v = w
    BY <2>1, AttemptsNothing, StepSets
  <2>2. CASE v # w
    BY <1>1, <2>2, AttemptsKept DEF Others
  <2>. QED
    BY <2>1, <2>2
<1>. QED
  BY <1>1, <1>2, <1>3, <1>4 DEF IInv

LEMMA StoreTyped ==
  ASSUME Typed, rows' \in Table, watcher' \in [Watcher -> WatcherState],
         UNCHANGED <<registry, host, open, claim, client, holds, faults, fences, abandoned>>
  PROVE  Typed'
  BY DEF Typed, Table

\* QueuedRestart.upsert of an active row.
LEMMA UpsertOne ==
  ASSUME Typed, OneActive, NEW r \in Request, rows[r].state \in ActiveState, NEW state \in RestartState,
         rows' = [rows EXCEPT ![r] = Transition(@, state)]
  PROVE  /\ rows' \in Table /\ OneActive' /\ rows'[r].state = state
         /\ \A q \in Request \ {r} : rows'[q] = rows[q]
<1>1. rows \in Table
  BY DEF Typed, Table
<1>2. rows[r] \in QueuedRestart
  BY RowKinds, States
<1>3. /\ Transition(rows[r], state) \in QueuedRestart
      /\ Transition(rows[r], state).state = state /\ Transition(rows[r], state).owner = rows[r].owner
  BY <1>2, TransitionKeeps
<1>4. rows'[r] = Transition(rows[r], state) /\ \A q \in Request \ {r} : rows'[q] = rows[q]
  BY <1>1 DEF Table
<1>5. rows' \in Table
  BY <1>1, <1>3 DEF Table
<1>6. \A q \in Request : /\ rows'[q].state \in ActiveState => rows[q].state \in ActiveState
                         /\ rows'[q].owner = rows[q].owner
  BY <1>3, <1>4
<1>7. OneActive'
  BY <1>6 DEF OneActive
<1>. QED
  BY <1>3, <1>4, <1>5, <1>7

-----------------------------------------------------------------------------
(* The watcher that holds the claim.                                       *)

LoopStep == {"prepare", "read", "ready", "next", "release", "wait"}

LEMMA LoopSteps ==
  /\ LoopStep \subseteq WatcherStep /\ LoopStep \cap (Away \cup AttemptStep) = {}
  /\ \A todo : NextIn(todo) \in LoopStep
  BY SMTT(30) DEF LoopStep, Away, AttemptStep, WatcherStep, NextIn

LEMMA HolderClaims ==
  ASSUME IInv, NEW w \in Watcher, watcher[w].step \in LoopStep \cup AttemptStep
  PROVE  claim = w
<1>1. watcher[w].step \notin Away
  BY LoopSteps, StepSets
<1>. QED
  BY <1>1 DEF IInv, Claimed, Away

\* The holder goes to another line of run, and keeps its list or forgets it.
LEMMA HolderGoes ==
  ASSUME IInv, NEW w \in Watcher, claim = w, NEW next \in WatcherState,
         watcher' = [watcher EXCEPT ![w] = next], next.step \in LoopStep,
         next.todo \subseteq watcher[w].todo,
         UNCHANGED <<rows, registry, host, open, claim, client, holds, faults, fences, abandoned>>
  PROVE  IInv'
<1>1. Typed /\ rows \in Table
  BY DEF IInv, Typed, Table
<1>2. watcher' \in [Watcher -> WatcherState] /\ watcher'[w] = next /\ Others(w)
  BY <1>1, OneMoves
<1>3. Typed'
  BY <1>1, <1>2, StoreTyped
<1>4. OneActive' /\ Untouched
  BY DEF IInv, OneActive, Untouched
<1>5. \A item \in next.todo : item[2].state = "pending"
  BY DEF IInv, Attempts
<1>6. next.step \notin Away \cup AttemptStep
  BY LoopSteps
<1>. QED
  BY <1>1, <1>2, <1>3, <1>4, <1>5, <1>6, HolderLoops

LEMMA HeldStep ==
  ASSUME IInv, NEW w \in Watcher, NEW step \in LoopStep \cup AttemptStep, Held(w, step)
  PROVE  IInv'
<1>1. watcher[w].step \in LoopStep \cup AttemptStep /\ watcher[w].signal \in BOOLEAN
  BY DEF Held, IInv, Typed, WatcherState
<1>2. PICK next : next = [NotRunning EXCEPT !.step = "wait", !.signal = watcher[w].signal]
  OBVIOUS
<1>3. "wait" \in WatcherStep /\ "wait" \in LoopStep
  BY DEF WatcherStep, LoopStep
<1>4. next \in WatcherState /\ next.step = "wait" /\ next.todo = {}
  BY <1>1, <1>2, <1>3, IdleStates
<1>5. /\ watcher' = [watcher EXCEPT ![w] = next]
      /\ UNCHANGED <<rows, registry, host, open, claim, client, holds, faults, fences, abandoned>>
  BY <1>2 DEF Held, Looping
<1>6. claim = w /\ next.step \in LoopStep /\ next.todo \subseteq watcher[w].todo
  BY <1>1, <1>3, <1>4, HolderClaims
<1>. QED
  BY <1>4, <1>5, <1>6, HolderGoes

\* The lines of run that only move the watcher.
LEMMA GotoStep ==
  ASSUME IInv, NEW w \in Watcher, Prepare(w) \/ ReadBarrier(w) \/ Wake(w) \/
         (watcher[w].step = "release" /\ Goto(w, "wait"))
  PROVE  IInv'
<1>1. watcher[w] \in WatcherState
  BY DEF IInv, Typed
<1>2. {"prepare", "read", "ready", "wait", "release"} \subseteq LoopStep /\ LoopStep \subseteq WatcherStep
  BY LoopSteps DEF LoopStep
<1>3. claim = w
  BY <1>2, HolderClaims DEF Prepare, ReadBarrier, Wake
<1>4. ASSUME NEW step \in LoopStep, Goto(w, step) PROVE IInv'
  <2>1. PICK next : next = [watcher[w] EXCEPT !.step = step]
    OBVIOUS
  <2>2. next \in WatcherState /\ next.step \in LoopStep /\ next.todo \subseteq watcher[w].todo
    BY <1>1, <1>2, <2>1 DEF WatcherState
  <2>3. /\ watcher' = [watcher EXCEPT ![w] = next]
        /\ UNCHANGED <<rows, registry, host, open, claim, client, holds, faults, fences, abandoned>>
    BY <1>4, <2>1 DEF Goto, WithStep
  <2>. QED
    BY <1>3, <2>2, <2>3, HolderGoes
<1>5. CASE Prepare(w)
  <2>1. PICK next : next = [watcher[w] EXCEPT !.step = "read", !.signal = FALSE]
    OBVIOUS
  <2>2. next \in WatcherState /\ next.step \in LoopStep /\ next.todo \subseteq watcher[w].todo
    BY <1>1, <1>2, <2>1 DEF WatcherState
  <2>3. /\ watcher' = [watcher EXCEPT ![w] = next]
        /\ UNCHANGED <<rows, registry, host, open, claim, client, holds, faults, fences, abandoned>>
    BY <1>5, <2>1 DEF Prepare
  <2>. QED
    BY <1>3, <2>2, <2>3, HolderGoes
<1>. QED
  BY <1>2, <1>4, <1>5 DEF ReadBarrier, Wake

LEMMA ReadyStep ==
  ASSUME IInv, NEW w \in Watcher, Ready(w)
  PROVE  IInv'
<1>0. "ready" \in LoopStep
  BY DEF LoopStep
<1>1. CASE Held(w, "ready")
  BY <1>0, <1>1, HeldStep
<1>2. CASE ~Held(w, "ready")
  <2>1. PICK table : table = Settled
    OBVIOUS
  <2>2. PICK todo : todo = {<<r, table[r]>> : r \in {x \in Request : table[x].state = "pending"}}
    OBVIOUS
  <2>3. PICK next : next = [watcher[w] EXCEPT !.step = NextIn(todo), !.todo = todo]
    OBVIOUS
  <2>4. PICK ws : ws = [watcher EXCEPT ![w] = next]
    OBVIOUS
  <2>5. /\ watcher[w].step = "ready" /\ Commit(table, ws)
        /\ UNCHANGED <<registry, host, open, claim, client, holds, faults, fences, abandoned>>
    BY <1>2, <2>1, <2>2, <2>3, <2>4 DEF Ready
  <2>6. Typed /\ OneActive /\ Aged(table) /\ claim = w
    BY <1>0, <2>1, <2>5, SettledAges, HolderClaims DEF IInv
  <2>7. ASSUME NEW x \in Request, table[x].state = "pending" PROVE table[x] \in QueuedRestart
    BY <2>6, <2>7, RowKinds, States DEF Aged, ActiveState
  <2>8. todo \in SUBSET (Request \X QueuedRestart) /\ \A item \in todo : item[2].state = "pending"
    BY SMTT(30), <2>2, <2>7
  <2>9. watcher[w] \in WatcherState /\ NextIn(todo) \in WatcherStep
    BY <2>6, LoopSteps DEF Typed
  <2>10. next \in WatcherState /\ next.step = NextIn(todo) /\ next.todo = todo
    BY <2>3, <2>8, <2>9 DEF WatcherState
  <2>11. /\ ws \in [Watcher -> WatcherState] /\ ws[w] = next
         /\ \A v \in Watcher \ {w} : ws[v] = watcher[v]
    BY <2>4, <2>6, <2>10 DEF Typed
  <2>12. watcher' \in [Watcher -> WatcherState] /\ Others(w) /\ Same(ws, w)
    BY <2>5, <2>6, <2>11, OneCommits DEF Commit
  <2>13. Aged(rows')
    BY <2>5, <2>6 DEF Commit
  <2>14. Typed' /\ OneActive' /\ Untouched
    BY <2>5, <2>6, <2>12, <2>13, StoreTyped, AgedRows DEF Aged
  <2>15. /\ watcher'[w].step \notin Away \cup AttemptStep
         /\ \A item \in watcher'[w].todo : item[2].state = "pending"
    BY <2>8, <2>10, <2>11, <2>12, LoopSteps DEF Same
  <2>. QED
    BY <2>5, <2>6, <2>12, <2>14, <2>15, HolderLoops
<1>. QED
  BY <1>1, <1>2

\* What is served leaves the list.
LEMMA ServedKeeps ==
  ASSUME IInv, NEW w \in Watcher, NEW item
  PROVE  /\ Served(w, item) \in [Watcher -> WatcherState]
         /\ Served(w, item)[w].step \in LoopStep
         /\ Served(w, item)[w].todo \subseteq watcher[w].todo
         /\ \A v \in Watcher \ {w} : Served(w, item)[v] = watcher[v]
<1>1. PICK left : left = watcher[w].todo \ {item}
  OBVIOUS
<1>2. PICK next : next = [watcher[w] EXCEPT !.todo = left, !.step = NextIn(left)]
  OBVIOUS
<1>3. watcher \in [Watcher -> WatcherState] /\ watcher[w] \in WatcherState
  BY DEF IInv, Typed
<1>4. left \subseteq watcher[w].todo /\ left \in SUBSET (Request \X QueuedRestart)
  BY <1>1, <1>3 DEF WatcherState
<1>5. next \in WatcherState /\ next.step \in LoopStep /\ next.todo = left
  BY <1>2, <1>3, <1>4, LoopSteps DEF WatcherState
<1>6. Served(w, item) = [watcher EXCEPT ![w] = next]
  BY <1>1, <1>2 DEF Served
<1>. QED
  BY <1>3, <1>4, <1>5, <1>6

LEMMA AttemptStepKeeps ==
  ASSUME IInv, NEW w \in Watcher, Attempt(w)
  PROVE  IInv'
<1>0. "next" \in LoopStep
  BY DEF LoopStep
<1>1. CASE Held(w, "next")
  BY <1>0, <1>1, HeldStep
<1>2. CASE ~Held(w, "next")
  <2>1. /\ watcher[w].step = "next"
        /\ UNCHANGED <<registry, host, open, claim, client, holds, faults, fences, abandoned>>
    BY <1>2 DEF Attempt
  <2>2. PICK item \in watcher[w].todo :
          \/ watcher' = Served(w, item) /\ rows' = rows
          \/ /\ ActiveRows(item[2].owner) = {item[1]} /\ rows[item[1]] = item[2]
             /\ \E state \in AttemptOutcomes(item[2].owner, item[2].selection) :
                  Upserted(item[1], state,
                    IF state = "attempting"
                      THEN [Served(w, item) EXCEPT ![w] = [@ EXCEPT !.step = "check", !.row = item[1]]]
                      ELSE Served(w, item))
    BY <1>2 DEF Attempt
  <2>3. /\ claim = w /\ Typed /\ OneActive /\ Attempts(w) /\ rows \in Table
        /\ watcher[w] \in WatcherState
    BY <1>0, <2>1, HolderClaims DEF IInv, Typed, Table
  <2>4. item \in Request \X QueuedRestart /\ item[2].state = "pending"
    BY <2>2, <2>3 DEF WatcherState, Attempts
  <2>5. PICK r \in Request : r = item[1]
    BY <2>4
  <2>6. PICK served : served = Served(w, item)
    OBVIOUS
  <2>7. /\ served \in [Watcher -> WatcherState] /\ served[w] \in WatcherState
        /\ served[w].step \in LoopStep /\ served[w].todo \subseteq watcher[w].todo
        /\ \A v \in Watcher \ {w} : served[v] = watcher[v]
    BY <2>6, ServedKeeps
  <2>8. \A x \in served[w].todo : x[2].state = "pending"
    BY <2>3, <2>7 DEF Attempts
  <2>9. ASSUME rows' \in Table, OneActive', Untouched, watcher' = served \/ watcher' = Signalled(served)
        PROVE  IInv'
    <3>1. watcher' \in [Watcher -> WatcherState] /\ Others(w) /\ Same(served, w)
      BY <2>3, <2>7, <2>9, OneCommits
    <3>2. Typed'
      BY <2>1, <2>3, <2>9, <3>1, StoreTyped
    <3>3. /\ watcher'[w].step \notin Away \cup AttemptStep
          /\ \A x \in watcher'[w].todo : x[2].state = "pending"
      BY <2>7, <2>8, <3>1, LoopSteps DEF Same
    <3>. QED
      BY <2>1, <2>3, <2>9, <3>1, <3>2, <3>3, HolderLoops
  <2>10. CASE watcher' = Served(w, item) /\ rows' = rows
    <3>1. OneActive' /\ Untouched
      BY <2>3, <2>10 DEF OneActive, Untouched
    <3>. QED
      BY <2>3, <2>6, <2>9, <2>10, <3>1
  <2>11. ASSUME ActiveRows(item[2].owner) = {item[1]}, rows[item[1]] = item[2],
                NEW state \in AttemptOutcomes(item[2].owner, item[2].selection),
                Upserted(item[1], state,
                  IF state = "attempting"
                    THEN [Served(w, item) EXCEPT ![w] = [@ EXCEPT !.step = "check", !.row = item[1]]]
                    ELSE Served(w, item))
         PROVE  IInv'
    <3>1. state \in RestartState
      BY <2>11, States DEF AttemptOutcomes, Refusal
    <3>2. rows[r].state = "pending" /\ rows[r].state \in ActiveState
      BY <2>4, <2>5, <2>11 DEF ActiveState
    <3>3. rows' = [rows EXCEPT ![r] = Transition(@, state)]
      BY <2>5, <2>11 DEF Upserted
    <3>4. /\ rows' \in Table /\ OneActive' /\ rows'[r].state = state
          /\ \A q \in Request \ {r} : rows'[q] = rows[q]
      BY <2>3, <3>1, <3>2, <3>3, UpsertOne
    <3>5. Untouched
      BY <3>2, <3>4 DEF Untouched
    <3>6. CASE state # "attempting"
      BY <2>6, <2>9, <2>11, <3>4, <3>5, <3>6 DEF Upserted
    <3>7. CASE state = "attempting"
      <4>1. PICK next : next = [served[w] EXCEPT !.step = "check", !.row = r]
        OBVIOUS
      <4>2. next \in WatcherState /\ next.step = "check" /\ next.row = r /\ next.todo = served[w].todo
        BY <2>7, <4>1, StepSets DEF WatcherState
      <4>3. PICK ws : ws = [served EXCEPT ![w] = next]
        OBVIOUS
      <4>4. /\ ws \in [Watcher -> WatcherState] /\ ws[w] = next
            /\ \A v \in Watcher \ {w} : ws[v] = watcher[v]
        BY <2>7, <4>2, <4>3
      <4>5. watcher' = Signalled(ws)
        BY <2>5, <2>6, <2>11, <3>7, <4>1, <4>3 DEF Upserted
      <4>6. watcher' \in [Watcher -> WatcherState] /\ Others(w) /\ Same(ws, w)
        BY <2>3, <4>4, <4>5, OneCommits
      <4>7. Typed'
        BY <2>1, <2>3, <3>4, <4>6, StoreTyped
      <4>8. fences[r] = 0
        <5>1. fences[r] \in Nat /\ fences[r] <= 1 /\ fences[r] # 1
          BY <3>2 DEF IInv, Typed, FencedOnce
        <5>. QED
          BY SMTT(30), <5>1
      <4>9. /\ watcher'[w].step = "check" /\ watcher'[w].row = r
            /\ watcher'[w].todo = served[w].todo
        BY <4>2, <4>4, <4>6 DEF Same
      <4>10. Attempts(w)'
        BY <2>1, <2>8, <3>4, <3>7, <4>8, <4>9 DEF Attempts
      <4>11. FencedOnce' /\ watcher'[w].step \notin Away
        BY <2>1, <3>5, <4>9, FencesKept DEF Away
      <4>. QED
        BY <2>1, <2>3, <3>4, <4>6, <4>7, <4>10, <4>11, HolderMoves
    <3>. QED
      BY <3>6, <3>7
  <2>. QED
    BY <2>2, <2>10, <2>11
<1>. QED
  BY <1>1, <1>2

-----------------------------------------------------------------------------
(* The registry.                                                           *)

LEMMA EntryKeeps ==
  ASSUME Typed, NEW o \in Owner
  PROVE  /\ registry[o] \in Entry
         /\ Fenced(o) \in Entry /\ Withdrawn(o) \in Entry
         /\ \A process \in 1..MaxHost : Started(o, process) \in Entry
<1>1. registry[o] \in Entry /\ MaxHost \in Nat
  BY BoundsAssumption DEF Typed
<1>2. registry[o].claim \in Nat /\ registry[o].claim + 1 \in Nat
  BY SMTT(30), <1>1 DEF Entry
<1>3. 0 \in 0..MaxHost /\ \A process \in 1..MaxHost : process \in 0..MaxHost
  BY SMTT(30), <1>1
<1>4. Fenced(o) \in Entry
  BY <1>1, <1>2 DEF Fenced, Entry
<1>5. Withdrawn(o) \in Entry
  BY <1>1, <1>2, <1>3 DEF Withdrawn, Entry
<1>6. \A process \in 1..MaxHost : Started(o, process) \in Entry
  BY <1>1, <1>2, <1>3 DEF Started, Entry
<1>. QED
  BY <1>1, <1>4, <1>5, <1>6

LEMMA SetKeeps ==
  ASSUME Typed, NEW o \in Owner, NEW entry \in Entry, registry' = [registry EXCEPT ![o] = entry]
  PROVE  registry' \in [Owner -> Entry]
  BY DEF Typed

LEMMA HostKeeps ==
  ASSUME Typed, NEW o \in Owner, host' \in HostAfter(o)
  PROVE  host' \in [number : 1..MaxHost, alive : BOOLEAN]
<1>1. host' = host \/ host' = [host EXCEPT !.alive = FALSE]
  BY DEF HostAfter
<1>. QED
  BY <1>1 DEF Typed

LEMMA LaunchKeeps ==
  ASSUME Typed, NEW o \in Owner, LaunchOwner(o)
  PROVE  registry' \in [Owner -> Entry] /\ host' \in [number : 1..MaxHost, alive : BOOLEAN]
<1>1. HostForStart.number \in 1..MaxHost
  BY DEF LaunchOwner
<1>2. registry' \in [Owner -> Entry]
  BY <1>1, EntryKeeps, SetKeeps DEF LaunchOwner
<1>3. HostForStart \in [number : 1..MaxHost, alive : BOOLEAN]
  <2>1. CASE host.alive
    BY <2>1 DEF HostForStart, Typed
  <2>2. CASE ~host.alive
    BY SMTT(30), <1>1, <2>2 DEF HostForStart
  <2>. QED
    BY <2>1, <2>2
<1>. QED
  BY <1>2, <1>3 DEF LaunchOwner

-----------------------------------------------------------------------------
(* The attempt.                                                            *)

LEMMA InAttempt ==
  ASSUME IInv, NEW w \in Watcher, watcher[w].step \in AttemptStep
  PROVE  /\ Typed /\ claim = w /\ Attempts(w) /\ watcher[w] \in WatcherState
         /\ watcher[w].row \in Request /\ rows[watcher[w].row].state = "attempting"
         /\ OwnerOf(w) \in Owner
<1>1. /\ Typed /\ claim = w /\ Attempts(w) /\ watcher[w] \in WatcherState
      /\ watcher[w].row \in Request /\ rows[watcher[w].row].state = "attempting"
  BY HolderClaims DEF IInv, Typed, Attempts
<1>2. rows[watcher[w].row] \in QueuedRestart
  BY <1>1, RowKinds, States
<1>. QED
  BY <1>1, <1>2 DEF OwnerOf, QueuedRestart

\* The holder goes to another line of the attempt.
LEMMA AttemptGoes ==
  ASSUME IInv, NEW w \in Watcher, watcher[w].step \in AttemptStep, NEW next \in WatcherState,
         watcher' = [watcher EXCEPT ![w] = next],
         next.row = watcher[w].row, next.todo = watcher[w].todo, next.step \in AttemptStep,
         next.step \in {"check", "fence"} => watcher[w].step \in {"check", "fence"},
         next.step = "complete" =>
           watcher[w].step \in {"check", "fence"} \/ next.result \in {"uncertain", "restarted"},
         UNCHANGED <<rows, open, claim, client, holds, faults, fences, abandoned>>,
         registry' \in [Owner -> Entry], host' \in [number : 1..MaxHost, alive : BOOLEAN]
  PROVE  IInv'
<1>1. Typed /\ claim = w /\ Attempts(w)
  BY InAttempt
<1>2. watcher' \in [Watcher -> WatcherState] /\ watcher'[w] = next /\ Others(w)
  BY <1>1, OneMoves
<1>3. Typed'
  BY <1>1, <1>2 DEF Typed
<1>4. OneActive' /\ FencedOnce'
  BY DEF IInv, OneActive, FencedOnce
<1>5. watcher'[w].step \notin Away
  BY <1>2, StepSets
<1>6. Attempts(w)'
  BY <1>1, <1>2 DEF Attempts
<1>. QED
  BY <1>1, <1>2, <1>3, <1>4, <1>5, <1>6, HolderMoves

LEMMA AnswerStep ==
  ASSUME IInv, NEW w \in Watcher, watcher[w].step \in AttemptStep, NEW result \in RestartState,
         watcher[w].step \in {"check", "fence"} \/ result \in {"uncertain", "restarted"},
         watcher' = Answer(w, result),
         UNCHANGED <<rows, open, claim, client, holds, faults, fences, abandoned>>,
         registry' \in [Owner -> Entry], host' \in [number : 1..MaxHost, alive : BOOLEAN]
  PROVE  IInv'
<1>1. watcher[w] \in WatcherState
  BY InAttempt
<1>2. PICK next : next = [watcher[w] EXCEPT !.step = "complete", !.result = result]
  OBVIOUS
<1>3. /\ next \in WatcherState /\ next.step = "complete" /\ next.result = result
      /\ next.row = watcher[w].row /\ next.todo = watcher[w].todo
  BY <1>1, <1>2, StepSets DEF WatcherState
<1>4. watcher' = [watcher EXCEPT ![w] = next]
  BY <1>2 DEF Answer
<1>5. /\ next.step \in AttemptStep /\ next.step \notin {"check", "fence"}
      /\ watcher[w].step \in {"check", "fence"} \/ next.result \in {"uncertain", "restarted"}
  BY <1>3, StepSets
<1>. QED
  BY <1>3, <1>4, <1>5, AttemptGoes

LEMMA AnsweredStep ==
  ASSUME IInv, NEW w \in Watcher, watcher[w].step \in AttemptStep, NEW result \in RestartState,
         watcher[w].step \in {"check", "fence"} \/ result \in {"uncertain", "restarted"},
         Answered(w, result)
  PROVE  IInv'
<1>1. /\ watcher' = Answer(w, result)
      /\ UNCHANGED <<rows, open, claim, client, holds, faults, fences, abandoned>>
      /\ registry' = registry /\ host' = host
  BY DEF Answered
<1>2. registry' \in [Owner -> Entry] /\ host' \in [number : 1..MaxHost, alive : BOOLEAN]
  BY <1>1 DEF IInv, Typed
<1>. QED
  BY <1>1, <1>2, AnswerStep

LEMMA CheckStep ==
  ASSUME IInv, NEW w \in Watcher, CheckRestart(w)
  PROVE  IInv'
<1>1. watcher[w].step = "check" /\ watcher[w].step \in AttemptStep
  BY StepSets DEF CheckRestart
<1>2. ASSUME NEW result \in {"pending", "stale", "uncertain"}, Answered(w, result) PROVE IInv'
  BY <1>1, <1>2, AnsweredStep, States
<1>3. ASSUME NEW o, o = OwnerOf(w),
             watcher' = [watcher EXCEPT ![w] = [@ EXCEPT !.step = "fence", !.turns = registry[o].turns]],
             UNCHANGED <<rows, registry, host, open, claim, client, holds, faults, fences, abandoned>>
      PROVE  IInv'
  <2>1. watcher[w] \in WatcherState /\ o \in Owner /\ registry[o] \in Entry /\ Typed
    BY <1>1, <1>3, InAttempt DEF Typed
  <2>2. registry[o].turns \in Nat
    BY SMTT(30), <2>1, BoundsAssumption DEF Entry
  <2>3. PICK next : next = [watcher[w] EXCEPT !.step = "fence", !.turns = registry[o].turns]
    OBVIOUS
  <2>4. /\ next \in WatcherState /\ next.step = "fence"
        /\ next.row = watcher[w].row /\ next.todo = watcher[w].todo
    BY <2>1, <2>2, <2>3, StepSets DEF WatcherState
  <2>5. watcher' = [watcher EXCEPT ![w] = next]
    BY <1>3, <2>3
  <2>6. registry' \in [Owner -> Entry] /\ host' \in [number : 1..MaxHost, alive : BOOLEAN]
    BY <1>3, <2>1 DEF Typed
  <2>7. next.step \in AttemptStep /\ next.step # "complete"
    BY <2>4, StepSets
  <2>. QED
    BY <1>1, <1>3, <2>4, <2>5, <2>6, <2>7, AttemptGoes
<1>. QED
  BY <1>2, <1>3 DEF CheckRestart

\* The fence: the attempted row was never fenced before, and stays attempting.
LEMMA FenceStep ==
  ASSUME IInv, NEW w \in Watcher, Fence(w)
  PROVE  IInv'
<1>1. watcher[w].step = "fence" /\ watcher[w].step \in AttemptStep
  BY StepSets DEF Fence
<1>2. ASSUME NEW result \in {"pending", "stale", "uncertain"}, Answered(w, result) PROVE IInv'
  BY <1>1, <1>2, AnsweredStep, States
<1>3. CASE FenceOwner(w)
  <2>1. PICK o : o = OwnerOf(w)
    OBVIOUS
  <2>2. PICK r : r = watcher[w].row
    OBVIOUS
  <2>3. /\ Typed /\ claim = w /\ Attempts(w) /\ watcher[w] \in WatcherState /\ r \in Request
        /\ rows[r].state = "attempting" /\ o \in Owner
    BY <1>1, <2>1, <2>2, InAttempt
  <2>4. registry[o].claim + 1 \in Nat
    BY SMTT(30), <2>3, EntryKeeps DEF Entry
  <2>5. PICK next : next = [watcher[w] EXCEPT !.step = "stop", !.claim = registry[o].claim + 1]
    OBVIOUS
  <2>6. next \in WatcherState /\ next.step = "stop" /\ next.row = r /\ next.todo = watcher[w].todo
    BY <2>2, <2>3, <2>4, <2>5, StepSets DEF WatcherState
  <2>7. /\ watcher' = [watcher EXCEPT ![w] = next]
        /\ registry' = [registry EXCEPT ![o] = Fenced(o)]
        /\ fences' = [fences EXCEPT ![r] = @ + 1]
        /\ UNCHANGED <<rows, host, open, claim, client, holds, faults, abandoned>>
    BY <1>3, <2>1, <2>2, <2>5 DEF FenceOwner
  <2>8. watcher' \in [Watcher -> WatcherState] /\ watcher'[w] = next /\ Others(w)
    BY <2>3, <2>6, <2>7, OneMoves
  <2>9. registry' \in [Owner -> Entry]
    BY <2>3, <2>7, EntryKeeps, SetKeeps
  <2>10. /\ fences \in [Request -> Nat] /\ fences[r] = 0
         /\ fences' \in [Request -> Nat] /\ fences'[r] = 1
         /\ \A q \in Request \ {r} : fences'[q] = fences[q]
    <3>1. fences \in [Request -> Nat] /\ fences[r] = 0
      BY <1>1, <2>2, <2>3 DEF Typed, Attempts
    <3>. QED
      BY SMTT(30), <2>3, <2>7, <3>1
  <2>11. Typed'
    BY <2>3, <2>7, <2>8, <2>9, <2>10 DEF Typed
  <2>12. FencedOnce'
    <3>. SUFFICES ASSUME NEW q \in Request
                  PROVE  /\ fences'[q] <= 1
                         /\ fences'[q] = 1 => rows'[q].state \in {"attempting", "uncertain", "restarted"}
      BY DEF FencedOnce
    <3>1. CASE q = r
      BY SMTT(30), <2>3, <2>7, <2>10, <3>1
    <3>2. CASE q # r
      BY <2>7, <2>10, <3>2 DEF IInv, FencedOnce
    <3>. QED
      BY <3>1, <3>2
  <2>13. OneActive' /\ watcher'[w].step \notin Away
    BY <2>6, <2>7, <2>8 DEF IInv, OneActive, Away
  <2>14. Attempts(w)'
    BY <2>3, <2>6, <2>7, <2>8 DEF Attempts
  <2>. QED
    BY <2>3, <2>7, <2>8, <2>11, <2>12, <2>13, <2>14, HolderMoves
<1>. QED
  BY <1>2, <1>3 DEF Fence

LEMMA StopStep ==
  ASSUME IInv, NEW w \in Watcher, StopFenced(w)
  PROVE  IInv'
<1>1. watcher[w].step = "stop" /\ watcher[w].step \in AttemptStep
  BY StepSets DEF StopFenced
<1>2. CASE Answered(w, StoppedOwnerFailure)
  BY <1>1, <1>2, AnsweredStep, States DEF StoppedOwnerFailure
<1>3. CASE ~Answered(w, StoppedOwnerFailure)
  <2>1. PICK o : o = OwnerOf(w)
    OBVIOUS
  <2>2. Typed /\ o \in Owner /\ watcher[w] \in WatcherState
    BY <1>1, <2>1, InAttempt
  <2>3. PICK next : next = [watcher[w] EXCEPT !.step = "launch", !.claim = registry[o].claim + 1]
    OBVIOUS
  <2>4. /\ watcher' = [watcher EXCEPT ![w] = next]
        /\ registry' = [registry EXCEPT ![o] = Withdrawn(o)] /\ host' \in HostAfter(o)
        /\ UNCHANGED <<rows, open, claim, client, holds, faults, fences, abandoned>>
    BY <1>3, <2>1, <2>3 DEF StopFenced
  <2>5. registry[o].claim + 1 \in Nat
    BY SMTT(30), <2>2, EntryKeeps DEF Entry
  <2>6. "launch" \in AttemptStep
    BY DEF AttemptStep
  <2>7. /\ next \in WatcherState /\ next.step = "launch"
        /\ next.row = watcher[w].row /\ next.todo = watcher[w].todo
    BY <2>2, <2>3, <2>5, <2>6, StepSets DEF WatcherState
  <2>8. registry' \in [Owner -> Entry] /\ host' \in [number : 1..MaxHost, alive : BOOLEAN]
    BY <2>2, <2>4, EntryKeeps, SetKeeps, HostKeeps
  <2>. QED
    BY <1>1, <2>4, <2>6, <2>7, <2>8, AttemptGoes
<1>. QED
  BY <1>2, <1>3

LEMMA RelaunchStep ==
  ASSUME IInv, NEW w \in Watcher, Relaunch(w)
  PROVE  IInv'
<1>1. watcher[w].step = "launch" /\ watcher[w].step \in AttemptStep
  BY DEF Relaunch, AttemptStep
<1>2. CASE Answered(w, StoppedOwnerFailure)
  BY <1>1, <1>2, AnsweredStep, States DEF StoppedOwnerFailure
<1>3. CASE ~Answered(w, StoppedOwnerFailure)
  <2>1. /\ LaunchOwner(OwnerOf(w)) /\ watcher' = Answer(w, "restarted")
        /\ UNCHANGED <<rows, open, claim, client, holds, faults, fences, abandoned>>
    BY <1>3 DEF Relaunch
  <2>2. registry' \in [Owner -> Entry] /\ host' \in [number : 1..MaxHost, alive : BOOLEAN]
    BY <1>1, <2>1, InAttempt, LaunchKeeps
  <2>. QED
    BY <1>1, <2>1, <2>2, AnswerStep, States
<1>. QED
  BY <1>2, <1>3

\* The answer of a request that fenced is never one that waits.
LEMMA CompleteStep ==
  ASSUME IInv, NEW w \in Watcher, Complete(w)
  PROVE  IInv'
<1>0. "complete" \in AttemptStep
  BY StepSets
<1>1. CASE Held(w, "complete")
  BY <1>0, <1>1, HeldStep
<1>2. CASE ~Held(w, "complete")
  <2>1. PICK r : r = watcher[w].row
    OBVIOUS
  <2>2. PICK next : next = [[NotRunning EXCEPT !.step = NextIn(watcher[w].todo), !.signal = watcher[w].signal]
                              EXCEPT !.todo = watcher[w].todo]
    OBVIOUS
  <2>3. PICK ws : ws = [Looping(w, NextIn(watcher[w].todo)) EXCEPT ![w] = [@ EXCEPT !.todo = watcher[w].todo]]
    OBVIOUS
  <2>4. /\ watcher[w].step = "complete" /\ Upserted(r, watcher[w].result, ws)
        /\ UNCHANGED <<registry, host, open, claim, client, holds, faults, fences, abandoned>>
    BY <1>2, <2>1, <2>3 DEF Complete
  <2>5. /\ Typed /\ claim = w /\ Attempts(w) /\ watcher[w] \in WatcherState
        /\ r \in Request /\ rows[r].state = "attempting"
    BY <1>0, <2>1, <2>4, InAttempt
  <2>6. watcher[w].result \in RestartState /\ rows[r].state \in ActiveState /\ OneActive
    BY <2>5 DEF WatcherState, ActiveState, IInv
  <2>7. /\ rows' \in Table /\ OneActive' /\ rows'[r].state = watcher[w].result
        /\ \A q \in Request \ {r} : rows'[q] = rows[q]
    BY <2>4, <2>5, <2>6, UpsertOne DEF Upserted
  <2>8. /\ next \in WatcherState /\ next.step = NextIn(watcher[w].todo) /\ next.todo = watcher[w].todo
    <3>1. NextIn(watcher[w].todo) \in WatcherStep /\ watcher[w].signal \in BOOLEAN
          /\ watcher[w].todo \in SUBSET (Request \X QueuedRestart)
      BY <2>5, LoopSteps DEF WatcherState
    <3>2. PICK base : base = [NotRunning EXCEPT !.step = NextIn(watcher[w].todo), !.signal = watcher[w].signal]
      OBVIOUS
    <3>3. base \in WatcherState /\ base.step = NextIn(watcher[w].todo)
      BY <3>1, <3>2, IdleStates
    <3>. QED
      BY <2>2, <3>1, <3>2, <3>3 DEF WatcherState
  <2>9. /\ ws \in [Watcher -> WatcherState] /\ ws[w] = next
        /\ \A v \in Watcher \ {w} : ws[v] = watcher[v]
    BY <2>2, <2>3, <2>5, <2>8 DEF Looping, Typed
  <2>10. watcher' \in [Watcher -> WatcherState] /\ Others(w) /\ Same(ws, w)
    BY <2>4, <2>5, <2>9, OneCommits DEF Upserted
  <2>11. Typed'
    BY <2>4, <2>5, <2>7, <2>10, StoreTyped
  <2>12. FencedOnce'
    <3>1. ASSUME NEW q \in Request, fences[q] = 1
          PROVE  rows'[q].state \in {"attempting", "uncertain", "restarted"}
      <4>1. CASE q = r
        <5>1. fences[r] # 0
          BY SMTT(30), <3>1, <4>1
        <5>. QED
          BY <2>1, <2>4, <2>5, <2>7, <4>1, <5>1 DEF Attempts
      <4>2. CASE q # r
        BY <2>7, <3>1, <4>2 DEF IInv, FencedOnce
      <4>. QED
        BY <4>1, <4>2
    <3>. QED
      BY <2>4, <3>1 DEF IInv, FencedOnce
  <2>13. watcher'[w].step \notin Away \cup AttemptStep /\ watcher'[w].todo = watcher[w].todo
    BY <2>8, <2>9, <2>10, LoopSteps DEF Same
  <2>14. Attempts(w)'
    BY <2>5, <2>13, AttemptsNothing DEF Attempts
  <2>. QED
    BY <2>4, <2>5, <2>7, <2>10, <2>11, <2>12, <2>13, <2>14, HolderMoves
<1>. QED
  BY <1>1, <1>2

-----------------------------------------------------------------------------
(* Watchers that come and go.                                              *)

LEMMA FaultsTyped ==
  ASSUME Typed, CanFault
  PROVE  faults' \in 0..MaxFaults
  BY SMTT(30), BoundsAssumption DEF Typed, CanFault

LEMMA ClaimStep ==
  ASSUME IInv, NEW w \in Watcher, ClaimWatcher(w)
  PROVE  IInv'
<1>0. watcher[w].step = "spawned" /\ Typed /\ watcher[w] \in WatcherState /\ rows' = rows
  BY DEF ClaimWatcher, IInv, Typed
<1>1. claim # w
  BY <1>0 DEF IInv, Claimed
<1>2. CASE claim = NoOne
  <2>1. PICK next : next = [watcher[w] EXCEPT !.step = "prepare"]
    OBVIOUS
  <2>2. "prepare" \in LoopStep
    BY DEF LoopStep
  <2>3. next \in WatcherState /\ next.step \in LoopStep /\ next.todo = watcher[w].todo
    BY <1>0, <2>1, <2>2, LoopSteps DEF WatcherState
  <2>4. /\ claim' = w /\ watcher' = [watcher EXCEPT ![w] = next]
        /\ UNCHANGED <<rows, registry, host, open, client, holds, faults, fences, abandoned>>
    BY <1>2, <2>1 DEF ClaimWatcher, WithStep
  <2>5. watcher' \in [Watcher -> WatcherState] /\ watcher'[w] = next /\ Others(w)
    BY <1>0, <2>3, <2>4, OneMoves
  <2>6. Typed' /\ OneActive' /\ Untouched
    BY <1>0, <2>4, <2>5 DEF Typed, IInv, OneActive, Untouched
  <2>7. FencedOnce'
    BY <2>4, <2>6, FencesKept
  <2>8. Claimed'
    <3>. SUFFICES ASSUME NEW v \in Watcher PROVE (claim' = v) <=> watcher'[v].step \notin Away
      BY DEF Claimed, Away
    <3>1. CASE v = w
      BY <2>3, <2>4, <2>5, <3>1, LoopSteps
    <3>2. CASE v # w
      BY <1>2, <2>4, <2>5, <3>2, NoOneAssumption DEF IInv, Claimed, Away, Others, Same
    <3>. QED
      BY <3>1, <3>2
  <2>9. ASSUME NEW v \in Watcher PROVE Attempts(v)'
    <3>1. CASE v = w
      <4>1. watcher'[w].step \notin AttemptStep
        BY <2>3, <2>5, LoopSteps
      <4>2. \A item \in watcher'[w].todo : item[2].state = "pending"
        BY <2>3, <2>5 DEF IInv, Attempts
      <4>. QED
        BY <3>1, <4>1, <4>2, AttemptsNothing
    <3>2. CASE v # w
      BY <2>4, <2>5, <2>6, <3>2, AttemptsKept DEF Others
    <3>. QED
      BY <3>1, <3>2
  <2>10. PendingIsAttended'
    BY <2>4, NoOneAssumption DEF PendingIsAttended, Attended
  <2>. QED
    BY <2>6, <2>7, <2>8, <2>9, <2>10 DEF IInv
<1>3. CASE claim # NoOne
  <2>1. /\ claim' = ClaimWithout(w) /\ claim' = claim /\ watcher' = [watcher EXCEPT ![w] = NotRunning]
        /\ UNCHANGED <<rows, registry, host, open, client, holds, faults, fences, abandoned>>
    BY <1>1, <1>3 DEF ClaimWatcher, ClaimWithout
  <2>2. watcher' \in [Watcher -> WatcherState] /\ watcher'[w] = NotRunning /\ Others(w)
    BY <1>0, <2>1, IdleStates, OneMoves
  <2>3. Typed' /\ Aged(rows')
    BY <1>0, <2>1, <2>2, RowsAge, StoreTyped DEF Aged
  <2>4. PendingIsAttended'
    BY <1>3, <2>1 DEF PendingIsAttended, Attended
  <2>5. watcher'[w].step \in Away /\ watcher'[w].todo = {}
    BY <2>2, IdleStates DEF Away
  <2>. QED
    BY <2>1, <2>2, <2>3, <2>4, <2>5, AwayMoves
<1>. QED
  BY <1>2, <1>3

\* A watcher leaves for good.
LEMMA LeavesStep ==
  ASSUME IInv, NEW w \in Watcher, NEW next \in WatcherState, next.step \in Away, next.todo = {},
         watcher' = [watcher EXCEPT ![w] = next], claim' = ClaimWithout(w),
         UNCHANGED <<rows, registry, host, open, client, holds, fences>>,
         faults' \in 0..MaxFaults, abandoned' \subseteq Request, PendingIsAttended'
  PROVE  IInv'
<1>1. Typed
  BY DEF IInv
<1>2. watcher' \in [Watcher -> WatcherState] /\ watcher'[w] = next /\ Others(w)
  BY <1>1, OneMoves
<1>3. claim' \in Watcher \cup {NoOne}
  BY <1>1 DEF Typed, ClaimWithout
<1>4. Typed' /\ Aged(rows')
  BY <1>1, <1>2, <1>3, RowsAge DEF Typed, Aged
<1>. QED
  BY <1>2, <1>4, AwayMoves

\* The claim is given up only while nothing is pending.
LEMMA ReleaseStep ==
  ASSUME IInv, NEW w \in Watcher, ReleaseIfEmpty(w)
  PROVE  IInv'
<1>0. "release" \in LoopStep
  BY DEF LoopStep
<1>1. CASE Held(w, "release")
  BY <1>0, <1>1, HeldStep
<1>2. CASE watcher[w].step = "release" /\ Goto(w, "wait")
  BY <1>2, GotoStep
<1>3. CASE /\ watcher[w].step = "release" /\ Pending = {} /\ claim' = NoOne
           /\ watcher' = [watcher EXCEPT ![w] = NotRunning]
           /\ UNCHANGED <<rows, registry, host, open, client, holds, faults, fences, abandoned>>
  <2>1. claim' = ClaimWithout(w)
    BY <1>0, <1>3, HolderClaims DEF ClaimWithout
  <2>2. Pending' = {}
    BY <1>3 DEF Pending, Rows
  <2>3. PendingIsAttended'
    BY <2>2 DEF PendingIsAttended
  <2>4. faults' \in 0..MaxFaults /\ abandoned' \subseteq Request
    BY <1>3 DEF IInv, Typed
  <2>5. NotRunning.step \in Away
    BY IdleStates DEF Away
  <2>. QED
    BY <1>3, <2>1, <2>3, <2>4, <2>5, IdleStates, LeavesStep
<1>. QED
  BY <1>1, <1>2, <1>3 DEF ReleaseIfEmpty

LEMMA DeathStep ==
  ASSUME IInv, NEW w \in Watcher, WatcherDies(w) \/ WatcherFails(w)
  PROVE  IInv'
<1>1. Typed /\ faults' \in 0..MaxFaults
  BY FaultsTyped DEF IInv, WatcherDies, WatcherFails
<1>2. LeftBy(w) \subseteq Request
  BY <1>1 DEF LeftBy, Pending, Rows, Typed, WatcherState
<1>3. abandoned' \subseteq Request
  BY <1>1, <1>2 DEF WatcherDies, WatcherFails, Typed, LeftBy
<1>4. CASE WatcherDies(w)
  <2>1. Pending' \subseteq abandoned'
    BY <1>4 DEF WatcherDies, LeftBy, Pending, Rows
  <2>2. PendingIsAttended'
    BY <2>1 DEF PendingIsAttended
  <2>3. NotRunning.step \in Away
    BY IdleStates DEF Away
  <2>. QED
    BY <1>1, <1>3, <1>4, <2>2, <2>3, IdleStates, LeavesStep DEF WatcherDies
<1>5. CASE WatcherFails(w)
  <2>1. PICK next : next = [NotRunning EXCEPT !.step = "failing"]
    OBVIOUS
  <2>2. "failing" \in WatcherStep /\ "failing" \in Away
    BY DEF WatcherStep, Away
  <2>3. next \in WatcherState /\ next.step = "failing" /\ next.todo = {}
    BY <2>1, <2>2, IdleStates
  <2>4. /\ watcher' = [watcher EXCEPT ![w] = next] /\ claim' = ClaimWithout(w)
        /\ UNCHANGED <<rows, registry, host, open, client, holds, fences>>
    BY <1>5, <2>1 DEF WatcherFails, ClaimWithout
  <2>5. watcher'[w].step = "failing"
    BY <1>1, <2>3, <2>4, OneMoves
  <2>6. PendingIsAttended'
    BY <2>5 DEF PendingIsAttended, Attended
  <2>. QED
    BY <1>1, <1>3, <2>2, <2>3, <2>4, <2>6, LeavesStep
<1>. QED
  BY <1>4, <1>5

LEMMA BlockStep ==
  ASSUME IInv, NEW w \in Watcher, BlockFailed(w)
  PROVE  IInv'
<1>1. PICK ended : ended = [watcher EXCEPT ![w] = NotRunning]
  OBVIOUS
<1>2. PICK D : D = {r \in Request : rows[r].state = "pending"}
  OBVIOUS
<1>3. PICK table : table = [r \in Request |-> IF r \in D THEN Transition(rows[r], "blocked") ELSE rows[r]]
  OBVIOUS
<1>4. table = [r \in Request |-> IF rows[r].state = "pending" THEN Transition(rows[r], "blocked") ELSE rows[r]]
  BY <1>2, <1>3
<1>5. Typed /\ watcher[w].step = "failing" /\ claim # w
  BY DEF BlockFailed, IInv, Claimed
<1>6. UNCHANGED <<registry, host, open, claim, client, holds, faults, fences>> /\ claim' = ClaimWithout(w)
  BY <1>5 DEF BlockFailed, ClaimWithout
<1>7. NotRunning \in WatcherState /\ NotRunning.step \in Away /\ NotRunning.todo = {}
  BY IdleStates DEF Away
<1>8. CASE Commit(table, ended) /\ abandoned' = abandoned
  <2>1. Aged(table)
    <3>1. D \in SUBSET Request /\ \A r \in D : rows[r].state = "pending"
      BY <1>2
    <3>2. Aged(rows) /\ "blocked" \in RestartState \ ActiveState
      BY <1>5, RowsAge, States
    <3>. QED
      BY <1>3, <1>5, <3>1, <3>2, AnsweringAges
  <2>2. Aged(rows')
    BY <1>8, <2>1 DEF Commit
  <2>3. ended \in [Watcher -> WatcherState] /\ ended[w] = NotRunning /\ \A v \in Watcher \ {w} : ended[v] = watcher[v]
    BY <1>1, <1>5, <1>7 DEF Typed
  <2>4. watcher' \in [Watcher -> WatcherState] /\ Others(w) /\ Same(ended, w)
    BY <1>5, <1>8, <2>3, OneCommits DEF Commit
  <2>5. Typed'
    BY <1>5, <1>6, <1>8, <2>2, <2>4, StoreTyped DEF Aged
  <2>6. \A r \in Request : rows'[r].state # "pending"
    <3>. SUFFICES ASSUME NEW r \in Request PROVE table[r].state # "pending"
      BY <1>8 DEF Commit
    <3>1. CASE r \in D
      <4>1. rows[r] \in QueuedRestart
        BY <1>2, <1>5, <3>1, RowKinds, States
      <4>2. table[r].state = "blocked"
        BY <1>3, <3>1, <4>1, TransitionKeeps, States
      <4>. QED
        BY <4>2
    <3>2. CASE r \notin D
      BY <1>2, <1>3, <3>2
    <3>. QED
      BY <3>1, <3>2
  <2>7. PendingIsAttended'
    BY <2>6 DEF PendingIsAttended, Pending, Rows
  <2>8. watcher'[w].step \in Away /\ watcher'[w].todo = {}
    BY <1>7, <2>3, <2>4 DEF Same
  <2>. QED
    BY <1>6, <2>2, <2>4, <2>5, <2>7, <2>8, AwayMoves
<1>9. CASE watcher' = ended /\ abandoned' = abandoned \cup Pending /\ rows' = rows
  <2>1. abandoned' \subseteq Request /\ faults' \in 0..MaxFaults /\ Pending' \subseteq abandoned'
    BY <1>5, <1>6, <1>9 DEF Typed, Pending, Rows
  <2>2. PendingIsAttended'
    BY <2>1 DEF PendingIsAttended
  <2>. QED
    BY <1>1, <1>6, <1>7, <1>9, <2>1, <2>2, LeavesStep
<1>. QED
  BY <1>1, <1>4, <1>8, <1>9 DEF BlockFailed

-----------------------------------------------------------------------------
(* Clients.                                                                *)

LEMMA Calls ==
  ASSUME Typed, NEW c \in Client
  PROVE  /\ client[c].step = "checked" => client[c] \in Checked
         /\ NotCalling.step = "none" /\ Starting.step = "starting"
         /\ \A next \in Checked \cup {NotCalling, Starting} :
              /\ [client EXCEPT ![c] = next] \in [Client -> Checked \cup {NotCalling, Starting}]
              /\ [client EXCEPT ![c] = next][c] = next
              /\ \A d \in Client \ {c} : [client EXCEPT ![c] = next][d] = client[d]
<1>1. NotCalling.step = "none" /\ Starting.step = "starting"
  BY SMTT(30) DEF NotCalling, Starting
<1>2. client \in [Client -> Checked \cup {NotCalling, Starting}]
  BY DEF Typed
<1>. QED
  BY <1>1, <1>2

\* A call that changes nothing but its own state, and was not about to start its watcher.
LEMMA CallStep ==
  ASSUME IInv, NEW c \in Client, client[c].step # "starting", NEW next \in Checked \cup {NotCalling, Starting},
         client' = [client EXCEPT ![c] = next], Aged(rows'), watcher' = watcher \/ watcher' = Signalled(watcher),
         UNCHANGED <<registry, host, open, claim, holds, faults, fences, abandoned>>
  PROVE  IInv'
<1>1. Typed /\ watcher \in [Watcher -> WatcherState]
  BY DEF IInv, Typed
<1>2. watcher' \in [Watcher -> WatcherState] /\ \A w \in Watcher : Same(watcher, w)
  BY <1>1, SignalsKeep
<1>3. client' \in [Client -> Checked \cup {NotCalling, Starting}] /\ \A d \in Client \ {c} : client'[d] = client[d]
  BY <1>1, Calls
<1>4. Typed'
  BY <1>1, <1>2, <1>3 DEF Typed, Aged, Table
<1>5. \A d \in Client : client[d].step = "starting" => client'[d].step = "starting"
  BY <1>3
<1>. QED
  BY <1>2, <1>4, <1>5, NobodyMoves

LEMMA CheckEnqueueStep ==
  ASSUME IInv, NEW c \in Client, NEW o \in Owner, NEW t \in Target, CheckEnqueue(c, o, t)
  PROVE  IInv'
<1>1. Typed /\ registry[o] \in Entry
  BY DEF IInv, Typed
<1>2. PICK next : next = [step |-> "checked", owner |-> o, selection |-> SelectionOf(o), target |-> t]
  OBVIOUS
<1>3. SelectionOf(o) \in Selection
  <2>1. registry[o].process \in 1..MaxHost /\ registry[o].claim \in Nat
    BY <1>1 DEF CheckEnqueue, Selectable, ProcessAlive, Typed, Entry
  <2>. QED
    BY SMTT(30), <2>1 DEF SelectionOf, Selection
<1>4. next \in Checked
  BY SMTT(30), <1>2, <1>3 DEF Checked
<1>5. /\ client' = [client EXCEPT ![c] = next] /\ client[c].step # "starting"
      /\ UNCHANGED <<rows, registry, host, open, claim, watcher, holds, faults, fences, abandoned>>
  BY <1>2 DEF CheckEnqueue
<1>6. Aged(rows')
  BY <1>1, <1>5, RowsAge DEF Aged
<1>. QED
  BY <1>4, <1>5, <1>6, CallStep

\* A row inserted after its owner's pending row became stale is the owner's only active one.
LEMMA InsertStep ==
  ASSUME IInv, NEW c \in Client, client[c].step = "checked", NEW r \in Unminted,
         ~ \E q \in ActiveRows(client[c].owner) : rows[q].state = "attempting",
         Commit(Inserted(c, Superseded(c, Settled), r), watcher), client' = [client EXCEPT ![c] = Starting],
         UNCHANGED <<registry, host, open, claim, holds, faults, fences, abandoned>>
  PROVE  IInv'
<1>1. Typed /\ watcher \in [Watcher -> WatcherState] /\ r \in Request /\ rows[r].state = "absent"
  BY DEF IInv, Typed, Unminted
<1>2. PICK table : table = Superseded(c, Settled)
  OBVIOUS
<1>3. Aged(table) /\ ActiveIn(table, client[c].owner) = {}
  BY <1>1, <1>2, SupersededAges
<1>4. PICK new : new = [owner |-> client[c].owner, selection |-> client[c].selection,
                        target |-> client[c].target, state |-> "pending"]
  OBVIOUS
<1>5. new \in QueuedRestart /\ new.owner = client[c].owner
  <2>1. client[c].owner \in Owner /\ client[c].selection \in Selection /\ client[c].target \in Target
    BY <1>1, Calls DEF Checked
  <2>. QED
    BY SMTT(30), <1>4, <2>1, States DEF QueuedRestart
<1>6. rows' = [table EXCEPT ![r] = new]
  BY <1>2, <1>4 DEF Commit, Inserted
<1>7. rows'[r] = new /\ \A q \in Request \ {r} : rows'[q] = table[q]
  BY <1>1, <1>3, <1>6 DEF Aged, Table
<1>8. rows' \in Table
  BY <1>3, <1>5, <1>6 DEF Aged, Table
<1>9. watcher' \in [Watcher -> WatcherState] /\ \A w \in Watcher : Same(watcher, w)
  BY <1>1, SignalsKeep DEF Commit
<1>10. client' \in [Client -> Checked \cup {NotCalling, Starting}] /\ client'[c].step = "starting"
  BY <1>1, Calls
<1>11. Typed'
  BY <1>1, <1>8, <1>9, <1>10 DEF Typed, Table
<1>12. Untouched
  <2>. SUFFICES ASSUME NEW q \in Request, rows[q].state \notin {"absent", "pending"} PROVE rows'[q] = rows[q]
    BY DEF Untouched
  <2>. QED
    BY <1>1, <1>3, <1>7 DEF Aged
<1>13. OneActive'
  <2>. SUFFICES ASSUME NEW p \in Request, NEW q \in Request, rows'[p].state \in ActiveState,
                       rows'[q].state \in ActiveState, rows'[p].owner = rows'[q].owner, p # q
                PROVE  FALSE
    BY DEF OneActive
  <2>1. ASSUME NEW x \in Request, x # r, rows'[x].state \in ActiveState
        PROVE  /\ rows'[x] = rows[x] /\ rows'[x].owner # client[c].owner
    <3>1. rows'[x] = table[x] /\ table[x] = rows[x]
      BY <1>3, <1>7, <2>1 DEF Aged
    <3>2. x \notin ActiveIn(table, client[c].owner)
      BY <1>3
    <3>. QED
      BY <2>1, <3>1, <3>2 DEF ActiveIn
  <2>2. rows'[r].owner = client[c].owner
    BY <1>5, <1>7
  <2>3. p # r /\ q # r
    BY <2>1, <2>2
  <2>. QED
    BY <2>1, <2>3 DEF IInv, OneActive
<1>14. FencedOnce' /\ \A w \in Watcher : Attempts(w)'
  BY <1>9, <1>12, FencesKept, AttemptsKept
<1>15. Claimed'
  BY <1>9 DEF IInv, Claimed, Same
<1>16. PendingIsAttended'
  BY <1>10 DEF PendingIsAttended, Attended
<1>. QED
  BY <1>11, <1>13, <1>14, <1>15, <1>16 DEF IInv

LEMMA EnqueueStep ==
  ASSUME IInv, NEW c \in Client, Enqueue(c)
  PROVE  IInv'
<1>1. Typed /\ client[c].step = "checked" /\ client[c].step # "starting"
  BY DEF IInv, Enqueue
<1>2. UNCHANGED <<registry, host, open, claim, holds, faults, fences, abandoned>>
  BY DEF Enqueue
<1>3. CASE client' = [client EXCEPT ![c] = NotCalling] /\ UNCHANGED <<rows, watcher>>
  <2>1. Aged(rows')
    BY <1>1, <1>3, RowsAge DEF Aged
  <2>. QED
    BY <1>1, <1>2, <1>3, <2>1, CallStep
<1>4. CASE client' = [client EXCEPT ![c] = Starting] /\ Commit(Settled, watcher)
  <2>1. PICK table : table = Settled
    OBVIOUS
  <2>2. Aged(rows')
    BY <1>1, <1>4, <2>1, SettledAges DEF Commit
  <2>. QED
    BY <1>1, <1>2, <1>4, <2>2, CallStep DEF Commit
<1>5. CASE /\ client' = [client EXCEPT ![c] = Starting] /\ Unminted # {}
           /\ ~ \E q \in ActiveRows(client[c].owner) : rows[q].state = "attempting"
           /\ Commit(Inserted(c, Superseded(c, Settled), CHOOSE x \in Unminted : TRUE), watcher)
  <2>1. PICK r : r = CHOOSE x \in Unminted : TRUE
    OBVIOUS
  <2>2. r \in Unminted
    BY <1>5, <2>1
  <2>. QED
    BY <1>1, <1>2, <1>5, <2>1, <2>2, InsertStep
<1>. QED
  BY <1>3, <1>4, <1>5 DEF Enqueue

LEMMA StartStep ==
  ASSUME IInv, NEW c \in Client, NEW w \in Watcher, StartWatcher(c, w)
  PROVE  IInv'
<1>1. Typed /\ watcher[w].step = "none"
  BY DEF IInv, StartWatcher
<1>2. claim # w
  BY <1>1 DEF IInv, Claimed
<1>3. PICK next : next = [NotRunning EXCEPT !.step = "spawned"]
  OBVIOUS
<1>4. "spawned" \in WatcherStep /\ "spawned" \in Away
  BY DEF WatcherStep, Away
<1>5. next \in WatcherState /\ next.step = "spawned" /\ next.todo = {}
  BY <1>3, <1>4, IdleStates
<1>6. /\ watcher' = [watcher EXCEPT ![w] = next] /\ client' = [client EXCEPT ![c] = NotCalling]
      /\ UNCHANGED <<rows, registry, host, open, claim, holds, faults, fences, abandoned>>
  BY <1>3 DEF StartWatcher
<1>7. watcher' \in [Watcher -> WatcherState] /\ watcher'[w] = next /\ Others(w)
  BY <1>1, <1>5, <1>6, OneMoves
<1>8. client' \in [Client -> Checked \cup {NotCalling, Starting}]
  BY <1>1, <1>6, Calls
<1>9. Typed' /\ Aged(rows')
  BY <1>1, <1>6, <1>7, <1>8, RowsAge DEF Typed, Aged
<1>10. PendingIsAttended'
  BY <1>5, <1>7 DEF PendingIsAttended, Attended
<1>11. claim' = ClaimWithout(w)
  BY <1>2, <1>6 DEF ClaimWithout
<1>. QED
  BY <1>4, <1>5, <1>6, <1>7, <1>9, <1>10, <1>11, AwayMoves

LEMMA ClientDeathStep ==
  ASSUME IInv, NEW c \in Client, ClientDies(c)
  PROVE  IInv'
<1>1. Typed /\ faults' \in 0..MaxFaults
  BY FaultsTyped DEF IInv, ClientDies
<1>2. /\ UNCHANGED <<rows, registry, host, open, claim, watcher, holds, fences>>
      /\ client' = [client EXCEPT ![c] = NotCalling] /\ abandoned' = abandoned \cup Pending
  BY DEF ClientDies
<1>3. abandoned' \subseteq Request /\ abandoned \subseteq abandoned' /\ Pending' \subseteq abandoned'
  BY <1>1, <1>2 DEF Typed, Pending, Rows
<1>4. client' \in [Client -> Checked \cup {NotCalling, Starting}]
  BY <1>1, <1>2, Calls
<1>5. Typed' /\ Aged(rows') /\ \A w \in Watcher : Same(watcher, w)
  BY <1>1, <1>2, <1>3, <1>4, RowsAge DEF Typed, Aged, Same
<1>. QED
  BY <1>2, <1>3, <1>5, NobodyMoves

-----------------------------------------------------------------------------
(* Owners, other commands and maintenance.                                 *)

LEMMA CancelStep ==
  ASSUME IInv, NEW o \in Owner, Cancel(o)
  PROVE  IInv'
<1>1. PICK table : table = Settled
  OBVIOUS
<1>2. PICK D : D = {r \in Request : r \in ActiveIn(table, o) /\ table[r].state = "pending"}
  OBVIOUS
<1>3. PICK after : after = [r \in Request |-> IF r \in D THEN Transition(table[r], "cancelled") ELSE table[r]]
  OBVIOUS
<1>4. after = [r \in Request |-> IF r \in ActiveIn(table, o) /\ table[r].state = "pending"
                                   THEN Transition(table[r], "cancelled") ELSE table[r]]
  BY <1>2, <1>3
<1>5. Commit(after, watcher) /\ UNCHANGED <<registry, host, open, claim, client, holds, faults, fences, abandoned>>
  BY <1>1, <1>4 DEF Cancel
<1>6. Typed /\ watcher \in [Watcher -> WatcherState]
  BY DEF IInv, Typed
<1>7. Aged(after)
  <2>1. D \in SUBSET Request /\ \A r \in D : table[r].state = "pending"
    BY <1>2
  <2>2. Aged(table) /\ "cancelled" \in RestartState \ ActiveState
    BY <1>1, <1>6, SettledAges, States
  <2>. QED
    BY <1>3, <1>6, <2>1, <2>2, AnsweringAges
<1>8. Aged(rows')
  BY <1>5, <1>7 DEF Commit
<1>9. watcher' \in [Watcher -> WatcherState] /\ \A w \in Watcher : Same(watcher, w)
  BY <1>5, <1>6, SignalsKeep DEF Commit
<1>10. Typed'
  BY <1>5, <1>6, <1>8, <1>9, StoreTyped DEF Aged
<1>. QED
  BY <1>5, <1>8, <1>9, <1>10, NobodyMoves

LEMMA OwnerStep ==
  ASSUME IInv, registry' \in [Owner -> Entry], host' \in [number : 1..MaxHost, alive : BOOLEAN],
         UNCHANGED <<rows, open, claim, watcher, client, holds, faults, fences, abandoned>>
  PROVE  IInv'
<1>1. Typed
  BY DEF IInv
<1>2. Typed' /\ Aged(rows') /\ \A w \in Watcher : Same(watcher, w)
  BY <1>1, RowsAge DEF Typed, Aged, Same
<1>. QED
  BY <1>2, NobodyMoves

LEMMA TurnStep ==
  ASSUME IInv, NEW o \in Owner, ClaimTurn(o) \/ FinishTurn(o) \/ WedgeTurn(o)
  PROVE  IInv'
<1>1. Typed /\ registry[o] \in Entry /\ MaxTurns \in Nat
  BY BoundsAssumption DEF IInv, Typed
<1>2. PICK entry : SetEntry(o, entry) /\ entry \in Entry
  <2>1. ASSUME ClaimTurn(o) PROVE [registry[o] EXCEPT !.turn = "working", !.turns = @ + 1] \in Entry
    <3>1. registry[o].turns + 1 \in 0..MaxTurns
      BY SMTT(30), <1>1, <2>1 DEF ClaimTurn, Entry
    <3>. QED
      BY <1>1, <3>1 DEF Entry
  <2>2. [registry[o] EXCEPT !.turn = "none"] \in Entry /\ [registry[o] EXCEPT !.turn = "wedged"] \in Entry
    BY <1>1 DEF Entry
  <2>. QED
    BY <2>1, <2>2 DEF ClaimTurn, FinishTurn, WedgeTurn
<1>3. host' = host /\ host \in [number : 1..MaxHost, alive : BOOLEAN]
  BY <1>1 DEF ClaimTurn, FinishTurn, WedgeTurn, Typed
<1>4. registry' \in [Owner -> Entry]
  BY <1>1, <1>2, SetKeeps DEF SetEntry
<1>. QED
  BY <1>2, <1>3, <1>4, OwnerStep DEF SetEntry

LEMMA CommandStep ==
  ASSUME IInv, NEW o \in Owner, StopOwner(o) \/ StartOwner(o)
  PROVE  IInv'
<1>1. Typed
  BY DEF IInv
<1>2. registry' \in [Owner -> Entry] /\ host' \in [number : 1..MaxHost, alive : BOOLEAN]
  BY <1>1, EntryKeeps, SetKeeps, HostKeeps, LaunchKeeps DEF StopOwner, StartOwner, SetEntry
<1>3. UNCHANGED <<rows, open, claim, watcher, client, holds, faults, fences, abandoned>>
  BY DEF StopOwner, StartOwner, SetEntry
<1>. QED
  BY <1>2, <1>3, OwnerStep

LEMMA HostDeathStep ==
  ASSUME IInv, HostDies
  PROVE  IInv'
<1>1. registry' \in [Owner -> Entry] /\ host' \in [number : 1..MaxHost, alive : BOOLEAN]
  BY DEF HostDies, IInv, Typed
<1>. QED
  BY <1>1, OwnerStep DEF HostDies

LEMMA MaintenanceStep ==
  ASSUME IInv, HoldMaintenance \/ ReleaseMaintenance
  PROVE  IInv'
<1>1. Typed /\ watcher \in [Watcher -> WatcherState]
  BY DEF IInv, Typed
<1>2. watcher' \in [Watcher -> WatcherState] /\ \A w \in Watcher : Same(watcher, w)
  BY <1>1, SignalsKeep DEF HoldMaintenance, ReleaseMaintenance
<1>3. holds' \in 0..MaxHolds
  BY SMTT(30), <1>1, BoundsAssumption DEF HoldMaintenance, ReleaseMaintenance, Typed
<1>4. open' \in BOOLEAN /\ UNCHANGED <<rows, registry, host, claim, client, faults, fences, abandoned>>
  BY DEF HoldMaintenance, ReleaseMaintenance
<1>5. Typed' /\ Aged(rows')
  BY <1>1, <1>2, <1>3, <1>4, RowsAge DEF Typed, Aged
<1>. QED
  BY <1>2, <1>4, <1>5, NobodyMoves

LEMMA BusStep ==
  ASSUME IInv, NEW w \in Watcher, BusCommits(w)
  PROVE  IInv'
<1>1. Typed /\ watcher[w] \in WatcherState
  BY DEF IInv, Typed
<1>2. PICK next : next = [watcher[w] EXCEPT !.signal = TRUE]
  OBVIOUS
<1>3. /\ watcher' = [watcher EXCEPT ![w] = next]
      /\ UNCHANGED <<rows, registry, host, open, claim, client, holds, faults, fences, abandoned>>
  BY <1>2 DEF BusCommits
<1>4. /\ next \in WatcherState /\ next.step = watcher[w].step /\ next.todo = watcher[w].todo
      /\ next.row = watcher[w].row /\ next.result = watcher[w].result
  BY <1>1, <1>2 DEF WatcherState
<1>5. watcher' \in [Watcher -> WatcherState] /\ watcher'[w] = next /\ Others(w)
  BY <1>1, <1>3, <1>4, OneMoves
<1>6. \A v \in Watcher : Same(watcher, v)
  BY <1>4, <1>5 DEF Others, Same
<1>7. Typed' /\ Aged(rows')
  BY <1>1, <1>3, <1>5, RowsAge DEF Typed, Aged
<1>. QED
  BY <1>3, <1>6, <1>7, NobodyMoves

-----------------------------------------------------------------------------
LEMMA InitInv == Init => IInv
<1>. SUFFICES ASSUME Init PROVE IInv
  OBVIOUS
<1>1. \A r \in Request : rows[r].state = "absent" /\ fences[r] = 0
  BY SMTT(30) DEF Init, Absent
<1>2. 1 \in 1..MaxHost /\ 1 \in 0..MaxHost /\ 0 \in 0..MaxTurns /\ 0 \in 0..MaxHolds /\ 0 \in 0..MaxFaults
  BY SMTT(30), BoundsAssumption
<1>3. registry \in [Owner -> Entry]
  BY SMTT(30), <1>2 DEF Init, Entry
<1>4. host \in [number : 1..MaxHost, alive : BOOLEAN]
  BY SMTT(30), <1>2 DEF Init
<1>5. Typed
  BY <1>2, <1>3, <1>4, IdleStates DEF Init, Typed
<1>6. \A w \in Watcher : watcher[w] = NotRunning
  BY DEF Init
<1>7. Claimed
  BY <1>6, IdleStates, NoOneAssumption DEF Init, Claimed
<1>8. \A w \in Watcher : Attempts(w)
  BY <1>6, IdleStates DEF Attempts, AttemptStep
<1>9. OneActive /\ PendingIsAttended
  BY <1>1 DEF OneActive, ActiveState, PendingIsAttended, Pending, Rows
<1>10. FencedOnce
  BY SMTT(30), <1>1 DEF FencedOnce
<1>. QED
  BY <1>5, <1>7, <1>8, <1>9, <1>10 DEF IInv

LEMMA NextInv == IInv /\ [Next]_vars => IInv'
<1>. SUFFICES ASSUME IInv, [Next]_vars PROVE IInv'
  OBVIOUS
<1>1. ASSUME NEW c \in Client,
             \/ Calling(c) \/ ClientDies(c)
             \/ \E o \in Owner, t \in Target : CheckEnqueue(c, o, t)
      PROVE  IInv'
  BY <1>1, EnqueueStep, StartStep, ClientDeathStep, CheckEnqueueStep DEF Calling
<1>2. ASSUME NEW w \in Watcher, Running(w) PROVE IInv'
  BY <1>2, ClaimStep, GotoStep, ReadyStep, AttemptStepKeeps, CheckStep, FenceStep, StopStep, RelaunchStep,
     CompleteStep, ReleaseStep, BlockStep DEF Running, Restarting
<1>3. ASSUME NEW w \in Watcher, WatcherDies(w) \/ WatcherFails(w) \/ BusCommits(w) PROVE IInv'
  BY <1>3, DeathStep, BusStep
<1>4. ASSUME NEW o \in Owner,
             Cancel(o) \/ ClaimTurn(o) \/ FinishTurn(o) \/ WedgeTurn(o) \/ StopOwner(o) \/ StartOwner(o)
      PROVE  IInv'
  BY <1>4, CancelStep, TurnStep, CommandStep
<1>5. CASE HostDies \/ HoldMaintenance \/ ReleaseMaintenance
  BY <1>5, HostDeathStep, MaintenanceStep
<1>6. CASE UNCHANGED vars
  <2>1. registry' \in [Owner -> Entry] /\ host' \in [number : 1..MaxHost, alive : BOOLEAN]
    BY <1>6 DEF vars, IInv, Typed
  <2>. QED
    BY <1>6, <2>1, OwnerStep DEF vars
<1>. QED
  BY <1>1, <1>2, <1>3, <1>4, <1>5, <1>6 DEF Next

LEMMA Invariant == Spec => []IInv
  BY InitInv, NextInv, PTL DEF Spec

-----------------------------------------------------------------------------
\* Rows, registry, watchers and calls have the shape the code gives them.
THEOREM TypeCorrect == Spec => []TypeOK
<1>1. IInv => TypeOK
  <2>. SUFFICES ASSUME IInv PROVE TypeOK
    OBVIOUS
  <2>1. Typed
    BY DEF IInv
  <2>2. \A w \in Watcher : watcher[w] \in WatcherState
    BY <2>1 DEF Typed
  <2>3. \A c \in Client : client[c].step \in {"none", "checked", "starting"}
    <3>. SUFFICES ASSUME NEW c \in Client PROVE client[c].step \in {"none", "checked", "starting"}
      OBVIOUS
    <3>1. client[c] \in Checked \/ client[c] = NotCalling \/ client[c] = Starting
      BY <2>1 DEF Typed
    <3>. QED
      BY <2>1, <3>1, Calls DEF Checked
  <2>. QED
    BY <2>1, <2>2, <2>3 DEF TypeOK, Typed, WatcherState
<1>. QED
  BY Invariant, <1>1, PTL

\* At most one active row names an owner, so the unique index of the store is never tripped, and
\* only the watcher that holds the claim attempts a row, which is still marked attempting,
\* whoever enqueues, cancels, settles, fails or dies in between.
THEOREM OneIntentForAnOwner == Spec => []OneIntentPerOwner
<1>1. IInv => OneIntentPerOwner
  <2>. SUFFICES ASSUME IInv PROVE OneIntentPerOwner
    OBVIOUS
  <2>1. \A o \in Owner : \A q, r \in ActiveRows(o) : q = r
    BY DEF IInv, OneActive, ActiveRows, ActiveIn
  <2>2. \A w \in Watcher : watcher[w].step \in AttemptStep =>
          claim = w /\ rows[watcher[w].row].state = "attempting"
    BY InAttempt
  <2>. QED
    BY <2>1, <2>2 DEF OneIntentPerOwner
<1>. QED
  BY Invariant, <1>1, PTL

\* A request fences its owner at most once, and one that fenced never waits, is withdrawn or is
\* superseded again, however often watchers fail, die and start over.
THEOREM FencedAtMostOnce == Spec => []FencedOnce
<1>1. IInv => FencedOnce
  BY DEF IInv
<1>. QED
  BY Invariant, <1>1, PTL

\* No request is orphaned (release_if_empty): somebody attends to every pending request, unless
\* a process died or its block_failed was refused.
THEOREM NoRequestIsOrphaned == Spec => []PendingIsAttended
<1>1. IInv => PendingIsAttended
  BY DEF IInv
<1>. QED
  BY Invariant, <1>1, PTL

\* A signalled watcher stays at its line.
LEMMA SignalStays ==
  ASSUME Typed, NEW ws, watcher' = ws \/ watcher' = Signalled(ws), NEW v \in Watcher, ws[v] = watcher[v]
  PROVE  watcher'[v].step = watcher[v].step
<1>1. watcher[v] \in WatcherState
  BY DEF Typed
<1>2. watcher'[v] = watcher[v] \/ watcher'[v] = [watcher[v] EXCEPT !.signal = TRUE]
  BY DEF Signalled
<1>. QED
  BY <1>1, <1>2 DEF WatcherState

LEMMA OnlyTheFence ==
  ASSUME IInv, [Next]_vars, NEW v \in Watcher, watcher[v].step = "fence", watcher'[v].step = "stop"
  PROVE  Fence(v)
<1>1. Typed /\ watcher \in [Watcher -> WatcherState] /\ NotRunning.step = "none"
  BY IdleStates DEF IInv, Typed
<1>2. ASSUME NEW w \in Watcher, NEW next, NEW ws, ws = [watcher EXCEPT ![w] = next],
             watcher' = ws \/ watcher' = Signalled(ws)
      PROVE  v = w
  <2>1. CASE v # w
    <3>1. ws[v] = watcher[v]
      BY <1>1, <1>2, <2>1
    <3>2. watcher'[v].step = watcher[v].step
      BY <1>1, <1>2, <3>1, SignalStays
    <3>. QED
      BY <3>2
  <2>. QED
    BY <2>1
<1>3. ~(watcher' = watcher \/ watcher' = Signalled(watcher))
  BY <1>1, SignalStays
<1>4. ASSUME NEW w \in Watcher, NEW next, watcher' = [watcher EXCEPT ![w] = next]
      PROVE  v = w /\ watcher'[v] = next
  BY <1>1, <1>2, <1>4
<1>5. ASSUME NEW c \in Client,
             \/ Calling(c) \/ ClientDies(c)
             \/ \E o \in Owner, t \in Target : CheckEnqueue(c, o, t)
      PROVE  FALSE
  <2>1. ASSUME NEW w \in Watcher, StartWatcher(c, w) PROVE FALSE
    <3>1. watcher' = [watcher EXCEPT ![w] = [NotRunning EXCEPT !.step = "spawned"]] /\ watcher[w].step = "none"
      BY <2>1 DEF StartWatcher
    <3>. QED
      BY <1>4, <3>1
  <2>. QED
    BY <1>3, <1>5, <2>1 DEF Calling, ClientDies, CheckEnqueue, Enqueue, Commit
<1>6. ASSUME NEW w \in Watcher, Held(w, "ready") \/ Held(w, "next") \/ Held(w, "complete") \/ Held(w, "release")
      PROVE  FALSE
  BY <1>4, <1>6 DEF Held, Looping
<1>7. ASSUME NEW w \in Watcher, NEW step, Goto(w, step) PROVE v = w
  BY <1>4, <1>7 DEF Goto, WithStep
<1>8. ASSUME NEW w \in Watcher, Running(w), ~Fence(w) PROVE FALSE
  <2>1. CASE ClaimWatcher(w) \/ Prepare(w) \/ ReadBarrier(w) \/ Wake(w)
    BY <1>4, <1>7, <2>1 DEF ClaimWatcher, WithStep, Prepare, ReadBarrier, Wake
  <2>2. CASE Ready(w)
    BY <1>2, <1>6, <2>2 DEF Ready, Commit
  <2>3. CASE Attempt(w)
    <3>1. CASE Held(w, "next")
      BY <1>6, <3>1
    <3>2. CASE ~Held(w, "next")
      <4>1. watcher[w].step = "next"
        BY <2>3, <3>2 DEF Attempt
      <4>2. PICK item, ws : /\ ws \in {Served(w, item), [Served(w, item) EXCEPT ![w] = [@ EXCEPT !.step = "check", !.row = item[1]]]}
                            /\ watcher' = ws \/ watcher' = Signalled(ws)
        BY <2>3, <3>2 DEF Attempt, Upserted
      <4>3. v # w
        BY <4>1
      <4>4. ws[v] = watcher[v]
        BY <1>1, <4>2, <4>3 DEF Served
      <4>. QED
        BY <1>1, <4>2, <4>4, SignalStays
    <3>. QED
      BY <3>1, <3>2
  <2>4. CASE CheckRestart(w)
    BY <1>4, <2>4 DEF CheckRestart, Answered, Answer
  <2>5. CASE StopFenced(w) \/ Relaunch(w)
    BY <1>4, <2>5 DEF StopFenced, Relaunch, Answered, Answer
  <2>6. CASE Complete(w)
    <3>1. CASE Held(w, "complete")
      BY <1>6, <3>1
    <3>2. CASE ~Held(w, "complete")
      <4>1. PICK ws : ws = [Looping(w, NextIn(watcher[w].todo)) EXCEPT ![w] = [@ EXCEPT !.todo = watcher[w].todo]]
        OBVIOUS
      <4>2. watcher' = Signalled(ws) /\ watcher[w].step = "complete"
        BY <2>6, <3>2, <4>1 DEF Complete, Upserted
      <4>3. v # w
        BY <4>2
      <4>4. ws[v] = watcher[v]
        BY <1>1, <4>1, <4>3 DEF Looping
      <4>. QED
        BY <1>1, <4>2, <4>4, SignalStays
    <3>. QED
      BY <3>1, <3>2
  <2>7. CASE ReleaseIfEmpty(w)
    BY <1>4, <1>6, <1>7, <2>7 DEF ReleaseIfEmpty
  <2>8. CASE BlockFailed(w)
    BY <1>2, <2>8 DEF BlockFailed, Commit
  <2>. QED
    BY <1>8, <2>1, <2>2, <2>3, <2>4, <2>5, <2>6, <2>7, <2>8 DEF Running, Restarting
<1>9. ASSUME NEW w \in Watcher, WatcherDies(w) \/ WatcherFails(w) \/ BusCommits(w) PROVE FALSE
  <2>1. CASE WatcherDies(w)
    BY <1>1, <1>4, <2>1 DEF WatcherDies
  <2>2. CASE WatcherFails(w)
    <3>1. "failing" \in WatcherStep
      BY DEF WatcherStep
    <3>2. [NotRunning EXCEPT !.step = "failing"].step = "failing"
      BY <3>1, IdleStates
    <3>. QED
      BY <1>4, <2>2, <3>2 DEF WatcherFails
  <2>3. CASE BusCommits(w)
    BY <1>4, <2>3 DEF BusCommits
  <2>. QED
    BY <1>9, <2>1, <2>2, <2>3
<1>10. ASSUME NEW w \in Watcher, Fence(w) PROVE v = w
  BY <1>4, <1>10 DEF Fence, FenceOwner, Answered, Answer
<1>11. ASSUME NEW o \in Owner,
              Cancel(o) \/ ClaimTurn(o) \/ FinishTurn(o) \/ WedgeTurn(o) \/ StopOwner(o) \/ StartOwner(o)
       PROVE  FALSE
  BY <1>3, <1>11 DEF Cancel, Commit, ClaimTurn, FinishTurn, WedgeTurn, StopOwner, StartOwner, SetEntry
<1>12. ~(HostDies \/ HoldMaintenance \/ ReleaseMaintenance \/ UNCHANGED vars)
  BY <1>3 DEF HostDies, HoldMaintenance, ReleaseMaintenance, vars
<1>. QED
  BY <1>5, <1>8, <1>9, <1>10, <1>11, <1>12 DEF Next

\* The second look of the fence decides: the fenced registration is the selected one and no turn
\* works in it, whoever stopped, started or gave a turn to the owner since the first look.
THEOREM FenceHitsTheSelected == Spec => FencesTheSelected
<1>1. IInv /\ [Next]_vars => [FenceIsCurrent]_vars
  <2>. SUFFICES ASSUME IInv, [Next]_vars, NEW v \in Watcher,
                       watcher[v].step = "fence", watcher'[v].step = "stop"
                PROVE  /\ SelectionOf(OwnerOf(v)) = SelectedBy(v)
                       /\ registry[OwnerOf(v)].turn # "working"
    BY DEF FenceIsCurrent
  <2>1. Fence(v) /\ watcher[v] \in WatcherState /\ watcher \in [Watcher -> WatcherState]
    BY OnlyTheFence DEF IInv, Typed
  <2>2. ASSUME NEW result, Answered(v, result) PROVE FALSE
    <3>1. watcher'[v] = [watcher[v] EXCEPT !.step = "complete", !.result = result]
      BY <2>1, <2>2 DEF Answered, Answer
    <3>2. watcher'[v].step = "complete"
      BY <2>1, <3>1 DEF WatcherState
    <3>. QED
      BY <3>2
  <2>. QED
    BY <2>1, <2>2 DEF Fence, SelectionCurrent, Restartable
<1>. QED
  BY Invariant, <1>1, PTL DEF Spec, FencesTheSelected

=============================================================================
