---------------------- MODULE MaintenanceBarrierProofs ----------------------
(***************************************************************************)
(* Proofs about the maintenance barrier, for any number of installers,     *)
(* other processes and rewrites: inputs are admitted only while the        *)
(* witness is open, a live hold stays with its operator, and what an       *)
(* install captured of a holder-written file stays exact.                  *)
(***************************************************************************)
EXTENDS MaintenanceBarrier, TLAPS

\* A leaf that names no prover is for Zenon; arithmetic and records go to SMT.
USE ZenonT(30)

Caller == Operator \cup Process
Runtime == {"no_target", "target_runtime"}
Holds == [generation : 0 .. MaxWrites, operator : Operator \cup {NoOperator},
          nonce : 0 .. MaxWrites, phase : HeldPhase \cup OpenPhase, target : Runtime]
Calls == [step : Steps, hold : Holds, use : Store \cup Input \cup {NoUse}]

-----------------------------------------------------------------------------
(* The inductive invariant. *)

\* A rewrite in progress owns the registry lock, which no borrower shares.
LockExclusive ==
    /\ \A p \in Caller : call[p].step \in Writing => registryLock = p
    /\ registryLock # NoOperator => Borrowers = {}

\* The hold being written is newer than everything that was handed out, and belongs to
\* its writer; a live hold on disk is only rewritten by its operator.
WritesFresh ==
    \A p \in Caller : call[p].step \in Writing =>
        /\ call[p].hold.generation \in 1 .. minted
        /\ call[p].hold.nonce = minted
        /\ state.nonce < minted
        /\ \A o \in Operator : held[o].nonce < minted
        /\ \A q \in Process : claim[q].nonce < minted
        /\ call[p].hold.phase \in HeldPhase => p \in Operator /\ call[p].hold.operator = p
        /\ state.phase \in HeldPhase /\ state.operator \in alive => state.operator = p

\* What is recorded and handed out was minted; a nonce in force names one operator.
NoncesNameOperators ==
    /\ state.generation <= minted /\ state.nonce <= minted
    /\ state.generation = 0 => state.phase = "ready"
    /\ \A o \in Operator :
          /\ held[o].nonce <= minted
          /\ held[o].phase \in HeldPhase => held[o].operator = o
          /\ held[o].phase \in HeldPhase /\ state.phase \in HeldPhase
                /\ held[o].nonce = state.nonce => state.operator = o
    /\ \A q \in Process :
          /\ claim[q].nonce <= minted
          /\ state.phase \in HeldPhase /\ claim[q].nonce = state.nonce /\ state.nonce # 0
                => claim[q].from = state.operator

\* A release concerns a holder that is dead for good.
ReleasesTheDead ==
    \A p \in Caller : call[p].step = "releasing" =>
        call[p].hold.phase \in HeldPhase /\ call[p].hold.operator \notin alive

\* A transaction holds its store's lock until it ends.
TransactionsLock ==
    \A q \in Process :
        /\ call[q].step \in {"admitting", "borrowing"} => call[q].use \in Input
        /\ call[q].step \in {"checking", "committing"} => call[q].use \in Store
        /\ call[q].step \in {"checking", "committing", "releasing"} =>
              \A s \in Store : call[q].use = s => storeLock[s] = q

\* A capture belongs to the hold on disk, and so does whoever commits behind it.
CapturesHeld ==
    /\ \A s \in Store : captured[s] # NoOperator =>
          state.phase \in HeldPhase /\ state.operator = captured[s]
    /\ \A q \in Process :
          call[q].step = "committing" /\ call[q].use = "holder_written" =>
             captured["holder_written"] \in {NoOperator, claim[q].from}

IInv ==
    /\ TypeOK
    /\ LockExclusive
    /\ WritesFresh
    /\ NoncesNameOperators
    /\ ReleasesTheDead
    /\ TransactionsLock
    /\ CapturesHeld
    /\ InputOnlyWhileOpen
    /\ CapturesStayExact

-----------------------------------------------------------------------------
(* What the witness says, and the first state. *)

\* The type invariant, in the abbreviations of this module.
LEMMA Types ==
    TypeOK <=>
       /\ marker \in 0 .. MaxWrites
       /\ state \in Holds /\ state.target = "no_target"
       /\ target \in [generation : 0 .. MaxWrites, nonce : 0 .. MaxWrites, target : Runtime]
       /\ registryLock \in Caller \cup {NoOperator}
       /\ storeLock \in [Store -> Process \cup {NoOperator}]
       /\ alive \subseteq Operator
       /\ call \in [Caller -> Calls]
       /\ held \in [Operator -> Holds]
       /\ claim \in [Process -> [nonce : 0 .. MaxWrites, from : Operator \cup {NoOperator}]]
       /\ minted \in 0 .. MaxWrites
       /\ captured \in [Store -> Operator \cup {NoOperator}]
       /\ changed \in [Store -> BOOLEAN]
BY DEF TypeOK, Holds, Calls, Caller, Runtime

\* The phases, written out.
LEMMA Phases ==
    /\ HeldPhase = {"draining", "paused", "installing"}
    /\ OpenPhase = {"ready", "dead_holder_released"}
BY DEF HeldPhase, Successors, OpenPhase

\* A complete witness decodes to the state file's phase, under its generation; when it is
\* held, also to its operator and nonce (_current_unlocked, HoldTarget.applied_to).
LEMMA CurrentHold ==
    ASSUME TypeOK, NoncesNameOperators
    PROVE  /\ Current = Incomplete \/ Current \in Holds
           /\ Current.phase # "incomplete" =>
                 /\ Current \in Holds
                 /\ marker = state.generation
                 /\ Current.generation = state.generation
                 /\ Current.phase = state.phase
           /\ Current.phase \in HeldPhase =>
                 /\ Current.operator = state.operator
                 /\ Current.nonce = state.nonce
<1>1. NeverHeld \in Holds /\ NeverHeld.generation = 0 /\ NeverHeld.phase = "ready"
  BY SMTT(30), MaxWritesAssumption, Phases DEF MaxWritesAssumption, NeverHeld, Hold, Holds, Runtime
<1>2. AppliedTarget \in Holds /\ AppliedTarget.generation = state.generation
      /\ AppliedTarget.phase = state.phase /\ AppliedTarget.operator = state.operator
      /\ AppliedTarget.nonce = state.nonce
  BY Types DEF AppliedTarget, Holds
<1>3. Incomplete.phase = "incomplete"
  BY DEF Incomplete, Hold
<1>4. state.generation = 0 => state.phase = "ready"
  BY DEF NoncesNameOperators
<1>5. "ready" \notin HeldPhase /\ "incomplete" \notin HeldPhase
  BY Phases
<1>6. state \in Holds
  BY Types
<1>7. CASE marker # state.generation
  BY <1>3, <1>5, <1>7 DEF Current
<1>8. CASE marker = state.generation /\ marker = 0
  BY <1>1, <1>4, <1>5, <1>8 DEF Current
<1>9. CASE marker = state.generation /\ marker # 0
  BY <1>2, <1>9 DEF Current
<1>. QED
  BY <1>7, <1>8, <1>9

\* A phase a reader acts on is not the incomplete one.
LEMMA CompletePhases == "incomplete" \notin HeldPhase \cup OpenPhase /\ HeldPhase \cap OpenPhase = {}
BY Phases

\* A root on which nothing happened satisfies the invariant.
LEMMA InitInv == Init => IInv
<1>. SUFFICES ASSUME Init PROVE IInv
  OBVIOUS
<1>1. NeverHeld \in Holds /\ NeverHeld.phase = "ready" /\ NeverHeld.nonce = 0
      /\ NeverHeld.generation = 0 /\ NeverHeld.target = "no_target"
  BY SMTT(30), MaxWritesAssumption, Phases DEF MaxWritesAssumption, NeverHeld, Hold, Holds, Runtime
<1>2. Idle \in Calls /\ Idle.step = "idle"
  BY <1>1 DEF Idle, Call, Calls, Steps
<1>3. TypeOK
  BY SMTT(30), <1>1, <1>2, MaxWritesAssumption, Types DEF MaxWritesAssumption, Init, Stamp, NoClaim, Caller, Runtime
<1>4. \A p \in Caller : call[p].step = "idle"
  BY <1>2 DEF Init, Caller
<1>5. NoncesNameOperators
  BY SMTT(30), <1>1, Phases DEF Init, NoncesNameOperators, NoClaim
<1>. QED
  BY <1>3, <1>4, <1>5 DEF IInv, Init, LockExclusive, WritesFresh, ReleasesTheDead, TransactionsLock,
     CapturesHeld, InputOnlyWhileOpen, CapturesStayExact, Borrowers, Caller, Writing, Store

-----------------------------------------------------------------------------
(* Permission: what the witness grants when it is asked. *)

\* A transaction on a holder-written file that passes the check finds no capture, or
\* carries the nonce of the capturing hold (CarriedFile.require_maintenance_open).
LEMMA PermittedCommit ==
    ASSUME IInv, NEW q \in Process, Permits("holder_written", q, Current)
    PROVE  captured["holder_written"] \in {NoOperator, claim[q].from}
<1>1. /\ TypeOK /\ NoncesNameOperators
      /\ captured["holder_written"] # NoOperator =>
            state.phase \in HeldPhase /\ state.operator = captured["holder_written"]
  BY DEF IInv, CapturesHeld, Store
<1>2. RequireOpenTo(q, Current)
  BY DEF Permits
<1>3. Current.phase = state.phase
  BY <1>1, <1>2, CurrentHold, CompletePhases DEF RequireOpenTo
<1>4. CASE Current.phase \in OpenPhase
  BY <1>1, <1>3, <1>4, CompletePhases
<1>5. CASE Current.phase \in HeldPhase /\ HoldsClaim(q, Current)
  <2>1. claim[q].nonce = state.nonce /\ state.nonce # 0 /\ state.phase \in HeldPhase
    BY <1>1, <1>3, <1>5, CurrentHold DEF HoldsClaim
  <2>2. claim[q].from = state.operator
    BY <1>1, <2>1 DEF NoncesNameOperators
  <2>. QED
    BY <1>1, <2>2
<1>. QED
  BY <1>2, <1>4, <1>5 DEF RequireOpenTo

\* An input that is admitted finds the witness complete and open to it
\* (assert_open_unlocked under the shared registry lock).
LEMMA PermittedInput ==
    ASSUME TypeOK, NoncesNameOperators, NEW q \in Process, NEW use \in Input,
           Permits(use, q, Current)
    PROVE  /\ marker = state.generation
           /\ \/ state.phase \in OpenPhase
              \/ use = "running_turn" /\ state.phase = "draining"
              \/ use = "new_turn" /\ claim[q].nonce = state.nonce
<1>1. CASE use = "new_turn"
  <2>1. RequireOpenTo(q, Current)
    BY <1>1 DEF Permits
  <2>2. marker = state.generation /\ Current.phase = state.phase
    BY <2>1, CurrentHold, CompletePhases DEF RequireOpenTo
  <2>3. CASE Current.phase \in OpenPhase
    BY <2>2, <2>3
  <2>4. CASE Current.phase \in HeldPhase /\ HoldsClaim(q, Current)
    BY <1>1, <2>2, <2>4, CurrentHold DEF HoldsClaim
  <2>. QED
    BY <2>1, <2>3, <2>4 DEF RequireOpenTo
<1>2. CASE use = "running_turn"
  <2>1. Current.phase \in OpenPhase \cup {"draining"}
    BY <1>2 DEF Permits
  <2>2. marker = state.generation /\ Current.phase = state.phase
    BY <2>1, CurrentHold, Phases
  <2>. QED
    BY <1>2, <2>1, <2>2
<1>. QED
  BY <1>1, <1>2 DEF Input

-----------------------------------------------------------------------------
(* Steps that rewrite the witness. *)

\* Starting a rewrite, under the registry lock, of a hold that is its writer's own, dead
\* or open (MaintenanceState.advanced).
LEMMA RewriteInv ==
    ASSUME IInv, NEW p \in Caller, NEW operator \in Operator \cup {NoOperator},
           NEW phase \in HeldPhase \cup OpenPhase, NEW runtime \in Runtime, NEW generation,
           generation = state.generation + 1,
           Rewrite(p, generation, operator, phase, runtime),
           phase \in HeldPhase => p \in Operator /\ operator = p,
           state.phase \in HeldPhase /\ state.operator \in alive => state.operator = p,
           captured' \in [Store -> Operator \cup {NoOperator}],
           \A s \in Store : captured'[s] \in {captured[s], NoOperator},
           changed' \in [Store -> BOOLEAN],
           \A s \in Store : changed'[s] => changed[s]
    PROVE  IInv'
<1>. DEFINE new == Hold(generation, operator, minted + 1, phase, runtime)
<1>1. /\ registryLock = NoOperator /\ Borrowers = {} /\ minted < MaxWrites
      /\ minted' = minted + 1 /\ registryLock' = p
      /\ call' = [call EXCEPT ![p].step = "target", ![p].hold = new]
      /\ UNCHANGED <<marker, state, target, storeLock, alive, held, claim>>
  BY DEF Rewrite, RegistryFree, witness
<1>2. /\ TypeOK /\ LockExclusive /\ NoncesNameOperators /\ ReleasesTheDead
      /\ TransactionsLock /\ CapturesHeld /\ CapturesStayExact
  BY DEF IInv
<1>3. p # NoOperator /\ \A q \in Caller : q # NoOperator
  BY OperatorAssumption DEF OperatorAssumption, Caller
<1>4. /\ new \in Holds /\ new.nonce = minted' /\ new.generation \in 1 .. minted'
      /\ new.phase = phase /\ new.operator = operator
  BY SMTT(30), <1>1, <1>2, MaxWritesAssumption, Types
     DEF MaxWritesAssumption, NoncesNameOperators, Hold, Holds
<1>. HIDE DEF new
<1>5. /\ call' \in [Caller -> Calls]
      /\ call'[p].step = "target" /\ call'[p].hold = new
      /\ \A q \in Caller : q # p => call'[q] = call[q]
  <2>. DEFINE row == [call[p] EXCEPT !.step = "target", !.hold = new]
  <2>1. call \in [Caller -> Calls] /\ call[p] \in Calls
    BY <1>2, Types
  <2>2. row \in Calls /\ row.step = "target" /\ row.hold = new
    BY <1>4, <2>1 DEF Calls, Steps
  <2>3. call' = [call EXCEPT ![p] = row]
    BY <1>1, <2>1
  <2>. HIDE DEF row
  <2>. QED
    BY <2>1, <2>2, <2>3
<1>6. TypeOK'
  <2>1. minted' \in 0 .. MaxWrites
    BY SMTT(30), <1>1, <1>2, MaxWritesAssumption, Types DEF MaxWritesAssumption
  <2>. QED
    BY <1>1, <1>2, <1>5, <2>1 DEF TypeOK, Calls, Holds, Caller, Runtime
<1>7. \A q \in Caller : q # p => call'[q].step \notin Writing
  BY <1>1, <1>2, <1>3, <1>5 DEF LockExclusive
<1>8. Borrowers' = {}
  BY <1>1, <1>5 DEF Borrowers, Caller
<1>9. LockExclusive'
  BY <1>1, <1>7, <1>8 DEF LockExclusive
<1>10. /\ state.nonce < minted' /\ \A o \in Operator : held[o].nonce < minted'
       /\ \A q \in Process : claim[q].nonce < minted'
       /\ state.generation <= minted'
  BY SMTT(30), <1>1, <1>2, Types DEF NoncesNameOperators, Holds
<1>11. WritesFresh'
  BY <1>1, <1>4, <1>5, <1>7, <1>10 DEF WritesFresh
<1>12. NoncesNameOperators'
  BY SMTT(30), <1>1, <1>2, <1>10, <1>6, Types DEF NoncesNameOperators, Holds
<1>13. ReleasesTheDead'
  BY <1>1, <1>2, <1>5 DEF ReleasesTheDead
<1>14. TransactionsLock'
  BY SMTT(30), <1>1, <1>2, <1>5 DEF TransactionsLock, Caller
<1>15. CapturesHeld'
  BY <1>1, <1>2, <1>5 DEF CapturesHeld, Caller, Store
<1>16. InputOnlyWhileOpen'
  BY <1>8 DEF InputOnlyWhileOpen
<1>17. CapturesStayExact'
  BY <1>2 DEF CapturesStayExact, Store
<1>. QED
  BY <1>6, <1>9, <1>11, <1>12, <1>13, <1>14, <1>15, <1>16, <1>17 DEF IInv

\* Replacing the target or the marker goes on to the next file.
LEMMA WriteFileInv ==
    ASSUME IInv, NEW p \in Caller, WriteTarget(p) \/ WriteMarker(p)
    PROVE  IInv'
<1>1. PICK step \in Writing : /\ call[p].step \in Writing
                              /\ call' = [call EXCEPT ![p].step = step]
                              /\ UNCHANGED <<state, registryLock, storeLock, alive, held, claim,
                                             minted, captured, changed>>
  BY DEF WriteTarget, WriteMarker, Goto, Writing, locks, capture
<1>2. /\ TypeOK /\ LockExclusive /\ WritesFresh /\ NoncesNameOperators /\ ReleasesTheDead
      /\ TransactionsLock /\ CapturesHeld /\ CapturesStayExact
  BY DEF IInv
<1>3. call[p] \in Calls /\ call \in [Caller -> Calls]
  BY <1>2, Types
<1>4. /\ call' \in [Caller -> Calls]
      /\ call'[p].step = step /\ call'[p].hold = call[p].hold /\ call'[p].use = call[p].use
      /\ \A q \in Caller : q # p => call'[q] = call[q]
  BY <1>1, <1>3 DEF Calls, Steps, Writing
<1>5. marker' \in 0 .. MaxWrites
      /\ target' \in [generation : 0 .. MaxWrites, nonce : 0 .. MaxWrites, target : Runtime]
  <2>1. call[p].hold \in Holds
    BY <1>3 DEF Calls
  <2>2. CASE WriteTarget(p)
    BY <1>2, <2>1, <2>2, Types DEF WriteTarget, Stamp, Holds
  <2>3. CASE WriteMarker(p)
    BY <1>2, <2>1, <2>3, Types DEF WriteMarker, Holds
  <2>. QED
    BY <2>2, <2>3
<1>6. TypeOK'
  BY <1>1, <1>2, <1>4, <1>5 DEF TypeOK, Calls, Holds, Caller, Runtime
<1>7. registryLock # NoOperator /\ Borrowers = {}
  BY <1>1, <1>2, OperatorAssumption DEF LockExclusive, OperatorAssumption, Caller
<1>8. Borrowers' = {}
  BY <1>1, <1>4, <1>7 DEF Borrowers, Caller, Writing
<1>9. LockExclusive'
  BY <1>1, <1>2, <1>4, <1>8 DEF LockExclusive
<1>10. WritesFresh'
  BY SMTT(30), <1>1, <1>2, <1>4 DEF WritesFresh
<1>11. NoncesNameOperators'
  BY <1>1, <1>2 DEF NoncesNameOperators
<1>12. ReleasesTheDead'
  BY <1>1, <1>2, <1>4 DEF ReleasesTheDead, Writing
<1>13. TransactionsLock'
  BY SMTT(30), <1>1, <1>2, <1>4 DEF TransactionsLock, Caller, Writing
<1>14. CapturesHeld'
  BY <1>1, <1>2, <1>4 DEF CapturesHeld, Caller, Writing
<1>15. InputOnlyWhileOpen' /\ CapturesStayExact'
  BY <1>1, <1>2, <1>8 DEF InputOnlyWhileOpen, CapturesStayExact
<1>. QED
  BY <1>6, <1>9, <1>10, <1>11, <1>12, <1>13, <1>14, <1>15 DEF IInv

\* The last replacement: the new hold is on disk, captures of other holds are void, and
\* only its writer may learn its nonce.
LEMMA WriteStateInv ==
    ASSUME IInv, NEW p \in Caller, WriteState(p)
    PROVE  IInv'
<1>. DEFINE new == call[p].hold
<1>1. /\ call[p].step \in Writing
      /\ state' = WithoutTarget(new)
      /\ call' = [call EXCEPT ![p] = Idle]
      /\ storeLock' = [s \in Store |-> IF storeLock[s] = p THEN NoOperator ELSE storeLock[s]]
      /\ registryLock' = NoOperator
      /\ UNCHANGED <<marker, target, alive, claim, minted>>
  BY DEF WriteState, EndCall, Writing
<1>2. /\ TypeOK /\ LockExclusive /\ WritesFresh /\ NoncesNameOperators /\ ReleasesTheDead
      /\ TransactionsLock /\ CapturesHeld /\ CapturesStayExact
  BY DEF IInv
<1>3. /\ new \in Holds /\ new.generation \in 1 .. minted /\ new.nonce = minted
      /\ new.phase \in HeldPhase => p \in Operator /\ new.operator = p
      /\ \A o \in Operator : held[o].nonce < minted
      /\ \A q \in Process : claim[q].nonce < minted
  BY <1>1, <1>2, Types DEF WritesFresh, Calls
<1>. HIDE DEF new
<1>4. /\ state' \in Holds /\ state'.target = "no_target"
      /\ state'.generation = new.generation /\ state'.nonce = new.nonce
      /\ state'.phase = new.phase /\ state'.operator = new.operator
  BY <1>1, <1>3 DEF WithoutTarget, Holds, Runtime
<1>5. /\ held' \in [Operator -> Holds]
      /\ \A o \in Operator : held'[o] = held[o] \/ (o = p /\ held'[o] = new)
  <2>1. held \in [Operator -> Holds]
    BY <1>2, Types
  <2>2. held' = held \/ (p \in Operator /\ held' = [held EXCEPT ![p] = new])
    BY DEF WriteState, new
  <2>. QED
    BY <1>3, <2>1, <2>2
<1>6. /\ captured' \in [Store -> Operator \cup {NoOperator}]
      /\ \A s \in Store : captured'[s] # NoOperator =>
            captured'[s] = captured[s] /\ state'.phase \in HeldPhase
            /\ state'.operator = captured'[s]
  BY <1>2, Types DEF WriteState
<1>7. /\ changed' \in [Store -> BOOLEAN]
      /\ \A s \in Store : changed'[s] => changed[s]
  BY <1>2, Types DEF WriteState
<1>8. Idle \in Calls /\ Idle.step = "idle"
  BY SMTT(30), MaxWritesAssumption, Phases
     DEF MaxWritesAssumption, NeverHeld, Hold, Holds, Runtime, Idle, Call, Calls, Steps
<1>9. /\ call' \in [Caller -> Calls] /\ call'[p].step = "idle"
      /\ \A q \in Caller : q # p => call'[q] = call[q]
  BY <1>1, <1>2, <1>8, Types
<1>10. /\ storeLock' \in [Store -> Process \cup {NoOperator}]
       /\ \A s \in Store, q \in Process : q # p /\ storeLock[s] = q => storeLock'[s] = q
  BY <1>1, <1>2, Types
<1>11. TypeOK'
  <2>1. registryLock' \in Caller \cup {NoOperator}
    BY <1>1
  <2>. QED
    BY <1>1, <1>2, <1>4, <1>5, <1>6, <1>7, <1>9, <1>10, <2>1
       DEF TypeOK, Calls, Holds, Caller, Runtime
<1>12. \A q \in Caller : call'[q].step \notin Writing
  <2>1. \A q \in Caller : q # p => call[q].step \notin Writing
    BY <1>1, <1>2 DEF LockExclusive
  <2>. QED
    BY <1>9, <2>1 DEF Writing
<1>13. Borrowers' = {}
  <2>1. Borrowers = {}
    BY <1>1, <1>2, OperatorAssumption DEF LockExclusive, OperatorAssumption, Caller
  <2>. QED
    BY <1>9, <2>1 DEF Borrowers, Caller
<1>14. LockExclusive' /\ WritesFresh'
  BY <1>12, <1>13 DEF LockExclusive, WritesFresh
<1>15. NoncesNameOperators'
  <2>1. state'.generation <= minted' /\ state'.nonce <= minted' /\ state'.generation # 0
    BY SMTT(30), <1>1, <1>2, <1>3, <1>4, Types
  <2>2. \A o \in Operator :
          /\ held'[o].nonce <= minted'
          /\ held'[o].phase \in HeldPhase => held'[o].operator = o
          /\ held'[o].phase \in HeldPhase /\ state'.phase \in HeldPhase
                /\ held'[o].nonce = state'.nonce => state'.operator = o
    <3>. SUFFICES ASSUME NEW o \in Operator
                  PROVE  /\ held'[o].nonce <= minted'
                         /\ held'[o].phase \in HeldPhase => held'[o].operator = o
                         /\ held'[o].phase \in HeldPhase /\ state'.phase \in HeldPhase
                               /\ held'[o].nonce = state'.nonce => state'.operator = o
      OBVIOUS
    <3>1. minted \in Nat /\ held[o].nonce \in Nat /\ minted' = minted
      BY SMTT(30), <1>1, <1>2, Types DEF Holds
    <3>2. CASE held'[o] = held[o]
      BY SMTT(30), <1>2, <1>3, <1>4, <3>1, <3>2 DEF NoncesNameOperators
    <3>3. CASE o = p /\ held'[o] = new
      BY SMTT(30), <1>3, <1>4, <3>1, <3>3
    <3>. QED
      BY <1>5, <3>2, <3>3
  <2>3. \A q \in Process : claim'[q].nonce <= minted' /\ claim'[q].nonce # state'.nonce
    BY SMTT(30), <1>1, <1>2, <1>3, <1>4, Types
  <2>. QED
    BY <2>1, <2>2, <2>3 DEF NoncesNameOperators
<1>16. ReleasesTheDead'
  BY <1>1, <1>2, <1>9 DEF ReleasesTheDead
<1>17. TransactionsLock'
  BY SMTT(30), <1>2, <1>9, <1>10 DEF TransactionsLock, Caller
<1>18. CapturesHeld'
  BY <1>1, <1>2, <1>6, <1>9 DEF CapturesHeld, Caller, Store
<1>19. InputOnlyWhileOpen' /\ CapturesStayExact'
  BY <1>2, <1>7, <1>13 DEF InputOnlyWhileOpen, CapturesStayExact, Store
<1>. QED
  BY <1>11, <1>14, <1>15, <1>16, <1>17, <1>18, <1>19 DEF IInv

-----------------------------------------------------------------------------
(* Steps of calls: they leave the witness as it is. *)

\* A caller that writes no file goes on, or stops, with another record of its call.
LEMMA CallInv ==
    ASSUME IInv, NEW p \in Caller, NEW c \in Calls,
           call[p].step \notin Writing, c.step \notin Writing,
           call' = [call EXCEPT ![p] = c],
           UNCHANGED <<witness, registryLock, alive, held, claim, minted, captured>>,
           changed' \in [Store -> BOOLEAN],
           changed'["holder_written"] => changed["holder_written"],
           storeLock' \in [Store -> Process \cup {NoOperator}],
           \A s \in Store, q \in Process : q # p /\ storeLock[s] = q => storeLock'[s] = q,
           c.step = "releasing" => c.hold.phase \in HeldPhase /\ c.hold.operator \notin alive,
           p \in Process =>
              /\ c.step \in {"admitting", "borrowing"} => c.use \in Input
              /\ c.step \in {"checking", "committing"} => c.use \in Store
              /\ c.step \in {"checking", "committing", "releasing"} =>
                    \A s \in Store : c.use = s => storeLock'[s] = p
              /\ c.step = "committing" /\ c.use = "holder_written" =>
                    Permits("holder_written", p, Current)
              /\ c.step = "borrowing" => registryLock = NoOperator /\ Permits(c.use, p, Current)
    PROVE  IInv'
<1>1. /\ TypeOK /\ LockExclusive /\ WritesFresh /\ NoncesNameOperators /\ ReleasesTheDead
      /\ TransactionsLock /\ CapturesHeld /\ InputOnlyWhileOpen /\ CapturesStayExact
  BY DEF IInv
<1>2. /\ call' \in [Caller -> Calls] /\ call'[p] = c
      /\ \A q \in Caller : q # p => call'[q] = call[q]
  BY SMTT(30), <1>1, Types
<1>3. UNCHANGED <<marker, state, target>>
  BY DEF witness
<1>4. TypeOK'
  BY <1>1, <1>2, <1>3 DEF TypeOK, Calls, Holds, Caller, Runtime
<1>5. LockExclusive'
  <2>1. \A q \in Caller : call'[q].step \in Writing => registryLock' = q
    BY <1>1, <1>2 DEF LockExclusive
  <2>2. registryLock' # NoOperator => Borrowers' = {}
    BY SMTT(30), <1>1, <1>2 DEF LockExclusive, Borrowers, Caller
  <2>. QED
    BY <2>1, <2>2 DEF LockExclusive
<1>6. WritesFresh'
  BY SMTT(30), <1>1, <1>2, <1>3 DEF WritesFresh
<1>7. NoncesNameOperators'
  BY <1>1, <1>3 DEF NoncesNameOperators
<1>8. ReleasesTheDead'
  BY <1>1, <1>2 DEF ReleasesTheDead
<1>9. TransactionsLock'
  BY SMTT(30), <1>1, <1>2 DEF TransactionsLock, Caller
<1>10. CapturesHeld'
  <2>1. \A q \in Process : call'[q].step = "committing" /\ call'[q].use = "holder_written" =>
          captured["holder_written"] \in {NoOperator, claim[q].from}
    BY SMTT(30), <1>1, <1>2, PermittedCommit DEF CapturesHeld, Caller
  <2>. QED
    BY <1>1, <1>3, <2>1 DEF CapturesHeld
<1>11. InputOnlyWhileOpen'
  <2>. SUFFICES ASSUME NEW q \in Process, call'[q].step = "borrowing"
                PROVE  /\ marker = state.generation
                       /\ \/ state.phase \in OpenPhase
                          \/ call'[q].use = "running_turn" /\ state.phase = "draining"
                          \/ call'[q].use = "new_turn" /\ claim[q].nonce = state.nonce
    BY <1>3 DEF InputOnlyWhileOpen, Borrowers
  <2>1. CASE q = p
    BY <1>1, <1>2, <2>1, PermittedInput
  <2>2. CASE q # p
    BY <1>1, <1>2, <2>2 DEF InputOnlyWhileOpen, Borrowers, Caller
  <2>. QED
    BY <2>1, <2>2
<1>12. CapturesStayExact'
  BY <1>1 DEF CapturesStayExact
<1>. QED
  BY <1>4, <1>5, <1>6, <1>7, <1>8, <1>9, <1>10, <1>11, <1>12 DEF IInv

\* A call that is over, by a return, a raise or a death, holds nothing any more.
LEMMA LostCallInv ==
    ASSUME IInv, NEW p \in Caller, EndCall(p),
           registryLock' = IF registryLock = p THEN NoOperator ELSE registryLock,
           alive' \subseteq alive, UNCHANGED <<witness, minted, capture>>,
           held' \in [Operator -> Holds],
           \A o \in Operator : held'[o] \in {held[o], NeverHeld},
           claim' \in [Process -> [nonce : 0 .. MaxWrites, from : Operator \cup {NoOperator}]],
           \A q \in Process : claim'[q] = claim[q] \/ (q = p /\ claim'[q] = NoClaim)
    PROVE  IInv'
<1>1. /\ TypeOK /\ LockExclusive /\ WritesFresh /\ NoncesNameOperators /\ ReleasesTheDead
      /\ TransactionsLock /\ CapturesHeld /\ InputOnlyWhileOpen /\ CapturesStayExact
  BY DEF IInv
<1>2. Idle \in Calls /\ Idle.step = "idle" /\ NeverHeld.nonce = 0 /\ NeverHeld.phase \notin HeldPhase
  BY SMTT(30), MaxWritesAssumption, Phases
     DEF MaxWritesAssumption, NeverHeld, Hold, Holds, Runtime, Idle, Call, Calls, Steps
<1>3. /\ call' \in [Caller -> Calls] /\ call'[p].step = "idle"
      /\ \A q \in Caller : q # p => call'[q] = call[q]
  BY <1>1, <1>2, Types DEF EndCall
<1>4. /\ storeLock' \in [Store -> Process \cup {NoOperator}]
      /\ \A s \in Store, q \in Process : q # p /\ storeLock[s] = q => storeLock'[s] = q
  BY <1>1, Types DEF EndCall
<1>5. UNCHANGED <<marker, state, target, captured, changed>>
  BY DEF witness, capture
<1>6. TypeOK'
  <2>1. registryLock' \in Caller \cup {NoOperator} /\ alive' \subseteq Operator
    BY <1>1, Types
  <2>. QED
    BY <1>1, <1>3, <1>4, <1>5, <2>1 DEF TypeOK, Calls, Holds, Caller, Runtime
<1>7. LockExclusive'
  <2>1. \A q \in Caller : call'[q].step \in Writing => registryLock' = q
    BY <1>1, <1>3 DEF LockExclusive, Writing
  <2>2. registryLock' # NoOperator => Borrowers' = {}
    BY <1>1, <1>3 DEF LockExclusive, Borrowers, Caller
  <2>. QED
    BY <2>1, <2>2 DEF LockExclusive
<1>8. WritesFresh'
  <2>. SUFFICES ASSUME NEW q \in Caller, call'[q].step \in Writing
                PROVE  /\ call'[q].hold.generation \in 1 .. minted
                       /\ call'[q].hold.nonce = minted
                       /\ state.nonce < minted
                       /\ \A o \in Operator : held'[o].nonce < minted
                       /\ \A r \in Process : claim'[r].nonce < minted
                       /\ call'[q].hold.phase \in HeldPhase =>
                             q \in Operator /\ call'[q].hold.operator = q
                       /\ state.phase \in HeldPhase /\ state.operator \in alive' =>
                             state.operator = q
    BY <1>5 DEF WritesFresh
  <2>1. call'[q] = call[q] /\ call[q].step \in Writing
    BY <1>3 DEF Writing
  <2>2. 0 < minted
    BY SMTT(30), <1>1, <2>1, Types DEF WritesFresh
  <2>3. \A o \in Operator : held'[o].nonce < minted
    BY <1>1, <1>2, <2>1, <2>2 DEF WritesFresh
  <2>4. \A r \in Process : claim'[r].nonce < minted
    BY SMTT(30), <1>1, <2>1, <2>2 DEF WritesFresh, NoClaim
  <2>. QED
    BY <1>1, <2>1, <2>3, <2>4 DEF WritesFresh
<1>9. NoncesNameOperators'
  <2>1. \A o \in Operator :
          /\ held'[o].nonce <= minted
          /\ held'[o].phase \in HeldPhase => held'[o].operator = o
          /\ held'[o].phase \in HeldPhase /\ state.phase \in HeldPhase
                /\ held'[o].nonce = state.nonce => state.operator = o
    BY SMTT(30), <1>1, <1>2, Types DEF NoncesNameOperators
  <2>2. \A q \in Process :
          /\ claim'[q].nonce <= minted
          /\ state.phase \in HeldPhase /\ claim'[q].nonce = state.nonce /\ state.nonce # 0
                => claim'[q].from = state.operator
    BY SMTT(30), <1>1, Types DEF NoncesNameOperators, NoClaim
  <2>. QED
    BY <1>1, <1>5, <2>1, <2>2 DEF NoncesNameOperators
<1>10. ReleasesTheDead'
  BY <1>1, <1>3 DEF ReleasesTheDead
<1>11. TransactionsLock'
  BY SMTT(30), <1>1, <1>3, <1>4 DEF TransactionsLock, Caller
<1>12. CapturesHeld'
  BY <1>1, <1>3, <1>5 DEF CapturesHeld, Caller
<1>13. InputOnlyWhileOpen' /\ CapturesStayExact'
  BY SMTT(30), <1>1, <1>3, <1>5 DEF InputOnlyWhileOpen, CapturesStayExact, Borrowers, Caller
<1>. QED
  BY <1>6, <1>7, <1>8, <1>9, <1>10, <1>11, <1>12, <1>13 DEF IInv

\* What ending a call leaves of the locks.
LEMMA EndedCall ==
    ASSUME TypeOK, NEW p \in Caller, EndCall(p)
    PROVE  /\ Idle \in Calls /\ Idle.step = "idle" /\ call' = [call EXCEPT ![p] = Idle]
           /\ storeLock' \in [Store -> Process \cup {NoOperator}]
           /\ \A s \in Store, q \in Process : q # p /\ storeLock[s] = q => storeLock'[s] = q
<1>1. Idle \in Calls /\ Idle.step = "idle"
  BY SMTT(30), MaxWritesAssumption, Phases
     DEF MaxWritesAssumption, NeverHeld, Hold, Holds, Runtime, Idle, Call, Calls, Steps
<1>. QED
  BY <1>1, Types DEF EndCall

\* A returned or refused call, on a witness it did not write.
LEMMA ReturnInv ==
    ASSUME IInv, NEW p \in Caller, call[p].step \notin Writing, EndCall(p),
           UNCHANGED <<witness, registryLock, alive, held, claim, minted, captured>>,
           changed' \in [Store -> BOOLEAN],
           changed'["holder_written"] => changed["holder_written"]
    PROVE  IInv'
<1>1. TypeOK
  BY DEF IInv
<1>2. Idle.step \notin Writing
  BY <1>1, EndedCall DEF Writing
<1>. QED
  BY <1>1, <1>2, EndedCall, CallInv

\* A call that goes on to another of its own steps.
LEMMA GotoCall ==
    ASSUME TypeOK, NEW p \in Caller, NEW step \in Steps, Goto(p, step)
    PROVE  \E c \in Calls : /\ c.step = step /\ c.hold = call[p].hold /\ c.use = call[p].use
                            /\ call' = [call EXCEPT ![p] = c]
<1>. DEFINE c == [call[p] EXCEPT !.step = step]
<1>1. call \in [Caller -> Calls] /\ call[p] \in Calls
  BY Types
<1>2. c \in Calls /\ c.step = step /\ c.hold = call[p].hold /\ c.use = call[p].use
  BY <1>1 DEF Calls
<1>3. call' = [call EXCEPT ![p] = c]
  BY <1>1 DEF Goto
<1>. QED
  BY <1>2, <1>3

-----------------------------------------------------------------------------
(* One lemma per group of actions. *)

\* begin, retarget, advance and the release of a dead holder start a rewrite only of an
\* open record, of their own hold, or of a dead one.
LEMMA OperatorInv ==
    ASSUME IInv, NEW o \in Operator,
           \/ Begin(o) \/ Retarget(o)
           \/ \E phase \in {"paused", "installing", "ready"} : AdvancePhase(o, phase)
    PROVE  IInv'
<1>1. TypeOK /\ NoncesNameOperators /\ o \in Caller
  BY DEF IInv, Caller
<1>2. ASSUME UNCHANGED capture
      PROVE  /\ captured' \in [Store -> Operator \cup {NoOperator}]
             /\ \A s \in Store : captured'[s] \in {captured[s], NoOperator}
             /\ changed' \in [Store -> BOOLEAN]
             /\ \A s \in Store : changed'[s] => changed[s]
  BY <1>1, <1>2, Types DEF capture
<1>3. "draining" \in HeldPhase \cup OpenPhase /\ {"no_target", "target_runtime"} \subseteq Runtime
      /\ {"paused", "installing", "ready"} \subseteq HeldPhase \cup OpenPhase
  BY Phases DEF Runtime
<1>4. Expected(o) => /\ held[o].generation = state.generation /\ held[o].operator = o
                     /\ state.operator = o /\ held[o].target \in Runtime
  BY SMTT(30), <1>1, CurrentHold, CompletePhases, Types DEF Expected, NoncesNameOperators, Holds
<1>5. CASE Begin(o)
  <2>1. Current.phase \in OpenPhase \/ HolderDead(Current)
    BY <1>5 DEF Begin
  <2>2. /\ Current.generation = state.generation
        /\ ~ (state.phase \in HeldPhase /\ state.operator \in alive)
    BY <1>1, <2>1, CurrentHold, CompletePhases DEF HolderDead
  <2>3. /\ Rewrite(o, Current.generation + 1, o, "draining", "no_target")
        /\ UNCHANGED capture
    BY <1>5 DEF Begin
  <2>. DEFINE generation == Current.generation + 1
  <2>4. generation = state.generation + 1 /\ Rewrite(o, generation, o, "draining", "no_target")
    BY <2>2, <2>3
  <2>. HIDE DEF generation
  <2>. QED
    BY <1>1, <1>2, <1>3, <2>2, <2>3, <2>4, RewriteInv
<1>6. CASE Retarget(o)
  <2>. DEFINE generation == held[o].generation + 1
  <2>1. /\ generation = state.generation + 1 /\ state.operator = o /\ UNCHANGED capture
        /\ Rewrite(o, generation, o, "draining", "target_runtime")
    BY <1>4, <1>6 DEF Retarget
  <2>. HIDE DEF generation
  <2>. QED
    BY <1>1, <1>2, <1>3, <2>1, RewriteInv
<1>7. ASSUME NEW phase \in {"paused", "installing", "ready"}, AdvancePhase(o, phase)
      PROVE  IInv'
  <2>. DEFINE generation == held[o].generation + 1
              runtime == IF phase = "ready" THEN "no_target" ELSE held[o].target
  <2>1. /\ generation = state.generation + 1 /\ state.operator = o
        /\ Rewrite(o, generation, o, phase, runtime) /\ runtime \in Runtime
    BY <1>3, <1>4, <1>7 DEF AdvancePhase
  <2>2. /\ captured' \in [Store -> Operator \cup {NoOperator}]
        /\ \A s \in Store : captured'[s] \in {captured[s], NoOperator}
    BY <1>1, <1>7, Types DEF AdvancePhase
  <2>3. /\ changed' \in [Store -> BOOLEAN]
        /\ \A s \in Store : changed'[s] => changed[s]
    BY <1>1, <1>7, Types DEF AdvancePhase
  <2>. HIDE DEF generation, runtime
  <2>4. phase \in HeldPhase \cup OpenPhase
    BY <1>3
  <2>. QED
    BY <1>1, <2>1, <2>2, <2>3, <2>4, RewriteInv
<1>. QED
  BY <1>5, <1>6, <1>7

\* Releasing a dead holder: under the lock the record is still the observed one.
LEMMA ReleaseDeadInv ==
    ASSUME IInv, NEW p \in Caller, ReleaseDead(p)
    PROVE  IInv'
<1>1. TypeOK /\ NoncesNameOperators /\ ReleasesTheDead
  BY DEF IInv
<1>2. Current.phase \in HeldPhase /\ Current.operator \notin alive
  BY <1>1 DEF ReleaseDead, ReleasesTheDead
<1>. DEFINE generation == Current.generation + 1
            operator == Current.operator
<1>3. /\ generation = state.generation + 1 /\ operator \in Operator \cup {NoOperator}
      /\ state.operator \notin alive
  BY <1>1, <1>2, CurrentHold, CompletePhases DEF Holds
<1>4. Rewrite(p, generation, operator, "dead_holder_released", "no_target")
  BY DEF ReleaseDead
<1>5. /\ captured' \in [Store -> Operator \cup {NoOperator}]
      /\ \A s \in Store : captured'[s] \in {captured[s], NoOperator}
      /\ changed' \in [Store -> BOOLEAN]
      /\ \A s \in Store : changed'[s] => changed[s]
  BY <1>1, Types DEF ReleaseDead, capture
<1>. HIDE DEF generation, operator
<1>6. "dead_holder_released" \in OpenPhase /\ "dead_holder_released" \notin HeldPhase
      /\ "no_target" \in Runtime
  BY Phases DEF Runtime
<1>. QED
  BY <1>3, <1>4, <1>5, <1>6, RewriteInv

\* A replacement that raises, and a death, leave the files as they are.
LEMMA WriteRaisesInv ==
    ASSUME IInv, NEW p \in Caller, WriteRaises(p)
    PROVE  IInv'
<1>1. TypeOK /\ registryLock = p
  BY DEF IInv, LockExclusive, WriteRaises
<1>2. /\ UNCHANGED <<held, claim, alive>> /\ held \in [Operator -> Holds]
      /\ claim \in [Process -> [nonce : 0 .. MaxWrites, from : Operator \cup {NoOperator}]]
  BY <1>1, Types DEF WriteRaises
<1>. QED
  BY <1>1, <1>2, LostCallInv DEF WriteRaises

LEMMA DieInv ==
    ASSUME IInv, NEW p \in Caller, Die(p)
    PROVE  IInv'
<1>1. TypeOK
  BY DEF IInv
<1>2. NeverHeld \in Holds /\ NoClaim \in [nonce : 0 .. MaxWrites, from : Operator \cup {NoOperator}]
  BY SMTT(30), MaxWritesAssumption, Phases DEF MaxWritesAssumption, NeverHeld, Hold, Holds, Runtime, NoClaim
<1>3. /\ held' \in [Operator -> Holds]
      /\ \A o \in Operator : held'[o] \in {held[o], NeverHeld}
  <2>1. held \in [Operator -> Holds]
    BY <1>1, Types
  <2>. QED
    BY <1>2, <2>1 DEF Die
<1>4. /\ claim' \in [Process -> [nonce : 0 .. MaxWrites, from : Operator \cup {NoOperator}]]
      /\ \A q \in Process : claim'[q] = claim[q] \/ (q = p /\ claim'[q] = NoClaim)
  BY <1>1, <1>2, Types DEF Die
<1>. QED
  BY <1>3, <1>4, LostCallInv DEF Die

\* An operator or a transaction finds the recorded holder dead.
LEMMA ObserveDeadInv ==
    ASSUME IInv, NEW p \in Caller, ObserveDead(p)
    PROVE  IInv'
<1>1. TypeOK /\ NoncesNameOperators /\ TransactionsLock
  BY DEF IInv
<1>. DEFINE c == [call[p] EXCEPT !.step = "releasing", !.hold = Current]
<1>2. Current.phase \in HeldPhase /\ Current.operator \notin alive /\ Current \in Holds
  BY <1>1, CurrentHold, CompletePhases DEF ObserveDead, HolderDead
<1>3. call \in [Caller -> Calls] /\ call[p] \in Calls
  BY <1>1, Types
<1>4. /\ c \in Calls /\ c.step = "releasing" /\ c.hold = Current /\ c.use = call[p].use
      /\ call' = [call EXCEPT ![p] = c]
  BY <1>2, <1>3 DEF ObserveDead, Calls, Steps
<1>. HIDE DEF c
<1>5. call[p].step \notin Writing /\ c.step \notin Writing
  BY <1>4 DEF ObserveDead, Writing
<1>6. p \in Process => \A s \in Store : c.use = s => storeLock[s] = p
  <2>1. p \in Process => call[p].step = "checking"
    BY <1>1, OperatorAssumption, Types DEF ObserveDead, OperatorAssumption
  <2>. QED
    BY <1>1, <1>4, <2>1 DEF TransactionsLock
<1>7. /\ UNCHANGED <<witness, registryLock, storeLock, alive, held, claim, minted, captured, changed>>
      /\ changed \in [Store -> BOOLEAN] /\ storeLock \in [Store -> Process \cup {NoOperator}]
  BY <1>1, Types DEF ObserveDead, locks, capture
<1>. QED
  BY <1>2, <1>4, <1>5, <1>6, <1>7, CallInv

\* A release that somebody overtook goes on with the record it finds now.
LEMMA ReleaseOvertakenInv ==
    ASSUME IInv, NEW p \in Caller, ReleaseOvertaken(p)
    PROVE  IInv'
<1>1. /\ TypeOK /\ TransactionsLock /\ call[p].step = "releasing"
      /\ call[p].step \notin Writing
  BY DEF IInv, ReleaseOvertaken, Writing
<1>2. /\ UNCHANGED <<witness, registryLock, alive, held, claim, minted, captured, changed>>
      /\ changed \in [Store -> BOOLEAN] /\ storeLock \in [Store -> Process \cup {NoOperator}]
  BY <1>1, Types DEF ReleaseOvertaken, capture
<1>3. CASE call[p].use \in Store /\ Permits(call[p].use, p, Current)
           /\ Goto(p, "committing") /\ UNCHANGED storeLock
  <2>1. PICK c \in Calls : /\ c.step = "committing" /\ c.use = call[p].use
                           /\ call' = [call EXCEPT ![p] = c]
    BY SMTT(30), <1>1, <1>3, GotoCall DEF Steps
  <2>2. p \in Process => \A s \in Store : c.use = s => storeLock[s] = p
    BY <1>1, <2>1 DEF TransactionsLock
  <2>3. c.step \notin Writing
    BY <2>1 DEF Writing
  <2>. QED
    BY <1>1, <1>2, <1>3, <2>1, <2>2, <2>3, CallInv
<1>4. CASE call[p].use \in Input /\ Goto(p, "admitting") /\ UNCHANGED storeLock
  <2>1. PICK c \in Calls : /\ c.step = "admitting" /\ c.use = call[p].use
                           /\ call' = [call EXCEPT ![p] = c]
    BY SMTT(30), <1>1, <1>4, GotoCall DEF Steps
  <2>2. c.step \notin Writing
    BY <2>1 DEF Writing
  <2>. QED
    BY <1>1, <1>2, <1>4, <2>1, <2>2, CallInv
<1>5. CASE EndCall(p)
  BY <1>1, <1>2, <1>5, ReturnInv
<1>. QED
  BY <1>3, <1>4, <1>5 DEF ReleaseOvertaken

\* A transaction takes its store's lock, asks the witness, and commits or rolls back.
LEMMA TransactionInv ==
    ASSUME IInv, NEW p \in Process,
           \/ \E s \in Store : BeginTransaction(p, s)
           \/ CheckTransaction(p) \/ CommitTransaction(p)
    PROVE  IInv'
<1>1. TypeOK /\ TransactionsLock /\ CapturesHeld /\ CapturesStayExact /\ p \in Caller
  BY DEF IInv, Caller
<1>2. changed \in [Store -> BOOLEAN] /\ storeLock \in [Store -> Process \cup {NoOperator}]
  BY <1>1, Types
<1>3. ASSUME NEW s \in Store, BeginTransaction(p, s)
      PROVE  IInv'
  <2>. DEFINE c == Call("checking", NeverHeld, s)
  <2>1. /\ c \in Calls /\ c.step = "checking" /\ c.use = s
        /\ c.step \notin Writing /\ call[p].step \notin Writing
    BY SMTT(30), <1>3, MaxWritesAssumption, Phases
       DEF BeginTransaction, MaxWritesAssumption, NeverHeld, Hold, Holds, Runtime, Call, Calls,
           Steps, Writing
  <2>2. call' = [call EXCEPT ![p] = c]
    BY <1>3 DEF BeginTransaction
  <2>3. /\ UNCHANGED <<witness, registryLock, alive, held, claim, minted, captured, changed>>
        /\ storeLock[s] = NoOperator /\ storeLock' = [storeLock EXCEPT ![s] = p]
    BY <1>3 DEF BeginTransaction, capture
  <2>. HIDE DEF c
  <2>4. /\ storeLock' \in [Store -> Process \cup {NoOperator}] /\ storeLock'[s] = p
        /\ \A t \in Store, q \in Process : q # p /\ storeLock[t] = q => storeLock'[t] = q
    BY <1>2, <2>3, OperatorAssumption DEF OperatorAssumption
  <2>. QED
    BY <1>1, <1>2, <2>1, <2>2, <2>3, <2>4, CallInv
<1>4. CASE CheckTransaction(p)
  <2>1. /\ UNCHANGED <<witness, registryLock, alive, held, claim, minted, captured, changed>>
        /\ call[p].step = "checking" /\ call[p].step \notin Writing
    BY <1>4 DEF CheckTransaction, capture, Writing
  <2>2. CASE Permits(call[p].use, p, Current) /\ Goto(p, "committing") /\ UNCHANGED storeLock
    <3>1. PICK c \in Calls : /\ c.step = "committing" /\ c.use = call[p].use
                             /\ call' = [call EXCEPT ![p] = c]
      BY SMTT(30), <1>1, <2>2, GotoCall DEF Steps
    <3>2. c.use \in Store /\ \A s \in Store : c.use = s => storeLock[s] = p
      BY <1>1, <2>1, <3>1 DEF TransactionsLock
    <3>3. c.step \notin Writing
      BY <3>1 DEF Writing
    <3>. QED
      BY <1>1, <1>2, <2>1, <2>2, <3>1, <3>2, <3>3, CallInv
  <2>3. CASE EndCall(p)
    BY <1>1, <1>2, <2>1, <2>3, ReturnInv
  <2>. QED
    BY <1>4, <2>2, <2>3 DEF CheckTransaction
<1>5. CASE CommitTransaction(p)
  <2>. DEFINE s == call[p].use
              other == captured[s] \notin {NoOperator, claim[p].from}
  <2>1. /\ UNCHANGED <<witness, registryLock, alive, held, claim, minted, captured>>
        /\ call[p].step = "committing" /\ call[p].step \notin Writing /\ EndCall(p)
        /\ changed' = [changed EXCEPT ![s] = changed[s] \/ other]
    BY <1>5 DEF CommitTransaction, Writing
  <2>2. s \in Store /\ (s = "holder_written" => ~ other)
    BY <1>1, <2>1 DEF TransactionsLock, CapturesHeld
  <2>3. other \in BOOLEAN
    OBVIOUS
  <2>. HIDE DEF other, s
  <2>4. changed' \in [Store -> BOOLEAN]
    BY <1>2, <2>1, <2>2, <2>3
  <2>5. changed'["holder_written"] => changed["holder_written"]
    BY <1>2, <2>1, <2>2 DEF Store
  <2>. QED
    BY <1>1, <2>1, <2>4, <2>5, ReturnInv
<1>. QED
  BY <1>3, <1>4, <1>5

\* An input is looked at, admitted under the shared registry lock, and ends.
LEMMA InputInv ==
    ASSUME IInv, NEW p \in Process,
           \/ \E use \in Input : BeginInput(p, use)
           \/ Admit(p) \/ EndInput(p)
    PROVE  IInv'
<1>1. TypeOK /\ NoncesNameOperators /\ TransactionsLock /\ p \in Caller
  BY DEF IInv, Caller
<1>2. changed \in [Store -> BOOLEAN] /\ storeLock \in [Store -> Process \cup {NoOperator}]
  BY <1>1, Types
<1>3. ASSUME NEW use \in Input, BeginInput(p, use)
      PROVE  IInv'
  <2>. DEFINE c == IF HolderDead(Current) THEN Call("releasing", Current, use)
                   ELSE Call("admitting", NeverHeld, use)
  <2>1. Current \in Holds /\ NeverHeld \in Holds
    BY SMTT(30), <1>1, <1>3, CurrentHold, MaxWritesAssumption, Phases
       DEF BeginInput, MaxWritesAssumption, NeverHeld, Hold, Holds, Runtime
  <2>2. /\ c \in Calls /\ c.step \in {"releasing", "admitting"} /\ c.use = use
        /\ c.step = "releasing" => HolderDead(Current) /\ c.hold = Current
    BY <2>1 DEF Call, Calls, Steps
  <2>3. call' = [call EXCEPT ![p] = c]
    BY <1>3 DEF BeginInput
  <2>4. /\ UNCHANGED <<witness, registryLock, storeLock, alive, held, claim, minted, captured, changed>>
        /\ call[p].step \notin Writing
    BY <1>3 DEF BeginInput, locks, capture, Writing
  <2>. HIDE DEF c
  <2>5. c.step = "releasing" => c.hold.phase \in HeldPhase /\ c.hold.operator \notin alive
    BY <2>2 DEF HolderDead
  <2>6. c.use \notin Store /\ c.step \notin Writing
    BY <2>2 DEF Store, Input, Writing
  <2>. QED
    BY <1>1, <1>2, <2>2, <2>3, <2>4, <2>5, <2>6, CallInv
<1>4. CASE Admit(p)
  <2>1. /\ UNCHANGED <<witness, registryLock, alive, held, claim, minted, captured, changed>>
        /\ registryLock = NoOperator
        /\ call[p].step = "admitting" /\ call[p].step \notin Writing
    BY <1>4 DEF Admit, capture, Writing
  <2>2. CASE Permits(call[p].use, p, Current) /\ Goto(p, "borrowing") /\ UNCHANGED storeLock
    <3>1. PICK c \in Calls : /\ c.step = "borrowing" /\ c.use = call[p].use
                             /\ call' = [call EXCEPT ![p] = c]
      BY SMTT(30), <1>1, <2>2, GotoCall DEF Steps
    <3>2. c.use \in Input
      BY <1>1, <2>1, <3>1 DEF TransactionsLock
    <3>3. c.step \notin Writing
      BY <3>1 DEF Writing
    <3>. QED
      BY <1>1, <1>2, <2>1, <2>2, <3>1, <3>2, <3>3, CallInv
  <2>3. CASE EndCall(p)
    BY <1>1, <1>2, <2>1, <2>3, ReturnInv
  <2>. QED
    BY <1>4, <2>2, <2>3 DEF Admit
<1>5. CASE EndInput(p)
  <2>1. /\ UNCHANGED <<witness, registryLock, alive, held, claim, minted, captured, changed>>
        /\ EndCall(p) /\ call[p].step \notin Writing
    BY <1>5 DEF EndInput, capture, Writing
  <2>. QED
    BY <1>1, <1>2, <2>1, ReturnInv
<1>. QED
  BY <1>3, <1>4, <1>5

\* held_by hands the recorded hold to the operator it names.
LEMMA HeldByInv ==
    ASSUME IInv, NEW o \in Operator, HeldBy(o)
    PROVE  IInv'
<1>1. /\ TypeOK /\ LockExclusive /\ WritesFresh /\ NoncesNameOperators /\ ReleasesTheDead
      /\ TransactionsLock /\ CapturesHeld /\ InputOnlyWhileOpen /\ CapturesStayExact
  BY DEF IInv
<1>2. UNCHANGED <<marker, state, target, registryLock, storeLock, alive, call, claim, minted,
                  captured, changed>>
  BY DEF HeldBy, witness, locks, capture
<1>3. /\ Current \in Holds /\ Current.operator = o /\ state.operator = o
      /\ Current.nonce = state.nonce
  BY <1>1, CurrentHold, Phases DEF HeldBy
<1>4. /\ held' \in [Operator -> Holds]
      /\ \A x \in Operator : held'[x] = held[x] \/ (x = o /\ held'[x] = Current)
  BY <1>1, <1>3, Types DEF HeldBy
<1>5. TypeOK'
  BY <1>1, <1>2, <1>4 DEF TypeOK, Holds, Runtime
<1>6. WritesFresh'
  <2>1. \A p \in Caller : call[p].step \in Writing => \A x \in Operator : held'[x].nonce < minted
    BY <1>1, <1>3, <1>4 DEF WritesFresh
  <2>. QED
    BY <1>1, <1>2, <2>1 DEF WritesFresh
<1>7. NoncesNameOperators'
  <2>1. \A x \in Operator :
          /\ held'[x].nonce <= minted
          /\ held'[x].phase \in HeldPhase => held'[x].operator = x
          /\ held'[x].phase \in HeldPhase /\ state.phase \in HeldPhase
                /\ held'[x].nonce = state.nonce => state.operator = x
    BY <1>1, <1>3, <1>4 DEF NoncesNameOperators
  <2>. QED
    BY <1>1, <1>2, <2>1 DEF NoncesNameOperators
<1>8. LockExclusive' /\ InputOnlyWhileOpen'
  BY <1>1, <1>2 DEF LockExclusive, InputOnlyWhileOpen, Borrowers
<1>9. ReleasesTheDead' /\ TransactionsLock' /\ CapturesHeld' /\ CapturesStayExact'
  BY <1>1, <1>2 DEF ReleasesTheDead, TransactionsLock, CapturesHeld, CapturesStayExact
<1>. QED
  BY <1>5, <1>6, <1>7, <1>8, <1>9 DEF IInv

\* A child inherits the nonce of the hold its parent got back.
LEMMA InheritInv ==
    ASSUME IInv, NEW p \in Process, NEW o \in Operator, Inherit(p, o)
    PROVE  IInv'
<1>1. /\ TypeOK /\ LockExclusive /\ WritesFresh /\ NoncesNameOperators /\ ReleasesTheDead
      /\ TransactionsLock /\ CapturesHeld /\ InputOnlyWhileOpen /\ CapturesStayExact
  BY DEF IInv
<1>2. UNCHANGED <<marker, state, target, registryLock, storeLock, alive, call, held, minted,
                  captured, changed>>
  BY DEF Inherit, witness, locks, capture
<1>. DEFINE new == [nonce |-> held[o].nonce, from |-> o]
<1>3. /\ new \in [nonce : 0 .. MaxWrites, from : Operator \cup {NoOperator}]
      /\ new.nonce = held[o].nonce /\ new.from = o /\ claim' = [claim EXCEPT ![p] = new]
  BY <1>1, Types DEF Inherit, Holds
<1>. HIDE DEF new
<1>4. /\ claim' \in [Process -> [nonce : 0 .. MaxWrites, from : Operator \cup {NoOperator}]]
      /\ claim'[p] = new /\ \A q \in Process : q # p => claim'[q] = claim[q]
  BY <1>1, <1>3, Types
<1>5. TypeOK'
  BY <1>1, <1>2, <1>4 DEF TypeOK
<1>6. WritesFresh'
  <2>1. \A r \in Caller : call[r].step \in Writing => \A q \in Process : claim'[q].nonce < minted
    BY <1>1, <1>3, <1>4 DEF WritesFresh
  <2>. QED
    BY <1>1, <1>2, <2>1 DEF WritesFresh
<1>7. NoncesNameOperators'
  <2>1. held[o].phase \in HeldPhase
    BY DEF Inherit
  <2>2. \A q \in Process :
          /\ claim'[q].nonce <= minted
          /\ state.phase \in HeldPhase /\ claim'[q].nonce = state.nonce /\ state.nonce # 0
                => claim'[q].from = state.operator
    BY <1>1, <1>3, <1>4, <2>1 DEF NoncesNameOperators
  <2>. QED
    BY <1>1, <1>2, <2>2 DEF NoncesNameOperators
<1>8. call[p].step = "idle"
  BY DEF Inherit
<1>9. LockExclusive' /\ InputOnlyWhileOpen'
  BY <1>1, <1>2, <1>4, <1>8 DEF LockExclusive, InputOnlyWhileOpen, Borrowers
<1>10. CapturesHeld'
  BY <1>1, <1>2, <1>4, <1>8 DEF CapturesHeld
<1>11. ReleasesTheDead' /\ TransactionsLock' /\ CapturesStayExact'
  BY <1>1, <1>2 DEF ReleasesTheDead, TransactionsLock, CapturesStayExact
<1>. QED
  BY <1>5, <1>6, <1>7, <1>9, <1>10, <1>11 DEF IInv

\* A capture under writers_drained waits out the transaction in flight on its file.
LEMMA CaptureFileInv ==
    ASSUME IInv, NEW o \in Operator, NEW s \in Store, CaptureFile(o, s)
    PROVE  IInv'
<1>1. /\ TypeOK /\ LockExclusive /\ WritesFresh /\ NoncesNameOperators /\ ReleasesTheDead
      /\ TransactionsLock /\ CapturesHeld /\ InputOnlyWhileOpen /\ CapturesStayExact
  BY DEF IInv
<1>2. /\ UNCHANGED <<marker, state, target, registryLock, storeLock, alive, call, held, claim, minted>>
      /\ captured' = [captured EXCEPT ![s] = o] /\ changed' = [changed EXCEPT ![s] = FALSE]
      /\ storeLock[s] = NoOperator
  BY DEF CaptureFile, witness, locks
<1>3. state.phase \in HeldPhase /\ state.operator = o
  BY <1>1, CurrentHold, CompletePhases DEF CaptureFile, Expected, NoncesNameOperators
<1>4. /\ captured' \in [Store -> Operator \cup {NoOperator}] /\ captured'[s] = o
      /\ changed' \in [Store -> BOOLEAN]
      /\ \A t \in Store : t # s => captured'[t] = captured[t]
      /\ \A t \in Store : changed'[t] => changed[t]
  BY <1>1, <1>2, Types
<1>5. TypeOK'
  BY <1>1, <1>2, <1>4 DEF TypeOK
<1>6. CapturesHeld'
  <2>1. \A q \in Process : ~ (call[q].step = "committing" /\ call[q].use = s)
    BY <1>1, <1>2, OperatorAssumption DEF TransactionsLock, OperatorAssumption
  <2>2. \A t \in Store : captured'[t] # NoOperator =>
          state.phase \in HeldPhase /\ state.operator = captured'[t]
    BY <1>1, <1>3, <1>4 DEF CapturesHeld
  <2>3. \A q \in Process :
          call[q].step = "committing" /\ call[q].use = "holder_written" =>
             captured'["holder_written"] \in {NoOperator, claim[q].from}
    BY <1>1, <1>4, <2>1 DEF CapturesHeld, Store
  <2>. QED
    BY <1>2, <2>2, <2>3 DEF CapturesHeld
<1>7. CapturesStayExact'
  BY <1>1, <1>4 DEF CapturesStayExact, Store
<1>8. LockExclusive' /\ InputOnlyWhileOpen'
  BY <1>1, <1>2 DEF LockExclusive, InputOnlyWhileOpen, Borrowers
<1>9. WritesFresh' /\ NoncesNameOperators'
  BY <1>1, <1>2 DEF WritesFresh, NoncesNameOperators
<1>10. ReleasesTheDead' /\ TransactionsLock'
  BY <1>1, <1>2 DEF ReleasesTheDead, TransactionsLock
<1>. QED
  BY <1>5, <1>6, <1>7, <1>8, <1>9, <1>10 DEF IInv

LEMMA StutterInv == IInv /\ UNCHANGED vars => IInv'
<1>. SUFFICES ASSUME IInv, UNCHANGED vars PROVE IInv'
  OBVIOUS
<1>1. UNCHANGED <<marker, state, target, registryLock, storeLock, alive, call, held, claim, minted,
                  captured, changed>>
  BY DEF vars, witness, locks, capture
<1>2. TypeOK'
  BY <1>1 DEF IInv, TypeOK
<1>3. LockExclusive' /\ InputOnlyWhileOpen'
  BY <1>1 DEF IInv, LockExclusive, InputOnlyWhileOpen, Borrowers
<1>4. WritesFresh' /\ NoncesNameOperators'
  BY <1>1 DEF IInv, WritesFresh, NoncesNameOperators
<1>5. ReleasesTheDead' /\ TransactionsLock'
  BY <1>1 DEF IInv, ReleasesTheDead, TransactionsLock
<1>6. CapturesHeld' /\ CapturesStayExact'
  BY <1>1 DEF IInv, CapturesHeld, CapturesStayExact
<1>. QED
  BY <1>2, <1>3, <1>4, <1>5, <1>6 DEF IInv

\* Every step keeps the invariant.
LEMMA NextInv == IInv /\ [Next]_vars => IInv'
<1>. SUFFICES ASSUME IInv, [Next]_vars PROVE IInv'
  OBVIOUS
<1>1. ASSUME NEW o \in Operator,
             \/ Begin(o) \/ Retarget(o) \/ HeldBy(o)
             \/ \E phase \in {"paused", "installing", "ready"} : AdvancePhase(o, phase)
             \/ \E s \in Store : CaptureFile(o, s)
      PROVE  IInv'
  BY <1>1, OperatorInv, HeldByInv, CaptureFileInv
<1>2. ASSUME NEW p \in Caller,
             \/ WriteTarget(p) \/ WriteMarker(p) \/ WriteState(p) \/ WriteRaises(p)
             \/ ObserveDead(p) \/ ReleaseDead(p) \/ ReleaseOvertaken(p) \/ Die(p)
      PROVE  IInv'
  BY <1>2, WriteFileInv, WriteStateInv, WriteRaisesInv, ObserveDeadInv, ReleaseDeadInv,
     ReleaseOvertakenInv, DieInv
<1>3. ASSUME NEW p \in Process,
             \/ CheckTransaction(p) \/ CommitTransaction(p) \/ Admit(p) \/ EndInput(p)
             \/ \E s \in Store : BeginTransaction(p, s)
             \/ \E use \in Input : BeginInput(p, use)
             \/ \E o \in Operator : Inherit(p, o)
      PROVE  IInv'
  BY <1>3, TransactionInv, InputInv, InheritInv
<1>4. CASE UNCHANGED vars
  BY <1>4, StutterInv
<1>. QED
  BY <1>1, <1>2, <1>3, <1>4 DEF Next, Caller

-----------------------------------------------------------------------------
(* Theorems. *)

(***************************************************************************)
(* The inductive invariant holds: rewrites are exclusive and use fresh     *)
(* nonces, a nonce in force names one operator, releases concern the dead, *)
(* and captures belong to the hold on disk.                                *)
(***************************************************************************)
THEOREM Invariance == Spec => []IInv
BY InitInv, NextInv, PTL DEF Spec

(***************************************************************************)
(* The witness, the locks and the calls keep their types; generations and  *)
(* nonces stay within the number of rewrites.                              *)
(***************************************************************************)
THEOREM TypeCorrect == Spec => []TypeOK
<1>1. IInv => TypeOK
  BY DEF IInv
<1>. QED
  BY <1>1, Invariance, PTL

(***************************************************************************)
(* allow_input and ingress_async: while a process borrows permission the   *)
(* witness is complete and open to it, whoever rewrites, crashes or is     *)
(* released meanwhile.                                                     *)
(***************************************************************************)
THEOREM InputsAdmittedWhileOpen == Spec => []InputOnlyWhileOpen
<1>1. IInv => InputOnlyWhileOpen
  BY DEF IInv
<1>. QED
  BY <1>1, Invariance, PTL

(***************************************************************************)
(* capture_file under writers_drained: a holder-written file that an       *)
(* install captured is not changed by any other process under that hold.   *)
(***************************************************************************)
THEOREM CapturesExact == Spec => []CapturesStayExact
<1>1. IInv => CapturesStayExact
  BY DEF IInv
<1>. QED
  BY <1>1, Invariance, PTL

\* Only the last replacement changes the state file, and its writer owns the hold on disk.
LEMMA LiveHoldStep == IInv /\ IInv' /\ [Next]_vars => KeepsLiveHold
<1>. SUFFICES ASSUME IInv, IInv', [Next]_vars, state.phase \in HeldPhase, state.operator \in alive
              PROVE  /\ state' = state \/ registryLock = state.operator
                     /\ state' = state => Current'.phase \notin OpenPhase
  BY DEF KeepsLiveHold
<1>1. state' = state \/ \E p \in Caller : WriteState(p)
  BY DEF Next, vars, witness, Caller, Begin, Retarget, AdvancePhase, HeldBy, CaptureFile, Rewrite,
     WriteTarget, WriteMarker, WriteRaises, ObserveDead, ReleaseDead, ReleaseOvertaken, Die,
     CheckTransaction, CommitTransaction, Admit, EndInput, BeginTransaction, BeginInput, Inherit
<1>2. ASSUME NEW p \in Caller, WriteState(p)
      PROVE  registryLock = state.operator
  BY <1>2 DEF WriteState, IInv, LockExclusive, WritesFresh, Writing
<1>3. ASSUME state' = state
      PROVE  Current'.phase \notin OpenPhase
  <2>1. TypeOK' /\ NoncesNameOperators'
    BY DEF IInv
  <2>2. (TypeOK /\ NoncesNameOperators)' =>
          (Current.phase # "incomplete" => Current.phase = state.phase)'
    BY CurrentHold, PTL
  <2>. QED
    BY <1>3, <2>1, <2>2, CompletePhases
<1>. QED
  BY <1>1, <1>2, <1>3

(***************************************************************************)
(* begin, retarget, advance and release_dead: the hold of a live operator  *)
(* is replaced by that operator only, and ingress does not reopen before   *)
(* the operator replaced the state file.                                   *)
(***************************************************************************)
THEOREM LiveHoldsKept == Spec => LiveHoldIsKept
BY LiveHoldStep, Invariance, PTL DEF Spec, LiveHoldIsKept
=============================================================================
