------------------------- MODULE GoalAttemptsProofs -------------------------
(* Launches, grants, the inductive invariant, and the safety theorems of the ledger. *)
EXTENDS GoalAttemptsLedger

\* A leaf that names no prover is for Zenon; arithmetic and records go to SMT.
USE ZenonT(30)

-----------------------------------------------------------------------------
(* Launches.  At most one caller acts for an attempt, from its reservation   *)
(* on, and the attempt of a running turn stays claimed until that caller     *)
(* settles it or the goal is cancelled.                                      *)

\* A step that starts no reservation and launches nothing.
LaunchFrame ==
    /\ UNCHANGED launches
    /\ \A a \in AttemptId : Recorded(a) =>
         /\ Recorded(a)'
         /\ attempts'[a].goal = attempts[a].goal
         /\ attempts'[a].generation = attempts[a].generation
         /\ attempts[a].phase # "reserved" => attempts'[a].phase # "reserved"
    /\ \A d \in Caller : Reserving(d)' =>
         /\ Reserving(d)
         /\ call'[d].attempt = call[d].attempt
         /\ call'[d].goal = call[d].goal
         /\ call'[d].generation = call[d].generation
         /\ (call'[d].step = "launched") = (call[d].step = "launched")
    /\ \A d \in Caller : call'[d].step = "launched" /\ call[d].step = "launched"
         /\ attempts[call[d].attempt].phase = "claimed" =>
           \/ attempts'[call[d].attempt].phase = "claimed"
           \/ generations'[call[d].goal].lifecycle = "cancelled"

LEMMA LaunchFramePreserves ==
    ASSUME TypeInv, LaunchInv, SettledStep, LaunchFrame
    PROVE  LaunchInv'
  <1>1. \A a \in AttemptId : launches'[a] # 0 =>
          launches'[a] = 1 /\ Recorded(a)' /\ attempts'[a].phase # "reserved"
    BY DEF LaunchFrame, LaunchInv
  <1>2. ASSUME NEW d \in Caller PROVE CallAgrees(d)'
    <2>1. Reserving(d) => call[d].attempt \in AttemptId
      BY DEF Reserving, TypeInv, CallShape
    <2>2. CASE ~Reserving(d)'
      BY <2>2 DEF CallAgrees, Reserving, ReservationSteps
    <2>3. CASE Reserving(d)'
      <3>1. Reserving(d) /\ CallAgrees(d) /\ call[d].goal \in GoalId
        BY <2>3 DEF LaunchFrame, LaunchInv, TypeInv, CallShape, Reserving, ReservationSteps
      <3>2. generations[call[d].goal].lifecycle = "cancelled" =>
              generations'[call[d].goal].lifecycle = "cancelled"
        BY <3>1 DEF SettledStep
      <3> QED BY <2>1, <2>3, <3>1, <3>2 DEF LaunchFrame, CallAgrees
    <2> QED BY <2>2, <2>3
  <1>3. \A c, d \in Caller :
          Reserving(c)' /\ Reserving(d)' /\ call'[c].attempt = call'[d].attempt => c = d
    BY DEF LaunchFrame, LaunchInv
  <1>4. \A c \in Caller : call'[c].step = "launched" =>
          call[c].step = "launched" /\ call'[c].goal = call[c].goal
    BY DEF LaunchFrame, Reserving, ReservationSteps
  <1>5. AtMostOneRunningTurn'
    BY SMTT(30), <1>4 DEF LaunchInv, AtMostOneRunningTurn
  <1> QED BY <1>1, <1>2, <1>3, <1>5 DEF LaunchInv

\* A caller that leaves for a step outside the reservation sequence.
LEMMA CallerLeaves ==
    ASSUME TypeInv, NEW c \in Caller, NEW k \in CallStates, k.step \notin ReservationSteps,
           call' = [call EXCEPT ![c] = k]
    PROVE  \A d \in Caller : Reserving(d)' => d # c /\ call'[d] = call[d]
  BY DEF TypeInv, TypeOK, Reserving

\* An attempt advances and nobody but the leaving caller was acting for it.
LEMMA SettlingFrame ==
    ASSUME TypeInv, NEW c \in Caller, NEW a \in AttemptId, NEW p \in Phase, NEW r,
           AdvanceAttempt(a, p, r), p \notin {"unrecorded", "reserved"}, UNCHANGED launches,
           \A d \in Caller : Reserving(d)' => d # c /\ call'[d] = call[d],
           \A d \in Caller : d # c /\ call[d].step = "launched" /\ call[d].attempt = a =>
               generations'[call[d].goal].lifecycle = "cancelled"
    PROVE  LaunchFrame
  <1>1. \A b \in AttemptId : b # a => attempts'[b] = attempts[b]
    BY DEF AdvanceAttempt, TypeInv, TypeOK
  <1>2. /\ attempts'[a].goal = attempts[a].goal
        /\ attempts'[a].generation = attempts[a].generation
        /\ attempts'[a].phase = p
    BY SMTT(30) DEF AdvanceAttempt, TypeInv, TypeOK, AttemptRows
  <1>3. \A d \in Caller : call[d].step = "launched" => call[d].attempt \in AttemptId
    BY DEF TypeInv, CallShape, ReservationSteps
  <1>4. \A d \in Caller : call'[d].step = "launched" => Reserving(d)'
    BY DEF Reserving, ReservationSteps
  <1>5. \A b \in AttemptId : Recorded(b) =>
          /\ Recorded(b)'
          /\ attempts'[b].goal = attempts[b].goal
          /\ attempts'[b].generation = attempts[b].generation
          /\ attempts[b].phase # "reserved" => attempts'[b].phase # "reserved"
    BY <1>1, <1>2 DEF Recorded
  <1>6. \A d \in Caller : call'[d].step = "launched" /\ call[d].step = "launched"
          /\ attempts[call[d].attempt].phase = "claimed" =>
            \/ attempts'[call[d].attempt].phase = "claimed"
            \/ generations'[call[d].goal].lifecycle = "cancelled"
    BY <1>1, <1>3, <1>4
  <1>7. \A d \in Caller : Reserving(d)' => Reserving(d)
    BY DEF Reserving
  <1> QED BY <1>5, <1>6, <1>7 DEF LaunchFrame

\* Nothing is advanced, and callers only leave or move along inside the
\* reservation sequence.
LEMMA QuietFrame ==
    ASSUME UNCHANGED <<launches, attempts>>,
           \A d \in Caller : Reserving(d)' =>
               /\ Reserving(d)
               /\ call'[d].attempt = call[d].attempt
               /\ call'[d].goal = call[d].goal
               /\ call'[d].generation = call[d].generation
               /\ (call'[d].step = "launched") = (call[d].step = "launched")
    PROVE  LaunchFrame
  BY DEF LaunchFrame, Recorded

\* Every step but reserve and the return of a permit starts and launches nothing.
LEMMA FramedStep ==
    ASSUME TypeInv, LedgerInv, LaunchInv, [Next]_vars
    PROVE  \/ LaunchFrame
           \/ \E c \in Caller : AttestClaim(c) \/ \E a \in AttemptId : Reserve(c, a)
  <1>00. \A c \in Caller : call[c] \in CallStates
    BY DEF TypeInv, TypeOK
  <1>1. ASSUME NEW c \in Caller, NEW g \in GoalId, NEW n \in Nat, NEW grant \in Grant,
               NEW st \in {"attest_ready", "attest_recovered"}, ReadyChange(c, g, n, grant, st)
        PROVE  /\ \A d \in Caller : Reserving(d)' => d # c /\ call'[d] = call[d]
               /\ UNCHANGED launches
    <2>1. CallState(st, g, n, NoAttemptId, grant) \in CallStates
      BY CallStateType DEF Steps
    <2>2. CallState(st, g, n, NoAttemptId, grant).step \notin ReservationSteps
      BY DEF CallState, ReservationSteps
    <2> QED BY <1>1, <2>1, <2>2, CallerLeaves DEF ReadyChange, history
  <1>2. \A g \in GoalId : generations[g].number \in Nat /\ generations[g].number + 1 \in Nat
    BY SMTT(30) DEF TypeInv, TypeOK, GenerationRows
  <1>3. ASSUME NEW c \in Caller, NEW k \in CallStates, k.step \notin ReservationSteps,
               call' = [call EXCEPT ![c] = k], UNCHANGED <<launches, attempts>>
        PROVE  LaunchFrame
    <2>1. \A d \in Caller : Reserving(d)' => d # c /\ call'[d] = call[d]
      BY <1>3, CallerLeaves
    <2>2. \A d \in Caller : Reserving(d)' => Reserving(d)
      BY <2>1 DEF Reserving
    <2> QED BY <1>3, <2>1, <2>2, QuietFrame
  <1>4. ASSUME NEW c \in Caller, NEW g \in GoalId, NEW grant \in Grant,
               CreateGoal(c, g, grant) \/ RecoverUnreservedReady(c, g, grant)
        PROVE  LaunchFrame
    <2>1. \A d \in Caller : Reserving(d)' => d # c /\ call'[d] = call[d]
      BY <1>1, <1>2, <1>4 DEF CreateGoal, RecoverUnreservedReady
    <2>2. UNCHANGED <<launches, attempts>>
      BY <1>4 DEF CreateGoal, RecoverUnreservedReady, ReadyChange, history
    <2>3. \A d \in Caller : Reserving(d)' => Reserving(d)
      BY <2>1 DEF Reserving
    <2> QED BY <2>1, <2>2, <2>3, QuietFrame
  <1>5. ASSUME NEW c \in Caller, NEW g \in GoalId, NEW decision \in WorkDecision,
               NEW grant \in Grant, AuthorizeReadyRecovery(c, g, decision, grant)
        PROVE  LaunchFrame
    <2>1. \A d \in Caller : Reserving(d)' => d # c /\ call'[d] = call[d]
      BY <1>1, <1>2, <1>5 DEF AuthorizeReadyRecovery
    <2>2. UNCHANGED <<launches, attempts>>
      BY <1>5 DEF AuthorizeReadyRecovery, ReadyChange, history
    <2>3. \A d \in Caller : Reserving(d)' => Reserving(d)
      BY <2>1 DEF Reserving
    <2> QED BY <2>1, <2>2, <2>3, QuietFrame
  <1>6. ASSUME NEW c \in Caller, NEW g \in GoalId, NEW decision \in WorkDecision,
               NEW grant \in Grant, AuthorizeRetry(c, g, decision, grant)
        PROVE  LaunchFrame
    <2> DEFINE a == generations[g].attempt
    <2>1. /\ \A d \in Caller : Reserving(d)' => d # c /\ call'[d] = call[d]
          /\ UNCHANGED launches
      BY <1>1, <1>2, <1>6 DEF AuthorizeRetry
    <2>2. /\ a \in AttemptId /\ attempts[a].phase = "failed" /\ attempts[a].goal = g
          /\ AdvanceAttempt(a, "resolved", "decided") /\ generations[g].lifecycle = "blocked"
      BY <1>6 DEF AuthorizeRetry, TypeInv, RowShape
    <2>3. \A d \in Caller : call[d].step = "launched" => call[d].attempt # a
      BY SMTT(30), <2>2 DEF LaunchInv, CallAgrees, Reserving, ReservationSteps
    <2> QED BY SMTT(30), <2>1, <2>2, <2>3, SettlingFrame DEF Phase
  <1>7. ASSUME NEW c \in Caller, NEW g \in GoalId, NEW grant \in Grant,
               StopReleasedOwner(c, g, grant)
        PROVE  LaunchFrame
    <2> DEFINE a == generations[g].attempt
    <2>1. a \in AttemptId /\ AdvanceReady(c, g, a, "failed", "stopped", grant)
      BY <1>7 DEF StopReleasedOwner, TypeInv, RowShape
    <2>2. \A d \in Caller : call[d].attempt # a
      BY <1>7 DEF StopReleasedOwner, OwnerExited
    <2>3. /\ \A d \in Caller : Reserving(d)' => d # c /\ call'[d] = call[d]
          /\ UNCHANGED launches
          /\ AdvanceAttempt(a, "failed", "stopped")
      BY <1>1, <1>2, <2>1 DEF AdvanceReady
    <2> QED BY SMTT(30), <2>1, <2>2, <2>3, SettlingFrame DEF Phase
  <1>8. ASSUME NEW c \in Caller, Holding(c)
        PROVE  /\ call[c].goal \in GoalId /\ call[c].attempt \in AttemptId
               /\ \A d \in Caller : d # c /\ call[d].step = "launched" =>
                    call[d].attempt # call[c].attempt
    BY <1>8 DEF Holding, TypeInv, CallShape, LaunchInv, Reserving, ReservationSteps
  <1>9. ASSUME NEW c \in Caller, NEW grant \in Grant,
               RecordVerifiedProgress(c, grant) \/ Stop(c, grant)
        PROVE  LaunchFrame
    <2>1. PICK p \in {"succeeded", "failed"}, r \in Resolution :
            Holding(c) /\ AdvanceReady(c, call[c].goal, call[c].attempt, p, r, grant)
      BY <1>9 DEF RecordVerifiedProgress, Stop, Resolution
    <2>2. /\ \A d \in Caller : Reserving(d)' => d # c /\ call'[d] = call[d]
          /\ UNCHANGED launches
          /\ AdvanceAttempt(call[c].attempt, p, r)
      BY <1>1, <1>2, <1>8, <2>1 DEF AdvanceReady
    <2> QED BY SMTT(30), <1>8, <2>1, <2>2, SettlingFrame DEF Phase
  <1>10. ASSUME NEW c \in Caller, RecordVerifiedCompletion(c) \/ Fail(c)
         PROVE  LaunchFrame
    <2>1. PICK p \in {"succeeded", "failed"}, r \in Resolution :
            /\ Holding(c) /\ AdvanceAttempt(call[c].attempt, p, r)
            /\ call' = [call EXCEPT ![c] = Idle] /\ UNCHANGED launches
      BY <1>10 DEF RecordVerifiedCompletion, Fail, history, Resolution
    <2>2. \A d \in Caller : Reserving(d)' => d # c /\ call'[d] = call[d]
      BY <2>1, CallerLeaves, IdleFacts DEF ReservationSteps
    <2> QED BY SMTT(30), <1>8, <2>1, <2>2, SettlingFrame DEF Phase
  <1>11. ASSUME NEW c \in Caller, NEW g \in GoalId, RetireGoal(c, g)
         PROVE  LaunchFrame
    <2> DEFINE row == generations[g]
               k == CallState("attest_retire", g, row.number, row.attempt, NoGrant)
    <2>1. k \in CallStates /\ k.step \notin ReservationSteps
      <3>1. row.number \in Nat /\ row.attempt \in AttemptId \cup {NoAttemptId}
        BY DEF TypeInv, TypeOK, GenerationRows
      <3>2. k.step = "attest_retire"
        BY DEF CallState
      <3>3. k \in CallStates
        BY <3>1, CallStateType DEF Steps
      <3> QED BY <3>2, <3>3 DEF ReservationSteps
    <2>2. call' = [call EXCEPT ![c] = k] /\ UNCHANGED launches
      BY <1>11 DEF RetireGoal, history
    <2>3. CASE row.attempt = NoAttemptId
      BY <1>3, <1>11, <2>1, <2>2, <2>3 DEF RetireGoal, RetireAttempt
    <2>4. CASE row.attempt # NoAttemptId
      <3>1. /\ row.attempt \in AttemptId /\ attempts[row.attempt].goal = g
            /\ AdvanceAttempt(row.attempt, "resolved", "cleared")
        BY <1>11, <2>4 DEF RetireGoal, RetireAttempt, TypeInv, TypeOK, GenerationRows
      <3>2. generations'[g].lifecycle = "cancelled"
        BY SMTT(30), <1>11, GenerationFields DEF RetireGoal, Advance, TypeInv, TypeOK
      <3>3. \A d \in Caller : call[d].step = "launched" /\ call[d].attempt = row.attempt =>
              call[d].goal = g
        BY <3>1 DEF LaunchInv, CallAgrees, Reserving, ReservationSteps
      <3>4. \A d \in Caller : Reserving(d)' => d # c /\ call'[d] = call[d]
        <4> HIDE DEF k
        <4> QED BY <2>1, <2>2, CallerLeaves
      <3> QED BY SMTT(30), <2>2, <3>1, <3>2, <3>3, <3>4, SettlingFrame DEF Phase
    <2> QED BY <2>3, <2>4
  <1>12. ASSUME NEW c \in Caller, ClaimLaunch(c)
         PROVE  LaunchFrame
    <2> DEFINE a == call[c].attempt
    <2>1. /\ a \in AttemptId /\ attempts[a].phase = "reserved" /\ UNCHANGED launches
          /\ AdvanceAttempt(a, "claimed", "none") /\ call[c].step = "reserved"
          /\ call' = [call EXCEPT ![c] = [call[c] EXCEPT !.step = "attest_claim"]]
      BY <1>12 DEF ClaimLaunch, IsCurrent, TypeInv, CallShape, ReservationSteps, history
    <2>2. /\ \A d \in Caller : d # c => call'[d] = call[d]
          /\ call'[c].step = "attest_claim" /\ call'[c].attempt = call[c].attempt
          /\ call'[c].goal = call[c].goal /\ call'[c].generation = call[c].generation
      BY <1>00, <2>1 DEF TypeInv, TypeOK, CallStates
    <2>3. /\ \A b \in AttemptId : b # a => attempts'[b] = attempts[b]
          /\ attempts'[a].goal = attempts[a].goal
          /\ attempts'[a].generation = attempts[a].generation
          /\ attempts'[a].phase = "claimed"
      BY SMTT(30), <2>1 DEF AdvanceAttempt, TypeInv, TypeOK, AttemptRows
    <2>4. \A d \in Caller : call[d].step = "launched" => call[d].attempt \in AttemptId
      BY DEF TypeInv, CallShape, ReservationSteps
    <2> HIDE DEF a
    <2>5. \A b \in AttemptId : Recorded(b) =>
            /\ Recorded(b)'
            /\ attempts'[b].goal = attempts[b].goal
            /\ attempts'[b].generation = attempts[b].generation
            /\ attempts[b].phase # "reserved" => attempts'[b].phase # "reserved"
      BY <2>1, <2>3 DEF Recorded
    <2>6. \A d \in Caller : Reserving(d)' =>
            /\ Reserving(d)
            /\ call'[d].attempt = call[d].attempt
            /\ call'[d].goal = call[d].goal
            /\ call'[d].generation = call[d].generation
            /\ (call'[d].step = "launched") = (call[d].step = "launched")
      BY <2>1, <2>2 DEF Reserving, ReservationSteps
    <2>7. \A d \in Caller : call'[d].step = "launched" /\ call[d].step = "launched"
            /\ attempts[call[d].attempt].phase = "claimed" =>
              attempts'[call[d].attempt].phase = "claimed"
      BY <2>3, <2>4
    <2> QED BY <2>1, <2>5, <2>6, <2>7 DEF LaunchFrame
  <1>13. ASSUME NEW c \in Caller, AttestReserve(c)
         PROVE  LaunchFrame
    <2>1. /\ \A d \in Caller : d # c => call'[d] = call[d]
          /\ call[c].step = "attest_reserve" /\ call'[c].step = "reserved"
          /\ call'[c].attempt = call[c].attempt
          /\ call'[c].goal = call[c].goal /\ call'[c].generation = call[c].generation
      BY <1>00, <1>13 DEF AttestReserve, TypeInv, TypeOK, CallStates
    <2>2. UNCHANGED <<launches, attempts>>
      BY <1>13 DEF AttestReserve, ledger, history
    <2>3. \A d \in Caller : Reserving(d)' =>
            /\ Reserving(d)
            /\ call'[d].attempt = call[d].attempt
            /\ call'[d].goal = call[d].goal
            /\ call'[d].generation = call[d].generation
            /\ (call'[d].step = "launched") = (call[d].step = "launched")
      BY <2>1 DEF Reserving, ReservationSteps
    <2> QED BY <2>2, <2>3, QuietFrame
  <1>14. ASSUME NEW c \in Caller, AttestRetire(c) \/ Raise(c)
         PROVE  LaunchFrame
    BY <1>3, <1>14, IdleFacts DEF AttestRetire, Raise, ledger, history, ReservationSteps
  <1>15. ASSUME NEW c \in Caller, AttestReady(c)
         PROVE  LaunchFrame
    <2>1. PICK k \in CallStates : k.step \notin ReservationSteps /\ call' = [call EXCEPT ![c] = k]
      <3>1. [call[c] EXCEPT !.step = "granted"] \in CallStates
        BY <1>00 DEF CallStates, Steps
      <3>2. [call[c] EXCEPT !.step = "granted"].step = "granted"
        BY <1>00 DEF CallStates
      <3> QED BY <1>15, <3>1, <3>2, IdleFacts DEF AttestReady, ReservationSteps
    <2> QED BY <1>3, <1>15, <2>1 DEF AttestReady, ledger
  <1>16. ASSUME NEW c \in Caller, NEW g \in GoalId, ReadyGrant(c, g)
         PROVE  LaunchFrame
    <2>1. PICK e \in GrantEntries :
            call' = [call EXCEPT ![c] =
              CallState("granted", g, e.generation, NoAttemptId, e.grant)]
      BY <1>16, StoreOfAssumption DEF ReadyGrant, TypeInv, TypeOK
    <2>2. CallState("granted", g, e.generation, NoAttemptId, e.grant) \in CallStates
      BY CallStateType DEF GrantEntries, Steps
    <2>3. CallState("granted", g, e.generation, NoAttemptId, e.grant).step \notin ReservationSteps
      BY DEF CallState, ReservationSteps
    <2> QED BY <1>3, <1>16, <2>1, <2>2, <2>3 DEF ReadyGrant, ledger, history
  <1>17. ASSUME NEW c \in Caller, NEW response \in UsageChargeId, RecordProviderUsage(c, response)
         PROVE  LaunchFrame
    BY <1>17, QuietFrame DEF RecordProviderUsage, history, Reserving
  <1>18. ASSUME NEW s \in Store, Crash(s)
         PROVE  LaunchFrame
    <2>1. \A d \in Caller : Reserving(d)' => call'[d] = call[d]
      BY <1>18, IdleFacts DEF Crash, Reserving, ReservationSteps
    <2>2. \A d \in Caller : Reserving(d)' => Reserving(d)
      BY <2>1 DEF Reserving
    <2> QED BY <1>18, <2>1, <2>2, QuietFrame DEF Crash, ledger, history
  <1>19. ASSUME UNCHANGED vars PROVE LaunchFrame
    BY <1>19, QuietFrame DEF vars, ledger, history, Reserving
  <1> QED
    BY <1>4, <1>5, <1>6, <1>7, <1>9, <1>10, <1>11, <1>12, <1>13, <1>14, <1>15, <1>16,
       <1>17, <1>18, <1>19
       DEF Next, CallerStep

LEMMA LaunchStep == TypeInv /\ LedgerInv /\ LaunchInv /\ [Next]_vars => LaunchInv'
  <1> SUFFICES ASSUME TypeInv, LedgerInv, LaunchInv, [Next]_vars PROVE LaunchInv'
    OBVIOUS
  <1>0. LaunchFrame => LaunchInv'
    BY SettledNext, LaunchFramePreserves
  <1>00. \A c \in Caller : call[c] \in CallStates
    BY DEF TypeInv, TypeOK
  <1>1. ASSUME NEW c \in Caller, NEW a \in AttemptId, Reserve(c, a)
         PROVE  LaunchInv'
    <2> DEFINE g == call[c].goal
               n == call[c].generation
    <2>1. /\ ~Recorded(a) /\ g \in GoalId /\ call[c].step = "granted"
          /\ UNCHANGED launches /\ launches[a] = 0
      BY SMTT(30), <1>1 DEF Reserve, Recorded, NoAttempt, AttemptRecord, TypeInv, CallShape, LaunchInv
    <2>2. /\ attempts'[a] = AttemptRecord(g, n, "reserved", "none")
          /\ \A b \in AttemptId : b # a => attempts'[b] = attempts[b]
      BY <1>1 DEF Reserve, TypeInv, TypeOK
    <2>3. /\ \A d \in Caller : d # c => call'[d] = call[d]
          /\ call'[c].step = "attest_reserve" /\ call'[c].attempt = a
          /\ call'[c].goal = g /\ call'[c].generation = n
      BY <1>00, <1>1 DEF Reserve, TypeInv, TypeOK, CallStates
    <2>4. \A d \in Caller : Reserving(d) => call[d].attempt \in AttemptId /\ call[d].attempt # a
      BY <2>1 DEF LaunchInv, CallAgrees, TypeInv, CallShape, Reserving
    <2>5. \A h \in GoalId : generations[h].lifecycle = "cancelled" =>
            generations'[h].lifecycle = "cancelled"
      BY SettledNext DEF SettledStep
    <2> HIDE DEF g, n
    <2>6. \A b \in AttemptId : launches'[b] # 0 =>
            launches'[b] = 1 /\ Recorded(b)' /\ attempts'[b].phase # "reserved"
      BY <2>1, <2>2 DEF LaunchInv, Recorded
    <2>7. ASSUME NEW d \in Caller PROVE CallAgrees(d)'
      <3>1. CASE d = c
        <4>1. attempts'[a].phase = "reserved" /\ attempts'[a].goal = g /\ attempts'[a].generation = n
          BY SMTT(30), <2>2 DEF AttemptRecord
        <4> QED BY <2>1, <2>3, <3>1, <4>1 DEF CallAgrees, Recorded, Reserving
      <3>2. CASE d # c
        <4>1. call[d].step = "launched" => call[d].goal \in GoalId
          BY DEF TypeInv, CallShape
        <4> QED BY SMTT(30), <2>1, <2>2, <2>3, <2>4, <2>5, <3>2, <4>1
                  DEF LaunchInv, CallAgrees, Recorded, Reserving, ReservationSteps
      <3> QED BY <3>1, <3>2
    <2>8. \A d, e \in Caller :
            Reserving(d)' /\ Reserving(e)' /\ call'[d].attempt = call'[e].attempt => d = e
      BY <2>3, <2>4 DEF LaunchInv, Reserving
    <2>9. AtMostOneRunningTurn'
      BY SMTT(30), <2>3 DEF LaunchInv, AtMostOneRunningTurn
    <2> QED BY <2>6, <2>7, <2>8, <2>9 DEF LaunchInv
  <1>2. ASSUME NEW c \in Caller, AttestClaim(c)
         PROVE  LaunchInv'
    <2> DEFINE g == call[c].goal
               a == call[c].attempt
    <2>1. /\ a \in AttemptId /\ g \in GoalId /\ Reserving(c) /\ call[c].step = "attest_claim"
          /\ attempts[a].phase = "claimed" /\ generations[g].lifecycle = "reserved"
          /\ attempts[a].goal = g /\ generations[g].attempt = a
          /\ UNCHANGED <<generations, attempts>>
      BY SMTT(30), <1>2, GenerationFields
         DEF AttestClaim, IsCurrent, TypeInv, CallShape, Reserving, ReservationSteps, ledger
    <2>2. launches[a] = 0
      BY <2>1 DEF LaunchInv, CallAgrees
    <2>3. launches'[a] = 1 /\ \A b \in AttemptId : b # a => launches'[b] = launches[b]
      BY SMTT(30), <1>2, <2>1, <2>2 DEF AttestClaim, TypeInv, TypeOK
    <2>4. /\ \A d \in Caller : d # c => call'[d] = call[d]
          /\ call'[c].step = "launched" /\ call'[c].attempt = a
          /\ call'[c].goal = g /\ call'[c].generation = call[c].generation
      BY <1>00, <1>2 DEF AttestClaim, TypeInv, TypeOK, CallStates
    <2>5. \A d \in Caller : d # c /\ Reserving(d) => call[d].attempt # a
      BY <2>1 DEF LaunchInv
    <2>6. \A d \in Caller : Reserving(d) => call[d].attempt \in AttemptId
      BY DEF TypeInv, CallShape, Reserving
    <2> HIDE DEF g, a
    <2>7. \A b \in AttemptId : launches'[b] # 0 =>
            launches'[b] = 1 /\ Recorded(b)' /\ attempts'[b].phase # "reserved"
      BY <2>1, <2>3 DEF LaunchInv, Recorded
    <2>8. ASSUME NEW d \in Caller PROVE CallAgrees(d)'
      <3>1. CASE d = c
        BY <2>1, <2>4, <3>1 DEF LaunchInv, CallAgrees, Reserving, Recorded, g, a
      <3>2. CASE d # c
        BY SMTT(30), <2>1, <2>3, <2>4, <2>5, <2>6, <3>2 DEF LaunchInv, CallAgrees, Reserving, Recorded
      <3> QED BY <3>1, <3>2
    <2>9. \A d, e \in Caller :
            Reserving(d)' /\ Reserving(e)' /\ call'[d].attempt = call'[e].attempt => d = e
      BY SMTT(30), <2>4, <2>5 DEF LaunchInv, Reserving
    <2>10. ASSUME NEW d \in Caller, d # c, call[d].step = "launched"
           PROVE  call[d].goal # g
      <3>1. Reserving(d) /\ call[d].attempt \in AttemptId /\ call[d].attempt # a
        BY <2>5, <2>6, <2>10 DEF Reserving, ReservationSteps
      <3>2. /\ attempts[call[d].attempt].goal = call[d].goal
            /\ \/ attempts[call[d].attempt].phase = "claimed"
               \/ generations[call[d].goal].lifecycle = "cancelled"
        BY <2>10, <3>1 DEF LaunchInv, CallAgrees
      <3> QED BY SMTT(30), <2>1, <3>1, <3>2, UnresolvedHoldsRow DEF Unresolved
    <2>11. AtMostOneRunningTurn'
      BY SMTT(30), <2>4, <2>10 DEF LaunchInv, AtMostOneRunningTurn
    <2> QED BY <2>7, <2>8, <2>9, <2>11 DEF LaunchInv
  <1> QED BY <1>0, <1>1, <1>2, FramedStep

-----------------------------------------------------------------------------
(* Grants. *)

\* Nobody learns a grant and nothing is reserved.
GrantFrame ==
    /\ UNCHANGED <<published, authority>>
    /\ \A s \in Store : readyGrants'[s] \subseteq readyGrants[s]
    /\ \A c \in Caller : call'[c].step = "granted" => call'[c] = call[c]
    /\ \A a \in AttemptId : Recorded(a)' => Recorded(a)

LEMMA GrantFramePreserves ==
    ASSUME GrantInv, GrantFrame PROVE GrantInv'
  BY DEF GrantInv, GrantFrame, ReservedFromAcknowledgedGrant

LEMMA AdvanceAttemptRecorded ==
    ASSUME TypeInv, NEW a \in AttemptId, NEW p, NEW r, AdvanceAttempt(a, p, r)
    PROVE  \A b \in AttemptId : Recorded(b)' => Recorded(b)
  <1>1. Recorded(a)
    BY SMTT(30) DEF AdvanceAttempt, TypeInv, TypeOK, AttemptRows, Recorded, AttemptSuccessors
  <1> QED BY <1>1 DEF AdvanceAttempt, TypeInv, TypeOK, Recorded

LEMMA GrantStep == TypeInv /\ LedgerInv /\ GrantInv /\ [Next]_vars => GrantInv'
  <1> SUFFICES ASSUME TypeInv, LedgerInv, GrantInv, [Next]_vars PROVE GrantInv'
    OBVIOUS
  <1>0. GrantFrame => GrantInv'
    BY GrantFramePreserves
  <1>00. \A c \in Caller : call[c] \in CallStates
    BY DEF TypeInv, TypeOK
  <1>1. ASSUME NEW c \in Caller, NEW g, NEW n, NEW grant,
               NEW st \in {"attest_ready", "attest_recovered"}, ReadyChange(c, g, n, grant, st)
        PROVE  /\ UNCHANGED <<readyGrants, published, authority>>
               /\ \A d \in Caller : call'[d].step = "granted" => call'[d] = call[d]
    BY <1>1 DEF ReadyChange, memory, history, TypeInv, TypeOK, CallState
  <1>2. ASSUME NEW c \in Caller, NEW k, k.step # "granted", call' = [call EXCEPT ![c] = k]
        PROVE  \A d \in Caller : call'[d].step = "granted" => call'[d] = call[d]
    BY <1>2 DEF TypeInv, TypeOK
  <1>3. ASSUME NEW c \in Caller, NEW g \in GoalId, NEW grant \in Grant,
               CreateGoal(c, g, grant) \/ RecoverUnreservedReady(c, g, grant)
        PROVE  GrantFrame
    <2>1. UNCHANGED attempts
      BY <1>3 DEF CreateGoal, RecoverUnreservedReady
    <2> QED BY <1>1, <1>3, <2>1 DEF CreateGoal, RecoverUnreservedReady, GrantFrame, Recorded
  <1>4. ASSUME NEW c \in Caller, NEW g \in GoalId, NEW decision \in WorkDecision,
               NEW grant \in Grant, AuthorizeReadyRecovery(c, g, decision, grant)
        PROVE  GrantFrame
    BY <1>1, <1>4 DEF AuthorizeReadyRecovery, GrantFrame, Recorded
  <1>5. ASSUME NEW c \in Caller, NEW g \in GoalId, NEW a \in AttemptId, NEW p, NEW r,
               NEW grant \in Grant, AdvanceReady(c, g, a, p, r, grant)
        PROVE  GrantFrame
    BY <1>1, <1>5, AdvanceAttemptRecorded DEF AdvanceReady, GrantFrame
  <1>6. ASSUME NEW c \in Caller, NEW g \in GoalId, NEW decision \in WorkDecision,
               NEW grant \in Grant, AuthorizeRetry(c, g, decision, grant)
        PROVE  GrantFrame
    <2>1. \A b \in AttemptId : Recorded(b)' => Recorded(b)
      BY <1>6, AdvanceAttemptRecorded DEF AuthorizeRetry, TypeInv, RowShape
    <2> QED BY <1>1, <1>6, <2>1 DEF AuthorizeRetry, GrantFrame
  <1>7. ASSUME NEW c \in Caller, NEW g \in GoalId, NEW grant \in Grant,
               StopReleasedOwner(c, g, grant)
        PROVE  GrantFrame
    BY <1>5, <1>7 DEF StopReleasedOwner, TypeInv, RowShape
  <1>8. ASSUME NEW c \in Caller, NEW grant \in Grant,
               RecordVerifiedProgress(c, grant) \/ Stop(c, grant)
        PROVE  GrantFrame
    BY <1>5, <1>8 DEF RecordVerifiedProgress, Stop, Holding, TypeInv, CallShape, ReservationSteps
  <1>9. ASSUME NEW c \in Caller, RecordVerifiedCompletion(c) \/ Fail(c)
        PROVE  GrantFrame
    <2>1. \A b \in AttemptId : Recorded(b)' => Recorded(b)
      BY <1>9, AdvanceAttemptRecorded
         DEF RecordVerifiedCompletion, Fail, Holding, TypeInv, CallShape, ReservationSteps
    <2>2. \A d \in Caller : call'[d].step = "granted" => call'[d] = call[d]
      BY <1>2, <1>9, IdleFacts DEF RecordVerifiedCompletion, Fail
    <2> QED BY <1>9, <2>1, <2>2 DEF RecordVerifiedCompletion, Fail, GrantFrame, memory, history
  <1>10. ASSUME NEW c \in Caller, NEW g \in GoalId, RetireGoal(c, g)
         PROVE  GrantFrame
    <2>1. \A b \in AttemptId : Recorded(b)' => Recorded(b)
      <3>1. CASE generations[g].attempt = NoAttemptId
        BY <1>10, <3>1 DEF RetireGoal, RetireAttempt, Recorded
      <3>2. CASE generations[g].attempt # NoAttemptId
        BY <1>10, <3>2, AdvanceAttemptRecorded
           DEF RetireGoal, RetireAttempt, TypeInv, TypeOK, GenerationRows
      <3> QED BY <3>1, <3>2
    <2>2. \A d \in Caller : call'[d].step = "granted" => call'[d] = call[d]
      BY <1>10 DEF RetireGoal, CallState, TypeInv, TypeOK
    <2> QED BY <1>10, <2>1, <2>2 DEF RetireGoal, GrantFrame, memory, history
  <1>11. ASSUME NEW c \in Caller, ClaimLaunch(c)
         PROVE  GrantFrame
    <2>1. \A b \in AttemptId : Recorded(b)' => Recorded(b)
      BY <1>11, AdvanceAttemptRecorded DEF ClaimLaunch, TypeInv, CallShape, ReservationSteps
    <2>2. \A d \in Caller : call'[d].step = "granted" => call'[d] = call[d]
      BY <1>00, <1>11 DEF ClaimLaunch, TypeInv, TypeOK, CallStates
    <2> QED BY <1>11, <2>1, <2>2 DEF ClaimLaunch, GrantFrame, memory, history
  <1>12. ASSUME NEW c \in Caller, AttestReserve(c) \/ AttestRetire(c)
         PROVE  GrantFrame
    <2>1. \A s \in Store : readyGrants'[s] \subseteq readyGrants[s]
      BY SMTT(30), <1>12 DEF AttestReserve, AttestRetire, Forget, TypeInv, TypeOK
    <2>2. \A d \in Caller : call'[d].step = "granted" => call'[d] = call[d]
      <3>1. CASE AttestReserve(c)
        BY <1>00, <3>1 DEF AttestReserve, TypeInv, TypeOK, CallStates
      <3>2. CASE AttestRetire(c)
        BY <1>2, <3>2, IdleFacts DEF AttestRetire
      <3> QED BY <1>12, <3>1, <3>2
    <2> QED BY <1>12, <2>1, <2>2
              DEF AttestReserve, AttestRetire, GrantFrame, Recorded, ledger, history
  <1>13. ASSUME NEW c \in Caller, AttestClaim(c)
         PROVE  GrantFrame
    <2>1. \A d \in Caller : call'[d].step = "granted" => call'[d] = call[d]
      BY <1>00, <1>13 DEF AttestClaim, TypeInv, TypeOK, CallStates
    <2> QED BY <1>13, <2>1 DEF AttestClaim, GrantFrame, Recorded, ledger
  <1>14. ASSUME NEW c \in Caller, Raise(c)
         PROVE  GrantFrame
    <2>1. \A d \in Caller : call'[d].step = "granted" => call'[d] = call[d]
      BY <1>2, <1>14, IdleFacts DEF Raise
    <2> QED BY <1>14, <2>1 DEF Raise, GrantFrame, Recorded, ledger, history
  <1>15. ASSUME NEW s \in Store, Crash(s)
         PROVE  GrantFrame
    BY <1>15, IdleFacts DEF Crash, GrantFrame, Recorded, ledger, history, TypeInv, TypeOK
  <1>16. ASSUME NEW c \in Caller, NEW response \in UsageChargeId, RecordProviderUsage(c, response)
         PROVE  GrantFrame
    BY <1>16 DEF RecordProviderUsage, GrantFrame, Recorded, memory, history
  <1>17. ASSUME UNCHANGED vars PROVE GrantFrame
    BY <1>17 DEF vars, ledger, memory, history, GrantFrame, Recorded
  <1>18. ASSUME NEW c \in Caller, NEW g \in GoalId, ReadyGrant(c, g)
         PROVE  GrantInv'
    <2>1. PICK e \in readyGrants[StoreOf[c]] :
            call' = [call EXCEPT ![c] =
              CallState("granted", g, e.generation, NoAttemptId, e.grant)]
      BY <1>18 DEF ReadyGrant
    <2>2. e.grant \in published
      BY StoreOfAssumption DEF GrantInv
    <2>3. \A d \in Caller : call'[d].step = "granted" => call'[d].grant \in published
      BY <2>1, <2>2 DEF GrantInv, CallState, TypeInv, TypeOK
    <2> QED BY <1>18, <2>3 DEF ReadyGrant, GrantInv, ReservedFromAcknowledgedGrant, Recorded,
              ledger, memory, history
  <1>19. ASSUME NEW c \in Caller, AttestReady(c)
         PROVE  GrantInv'
    <2>1. published' = published \cup {call[c].grant}
      BY <1>19 DEF AttestReady
    <2>2. \A s \in Store : \A e \in readyGrants'[s] : e.grant \in published'
      BY SMTT(30), <1>19, <2>1 DEF AttestReady, GrantInv, Forget, TypeInv, TypeOK
    <2>3. \A d \in Caller : call'[d].step = "granted" => call'[d].grant \in published'
      BY <1>00, <1>19, <2>1, IdleFacts DEF AttestReady, GrantInv, TypeInv, TypeOK, CallStates
    <2> QED BY <1>19, <2>1, <2>2, <2>3
              DEF AttestReady, GrantInv, ReservedFromAcknowledgedGrant, Recorded, ledger
  <1>20. ASSUME NEW c \in Caller, NEW a \in AttemptId, Reserve(c, a)
         PROVE  GrantInv'
    <2>1. call[c].grant \in published /\ UNCHANGED <<published, readyGrants>>
      BY <1>20 DEF Reserve, GrantInv, memory
    <2>2. \A b \in AttemptId : Recorded(b)' => authority'[b] \in published
      BY <1>20, <2>1 DEF Reserve, GrantInv, ReservedFromAcknowledgedGrant, Recorded,
           TypeInv, TypeOK
    <2>3. \A d \in Caller : call'[d].step = "granted" => call'[d] = call[d]
      BY <1>00, <1>20 DEF Reserve, TypeInv, TypeOK, CallStates
    <2> QED BY <2>1, <2>2, <2>3 DEF GrantInv, ReservedFromAcknowledgedGrant
  <1> QED
    BY SMTT(30), <1>0, <1>3, <1>4, <1>6, <1>7, <1>8, <1>9, <1>10, <1>11, <1>12, <1>13, <1>14, <1>15,
       <1>16, <1>17, <1>18, <1>19, <1>20
       DEF Next, CallerStep

-----------------------------------------------------------------------------
(* The inductive invariant and what it gives. *)

IInv == TypeInv /\ LedgerInv /\ LaunchInv /\ GrantInv

LEMMA InvariantHolds == Spec => []IInv
  <1>1. Init => IInv
    BY TypeInit, LedgerInit DEF IInv
  <1>2. IInv /\ [Next]_vars => IInv'
    BY TypeStep, LedgerStep, LaunchStep, GrantStep DEF IInv
  <1> QED BY <1>1, <1>2, PTL DEF Spec

\* An attempt is unresolved exactly while its goal's row is reserved by it:
\* no transaction leaves the two rows half settled.
THEOREM UnresolvedStaysCurrent == Spec => []UnresolvedIsCurrent
  <1>1. IInv => UnresolvedIsCurrent
    BY DEF IInv, LedgerInv, RowsAgree, AttemptAgrees, Recorded, Unresolved,
         UnresolvedIsCurrent, TypeInv, RowShape
  <1> QED BY <1>1, InvariantHolds, PTL

\* claim_launch returns at most one permit per attempt and at most one per
\* goal generation, whatever the interleaving, the crashes and the failed
\* attestations.
THEOREM LaunchedAtMostOnce == Spec => []AtMostOneLaunch
  <1>1. IInv => AtMostOneLaunch
    <2> SUFFICES ASSUME IInv, NEW a \in AttemptId, NEW b \in AttemptId
                 PROVE  /\ launches[a] <= 1
                        /\ launches[a] = 1 /\ launches[b] = 1
                             /\ attempts[a].goal = attempts[b].goal
                             /\ attempts[a].generation = attempts[b].generation => a = b
      BY DEF AtMostOneLaunch
    <2>1. launches[a] \in Nat /\ (launches[a] # 0 => launches[a] = 1)
      BY DEF IInv, LaunchInv, TypeInv, TypeOK
    <2>2. launches[a] = 1 /\ launches[b] = 1 => Recorded(a) /\ Recorded(b)
      BY SMTT(30) DEF IInv, LaunchInv
    <2> QED BY SMTT(30), <2>1, <2>2 DEF IInv, LedgerInv, OneAttemptPerGeneration
  <1> QED BY <1>1, InvariantHolds, PTL

\* Two callers never run turns of one goal at the same time.
THEOREM OneTurnAtATime == Spec => []AtMostOneRunningTurn
  <1>1. IInv => AtMostOneRunningTurn
    BY DEF IInv, LaunchInv
  <1> QED BY <1>1, InvariantHolds, PTL

\* No reservation was made with a grant that no store had published after a
\* complete commit, fsync and readback.
THEOREM ReservationsAreAuthorized == Spec => []ReservedFromAcknowledgedGrant
  <1>1. IInv => ReservedFromAcknowledgedGrant
    BY DEF IInv, GrantInv
  <1> QED BY <1>1, InvariantHolds, PTL

-----------------------------------------------------------------------------
(* The ledger implements GoalTurns: the values its variables stand for. *)

TurnStatus == [g \in GoalId |-> StatusOf(g)]
SpentOf(g) == {attempts[a].generation : a \in {b \in AttemptId :
                  attempts[b].goal = g /\ launches[b] > 0}}
TurnSpent == [g \in GoalId |-> SpentOf(g)]
TurnOf(c) == IF call[c].step = "launched" THEN call[c].goal ELSE NoGoal
TurnTurns == [c \in Caller |-> TurnOf(c)]

\* A step that launches nothing keeps the spent generations, and turns only end.
LEMMA FramedTurns ==
    ASSUME IInv, LaunchFrame
    PROVE  /\ TurnSpent' = TurnSpent
           /\ \A c \in Caller : TurnOf(c)' = TurnOf(c) \/ TurnOf(c)' = NoGoal
  <1>1. \A a \in AttemptId : launches[a] > 0 =>
          attempts'[a].goal = attempts[a].goal /\ attempts'[a].generation = attempts[a].generation
    BY SMTT(30) DEF IInv, LaunchInv, TypeInv, TypeOK, LaunchFrame
  <1>2. UNCHANGED launches
    BY DEF LaunchFrame
  <1>3. ASSUME NEW g \in GoalId PROVE SpentOf(g)' = SpentOf(g)
    <2>1. {b \in AttemptId : attempts'[b].goal = g /\ launches'[b] > 0}
            = {b \in AttemptId : attempts[b].goal = g /\ launches[b] > 0}
      <3>1. \A b \in AttemptId : (attempts'[b].goal = g /\ launches'[b] > 0)
                                   <=> (attempts[b].goal = g /\ launches[b] > 0)
        BY <1>1, <1>2
      <3> QED BY <3>1
    <2> QED BY <1>1, <2>1 DEF SpentOf
  <1>4. TurnSpent' = TurnSpent
    BY <1>3 DEF TurnSpent
  <1>5. \A c \in Caller : TurnOf(c)' = TurnOf(c) \/ TurnOf(c)' = NoGoal
    BY DEF LaunchFrame, TurnOf, Reserving, ReservationSteps
  <1> QED BY <1>4, <1>5

\* A reservation launches nothing either.
LEMMA ReservedTurns ==
    ASSUME IInv, NEW c \in Caller, NEW a \in AttemptId, Reserve(c, a)
    PROVE  TurnSpent' = TurnSpent /\ \A d \in Caller : TurnOf(d)' = TurnOf(d)
  <1>1. /\ attempts[a] = NoAttempt /\ launches' = launches /\ call[c].step = "granted"
        /\ \A b \in AttemptId : b # a => attempts'[b] = attempts[b]
    BY DEF Reserve, IInv, TypeInv, TypeOK
  <1>2. launches[a] = 0
    BY SMTT(30), <1>1 DEF IInv, LaunchInv, Recorded, NoAttempt, AttemptRecord
  <1>3. ASSUME NEW g \in GoalId PROVE SpentOf(g)' = SpentOf(g)
    <2>1. \A b \in AttemptId : launches[b] > 0 => attempts'[b] = attempts[b]
      BY SMTT(30), <1>1, <1>2
    <2>2. {b \in AttemptId : attempts'[b].goal = g /\ launches'[b] > 0}
            = {b \in AttemptId : attempts[b].goal = g /\ launches[b] > 0}
      <3>1. \A b \in AttemptId : (attempts'[b].goal = g /\ launches'[b] > 0)
                                   <=> (attempts[b].goal = g /\ launches[b] > 0)
        BY <1>1, <2>1
      <3> QED BY <3>1
    <2> QED BY <2>1, <2>2 DEF SpentOf
  <1>4. /\ \A d \in Caller : d # c => call'[d] = call[d]
        /\ call'[c].step = "attest_reserve"
    BY DEF Reserve, IInv, TypeInv, TypeOK, CallStates
  <1> QED BY <1>1, <1>3, <1>4 DEF TurnSpent, TurnOf

\* A row that advances was open, and stays open or closes.
LEMMA AdvancedStatus ==
    ASSUME TypeOK, NEW g \in GoalId, NEW row, Advance(g, row)
    PROVE  /\ StatusOf(g) = "open" /\ StatusOf(g)' \in {"open", "closed"}
           /\ \A h \in GoalId : h # g => StatusOf(h)' = StatusOf(h)
  <1>1. /\ generations'[g] = row
        /\ \A h \in GoalId : h # g => generations'[h] = generations[h]
        /\ generations[g].lifecycle \in Lifecycle
        /\ row.lifecycle \in GenerationSuccessors[generations[g].lifecycle]
    BY DEF Advance, TypeOK, GenerationRows
  <1>2. /\ generations[g].lifecycle \in {"ready", "reserved", "blocked"}
        /\ row.lifecycle \in {"ready", "reserved", "blocked", "completed", "cancelled"}
    BY SMTT(30), <1>1 DEF GenerationSuccessors, Lifecycle
  <1>3. StatusOf(g) = "open"
    BY <1>2 DEF StatusOf
  <1>4. StatusOf(g)' \in {"open", "closed"}
    BY <1>1, <1>2 DEF StatusOf
  <1> QED BY <1>1, <1>3, <1>4 DEF StatusOf

\* Turns that only end, over rows that stay or advance, are a stutter, an end or a close.
LEMMA EndingTurns ==
    ASSUME TypeOK, TurnSpent' = TurnSpent,
           \A c \in Caller : TurnOf(c)' = TurnOf(c) \/ TurnOf(c)' = NoGoal,
           generations' = generations \/ \E g \in GoalId : \E row : Advance(g, row)
    PROVE  Turns!TurnNext
  <1>1. PICK lost \in SUBSET Caller : \A c \in Caller : c \in lost <=> TurnOf(c)' = NoGoal
    <2>1. {c \in Caller : TurnOf(c)' = NoGoal} \in SUBSET Caller
      OBVIOUS
    <2> QED BY <2>1
  <1>2. TurnTurns' = [c \in Caller |-> IF c \in lost THEN NoGoal ELSE TurnTurns[c]]
    BY <1>1 DEF TurnTurns
  <1>3. CASE TurnStatus' = TurnStatus
    <2>1. Turns!End(lost)
      BY <1>2, <1>3 DEF Turns!End, TurnStatus, TurnSpent, SpentOf, TurnTurns, TurnOf
    <2> QED BY <2>1 DEF Turns!TurnNext
  <1>4. CASE TurnStatus' # TurnStatus
    <2>1. PICK g \in GoalId : \E row : Advance(g, row)
      BY <1>4 DEF TurnStatus, StatusOf
    <2>2. /\ StatusOf(g) = "open" /\ StatusOf(g)' \in {"open", "closed"}
          /\ \A h \in GoalId : h # g => StatusOf(h)' = StatusOf(h)
      BY <2>1, AdvancedStatus
    <2>3. TurnStatus[g] = "open" /\ TurnStatus' = [TurnStatus EXCEPT ![g] = "closed"]
      BY <1>4, <2>2 DEF TurnStatus
    <2>4. Turns!Close(g, lost)
      BY <1>2, <2>3 DEF Turns!Close, TurnStatus, TurnSpent, SpentOf, TurnTurns, TurnOf
    <2> QED BY <2>4 DEF Turns!TurnNext
  <1> QED BY <1>3, <1>4

\* Creating a goal opens it and touches no turn.
LEMMA CreatedTurns ==
    ASSUME IInv, NEW c \in Caller, NEW g \in GoalId, NEW grant \in Grant, CreateGoal(c, g, grant)
    PROVE  Turns!TurnNext
  <1>1. /\ generations[g].lifecycle = "absent" /\ generations'[g].lifecycle = "ready"
        /\ \A h \in GoalId : h # g => generations'[h] = generations[h]
        /\ UNCHANGED <<attempts, launches>>
    BY SMTT(30), GenerationFields
       DEF CreateGoal, NoGeneration, Generation, ReadyChange, history, IInv, TypeInv, TypeOK
  <1>2. TurnStatus[g] = "none" /\ TurnStatus' = [TurnStatus EXCEPT ![g] = "open"]
    BY <1>1 DEF TurnStatus, StatusOf
  <1>3. TurnSpent' = TurnSpent
    BY <1>1 DEF TurnSpent, SpentOf
  <1>4. /\ \A d \in Caller : d # c => call'[d] = call[d]
        /\ call[c].step = "idle" /\ call'[c].step = "attest_ready"
    BY DEF CreateGoal, ReadyChange, CallState, IInv, TypeInv, TypeOK
  <1>5. TurnTurns' = TurnTurns
    BY <1>4 DEF TurnTurns, TurnOf
  <1>6. Turns!Open(g)
    BY <1>2, <1>3, <1>5 DEF Turns!Open, TurnStatus, TurnSpent, SpentOf, TurnTurns, TurnOf
  <1> QED BY <1>6 DEF Turns!TurnNext

\* The returned permit launches a turn of an open goal, alone, with a newer generation.
LEMMA LaunchedTurns ==
    ASSUME IInv, IInv', NEW c \in Caller, AttestClaim(c)
    PROVE  Turns!TurnNext
  <1>0. PICK g \in GoalId, n \in Nat, a \in AttemptId :
          g = call[c].goal /\ n = call[c].generation /\ a = call[c].attempt
    BY DEF AttestClaim, IInv, TypeInv, TypeOK, CallShape, CallStates, ReservationSteps
  <1>1. /\ call[c].step = "attest_claim"
        /\ UNCHANGED <<generations, attempts>>
        /\ generations[g].lifecycle = "reserved" /\ generations[g].number = n
        /\ generations[g].attempt = a
        /\ attempts[a].goal = g /\ attempts[a].generation = n
    BY SMTT(30), <1>0, GenerationFields DEF AttestClaim, IsCurrent, ledger
  <1>2. launches[a] = 0 /\ Recorded(a)
    BY <1>0, <1>1 DEF IInv, LaunchInv, CallAgrees, Reserving, ReservationSteps
  <1>3. launches'[a] = 1 /\ \A b \in AttemptId : b # a => launches'[b] = launches[b]
    BY SMTT(30), <1>0, <1>2 DEF AttestClaim, IInv, TypeInv, TypeOK
  <1>4. /\ \A d \in Caller : d # c => call'[d] = call[d]
        /\ call'[c].step = "launched" /\ call'[c].goal = g
    BY SMTT(30), <1>0 DEF AttestClaim, IInv, TypeInv, TypeOK, CallStates
  <1>5. n \in 1 .. MaxGeneration
    BY <1>1 DEF IInv, LedgerInv, RowsAgree
  <1>6. ASSUME NEW b \in AttemptId, launches[b] > 0, attempts[b].goal = g
        PROVE  attempts[b].generation < n
    <2>1. Recorded(b) /\ b # a
      BY SMTT(30), <1>2, <1>6 DEF IInv, LaunchInv
    <2>2. attempts[b].generation \in Nat /\ n \in Nat
      BY DEF IInv, TypeInv, TypeOK, AttemptRows, CallStates
    <2>3. attempts[b].generation <= n /\ attempts[b].generation # n
      BY <1>1, <1>6, <2>1 DEF IInv, LedgerInv, AttemptAgrees
    <2> QED BY SMTT(30), <2>2, <2>3
  <1>7. \A d \in Caller : TurnOf(d) # g
    <2>1. TurnOf(c) # g
      BY <1>1, AbsenceAssumption DEF AbsenceAssumption, TurnOf
    <2>2. ASSUME NEW d \in Caller, d # c PROVE TurnOf(d) # g
      <3>1. ~ (call'[d].step = "launched" /\ call'[d].goal = g)
        BY <1>4, <2>2 DEF IInv, LaunchInv, AtMostOneRunningTurn
      <3> QED BY <1>1, <1>4, <2>2, <3>1, AbsenceAssumption DEF AbsenceAssumption, TurnOf
    <2> QED BY <2>1, <2>2
  <1>8. SpentOf(g)' = SpentOf(g) \cup {n} /\ \A h \in GoalId : h # g => SpentOf(h)' = SpentOf(h)
    <2>1. {b \in AttemptId : attempts'[b].goal = g /\ launches'[b] > 0}
            = {b \in AttemptId : attempts[b].goal = g /\ launches[b] > 0} \cup {a}
      <3>1. \A b \in AttemptId : (attempts'[b].goal = g /\ launches'[b] > 0)
                                   <=> ((attempts[b].goal = g /\ launches[b] > 0) \/ b = a)
        BY SMTT(30), <1>1, <1>3
      <3> QED BY <1>1, <3>1
    <2>2. ASSUME NEW h \in GoalId, h # g
          PROVE  {b \in AttemptId : attempts'[b].goal = h /\ launches'[b] > 0}
                   = {b \in AttemptId : attempts[b].goal = h /\ launches[b] > 0}
      <3>1. \A b \in AttemptId : (attempts'[b].goal = h /\ launches'[b] > 0)
                                   <=> (attempts[b].goal = h /\ launches[b] > 0)
        BY <1>1, <1>3, <2>2
      <3> QED BY <3>1
    <2>3. SpentOf(g)' = SpentOf(g) \cup {n}
      <3> DEFINE S == {b \in AttemptId : attempts[b].goal = g /\ launches[b] > 0}
      <3>1. SpentOf(g)' = {attempts[b].generation : b \in S \cup {a}}
        BY <1>1, <2>1 DEF SpentOf
      <3>2. SpentOf(g) = {attempts[b].generation : b \in S}
        BY DEF SpentOf
      <3> HIDE DEF S
      <3>3. {attempts[b].generation : b \in S \cup {a}}
              = {attempts[b].generation : b \in S} \cup {attempts[a].generation}
        OBVIOUS
      <3> QED BY <1>1, <3>1, <3>2, <3>3
    <2>4. \A h \in GoalId : h # g => SpentOf(h)' = SpentOf(h)
      BY <1>1, <2>2 DEF SpentOf
    <2> QED BY <2>3, <2>4
  <1>9. /\ TurnStatus[g] = "open" /\ TurnStatus' = TurnStatus
        /\ TurnSpent' = [TurnSpent EXCEPT ![g] = TurnSpent[g] \cup {n}]
        /\ \A earlier \in TurnSpent[g] : earlier < n
    <2>1. TurnStatus[g] = "open" /\ TurnStatus' = TurnStatus
      BY <1>1 DEF TurnStatus, StatusOf
    <2>2. TurnSpent' = [TurnSpent EXCEPT ![g] = TurnSpent[g] \cup {n}]
      BY <1>1, <1>8 DEF TurnSpent
    <2>3. \A earlier \in SpentOf(g) : earlier < n
      BY <1>6 DEF SpentOf
    <2> QED BY <1>1, <2>1, <2>2, <2>3 DEF TurnSpent
  <1>10. /\ TurnTurns' = [TurnTurns EXCEPT ![c] = g]
         /\ \A d \in Caller : TurnTurns[d] # g
    BY <1>4, <1>7 DEF TurnTurns, TurnOf
  <1>11. Turns!Launch(c, g, n)
    BY <1>9, <1>10 DEF Turns!Launch, TurnStatus, TurnSpent, SpentOf, TurnTurns, TurnOf
  <1> QED BY <1>5, <1>11 DEF Turns!TurnNext

\* A step leaves every row, advances one, or creates a goal.
LEMMA RowStep ==
    ASSUME TypeInv, [Next]_vars
    PROVE  \/ generations' = generations
           \/ \E g \in GoalId : \E row : Advance(g, row)
           \/ \E c \in Caller, g \in GoalId, grant \in Grant : CreateGoal(c, g, grant)
  <1>1. ASSUME NEW c \in Caller, NEW g \in GoalId, NEW grant \in Grant,
               \/ RecoverUnreservedReady(c, g, grant) \/ StopReleasedOwner(c, g, grant)
               \/ \E decision \in WorkDecision : \/ AuthorizeReadyRecovery(c, g, decision, grant)
                                                 \/ AuthorizeRetry(c, g, decision, grant)
        PROVE  \E row : Advance(g, row)
    BY <1>1 DEF RecoverUnreservedReady, StopReleasedOwner, AuthorizeReadyRecovery, AuthorizeRetry,
       AdvanceReady
  <1>2. ASSUME NEW c \in Caller, NEW g \in GoalId, RetireGoal(c, g)
        PROVE  \E row : Advance(g, row)
    BY <1>2 DEF RetireGoal
  <1>3. ASSUME NEW c \in Caller, NEW a \in AttemptId, Reserve(c, a)
        PROVE  call[c].goal \in GoalId /\ \E row : Advance(call[c].goal, row)
    BY <1>3 DEF Reserve, TypeInv, CallShape
  <1>4. ASSUME NEW c \in Caller,
               \/ \E grant \in Grant : RecordVerifiedProgress(c, grant) \/ Stop(c, grant)
               \/ RecordVerifiedCompletion(c) \/ Fail(c)
        PROVE  call[c].goal \in GoalId /\ \E row : Advance(call[c].goal, row)
    <2>1. call[c].goal \in GoalId
      BY <1>4 DEF RecordVerifiedProgress, Stop, RecordVerifiedCompletion, Fail, Holding, TypeInv,
         CallShape
    <2> QED BY <1>4, <2>1 DEF RecordVerifiedProgress, Stop, RecordVerifiedCompletion, Fail,
               AdvanceReady
  <1>5. ASSUME NEW c \in Caller,
               \/ \E g \in GoalId : ReadyGrant(c, g)
               \/ \E response \in UsageChargeId : RecordProviderUsage(c, response)
               \/ AttestReady(c) \/ AttestReserve(c) \/ AttestClaim(c) \/ AttestRetire(c)
               \/ ClaimLaunch(c) \/ Raise(c)
        PROVE  generations' = generations
    BY <1>5 DEF ReadyGrant, RecordProviderUsage, AttestReady, AttestReserve, AttestClaim,
       AttestRetire, ClaimLaunch, Raise, ledger
  <1>6. ASSUME (\E s \in Store : Crash(s)) \/ UNCHANGED vars
        PROVE  generations' = generations
    BY <1>6 DEF Crash, ledger, vars
  <1> QED BY <1>1, <1>2, <1>3, <1>4, <1>5, <1>6 DEF Next, CallerStep

LEMMA TurnStep == IInv /\ IInv' /\ [Next]_vars => [Turns!TurnNext]_Turns!turnVars
  <1> SUFFICES ASSUME IInv, IInv', [Next]_vars PROVE Turns!TurnNext
    OBVIOUS
  <1>1. TypeOK /\ TypeInv /\ LedgerInv /\ LaunchInv
    BY DEF IInv, TypeInv
  <1>2. CASE \E c \in Caller, g \in GoalId, grant \in Grant : CreateGoal(c, g, grant)
    BY <1>2, CreatedTurns
  <1>3. CASE \E c \in Caller : AttestClaim(c)
    BY <1>3, LaunchedTurns
  <1>4. CASE LaunchFrame \/ \E c \in Caller : \E a \in AttemptId : Reserve(c, a)
    <2>1. /\ TurnSpent' = TurnSpent
          /\ \A c \in Caller : TurnOf(c)' = TurnOf(c) \/ TurnOf(c)' = NoGoal
      BY <1>4, FramedTurns, ReservedTurns
    <2> QED BY <1>1, <1>2, <2>1, RowStep, EndingTurns
  <1> QED BY <1>1, <1>3, <1>4, FramedStep

LEMMA TurnInitial == Init => Turns!TurnInit
  <1> SUFFICES ASSUME Init PROVE Turns!TurnInit
    OBVIOUS
  <1>1. TurnStatus = [g \in GoalId |-> "none"]
    BY DEF Init, TurnStatus, StatusOf, NoGeneration, Generation
  <1>2. TurnSpent = [g \in GoalId |-> {}]
    BY SMTT(30) DEF Init, TurnSpent, SpentOf
  <1>3. TurnTurns = [c \in Caller |-> NoGoal]
    BY DEF Init, TurnTurns, TurnOf, Idle, CallState
  <1> QED BY <1>1, <1>2, <1>3 DEF Turns!TurnInit, TurnStatus, TurnSpent, SpentOf, TurnTurns, TurnOf

\* The ledger, with every crash, lost grant and failed attestation, is a run of GoalTurns:
\* the turns of a goal never overlap, spend strictly increasing generations, and none
\* starts once the goal is completed or cancelled.
THEOREM LedgerImplementsTurns == Spec => ImplementsGoalTurns
BY TurnInitial, TurnStep, InvariantHolds, PTL DEF Spec, ImplementsGoalTurns, Turns!TurnSpec

-----------------------------------------------------------------------------
(* Every generation that was passed has a recorded reason. *)

Explained(g, number) ==
    \/ \E a \in AttemptId :
          /\ attempts[a].goal = g /\ attempts[a].generation = number
          /\ attempts[a].phase = "succeeded" \/ attempts[a].resolution = "stopped"
    \/ \E used \in decisions : used.goal = g /\ used.generation = number

\* Only attempts of current generations are rewritten.
OldAttemptsKept ==
    \A a \in AttemptId :
        \/ attempts'[a] = attempts[a]
        \/ attempts[a].goal \notin GoalId
        \/ attempts[a].generation = generations[attempts[a].goal].number

\* A number stays, is the first, or follows one that is explained after the step.
NumbersFollow ==
    \A g \in GoalId, number \in Nat : number = generations[g].number =>
        \/ generations'[g].number \in {number, 1}
        \/ generations'[g].number = number + 1 /\ Explained(g, number)'

LEMMA ExplanationsKept ==
    ASSUME TypeInv, TypeInv', EveryGenerationExplained, decisions \subseteq decisions',
           OldAttemptsKept, NumbersFollow
    PROVE  EveryGenerationExplained'
  <1> SUFFICES ASSUME NEW g \in GoalId, NEW number \in 1 .. generations'[g].number - 1
               PROVE  Explained(g, number)'
    BY DEF EveryGenerationExplained, Explained
  <1>1. generations[g].number \in Nat /\ generations'[g].number \in Nat /\ number \in Nat
        /\ 1 <= number /\ number < generations'[g].number
    BY SMTT(30) DEF TypeInv, TypeOK, GenerationRows
  <1>2. CASE number < generations[g].number
    <2>1. number \in 1 .. generations[g].number - 1
      BY SMTT(30), <1>1, <1>2
    <2>2. Explained(g, number)
      BY SMTT(30), <2>1 DEF EveryGenerationExplained, Explained
    <2>3. \A a \in AttemptId : attempts[a].goal = g /\ attempts[a].generation = number =>
            attempts'[a] = attempts[a]
      BY SMTT(30), <1>1, <1>2 DEF OldAttemptsKept
    <2> QED BY <2>2, <2>3 DEF Explained
  <1>3. CASE ~(number < generations[g].number)
    <2>1. generations'[g].number # generations[g].number /\ generations'[g].number # 1
      BY SMTT(30), <1>1, <1>3
    <2>2. generations'[g].number = generations[g].number + 1
      BY <1>1, <2>1 DEF NumbersFollow
    <2>3. number = generations[g].number
      BY SMTT(30), <1>1, <1>3, <2>2
    <2> QED BY <1>1, <2>1, <2>3 DEF NumbersFollow
  <1> QED BY <1>2, <1>3

\* A row that is replaced, and an attempt of the current generation that advances.
LEMMA ReplacedRow ==
    ASSUME TypeOK, NEW g \in GoalId, NEW n, NEW l, NEW a, NEW d, Advance(g, Generation(n, l, a, d))
    PROVE  /\ generations'[g].number = n
           /\ \A h \in GoalId : h # g => generations'[h] = generations[h]
  BY SMTT(30), GenerationFields DEF Advance, TypeOK

LEMMA CurrentAttemptAdvances ==
    ASSUME TypeOK, NEW g \in GoalId, NEW a \in AttemptId, NEW phase, NEW resolution,
           AdvanceAttempt(a, phase, resolution),
           attempts[a].goal = g, attempts[a].generation = generations[g].number
    PROVE  /\ OldAttemptsKept
           /\ attempts'[a].goal = g /\ attempts'[a].generation = attempts[a].generation
           /\ attempts'[a].phase = phase /\ attempts'[a].resolution = resolution
  <1>1. attempts \in [AttemptId -> AttemptRows] /\ attempts[a] \in AttemptRows
    BY DEF TypeOK
  <1>2. attempts' = [attempts EXCEPT ![a] =
                       [attempts[a] EXCEPT !.phase = phase, !.resolution = resolution]]
    BY <1>1 DEF AdvanceAttempt
  <1>3. \A b \in AttemptId : b # a => attempts'[b] = attempts[b]
    BY <1>1, <1>2
  <1>4. attempts'[a] = [attempts[a] EXCEPT !.phase = phase, !.resolution = resolution]
    BY <1>1, <1>2
  <1> QED BY <1>1, <1>3, <1>4 DEF OldAttemptsKept, AttemptRows

\* A transaction that keeps the number, with or without an attempt of it.
LEMMA SameNumber ==
    ASSUME \A g \in GoalId : generations'[g].number = generations[g].number
    PROVE  NumbersFollow
  BY DEF NumbersFollow

\* advance_ready settles the attempt whose success or stop explains the next number.
LEMMA ReadyExplained ==
    ASSUME IInv, NEW c \in Caller, NEW g \in GoalId, NEW a \in AttemptId, NEW grant \in Grant,
           NEW phase, NEW resolution, phase = "succeeded" \/ resolution = "stopped",
           attempts[a].goal = g, attempts[a].generation = generations[g].number,
           AdvanceReady(c, g, a, phase, resolution, grant)
    PROVE  OldAttemptsKept /\ NumbersFollow
  <1>1. TypeOK /\ AdvanceAttempt(a, phase, resolution)
    BY DEF IInv, TypeInv, AdvanceReady
  <1>2. /\ OldAttemptsKept
        /\ attempts'[a].goal = g /\ attempts'[a].generation = attempts[a].generation
        /\ attempts'[a].phase = phase /\ attempts'[a].resolution = resolution
    BY SMTT(30), <1>1, CurrentAttemptAdvances
  <1>3. \A number \in Nat : number = generations[g].number => Explained(g, number)'
    BY <1>2 DEF Explained
  <1> DEFINE next == generations[g].number + 1
  <1>4. Advance(g, Generation(next, "ready", NoAttemptId, GrantDigest(grant)))
    BY DEF AdvanceReady
  <1> HIDE DEF next
  <1>5. /\ generations'[g].number = next
        /\ \A h \in GoalId : h # g => generations'[h] = generations[h]
    BY <1>1, <1>4, ReplacedRow
  <1> QED BY <1>2, <1>3, <1>5 DEF NumbersFollow, next

\* A decision explains the number it was made for (ClaimDecision).
LEMMA DecisionExplained ==
    ASSUME IInv, NEW c \in Caller, NEW g \in GoalId, NEW decision \in WorkDecision,
           NEW grant \in Grant,
           \/ AuthorizeReadyRecovery(c, g, decision, grant)
           \/ AuthorizeRetry(c, g, decision, grant)
    PROVE  OldAttemptsKept /\ NumbersFollow
  <1>1. TypeOK /\ ClaimDecision(g, decision)
    BY DEF IInv, TypeInv, AuthorizeReadyRecovery, AuthorizeRetry
  <1>2. OldAttemptsKept
    <2>1. CASE AuthorizeReadyRecovery(c, g, decision, grant)
      BY <2>1 DEF AuthorizeReadyRecovery, OldAttemptsKept
    <2>2. CASE AuthorizeRetry(c, g, decision, grant)
      <3> DEFINE a == generations[g].attempt
      <3>1. /\ a \in AttemptId /\ attempts[a].goal = g
            /\ attempts[a].generation = generations[g].number
            /\ AdvanceAttempt(a, "resolved", "decided")
        BY <2>2 DEF AuthorizeRetry, IInv, TypeInv, RowShape
      <3> HIDE DEF a
      <3> QED BY <1>1, <3>1, CurrentAttemptAdvances
    <2> QED BY <2>1, <2>2
  <1>3. \A number \in Nat : number = generations[g].number => Explained(g, number)'
    <2>1. [goal |-> g, decision |-> decision, generation |-> generations[g].number] \in decisions'
      BY <1>1 DEF ClaimDecision
    <2> QED BY <2>1 DEF Explained
  <1> DEFINE next == generations[g].number + 1
  <1>4. Advance(g, Generation(next, "ready", NoAttemptId, GrantDigest(grant)))
    BY DEF AuthorizeReadyRecovery, AuthorizeRetry
  <1> HIDE DEF next
  <1>5. /\ generations'[g].number = next
        /\ \A h \in GoalId : h # g => generations'[h] = generations[h]
    BY <1>1, <1>4, ReplacedRow
  <1> QED BY <1>2, <1>3, <1>5 DEF NumbersFollow, next

\* Reserving, claiming, settling without a successor and retiring keep the number.
LEMMA NumberKept ==
    ASSUME IInv, NEW c \in Caller,
           \/ \E a \in AttemptId : Reserve(c, a)
           \/ \E g \in GoalId : RetireGoal(c, g)
           \/ ClaimLaunch(c) \/ RecordVerifiedCompletion(c) \/ Fail(c)
    PROVE  OldAttemptsKept /\ NumbersFollow
  <1>1. TypeOK /\ (call[c].step # "idle" => call[c].goal \in GoalId)
        /\ (call[c].step \in ReservationSteps => call[c].attempt \in AttemptId)
    BY DEF IInv, TypeInv, CallShape
  <1>2. ASSUME NEW a \in AttemptId, Reserve(c, a)
        PROVE  OldAttemptsKept /\ NumbersFollow
    <2> DEFINE g == call[c].goal
               n == call[c].generation
    <2>1. /\ attempts[a] = NoAttempt /\ \A b \in AttemptId : b # a => attempts'[b] = attempts[b]
          /\ Advance(g, Generation(n, "reserved", a, NoDigest))
          /\ g \in GoalId /\ generations[g].number = n
      BY <1>1, <1>2 DEF Reserve, HasReadyGrant, TypeOK
    <2> HIDE DEF g, n
    <2>2. attempts[a].goal \notin GoalId
      BY SMTT(30), <2>1, AbsenceAssumption DEF AbsenceAssumption, NoAttempt, AttemptRecord
    <2>3. \A h \in GoalId : generations'[h].number = generations[h].number
      BY <1>1, <2>1, ReplacedRow
    <2> QED BY <2>1, <2>2, <2>3, SameNumber DEF OldAttemptsKept
  <1>3. ASSUME NEW g \in GoalId, RetireGoal(c, g)
        PROVE  OldAttemptsKept /\ NumbersFollow
    <2> DEFINE n == generations[g].number
               a == generations[g].attempt
    <2>1. RetireAttempt(g) /\ Advance(g, Generation(n, "cancelled", a, NoDigest))
      BY <1>3 DEF RetireGoal
    <2>2. OldAttemptsKept
      <3>1. CASE a = NoAttemptId
        BY <2>1, <3>1 DEF RetireAttempt, OldAttemptsKept
      <3>2. CASE a # NoAttemptId
        <4>1. /\ a \in AttemptId /\ attempts[a].goal = g
              /\ attempts[a].generation = generations[g].number
              /\ AdvanceAttempt(a, "resolved", "cleared")
          BY <1>1, <2>1, <3>2 DEF RetireAttempt, TypeOK, GenerationRows
        <4> HIDE DEF a
        <4> QED BY <1>1, <4>1, CurrentAttemptAdvances
      <3> QED BY <3>1, <3>2
    <2>3. \A h \in GoalId : generations'[h].number = generations[h].number
      <3>1. n = generations[g].number
        OBVIOUS
      <3> HIDE DEF n, a
      <3> QED BY <1>1, <2>1, <3>1, ReplacedRow
    <2> QED BY <2>2, <2>3, SameNumber
  <1>4. CASE ClaimLaunch(c) \/ RecordVerifiedCompletion(c) \/ Fail(c)
    <2> DEFINE g == call[c].goal
               n == call[c].generation
               a == call[c].attempt
    <2>1. PICK phase0 : IsCurrent(g, n, a, phase0)
      BY <1>4 DEF ClaimLaunch, RecordVerifiedCompletion, Fail, Holding
    <2>2. PICK phase, resolution : AdvanceAttempt(a, phase, resolution)
      BY <1>4 DEF ClaimLaunch, RecordVerifiedCompletion, Fail
    <2>3. \/ generations' = generations
          \/ \E l : Advance(g, Generation(n, l, a, NoDigest))
      BY <1>4 DEF ClaimLaunch, RecordVerifiedCompletion, Fail
    <2>4. g \in GoalId /\ a \in AttemptId
      BY <1>1, <1>4 DEF ClaimLaunch, RecordVerifiedCompletion, Fail, Holding, ReservationSteps
    <2> HIDE DEF g, n, a
    <2>5. /\ attempts[a].goal = g /\ attempts[a].generation = n /\ generations[g].number = n
      <3>1. /\ attempts[a].goal = g /\ attempts[a].generation = n
            /\ generations[g] = Generation(n, "reserved", a, NoDigest)
        BY <2>1 DEF IsCurrent
      <3>2. Generation(n, "reserved", a, NoDigest).number = n
        BY DEF Generation
      <3> QED BY <3>1, <3>2
    <2>6. OldAttemptsKept
      BY <1>1, <2>2, <2>4, <2>5, CurrentAttemptAdvances
    <2>7. \A h \in GoalId : generations'[h].number = generations[h].number
      BY <1>1, <2>3, <2>4, <2>5, ReplacedRow
    <2> QED BY <2>6, <2>7, SameNumber
  <1> QED BY <1>2, <1>3, <1>4

LEMMA ExplainedStep ==
    IInv /\ IInv' /\ EveryGenerationExplained /\ [Next]_vars => EveryGenerationExplained'
  <1> SUFFICES ASSUME IInv, IInv', EveryGenerationExplained, [Next]_vars
               PROVE  EveryGenerationExplained'
    OBVIOUS
  <1>1. TypeInv /\ TypeInv' /\ TypeOK /\ decisions \subseteq decisions'
    BY SettledNext DEF IInv, TypeInv, SettledStep
  <1>2. SUFFICES OldAttemptsKept /\ NumbersFollow
    BY <1>1, <1>2, ExplanationsKept
  <1>3. ASSUME UNCHANGED <<attempts, generations>> PROVE OldAttemptsKept /\ NumbersFollow
    BY <1>3, SameNumber DEF OldAttemptsKept
  <1>4. ASSUME NEW c \in Caller, NEW g \in GoalId, NEW grant \in Grant, CreateGoal(c, g, grant)
        PROVE  OldAttemptsKept /\ NumbersFollow
    <2>1. /\ UNCHANGED attempts /\ generations'[g].number = 1
          /\ \A h \in GoalId : h # g => generations'[h] = generations[h]
      BY SMTT(30), <1>1, <1>4, GenerationFields DEF CreateGoal, TypeOK
    <2> QED BY <2>1 DEF OldAttemptsKept, NumbersFollow
  <1>5. ASSUME NEW c \in Caller, NEW g \in GoalId, NEW grant \in Grant,
               RecoverUnreservedReady(c, g, grant)
        PROVE  OldAttemptsKept /\ NumbersFollow
    <2> DEFINE n == generations[g].number
    <2>1. /\ UNCHANGED attempts /\ n = generations[g].number
          /\ Advance(g, Generation(n, "ready", NoAttemptId, GrantDigest(grant)))
      BY <1>5 DEF RecoverUnreservedReady
    <2> HIDE DEF n
    <2>2. \A h \in GoalId : generations'[h].number = generations[h].number
      BY <1>1, <2>1, ReplacedRow
    <2> QED BY <2>1, <2>2, SameNumber DEF OldAttemptsKept
  <1>6. ASSUME NEW c \in Caller, NEW g \in GoalId, NEW grant \in Grant,
               StopReleasedOwner(c, g, grant)
        PROVE  OldAttemptsKept /\ NumbersFollow
    <2> DEFINE a == generations[g].attempt
    <2>1. /\ a \in AttemptId /\ attempts[a].goal = g
          /\ attempts[a].generation = generations[g].number
          /\ AdvanceReady(c, g, a, "failed", "stopped", grant)
      BY <1>6 DEF StopReleasedOwner, IsCurrent, IInv, TypeInv, RowShape
    <2> HIDE DEF a
    <2> QED BY <2>1, ReadyExplained
  <1>7. ASSUME NEW c \in Caller, NEW grant \in Grant,
               RecordVerifiedProgress(c, grant) \/ Stop(c, grant)
        PROVE  OldAttemptsKept /\ NumbersFollow
    <2> DEFINE g == call[c].goal
               a == call[c].attempt
    <2>1. /\ g \in GoalId /\ a \in AttemptId
          /\ IsCurrent(g, call[c].generation, a, "claimed")
          /\ \/ AdvanceReady(c, g, a, "succeeded", "none", grant)
             \/ AdvanceReady(c, g, a, "failed", "stopped", grant)
      BY <1>7 DEF RecordVerifiedProgress, Stop, Holding, IInv, TypeInv, CallShape, ReservationSteps
    <2> HIDE DEF g, a
    <2>2. attempts[a].goal = g /\ attempts[a].generation = generations[g].number
      <3>1. /\ attempts[a].goal = g /\ attempts[a].generation = call[c].generation
            /\ generations[g] = Generation(call[c].generation, "reserved", a, NoDigest)
        BY <2>1 DEF IsCurrent
      <3>2. Generation(call[c].generation, "reserved", a, NoDigest).number = call[c].generation
        BY DEF Generation
      <3> QED BY <3>1, <3>2
    <2> QED BY <2>1, <2>2, ReadyExplained
  <1>8. ASSUME NEW c \in Caller,
               \/ \E g \in GoalId : ReadyGrant(c, g)
               \/ \E response \in UsageChargeId : RecordProviderUsage(c, response)
               \/ AttestReady(c) \/ AttestReserve(c) \/ AttestClaim(c) \/ AttestRetire(c)
               \/ Raise(c)
        PROVE  UNCHANGED <<attempts, generations>>
    BY <1>8 DEF ReadyGrant, RecordProviderUsage, AttestReady, AttestReserve, AttestClaim,
       AttestRetire, Raise, ledger
  <1>9. ASSUME (\E s \in Store : Crash(s)) \/ UNCHANGED vars
        PROVE  UNCHANGED <<attempts, generations>>
    BY <1>9 DEF Crash, ledger, vars
  <1> QED BY <1>3, <1>4, <1>5, <1>6, <1>7, <1>8, <1>9, DecisionExplained, NumberKept
            DEF Next, CallerStep

\* A goal's generation number never advanced without verified progress, a stopped turn or
\* an explicit decision recorded for exactly the generation that was left.
THEOREM GenerationsExplained == Spec => []EveryGenerationExplained
  <1>1. Init => EveryGenerationExplained
    <2> SUFFICES ASSUME Init, NEW g \in GoalId PROVE 1 .. generations[g].number - 1 = {}
      BY DEF EveryGenerationExplained
    <2>1. generations[g].number = 0
      BY SMTT(30), GenerationFields DEF Init, NoGeneration
    <2> QED BY SMTT(30), <2>1
  <1> QED BY <1>1, ExplainedStep, InvariantHolds, PTL DEF Spec
=============================================================================
