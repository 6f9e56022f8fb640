------------------------- MODULE GoalAttemptsLedger -------------------------
(* Type correctness of the goal attempt ledger, that settled work is final, and *)
(* that its rows agree with each other, whoever writes them.                    *)
EXTENDS GoalAttempts, TLAPS

\* A leaf that names no prover is for Zenon; arithmetic and records go to SMT.
USE ZenonT(30)

\* Steps in which a caller acts for one attempt.
ReservationSteps == {"attest_reserve", "reserved", "attest_claim", "launched"}

\* What a caller's memory refers to while it is inside a sequence of calls.
CallShape ==
    \A c \in Caller :
        /\ call[c].step # "idle" => call[c].goal \in GoalId
        /\ call[c].step \in {"attest_ready", "attest_recovered", "granted"} =>
             call[c].grant \in Grant
        /\ call[c].step \in ReservationSteps => call[c].attempt \in AttemptId

\* A reserved or blocked row names a recorded attempt's identity.
RowShape ==
    \A g \in GoalId : generations[g].lifecycle \in {"reserved", "blocked"} =>
        generations[g].attempt \in AttemptId

TypeInv == TypeOK /\ CallShape /\ RowShape

LEMMA CallStateType ==
    ASSUME NEW st \in Steps, NEW g \in GoalId \cup {NoGoal}, NEW n \in Nat,
           NEW a \in AttemptId \cup {NoAttemptId}, NEW k \in Grant \cup {NoGrant}
    PROVE  CallState(st, g, n, a, k) \in CallStates
  BY DEF CallState, CallStates

LEMMA GenerationType ==
    ASSUME NEW n \in Nat, NEW l \in Lifecycle, NEW a \in AttemptId \cup {NoAttemptId}
    PROVE  /\ \A k \in Grant : Generation(n, l, a, GrantDigest(k)) \in GenerationRows
           /\ Generation(n, l, a, NoDigest) \in GenerationRows
  BY DEF Generation, GenerationRows

LEMMA AttemptRecordType ==
    ASSUME NEW g \in GoalId \cup {NoGoal}, NEW n \in Nat, NEW p \in Phase,
           NEW r \in Resolution
    PROVE  AttemptRecord(g, n, p, r) \in AttemptRows
  BY DEF AttemptRecord, AttemptRows

LEMMA TypeInit == Init => TypeInv
  <1> SUFFICES ASSUME Init PROVE TypeInv
    OBVIOUS
  <1>1. NoGeneration \in GenerationRows /\ NoAttempt \in AttemptRows /\ Idle \in CallStates
    BY CallStateType, GenerationType, AttemptRecordType
       DEF NoGeneration, NoAttempt, Idle, Lifecycle, Phase, Resolution, Steps
  <1>2. TypeOK
    BY <1>1 DEF Init, TypeOK
  <1>3. Idle.step = "idle"
    BY DEF Idle, CallState
  <1>4. CallShape
    BY <1>3 DEF Init, CallShape, ReservationSteps
  <1>5. RowShape
    BY DEF Init, RowShape, NoGeneration, Generation
  <1> QED BY <1>2, <1>4, <1>5 DEF TypeInv

LEMMA AdvanceAttemptType ==
    ASSUME TypeOK, NEW a \in AttemptId, NEW p \in Phase, NEW r \in Resolution,
           AdvanceAttempt(a, p, r)
    PROVE  attempts' \in [AttemptId -> AttemptRows]
  <1> DEFINE row == [attempts[a] EXCEPT !.phase = p, !.resolution = r]
  <1>1. attempts \in [AttemptId -> AttemptRows]
    BY DEF TypeOK
  <1>2. row \in AttemptRows
    BY <1>1 DEF AttemptRows
  <1>3. attempts' = [attempts EXCEPT ![a] = row]
    BY DEF AdvanceAttempt
  <1> HIDE DEF row
  <1> QED BY <1>1, <1>2, <1>3

LEMMA ReadyChangeType ==
    ASSUME TypeInv, NEW c \in Caller, NEW g \in GoalId, NEW n \in Nat,
           NEW k \in Grant, NEW st \in {"attest_ready", "attest_recovered"},
           ReadyChange(c, g, n, k, st)
    PROVE  /\ call' \in [Caller -> CallStates]
           /\ CallShape'
           /\ minted' \subseteq Grant
           /\ UNCHANGED <<readyGrants, owned, published, authority, launches>>
           /\ Generation(n, "ready", NoAttemptId, GrantDigest(k)) \in GenerationRows
  <1>1. CallState(st, g, n, NoAttemptId, k) \in CallStates
    BY CallStateType DEF Steps
  <1>2. Generation(n, "ready", NoAttemptId, GrantDigest(k)) \in GenerationRows
    BY GenerationType DEF Lifecycle
  <1>3. call' \in [Caller -> CallStates]
    BY <1>1 DEF TypeInv, TypeOK, ReadyChange
  <1>4. CallShape'
    BY DEF TypeInv, TypeOK, CallShape, ReadyChange, CallState, ReservationSteps
  <1> QED BY <1>2, <1>3, <1>4 DEF TypeInv, TypeOK, ReadyChange, memory, history

\* The definitions a type argument unfolds.
LEMMA IdleFacts ==
    /\ Idle \in CallStates
    /\ Idle.step = "idle" /\ Idle.attempt = NoAttemptId /\ Idle.goal = NoGoal
  BY CallStateType DEF Idle, CallState, Steps

LEMMA TypeStep == TypeInv /\ [Next]_vars => TypeInv'
  <1> SUFFICES ASSUME TypeInv, [Next]_vars PROVE TypeInv'
    OBVIOUS
  <1> USE DEF TypeInv
  <1>0. /\ \A g \in GoalId : generations[g].number \in Nat /\ generations[g].number + 1 \in Nat
        /\ \A c \in Caller : call[c] \in CallStates
    BY SMTT(30) DEF TypeOK, GenerationRows
  <1>1. ASSUME NEW c \in Caller, NEW g \in GoalId, NEW grant \in Grant,
               CreateGoal(c, g, grant)
        PROVE  TypeInv'
    <2>1. ReadyChange(c, g, 1, grant, "attest_ready")
      BY <1>1 DEF CreateGoal
    <2>2. /\ call' \in [Caller -> CallStates] /\ CallShape' /\ minted' \subseteq Grant
          /\ UNCHANGED <<readyGrants, owned, published, authority, launches>>
          /\ Generation(1, "ready", NoAttemptId, GrantDigest(grant)) \in GenerationRows
      BY <2>1, ReadyChangeType
    <2>3. RowShape'
      BY <1>1 DEF CreateGoal, RowShape, Generation, TypeOK
    <2> QED BY <1>1, <2>2, <2>3 DEF CreateGoal, TypeOK
  <1>2. ASSUME NEW c \in Caller, NEW g \in GoalId, NEW n \in Nat, NEW grant \in Grant,
               NEW st \in {"attest_ready", "attest_recovered"},
               ReadyChange(c, g, n, grant, st),
               Advance(g, Generation(n, "ready", NoAttemptId, GrantDigest(grant))),
               attempts' \in [AttemptId -> AttemptRows],
               decisions' \subseteq [goal : GoalId, decision : WorkDecision, generation : Nat],
               UNCHANGED usage
        PROVE  TypeInv'
    <2>1. /\ call' \in [Caller -> CallStates] /\ CallShape' /\ minted' \subseteq Grant
          /\ UNCHANGED <<readyGrants, owned, published, authority, launches>>
          /\ Generation(n, "ready", NoAttemptId, GrantDigest(grant)) \in GenerationRows
      BY SMTT(30), <1>2, ReadyChangeType
    <2>2. RowShape'
      BY <1>2 DEF Advance, RowShape, Generation, TypeOK
    <2> QED BY <1>2, <2>1, <2>2 DEF Advance, TypeOK
  <1>3. ASSUME NEW c \in Caller, NEW g \in GoalId, NEW a \in AttemptId, NEW grant \in Grant,
               NEW p \in Phase, NEW r \in Resolution, AdvanceReady(c, g, a, p, r, grant)
        PROVE  TypeInv'
    <2>1. attempts' \in [AttemptId -> AttemptRows]
      BY <1>3, AdvanceAttemptType DEF AdvanceReady
    <2> QED BY <1>0, <1>2, <1>3, <2>1 DEF AdvanceReady, TypeOK
  <1>4. ASSUME NEW c \in Caller, NEW g \in GoalId, NEW grant \in Grant,
               RecoverUnreservedReady(c, g, grant) \/ StopReleasedOwner(c, g, grant)
        PROVE  TypeInv'
    <2>1. CASE RecoverUnreservedReady(c, g, grant)
      BY <1>0, <1>2, <2>1 DEF RecoverUnreservedReady, TypeOK
    <2>2. CASE StopReleasedOwner(c, g, grant)
      BY <1>3, <2>2 DEF StopReleasedOwner, RowShape, Phase, Resolution
    <2> QED BY <1>4, <2>1, <2>2
  <1>5. ASSUME NEW c \in Caller, NEW g \in GoalId, NEW decision \in WorkDecision,
               NEW grant \in Grant,
               \/ AuthorizeReadyRecovery(c, g, decision, grant)
               \/ AuthorizeRetry(c, g, decision, grant)
        PROVE  TypeInv'
    <2>1. ASSUME ClaimDecision(g, decision)
          PROVE  decisions' \subseteq [goal : GoalId, decision : WorkDecision, generation : Nat]
      BY SMTT(30), <1>0, <2>1 DEF ClaimDecision, TypeOK
    <2>2. CASE AuthorizeReadyRecovery(c, g, decision, grant)
      BY <1>0, <1>2, <2>1, <2>2 DEF AuthorizeReadyRecovery, TypeOK
    <2>3. CASE AuthorizeRetry(c, g, decision, grant)
      <3>1. attempts' \in [AttemptId -> AttemptRows]
        BY <2>3, AdvanceAttemptType DEF AuthorizeRetry, RowShape, Phase, Resolution
      <3> QED BY <1>0, <1>2, <2>1, <2>3, <3>1 DEF AuthorizeRetry
    <2> QED BY <1>5, <2>2, <2>3
  <1>6. ASSUME NEW c \in Caller, NEW grant \in Grant,
               RecordVerifiedProgress(c, grant) \/ Stop(c, grant)
        PROVE  TypeInv'
    <2>1. call[c].goal \in GoalId /\ call[c].attempt \in AttemptId
      BY <1>6 DEF RecordVerifiedProgress, Stop, Holding, CallShape, ReservationSteps
    <2> QED BY <1>3, <1>6, <2>1 DEF RecordVerifiedProgress, Stop, Phase, Resolution
  <1>7. ASSUME NEW c \in Caller, RecordVerifiedCompletion(c) \/ Fail(c)
        PROVE  TypeInv'
    <2>1. /\ call[c].goal \in GoalId /\ call[c].attempt \in AttemptId
          /\ call[c].generation \in Nat
      BY <1>0, <1>7 DEF RecordVerifiedCompletion, Fail, Holding, CallShape,
           ReservationSteps, CallStates
    <2>2. PICK l \in {"completed", "blocked"}, p \in {"succeeded", "failed"},
               r \in {"none", "failed"} :
            /\ AdvanceAttempt(call[c].attempt, p, r)
            /\ generations' = [generations EXCEPT ![call[c].goal] =
                 Generation(call[c].generation, l, call[c].attempt, NoDigest)]
            /\ call' = [call EXCEPT ![c] = Idle]
            /\ UNCHANGED <<decisions, usage, memory, minted, history>>
      BY <1>7 DEF RecordVerifiedCompletion, Fail, Advance
    <2>3. attempts' \in [AttemptId -> AttemptRows]
      BY <2>1, <2>2, AdvanceAttemptType DEF Phase, Resolution
    <2>4. Generation(call[c].generation, l, call[c].attempt, NoDigest) \in GenerationRows
      BY <2>1, <2>2, GenerationType DEF Lifecycle
    <2>5. RowShape'
      BY <2>1, <2>2 DEF RowShape, Generation, TypeOK
    <2>6. CallShape'
      BY <2>2, IdleFacts DEF CallShape, ReservationSteps, TypeOK
    <2> QED BY <2>2, <2>3, <2>4, <2>5, <2>6, IdleFacts DEF TypeOK, memory, history
  <1>8. ASSUME NEW c \in Caller, NEW response \in UsageChargeId,
               RecordProviderUsage(c, response)
        PROVE  TypeInv'
    BY SMTT(30), <1>8 DEF RecordProviderUsage, Holding, TypeOK, CallShape, RowShape,
         ReservationSteps, memory, history
  <1>9. ASSUME NEW c \in Caller, NEW g \in GoalId, ReadyGrant(c, g)
        PROVE  TypeInv'
    <2>1. PICK e \in readyGrants[StoreOf[c]] :
            /\ e \in GrantEntries
            /\ call' = [call EXCEPT ![c] =
                  CallState("granted", g, e.generation, NoAttemptId, e.grant)]
      BY <1>9, StoreOfAssumption DEF ReadyGrant, TypeOK
    <2>2. CallState("granted", g, e.generation, NoAttemptId, e.grant) \in CallStates
      BY <2>1, CallStateType DEF GrantEntries, Steps
    <2>3. CallShape'
      BY <2>1 DEF CallShape, CallState, ReservationSteps, GrantEntries, TypeOK
    <2> QED BY <1>9, <2>1, <2>2, <2>3 DEF ReadyGrant, TypeOK, RowShape, ledger, memory, history
  <1>10. ASSUME NEW c \in Caller, NEW g \in GoalId, RetireGoal(c, g)
         PROVE  TypeInv'
    <2> DEFINE row == generations[g]
    <2>1. row.number \in Nat /\ row.attempt \in AttemptId \cup {NoAttemptId}
      BY DEF TypeOK, GenerationRows
    <2>2. attempts' \in [AttemptId -> AttemptRows]
      BY <1>10, <2>1, AdvanceAttemptType DEF RetireGoal, RetireAttempt, Phase, Resolution, TypeOK
    <2>3. Generation(row.number, "cancelled", row.attempt, NoDigest) \in GenerationRows
      BY <2>1, GenerationType DEF Lifecycle
    <2>4. CallState("attest_retire", g, row.number, row.attempt, NoGrant) \in CallStates
      BY <2>1, CallStateType DEF Steps
    <2>5. RowShape'
      BY <1>10 DEF RetireGoal, Advance, RowShape, Generation, TypeOK
    <2>6. CallShape'
      BY <1>10 DEF RetireGoal, CallShape, CallState, ReservationSteps, TypeOK
    <2> QED BY <1>10, <2>2, <2>3, <2>4, <2>5, <2>6
              DEF RetireGoal, Advance, TypeOK, memory, history
  <1>11. ASSUME NEW c \in Caller, NEW a \in AttemptId, Reserve(c, a)
         PROVE  TypeInv'
    <2> DEFINE k == call[c]
    <2>1. k.goal \in GoalId /\ k.generation \in Nat /\ k.grant \in Grant
      BY <1>0, <1>11 DEF Reserve, CallShape, CallStates
    <2>2. AttemptRecord(k.goal, k.generation, "reserved", "none") \in AttemptRows
      BY <2>1, AttemptRecordType DEF Phase, Resolution
    <2>3. Generation(k.generation, "reserved", a, NoDigest) \in GenerationRows
      BY <2>1, GenerationType DEF Lifecycle
    <2>4. call' \in [Caller -> CallStates]
      <3>1. [k EXCEPT !.step = "attest_reserve", !.attempt = a] \in CallStates
        BY <1>0 DEF CallStates, Steps
      <3> QED BY <1>11, <3>1 DEF Reserve, TypeOK
    <2>5. RowShape'
      BY <1>11, <2>1 DEF Reserve, Advance, RowShape, Generation, TypeOK
    <2>6. CallShape'
      BY SMTT(30), <1>11, <2>1 DEF Reserve, CallShape, ReservationSteps, TypeOK, CallStates
    <2> QED BY <1>11, <2>1, <2>2, <2>3, <2>4, <2>5, <2>6 DEF Reserve, Advance, TypeOK, memory
  <1>12. ASSUME NEW c \in Caller, AttestReady(c)
         PROVE  TypeInv'
    <2> DEFINE k == call[c]
               s == StoreOf[c]
               e == [goal |-> k.goal, generation |-> k.generation, grant |-> k.grant]
    <2>1. /\ k.goal \in GoalId /\ k.generation \in Nat /\ k.grant \in Grant
          /\ e \in GrantEntries /\ s \in Store
      BY <1>0, <1>12, StoreOfAssumption DEF AttestReady, CallShape, CallStates, GrantEntries
    <2>2. Forget(s, k.goal, k.generation) \subseteq GrantEntries
      BY <2>1 DEF Forget, TypeOK
    <2>3. readyGrants' \in [Store -> SUBSET GrantEntries]
      BY <1>12, <2>1, <2>2 DEF AttestReady, TypeOK
    <2>4. call' \in [Caller -> CallStates]
      BY SMTT(30), <1>0, <1>12, IdleFacts DEF AttestReady, TypeOK, CallStates, Steps
    <2>5. CallShape'
      BY SMTT(30), <1>12, <2>1, IdleFacts DEF AttestReady, CallShape, ReservationSteps, TypeOK, CallStates
    <2> QED BY <1>12, <2>1, <2>3, <2>4, <2>5 DEF AttestReady, TypeOK, RowShape, ledger
  <1>13. ASSUME NEW c \in Caller, AttestReserve(c) \/ AttestRetire(c)
         PROVE  TypeInv'
    <2> DEFINE k == call[c]
               s == StoreOf[c]
    <2>1. s \in Store /\ Forget(s, k.goal, k.generation) \subseteq GrantEntries
      BY StoreOfAssumption DEF Forget, TypeOK
    <2>2. readyGrants' \in [Store -> SUBSET GrantEntries]
      BY <1>13, <2>1 DEF AttestReserve, AttestRetire, TypeOK
    <2>3. owned' \in [Store -> SUBSET AttemptId]
      BY SMTT(30), <1>13, <2>1 DEF AttestReserve, AttestRetire, TypeOK, CallShape, ReservationSteps
    <2>4. CASE AttestReserve(c)
      <3>1. [k EXCEPT !.step = "reserved"] \in CallStates
        BY <1>0 DEF CallStates, Steps
      <3>2. call' \in [Caller -> CallStates]
        BY <2>4, <3>1 DEF AttestReserve, TypeOK
      <3>3. CallShape'
        BY SMTT(30), <2>4, <1>0 DEF AttestReserve, CallShape, ReservationSteps, TypeOK, CallStates
      <3> QED BY <2>2, <2>3, <2>4, <3>2, <3>3
                DEF AttestReserve, TypeOK, RowShape, ledger, history
    <2>5. CASE AttestRetire(c)
      <3>1. CallShape'
        BY <2>5, IdleFacts DEF AttestRetire, CallShape, ReservationSteps, TypeOK
      <3> QED BY <2>2, <2>3, <2>5, <3>1, IdleFacts
                DEF AttestRetire, TypeOK, RowShape, ledger, history
    <2> QED BY <1>13, <2>4, <2>5
  <1>14. ASSUME NEW c \in Caller, AttestClaim(c)
         PROVE  TypeInv'
    <2>1. call' \in [Caller -> CallStates]
      BY SMTT(30), <1>0, <1>14 DEF AttestClaim, TypeOK, CallStates, Steps
    <2>2. CallShape'
      BY SMTT(30), <1>14 DEF AttestClaim, CallShape, ReservationSteps, TypeOK, CallStates
    <2>3. launches' \in [AttemptId -> Nat]
      BY SMTT(30), <1>14 DEF AttestClaim, TypeOK, CallShape, ReservationSteps
    <2>4. owned' \in [Store -> SUBSET AttemptId]
      BY <1>14 DEF AttestClaim, TypeOK
    <2> QED BY <1>14, <2>1, <2>2, <2>3, <2>4 DEF AttestClaim, TypeOK, RowShape, ledger
  <1>15. ASSUME NEW c \in Caller, ClaimLaunch(c)
         PROVE  TypeInv'
    <2>1. call[c].attempt \in AttemptId
      BY <1>15 DEF ClaimLaunch, CallShape, ReservationSteps
    <2>2. attempts' \in [AttemptId -> AttemptRows]
      BY <1>15, <2>1, AdvanceAttemptType DEF ClaimLaunch, Phase, Resolution
    <2>3. call' \in [Caller -> CallStates]
      BY SMTT(30), <1>0, <1>15 DEF ClaimLaunch, TypeOK, CallStates, Steps
    <2>4. CallShape'
      BY SMTT(30), <1>15 DEF ClaimLaunch, CallShape, ReservationSteps, TypeOK, CallStates
    <2> QED BY <1>15, <2>2, <2>3, <2>4 DEF ClaimLaunch, TypeOK, RowShape, memory, history
  <1>16. ASSUME NEW c \in Caller, Raise(c)
         PROVE  TypeInv'
    <2>1. owned' \in [Store -> SUBSET AttemptId]
      BY <1>16 DEF Raise, TypeOK
    <2>2. CallShape'
      BY <1>16, IdleFacts DEF Raise, CallShape, ReservationSteps, TypeOK
    <2> QED BY <1>16, <2>1, <2>2, IdleFacts DEF Raise, TypeOK, RowShape, ledger, history
  <1>17. ASSUME NEW s \in Store, Crash(s)
         PROVE  TypeInv'
    <2>1. CallShape'
      BY <1>17, IdleFacts DEF Crash, CallShape, ReservationSteps, TypeOK
    <2> QED BY <1>17, <2>1, IdleFacts DEF Crash, TypeOK, RowShape, ledger, history
  <1>18. ASSUME UNCHANGED vars
         PROVE  TypeInv'
    BY <1>18 DEF vars, ledger, memory, history, TypeOK, CallShape, RowShape
  <1> QED
    BY <1>1, <1>4, <1>5, <1>6, <1>7, <1>8, <1>9, <1>10, <1>11, <1>12, <1>13, <1>14,
       <1>15, <1>16, <1>17, <1>18
       DEF Next, CallerStep

\* Every reachable state of the ledger, its stores and their callers is well
\* typed, for any number of goals, attempts, grants, stores and callers.
THEOREM TypeCorrect == Spec => []TypeOK
  <1>1. Spec => []TypeInv
    BY TypeInit, TypeStep, PTL DEF Spec
  <1>2. TypeInv => TypeOK
    BY DEF TypeInv
  <1> QED BY <1>1, <1>2, PTL

LEMMA GenerationFields ==
    ASSUME NEW n, NEW l, NEW a, NEW d
    PROVE  /\ Generation(n, l, a, d).number = n
           /\ Generation(n, l, a, d).lifecycle = l
           /\ Generation(n, l, a, d).attempt = a
           /\ Generation(n, l, a, d).digest = d
  BY DEF Generation

-----------------------------------------------------------------------------
(* What is settled stays settled. *)

LEMMA AdvanceKeepsSettled ==
    ASSUME TypeInv, NEW g \in GoalId, NEW row, Advance(g, row),
           row.number >= generations[g].number
    PROVE  \A h \in GoalId :
             /\ generations[h].lifecycle \in {"completed", "cancelled"} =>
                  generations'[h] = generations[h]
             /\ generations'[h].number >= generations[h].number
  <1>1. generations[g].lifecycle \notin {"completed", "cancelled"}
    BY SMTT(30) DEF Advance, GenerationSuccessors
  <1>2. \A h \in GoalId : generations[h].number \in Nat
    BY DEF TypeInv, TypeOK, GenerationRows
  <1> QED BY SMTT(30), <1>1, <1>2 DEF Advance, TypeInv, TypeOK

LEMMA AdvanceAttemptKeepsSettled ==
    ASSUME TypeInv, NEW a \in AttemptId, NEW p, NEW r, AdvanceAttempt(a, p, r)
    PROVE  \A b \in AttemptId :
             attempts[b].phase \in {"succeeded", "resolved"} => attempts'[b] = attempts[b]
  <1>1. attempts[a].phase \notin {"succeeded", "resolved"}
    BY SMTT(30) DEF AdvanceAttempt, AttemptSuccessors
  <1> QED BY <1>1 DEF AdvanceAttempt, TypeInv, TypeOK

LEMMA SettledNext == TypeInv /\ [Next]_vars => SettledStep
  <1> SUFFICES ASSUME TypeInv, [Next]_vars PROVE SettledStep
    OBVIOUS
  <1>0. \A g \in GoalId : generations[g].number \in Nat
    BY DEF TypeInv, TypeOK, GenerationRows
  <1>1. ASSUME UNCHANGED <<generations, attempts, decisions>> PROVE SettledStep
    BY SMTT(30), <1>0, <1>1 DEF SettledStep
  <1>2. ASSUME NEW c \in Caller, NEW g \in GoalId, NEW grant \in Grant,
               CreateGoal(c, g, grant)
        PROVE  SettledStep
    <2>1. generations[g].lifecycle = "absent" /\ generations[g].number = 0
      BY SMTT(30), <1>2 DEF CreateGoal, NoGeneration, Generation
    <2>2. /\ generations'[g].number = 1
          /\ \A h \in GoalId : h # g => generations'[h] = generations[h]
      BY SMTT(30), <1>2, GenerationFields DEF CreateGoal, TypeInv, TypeOK
    <2> QED BY SMTT(30), <1>0, <1>2, <2>1, <2>2 DEF CreateGoal, SettledStep
  <1>3. ASSUME NEW c \in Caller, NEW g \in GoalId, NEW grant \in Grant,
               RecoverUnreservedReady(c, g, grant)
        PROVE  SettledStep
    BY SMTT(30), <1>0, <1>3, AdvanceKeepsSettled, GenerationFields DEF RecoverUnreservedReady, SettledStep
  <1>4. ASSUME NEW c \in Caller, NEW g \in GoalId, NEW a \in AttemptId, NEW grant \in Grant,
               NEW p, NEW r, AdvanceReady(c, g, a, p, r, grant)
        PROVE  SettledStep
    <2>1. \A b \in AttemptId :
            attempts[b].phase \in {"succeeded", "resolved"} => attempts'[b] = attempts[b]
      BY <1>4, AdvanceAttemptKeepsSettled DEF AdvanceReady
    <2> QED BY SMTT(30), <1>0, <1>4, <2>1, AdvanceKeepsSettled, GenerationFields
              DEF AdvanceReady, SettledStep
  <1>5. ASSUME NEW c \in Caller, NEW g \in GoalId, NEW grant \in Grant,
               StopReleasedOwner(c, g, grant)
        PROVE  SettledStep
    BY <1>4, <1>5 DEF StopReleasedOwner, TypeInv, RowShape
  <1>6. ASSUME NEW c \in Caller, NEW g \in GoalId, NEW decision \in WorkDecision,
               NEW grant \in Grant, AuthorizeReadyRecovery(c, g, decision, grant)
        PROVE  SettledStep
    BY SMTT(30), <1>0, <1>6, AdvanceKeepsSettled, GenerationFields
       DEF AuthorizeReadyRecovery, ClaimDecision, SettledStep
  <1>7. ASSUME NEW c \in Caller, NEW g \in GoalId, NEW decision \in WorkDecision,
               NEW grant \in Grant, AuthorizeRetry(c, g, decision, grant)
        PROVE  SettledStep
    <2>1. \A b \in AttemptId :
            attempts[b].phase \in {"succeeded", "resolved"} => attempts'[b] = attempts[b]
      BY <1>7, AdvanceAttemptKeepsSettled DEF AuthorizeRetry, TypeInv, RowShape
    <2> QED BY SMTT(30), <1>0, <1>7, <2>1, AdvanceKeepsSettled, GenerationFields
              DEF AuthorizeRetry, ClaimDecision, SettledStep
  <1>8. ASSUME NEW c \in Caller, NEW grant \in Grant,
               RecordVerifiedProgress(c, grant) \/ Stop(c, grant)
        PROVE  SettledStep
    BY <1>4, <1>8 DEF RecordVerifiedProgress, Stop, Holding, TypeInv, CallShape, ReservationSteps
  <1>9. ASSUME NEW c \in Caller, RecordVerifiedCompletion(c) \/ Fail(c)
        PROVE  SettledStep
    <2>1. /\ call[c].goal \in GoalId /\ call[c].attempt \in AttemptId
          /\ generations[call[c].goal].number = call[c].generation
      BY SMTT(30), <1>9, GenerationFields DEF RecordVerifiedCompletion, Fail, Holding, IsCurrent,
           TypeInv, CallShape, ReservationSteps
    <2>2. PICK l, p, r :
            /\ AdvanceAttempt(call[c].attempt, p, r)
            /\ Advance(call[c].goal, Generation(call[c].generation, l, call[c].attempt, NoDigest))
            /\ UNCHANGED decisions
      BY <1>9 DEF RecordVerifiedCompletion, Fail
    <2> QED BY SMTT(30), <1>0, <2>1, <2>2, AdvanceKeepsSettled, AdvanceAttemptKeepsSettled, GenerationFields
              DEF SettledStep
  <1>10. ASSUME NEW c \in Caller, NEW g \in GoalId, RetireGoal(c, g)
         PROVE  SettledStep
    <2>1. \A b \in AttemptId :
            attempts[b].phase \in {"succeeded", "resolved"} => attempts'[b] = attempts[b]
      <3>1. CASE generations[g].attempt = NoAttemptId
        BY <1>10, <3>1 DEF RetireGoal, RetireAttempt
      <3>2. CASE generations[g].attempt # NoAttemptId
        BY <1>10, <3>2, AdvanceAttemptKeepsSettled
           DEF RetireGoal, RetireAttempt, TypeInv, TypeOK, GenerationRows
      <3> QED BY <3>1, <3>2
    <2> QED BY SMTT(30), <1>0, <1>10, <2>1, AdvanceKeepsSettled, GenerationFields DEF RetireGoal, SettledStep
  <1>11. ASSUME NEW c \in Caller, NEW a \in AttemptId, Reserve(c, a)
         PROVE  SettledStep
    <2>1. /\ call[c].goal \in GoalId
          /\ generations[call[c].goal].number = call[c].generation
          /\ attempts[a].phase = "unrecorded"
      BY SMTT(30), <1>11 DEF Reserve, HasReadyGrant, TypeInv, CallShape, NoAttempt, AttemptRecord
    <2>2. \A b \in AttemptId : b # a => attempts'[b] = attempts[b]
      BY <1>11 DEF Reserve, TypeInv, TypeOK
    <2> QED BY SMTT(30), <1>0, <1>11, <2>1, <2>2, AdvanceKeepsSettled, GenerationFields
              DEF Reserve, SettledStep
  <1>12. ASSUME NEW c \in Caller, ClaimLaunch(c)
         PROVE  SettledStep
    BY SMTT(30), <1>0, <1>12, AdvanceAttemptKeepsSettled
       DEF ClaimLaunch, SettledStep, TypeInv, CallShape, ReservationSteps
  <1>13. ASSUME NEW c \in Caller,
                \/ \E g \in GoalId : ReadyGrant(c, g)
                \/ \E response \in UsageChargeId : RecordProviderUsage(c, response)
                \/ AttestReady(c) \/ AttestReserve(c) \/ AttestClaim(c) \/ AttestRetire(c)
                \/ Raise(c)
         PROVE  SettledStep
    BY <1>1, <1>13 DEF ReadyGrant, RecordProviderUsage, AttestReady, AttestReserve,
         AttestClaim, AttestRetire, Raise, ledger
  <1>14. ASSUME NEW s \in Store, Crash(s)
         PROVE  SettledStep
    BY <1>1, <1>14 DEF Crash, ledger
  <1>15. CASE UNCHANGED vars
    BY <1>1, <1>15 DEF vars, ledger
  <1> QED
    BY <1>2, <1>3, <1>5, <1>6, <1>7, <1>8, <1>9, <1>10, <1>11, <1>12, <1>13, <1>14, <1>15
       DEF Next, CallerStep

\* Completed and cancelled goals, succeeded and resolved attempts and used
\* decisions never change, and generation numbers never go back, for every
\* number of goals, attempts, stores and callers.
THEOREM SettledWorkStaysFinal == Spec => SettledWorkIsFinal
  <1>1. Spec => []TypeInv
    BY TypeInit, TypeStep, PTL DEF Spec
  <1>2. TypeInv /\ [Next]_vars => [SettledStep]_vars
    BY SettledNext
  <1> QED BY <1>1, <1>2, PTL DEF Spec, SettledWorkIsFinal

-----------------------------------------------------------------------------
(* Rows of the ledger agree with each other.  UnresolvedIsCurrent alone is   *)
(* not inductive: a fresh reservation must find no older attempt of the same *)
(* generation, so every recorded attempt is bounded by its goal's row.       *)

Unresolved(a) == attempts[a].phase \in {"reserved", "claimed"}

RowsAgree(g) ==
    /\ generations[g].lifecycle # "absent" => generations[g].number \in 1 .. MaxGeneration
    /\ generations[g].lifecycle = "ready" => generations[g].attempt = NoAttemptId
    /\ generations[g].lifecycle = "reserved" =>
         /\ attempts[generations[g].attempt].goal = g
         /\ attempts[generations[g].attempt].generation = generations[g].number
         /\ Unresolved(generations[g].attempt)

AttemptAgrees(a) ==
    /\ Recorded(a) =>
         /\ attempts[a].goal \in GoalId
         /\ generations[attempts[a].goal].lifecycle # "absent"
         /\ attempts[a].generation <= generations[attempts[a].goal].number
         /\ attempts[a].generation = generations[attempts[a].goal].number =>
              generations[attempts[a].goal].attempt = a
    /\ Unresolved(a) =>
         generations[attempts[a].goal] = Generation(attempts[a].generation, "reserved", a, NoDigest)

OneAttemptPerGeneration ==
    \A a, b \in AttemptId :
        Recorded(a) /\ Recorded(b) /\ attempts[a].goal = attempts[b].goal
          /\ attempts[a].generation = attempts[b].generation => a = b

LedgerInv ==
    /\ \A g \in GoalId : RowsAgree(g)
    /\ \A a \in AttemptId : AttemptAgrees(a)
    /\ OneAttemptPerGeneration

(* Launching. *)

Reserving(c) == call[c].step \in ReservationSteps

CallAgrees(c) ==
    /\ Reserving(c) =>
         /\ Recorded(call[c].attempt)
         /\ attempts[call[c].attempt].goal = call[c].goal
         /\ attempts[call[c].attempt].generation = call[c].generation
         /\ call[c].step # "launched" => launches[call[c].attempt] = 0
    /\ call[c].step = "launched" =>
         \/ attempts[call[c].attempt].phase = "claimed"
         \/ generations[call[c].goal].lifecycle = "cancelled"

LaunchInv ==
    /\ \A a \in AttemptId : launches[a] # 0 =>
         launches[a] = 1 /\ Recorded(a) /\ attempts[a].phase # "reserved"
    /\ \A c \in Caller : CallAgrees(c)
    /\ \A c, d \in Caller :
         Reserving(c) /\ Reserving(d) /\ call[c].attempt = call[d].attempt => c = d
    /\ AtMostOneRunningTurn

(* Grants. *)

GrantInv ==
    /\ \A s \in Store : \A e \in readyGrants[s] : e.grant \in published
    /\ \A c \in Caller : call[c].step = "granted" => call[c].grant \in published
    /\ ReservedFromAcknowledgedGrant

-----------------------------------------------------------------------------
LEMMA LedgerInit == Init => LedgerInv /\ LaunchInv /\ GrantInv
  <1> SUFFICES ASSUME Init PROVE LedgerInv /\ LaunchInv /\ GrantInv
    OBVIOUS
  <1>1. /\ \A g \in GoalId : generations[g].lifecycle = "absent"
        /\ \A a \in AttemptId : attempts[a].phase = "unrecorded" /\ launches[a] = 0
        /\ \A c \in Caller : call[c].step = "idle"
        /\ \A s \in Store : readyGrants[s] = {}
    BY DEF Init, NoGeneration, Generation, NoAttempt, AttemptRecord, Idle, CallState
  <1>2. LedgerInv
    BY <1>1 DEF LedgerInv, RowsAgree, AttemptAgrees, OneAttemptPerGeneration, Recorded, Unresolved
  <1>3. LaunchInv
    BY <1>1 DEF LaunchInv, CallAgrees, Reserving, ReservationSteps, AtMostOneRunningTurn
  <1>4. GrantInv
    BY <1>1 DEF GrantInv, ReservedFromAcknowledgedGrant, Recorded
  <1> QED BY <1>2, <1>3, <1>4

\* A step that leaves no attempt of goal g unresolved and changes no other.
AttemptsSettle(g) ==
    /\ attempts' \in [AttemptId -> AttemptRows]
    /\ \A a \in AttemptId :
         /\ attempts'[a].goal = attempts[a].goal
         /\ attempts'[a].generation = attempts[a].generation
         /\ Recorded(a)' = Recorded(a)
         /\ Unresolved(a)' => Unresolved(a)
         /\ attempts[a].goal # g => attempts'[a] = attempts[a]
         /\ attempts[a].goal = g => ~Unresolved(a)'

\* An unresolved attempt holds its goal's row.
LEMMA UnresolvedHoldsRow ==
    ASSUME LedgerInv, NEW a \in AttemptId, Unresolved(a)
    PROVE  /\ Recorded(a) /\ attempts[a].goal \in GoalId
           /\ generations[attempts[a].goal].lifecycle = "reserved"
           /\ generations[attempts[a].goal].attempt = a
           /\ generations[attempts[a].goal].number = attempts[a].generation
  <1>1. Recorded(a)
    BY DEF Recorded, Unresolved
  <1>2. generations[attempts[a].goal] = Generation(attempts[a].generation, "reserved", a, NoDigest)
    BY DEF LedgerInv, AttemptAgrees
  <1> QED BY SMTT(30), <1>1, <1>2, GenerationFields DEF LedgerInv, AttemptAgrees

\* Where one goal's row changes and its attempts settle, every other goal is as it was.
LEMMA OthersAgree ==
    ASSUME TypeInv, LedgerInv, NEW g \in GoalId, AttemptsSettle(g),
           \A h \in GoalId : h # g => generations'[h] = generations[h]
    PROVE  /\ \A h \in GoalId : h # g => RowsAgree(h)'
           /\ \A a \in AttemptId : attempts[a].goal # g => AttemptAgrees(a)'
           /\ OneAttemptPerGeneration'
  <1>1. ASSUME NEW h \in GoalId, h # g PROVE RowsAgree(h)'
    <2>1. generations'[h] = generations[h] /\ RowsAgree(h)
      BY <1>1 DEF LedgerInv
    <2>2. PICK a : a = generations[h].attempt
      OBVIOUS
    <2>3. generations[h].lifecycle = "reserved" => a \in AttemptId /\ attempts[a].goal = h
      BY <2>1, <2>2 DEF RowsAgree, TypeInv, RowShape
    <2>4. generations[h].lifecycle = "reserved" => attempts'[a] = attempts[a]
      BY <1>1, <2>3 DEF AttemptsSettle
    <2> QED BY <2>1, <2>2, <2>4 DEF RowsAgree, Unresolved
  <1>2. ASSUME NEW a \in AttemptId, attempts[a].goal # g PROVE AttemptAgrees(a)'
    <2>1. attempts'[a] = attempts[a] /\ AttemptAgrees(a)
      BY <1>2 DEF AttemptsSettle, LedgerInv
    <2>2. attempts[a].goal \in GoalId => generations'[attempts[a].goal] = generations[attempts[a].goal]
      BY <1>2
    <2>3. Unresolved(a) => Recorded(a)
      BY DEF Unresolved, Recorded
    <2> QED BY <2>1, <2>2, <2>3 DEF AttemptAgrees, Recorded, Unresolved
  <1>3. OneAttemptPerGeneration'
    <2>1. OneAttemptPerGeneration
      BY DEF LedgerInv
    <2>2. \A a \in AttemptId : /\ attempts'[a].goal = attempts[a].goal
                               /\ attempts'[a].generation = attempts[a].generation
                               /\ Recorded(a)' => Recorded(a)
      BY DEF AttemptsSettle
    <2>3. ASSUME NEW a \in AttemptId, NEW b \in AttemptId, Recorded(a)', Recorded(b)',
                 attempts'[a].goal = attempts'[b].goal,
                 attempts'[a].generation = attempts'[b].generation
          PROVE  a = b
      <3>1. Recorded(a) /\ Recorded(b)
        BY <2>2, <2>3
      <3>2. attempts[a].goal = attempts[b].goal /\ attempts[a].generation = attempts[b].generation
        BY <2>2, <2>3
      <3> QED BY <2>1, <3>1, <3>2 DEF OneAttemptPerGeneration
    <2> QED BY <2>3 DEF OneAttemptPerGeneration
  <1> QED BY <1>1, <1>2, <1>3

\* A row that becomes ready at a number past every attempt, or again at a
\* number no attempt has, agrees with attempts that are all settled.
LEMMA ReadyRowAgrees ==
    ASSUME TypeInv, LedgerInv, NEW g \in GoalId, NEW n \in 1 .. MaxGeneration, NEW k \in Grant,
           generations' = [generations EXCEPT ![g] =
               Generation(n, "ready", NoAttemptId, GrantDigest(k))],
           AttemptsSettle(g),
           \A a \in AttemptId : Recorded(a) /\ attempts[a].goal = g => attempts[a].generation < n
    PROVE  LedgerInv'
  <1>1. /\ generations'[g] = Generation(n, "ready", NoAttemptId, GrantDigest(k))
        /\ \A h \in GoalId : h # g => generations'[h] = generations[h]
    BY DEF TypeInv, TypeOK
  <1>2. /\ generations'[g].number = n /\ generations'[g].lifecycle = "ready"
        /\ generations'[g].attempt = NoAttemptId
    BY SMTT(30), <1>1, GenerationFields
  <1>3. RowsAgree(g)'
    BY <1>2 DEF RowsAgree
  <1>4. ASSUME NEW a \in AttemptId, attempts[a].goal = g PROVE AttemptAgrees(a)'
    <2>1. /\ attempts'[a].goal = g /\ attempts'[a].generation = attempts[a].generation
          /\ Recorded(a)' => Recorded(a)
      BY <1>4 DEF AttemptsSettle
    <2>2. ~Unresolved(a)'
      BY <1>4 DEF AttemptsSettle
    <2>3. Recorded(a) => attempts[a].generation < n
      BY <1>4
    <2>4. attempts[a].generation \in Nat
      BY DEF TypeInv, TypeOK, AttemptRows
    <2>5. Recorded(a) => attempts[a].generation <= n /\ attempts[a].generation # n
      BY SMTT(30), <2>3, <2>4
    <2> QED BY <1>2, <2>1, <2>2, <2>5 DEF AttemptAgrees
  <1> QED BY <1>1, <1>3, <1>4, OthersAgree DEF LedgerInv

\* A row that leaves the running lifecycles in place, its attempt settled.
LEMMA SettledRowAgrees ==
    ASSUME TypeInv, LedgerInv, NEW g \in GoalId,
           NEW l \in {"blocked", "completed", "cancelled"},
           generations[g].lifecycle # "absent",
           generations' = [generations EXCEPT ![g] =
               Generation(generations[g].number, l, generations[g].attempt, NoDigest)],
           AttemptsSettle(g)
    PROVE  LedgerInv'
  <1>1. /\ generations'[g] = Generation(generations[g].number, l, generations[g].attempt, NoDigest)
        /\ \A h \in GoalId : h # g => generations'[h] = generations[h]
    BY DEF TypeInv, TypeOK
  <1>2. /\ generations'[g].number = generations[g].number /\ generations'[g].lifecycle = l
        /\ generations'[g].attempt = generations[g].attempt
    BY SMTT(30), <1>1, GenerationFields
  <1>3. RowsAgree(g)'
    <2>1. generations[g].number \in 1 .. MaxGeneration
      BY DEF LedgerInv, RowsAgree
    <2> QED BY <1>2, <2>1 DEF RowsAgree
  <1>4. ASSUME NEW a \in AttemptId, attempts[a].goal = g PROVE AttemptAgrees(a)'
    <2>1. /\ attempts'[a].goal = g /\ attempts'[a].generation = attempts[a].generation
          /\ Recorded(a)' => Recorded(a)
      BY <1>4 DEF AttemptsSettle
    <2>2. ~Unresolved(a)'
      BY <1>4 DEF AttemptsSettle
    <2>3. AttemptAgrees(a)
      BY DEF LedgerInv
    <2> QED BY <1>2, <1>4, <2>1, <2>2, <2>3 DEF AttemptAgrees
  <1> QED BY <1>1, <1>3, <1>4, OthersAgree DEF LedgerInv

\* Settling the attempt that a row names leaves no attempt of that goal
\* unresolved, and every other attempt as it was.
LEMMA AttemptSettles ==
    ASSUME TypeInv, LedgerInv, NEW g \in GoalId, NEW a \in AttemptId,
           NEW p \in {"failed", "succeeded", "resolved"}, NEW r \in Resolution,
           generations[g].attempt = a, attempts[a].goal = g,
           AdvanceAttempt(a, p, r), Recorded(a)
    PROVE  AttemptsSettle(g)
  <1>1. attempts' \in [AttemptId -> AttemptRows]
    BY AdvanceAttemptType DEF TypeInv, Phase
  <1>2. \A b \in AttemptId : b # a => attempts'[b] = attempts[b]
    BY DEF AdvanceAttempt, TypeInv, TypeOK
  <1>3. /\ attempts'[a].goal = attempts[a].goal
        /\ attempts'[a].generation = attempts[a].generation
        /\ attempts'[a].phase = p
    BY SMTT(30) DEF AdvanceAttempt, TypeInv, TypeOK, AttemptRows
  <1>4. \A b \in AttemptId : b # a /\ attempts[b].goal = g => ~Unresolved(b)
    BY UnresolvedHoldsRow
  <1> QED BY <1>1, <1>2, <1>3, <1>4 DEF AttemptsSettle, Recorded, Unresolved

LEMMA LedgerStep == TypeInv /\ LedgerInv /\ [Next]_vars => LedgerInv'
  <1> SUFFICES ASSUME TypeInv, LedgerInv, [Next]_vars PROVE LedgerInv'
    OBVIOUS
  <1>0. \A g \in GoalId : generations[g].number \in Nat
    BY DEF TypeInv, TypeOK, GenerationRows
  <1>01. \A a \in AttemptId : attempts[a].generation \in Nat
    BY DEF TypeInv, TypeOK, AttemptRows
  <1>1. ASSUME UNCHANGED <<generations, attempts>> PROVE LedgerInv'
    BY SMTT(30), <1>1 DEF LedgerInv, RowsAgree, AttemptAgrees, OneAttemptPerGeneration, Recorded, Unresolved
  <1>2. ASSUME NEW c \in Caller, NEW g \in GoalId, NEW grant \in Grant,
               CreateGoal(c, g, grant)
        PROVE  LedgerInv'
    <2>1. generations[g].lifecycle = "absent"
      BY SMTT(30), <1>2 DEF CreateGoal, NoGeneration, Generation
    <2>2. \A a \in AttemptId : Recorded(a) => attempts[a].goal # g
      BY <2>1 DEF LedgerInv, AttemptAgrees
    <2>3. \A a \in AttemptId : attempts[a].goal = g => ~Unresolved(a)
      BY <2>2 DEF Recorded, Unresolved
    <2>4. 1 \in 1 .. MaxGeneration /\ UNCHANGED attempts
      BY SMTT(30), <1>2, MaxGenerationAssumption DEF CreateGoal, ReadyChange
    <2>5. AttemptsSettle(g)
      BY <2>3, <2>4 DEF AttemptsSettle, TypeInv, TypeOK, Recorded, Unresolved
    <2> QED BY <1>2, <2>2, <2>4, <2>5, ReadyRowAgrees DEF CreateGoal
  <1>3. ASSUME NEW g \in GoalId, UnreservedReady(g)
        PROVE  \A a \in AttemptId : attempts[a].goal = g =>
                 ~Unresolved(a) /\ (Recorded(a) => attempts[a].generation < generations[g].number)
    <2> SUFFICES ASSUME NEW a \in AttemptId, attempts[a].goal = g
                 PROVE  ~Unresolved(a) /\ (Recorded(a) =>
                          attempts[a].generation < generations[g].number)
      OBVIOUS
    <2>1. generations[g].attempt # a
      BY <1>3, AbsenceAssumption DEF UnreservedReady
    <2>2. ~Unresolved(a)
      BY <2>1, UnresolvedHoldsRow
    <2> QED BY SMTT(30), <1>0, <1>01, <2>1, <2>2 DEF LedgerInv, AttemptAgrees
  <1>4. ASSUME NEW c \in Caller, NEW g \in GoalId, NEW grant \in Grant,
               RecoverUnreservedReady(c, g, grant)
        PROVE  LedgerInv'
    <2>1. generations[g].number \in 1 .. MaxGeneration
      BY <1>4 DEF RecoverUnreservedReady, UnreservedReady, LedgerInv, RowsAgree
    <2>2. UNCHANGED attempts
      BY <1>4 DEF RecoverUnreservedReady
    <2>3. AttemptsSettle(g)
      BY <1>3, <1>4, <2>2
         DEF RecoverUnreservedReady, AttemptsSettle, TypeInv, TypeOK, Recorded, Unresolved
    <2> QED BY <1>3, <1>4, <2>1, <2>3, ReadyRowAgrees DEF RecoverUnreservedReady, Advance
  <1>5. ASSUME NEW c \in Caller, NEW g \in GoalId, NEW decision \in WorkDecision,
               NEW grant \in Grant, AuthorizeReadyRecovery(c, g, decision, grant)
        PROVE  LedgerInv'
    <2>1. generations[g].number + 1 \in 1 .. MaxGeneration
      BY SMTT(30), <1>0, <1>5, MaxGenerationAssumption DEF AuthorizeReadyRecovery, ReadyChange
    <2>2. UNCHANGED attempts
      BY <1>5 DEF AuthorizeReadyRecovery
    <2>3. \A a \in AttemptId : Recorded(a) /\ attempts[a].goal = g =>
            attempts[a].generation < generations[g].number + 1
      BY SMTT(30), <1>0, <1>01 DEF LedgerInv, AttemptAgrees
    <2>4. UnreservedReady(g)
      BY <1>5 DEF AuthorizeReadyRecovery
    <2>5. AttemptsSettle(g)
      BY <1>3, <2>2, <2>4 DEF AttemptsSettle, TypeInv, TypeOK, Recorded, Unresolved
    <2> QED BY <1>5, <2>1, <2>3, <2>5, ReadyRowAgrees DEF AuthorizeReadyRecovery, Advance
  <1>6. ASSUME NEW c \in Caller, NEW g \in GoalId, NEW a \in AttemptId, NEW grant \in Grant,
               NEW p \in {"failed", "succeeded", "resolved"}, NEW r \in Resolution,
               generations[g].attempt = a, attempts[a].goal = g, Recorded(a),
               AdvanceAttempt(a, p, r),
               ReadyChange(c, g, generations[g].number + 1, grant, "attest_ready"),
               Advance(g, Generation(generations[g].number + 1, "ready", NoAttemptId,
                                     GrantDigest(grant)))
        PROVE  LedgerInv'
    <2>1. generations[g].number + 1 \in 1 .. MaxGeneration
      BY SMTT(30), <1>0, <1>6, MaxGenerationAssumption DEF ReadyChange
    <2>2. \A b \in AttemptId : Recorded(b) /\ attempts[b].goal = g =>
            attempts[b].generation < generations[g].number + 1
      BY SMTT(30), <1>0, <1>01 DEF LedgerInv, AttemptAgrees
    <2>3. generations' = [generations EXCEPT ![g] =
            Generation(generations[g].number + 1, "ready", NoAttemptId, GrantDigest(grant))]
      BY <1>6 DEF Advance
    <2>4. AttemptsSettle(g)
      BY <1>6, AttemptSettles
    <2> QED BY <2>1, <2>2, <2>3, <2>4, ReadyRowAgrees
  <1>7. ASSUME NEW c \in Caller, NEW g \in GoalId, NEW grant \in Grant,
               StopReleasedOwner(c, g, grant)
        PROVE  LedgerInv'
    <2>1. generations[g].attempt \in AttemptId
      BY <1>7 DEF StopReleasedOwner, TypeInv, RowShape
    <2> QED BY <1>6, <1>7, <2>1
              DEF StopReleasedOwner, IsCurrent, AdvanceReady, Recorded, Resolution
  <1>8. ASSUME NEW c \in Caller, NEW g \in GoalId, NEW decision \in WorkDecision,
               NEW grant \in Grant, AuthorizeRetry(c, g, decision, grant)
        PROVE  LedgerInv'
    <2>1. generations[g].attempt \in AttemptId
      BY <1>8 DEF AuthorizeRetry, TypeInv, RowShape
    <2> QED BY <1>6, <1>8, <2>1 DEF AuthorizeRetry, Recorded, Resolution
  <1>9. ASSUME NEW c \in Caller, Holding(c)
        PROVE  /\ call[c].goal \in GoalId /\ call[c].attempt \in AttemptId
               /\ generations[call[c].goal].attempt = call[c].attempt
               /\ generations[call[c].goal].number = call[c].generation
               /\ generations[call[c].goal].lifecycle = "reserved"
               /\ attempts[call[c].attempt].goal = call[c].goal
               /\ Recorded(call[c].attempt)
    BY SMTT(30), <1>9 DEF Holding, IsCurrent, Generation, Recorded, TypeInv, CallShape, ReservationSteps
  <1>10. ASSUME NEW c \in Caller, NEW grant \in Grant,
                RecordVerifiedProgress(c, grant) \/ Stop(c, grant)
         PROVE  LedgerInv'
    <2>1. Holding(c)
      BY <1>10 DEF RecordVerifiedProgress, Stop
    <2> QED BY <1>6, <1>9, <1>10, <2>1
              DEF RecordVerifiedProgress, Stop, AdvanceReady, Resolution
  <1>11. ASSUME NEW c \in Caller, RecordVerifiedCompletion(c) \/ Fail(c)
         PROVE  LedgerInv'
    <2> DEFINE g == call[c].goal
               a == call[c].attempt
    <2>1. Holding(c)
      BY <1>11 DEF RecordVerifiedCompletion, Fail
    <2>2. PICK l \in {"completed", "blocked"}, p \in {"succeeded", "failed"},
               r \in {"none", "failed"} :
            /\ AdvanceAttempt(a, p, r)
            /\ generations' = [generations EXCEPT ![g] =
                 Generation(call[c].generation, l, a, NoDigest)]
      BY <1>11 DEF RecordVerifiedCompletion, Fail, Advance
    <2> HIDE DEF g, a
    <2>3. AttemptsSettle(g)
      BY <1>9, <2>1, <2>2, AttemptSettles DEF Resolution, g, a
    <2>4. generations' = [generations EXCEPT ![g] =
            Generation(generations[g].number, l, generations[g].attempt, NoDigest)]
      BY <1>9, <2>1, <2>2 DEF g, a
    <2> QED BY <1>9, <2>1, <2>3, <2>4, SettledRowAgrees DEF g
  <1>12. ASSUME NEW c \in Caller, NEW g \in GoalId, RetireGoal(c, g)
         PROVE  LedgerInv'
    <2> DEFINE row == generations[g]
    <2>1. generations' = [generations EXCEPT ![g] =
            Generation(row.number, "cancelled", row.attempt, NoDigest)]
      BY <1>12 DEF RetireGoal, Advance
    <2>2. row.lifecycle \in {"ready", "reserved", "blocked"}
      BY <1>12 DEF RetireGoal, RetireAttempt
    <2>3. CASE row.attempt = NoAttemptId
      <3>1. row.lifecycle = "ready" /\ UNCHANGED attempts
        BY <1>12, <2>3 DEF RetireGoal, RetireAttempt
      <3>2. AttemptsSettle(g)
        BY <1>3, <2>3, <3>1
           DEF UnreservedReady, AttemptsSettle, TypeInv, TypeOK, Recorded, Unresolved
      <3> QED BY <2>1, <3>1, <3>2, SettledRowAgrees
    <2>4. CASE row.attempt # NoAttemptId
      <3>1. row.attempt \in AttemptId
        BY <2>4 DEF TypeInv, TypeOK, GenerationRows
      <3>2. /\ attempts[row.attempt].goal = g
            /\ AdvanceAttempt(row.attempt, "resolved", "cleared")
        BY <1>12, <2>4 DEF RetireGoal, RetireAttempt
      <3>3. Recorded(row.attempt)
        <4>1. CASE row.lifecycle = "reserved"
          BY <4>1, <3>1 DEF LedgerInv, RowsAgree, Unresolved, Recorded
        <4>2. CASE row.lifecycle # "reserved"
          BY <1>12, <2>4, <4>2 DEF RetireGoal, RetireAttempt, Recorded
        <4> QED BY <4>1, <4>2
      <3>4. AttemptsSettle(g)
        BY <3>1, <3>2, <3>3, AttemptSettles DEF Resolution
      <3> QED BY <2>1, <2>2, <3>4, SettledRowAgrees
    <2> QED BY <2>3, <2>4
  <1>13. ASSUME NEW c \in Caller, NEW a \in AttemptId, Reserve(c, a)
         PROVE  LedgerInv'
    <2> DEFINE g == call[c].goal
               n == call[c].generation
    <2>1. /\ g \in GoalId /\ n \in Nat /\ UnreservedReady(g) /\ generations[g].number = n
      BY <1>13 DEF Reserve, HasReadyGrant, TypeInv, CallShape, TypeOK, CallStates
    <2>2. /\ attempts'[a] = AttemptRecord(g, n, "reserved", "none")
          /\ \A b \in AttemptId : b # a => attempts'[b] = attempts[b]
          /\ generations'[g] = Generation(n, "reserved", a, NoDigest)
          /\ \A h \in GoalId : h # g => generations'[h] = generations[h]
      BY <1>13, <2>1 DEF Reserve, Advance, TypeInv, TypeOK
    <2>3. ~Recorded(a)
      BY SMTT(30), <1>13 DEF Reserve, Recorded, NoAttempt, AttemptRecord
    <2> HIDE DEF g, n
    <2>4. ASSUME NEW h \in GoalId PROVE RowsAgree(h)'
      <3>1. CASE h = g
        <4>1. n \in 1 .. MaxGeneration
          BY <2>1 DEF LedgerInv, RowsAgree, UnreservedReady
        <4> QED BY SMTT(30), <2>2, <3>1, <4>1, GenerationFields DEF RowsAgree, AttemptRecord, Unresolved
      <3>2. CASE h # g
        <4>1. generations[h].lifecycle = "reserved" =>
                /\ generations[h].attempt \in AttemptId
                /\ generations[h].attempt # a
          BY <2>3 DEF LedgerInv, RowsAgree, TypeInv, RowShape, Unresolved, Recorded
        <4> QED BY SMTT(30), <2>2, <3>2, <4>1 DEF LedgerInv, RowsAgree, Unresolved
      <3> QED BY <3>1, <3>2
    <2>5. ASSUME NEW b \in AttemptId PROVE AttemptAgrees(b)'
      <3>1. CASE b = a
        BY SMTT(30), <2>1, <2>2, <3>1, GenerationFields DEF AttemptAgrees, AttemptRecord, Recorded, Unresolved
      <3>2. CASE b # a /\ attempts[b].goal = g
        BY SMTT(30), <1>0, <1>01, <1>3, <2>1, <2>2, <3>2, GenerationFields
           DEF AttemptAgrees, Recorded, Unresolved
      <3>3. CASE b # a /\ attempts[b].goal # g
        BY SMTT(30), <2>2, <3>3 DEF LedgerInv, AttemptAgrees, Recorded, Unresolved
      <3> QED BY <3>1, <3>2, <3>3
    <2>6. \A b \in AttemptId : b # a /\ Recorded(b) =>
            ~(attempts[b].goal = g /\ attempts[b].generation = n)
      BY SMTT(30), <1>0, <1>01, <1>3, <2>1
    <2>7. OneAttemptPerGeneration'
      BY SMTT(30), <2>2, <2>6 DEF LedgerInv, OneAttemptPerGeneration, Recorded, AttemptRecord
    <2> QED BY <2>4, <2>5, <2>7 DEF LedgerInv
  <1>14. ASSUME NEW c \in Caller, ClaimLaunch(c)
         PROVE  LedgerInv'
    <2> DEFINE a == call[c].attempt
    <2>1. a \in AttemptId /\ Unresolved(a) /\ UNCHANGED generations
      BY <1>14 DEF ClaimLaunch, IsCurrent, Unresolved, TypeInv, CallShape, ReservationSteps
    <2>2. /\ \A b \in AttemptId : b # a => attempts'[b] = attempts[b]
          /\ attempts'[a].goal = attempts[a].goal
          /\ attempts'[a].generation = attempts[a].generation
          /\ attempts'[a].phase = "claimed"
      BY SMTT(30), <1>14, <2>1 DEF ClaimLaunch, AdvanceAttempt, TypeInv, TypeOK, AttemptRows
    <2> HIDE DEF a
    <2>3. \A b \in AttemptId :
            /\ attempts'[b].goal = attempts[b].goal
            /\ attempts'[b].generation = attempts[b].generation
            /\ Recorded(b)' = Recorded(b)
            /\ Unresolved(b)' = Unresolved(b)
      BY SMTT(30), <2>1, <2>2 DEF Recorded, Unresolved
    <2>4. ASSUME NEW h \in GoalId PROVE RowsAgree(h)'
      BY <2>1, <2>3 DEF LedgerInv, RowsAgree, TypeInv, RowShape
    <2>5. ASSUME NEW b \in AttemptId PROVE AttemptAgrees(b)'
      BY <2>1, <2>3 DEF LedgerInv, AttemptAgrees
    <2>6. OneAttemptPerGeneration'
      BY <2>3 DEF LedgerInv, OneAttemptPerGeneration
    <2> QED BY <2>4, <2>5, <2>6 DEF LedgerInv
  <1>15. ASSUME NEW c \in Caller,
                \/ \E g \in GoalId : ReadyGrant(c, g)
                \/ \E response \in UsageChargeId : RecordProviderUsage(c, response)
                \/ AttestReady(c) \/ AttestReserve(c) \/ AttestClaim(c) \/ AttestRetire(c)
                \/ Raise(c)
         PROVE  LedgerInv'
    BY <1>1, <1>15 DEF ReadyGrant, RecordProviderUsage, AttestReady, AttestReserve,
         AttestClaim, AttestRetire, Raise, ledger
  <1>16. ASSUME NEW s \in Store, Crash(s)
         PROVE  LedgerInv'
    BY <1>1, <1>16 DEF Crash, ledger
  <1>17. CASE UNCHANGED vars
    BY <1>1, <1>17 DEF vars, ledger
  <1> QED
    BY <1>2, <1>4, <1>5, <1>7, <1>8, <1>10, <1>11, <1>12, <1>13, <1>14, <1>15, <1>16, <1>17
       DEF Next, CallerStep
=============================================================================
