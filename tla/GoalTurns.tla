----------------------------- MODULE GoalTurns ------------------------------
(***************************************************************************)
(* What the goal attempt ledger promises its users, without rows, grants   *)
(* or stores: the native turns of one goal never overlap, each one spends  *)
(* a generation of the goal newer than every generation spent before, and  *)
(* none starts before the goal exists or after it is completed or          *)
(* cancelled.  A turn may outlive its goal, and a process may lose any     *)
(* number of turns at once.                                                *)
(***************************************************************************)
EXTENDS Naturals

CONSTANTS GoalId, Caller, NoGoal, MaxGeneration

VARIABLES
    status, \* of each goal: "none", "open" or "closed"
    spent,  \* of each goal: the generations that launched a turn
    turn    \* of each caller: the goal whose turn it runs, or NoGoal

turnVars == <<status, spent, turn>>

TurnInit ==
    /\ status = [g \in GoalId |-> "none"]
    /\ spent = [g \in GoalId |-> {}]
    /\ turn = [c \in Caller |-> NoGoal]

Open(g) ==
    /\ status[g] = "none"
    /\ status' = [status EXCEPT ![g] = "open"]
    /\ UNCHANGED <<spent, turn>>

Launch(c, g, number) ==
    /\ status[g] = "open"
    /\ \A d \in Caller : turn[d] # g
    /\ \A earlier \in spent[g] : earlier < number
    /\ spent' = [spent EXCEPT ![g] = @ \cup {number}]
    /\ turn' = [turn EXCEPT ![c] = g]
    /\ UNCHANGED status

End(lost) ==
    /\ turn' = [c \in Caller |-> IF c \in lost THEN NoGoal ELSE turn[c]]
    /\ UNCHANGED <<status, spent>>

Close(g, lost) ==
    /\ status[g] = "open"
    /\ status' = [status EXCEPT ![g] = "closed"]
    /\ turn' = [c \in Caller |-> IF c \in lost THEN NoGoal ELSE turn[c]]
    /\ UNCHANGED spent

TurnNext ==
    \/ \E g \in GoalId : Open(g)
    \/ \E c \in Caller, g \in GoalId, number \in 1 .. MaxGeneration : Launch(c, g, number)
    \/ \E lost \in SUBSET Caller : End(lost)
    \/ \E g \in GoalId, lost \in SUBSET Caller : Close(g, lost)

TurnSpec == TurnInit /\ [][TurnNext]_turnVars
=============================================================================
