---------------------------- MODULE TurnGrant ----------------------------
(***************************************************************************)
(* What a turn lease promises: at any moment one turn at most may act for  *)
(* a thread, a turn that lost that permission never gets it back, and a    *)
(* turn is reported as completed only when it gave the permission up       *)
(* itself.  TurnLease, where the permission is spread over the registry    *)
(* and one file per turn, is shown to implement this.                      *)
(***************************************************************************)
CONSTANTS Turns, NoTurn, Phases, FirstPhase

VARIABLES
    holder,     \* the turn that may act, or NoTurn
    phase,      \* the phase the holder last published
    ending,     \* a turn that gave its permission up and is about to be reported
    completed   \* the turns reported as completed

vars == <<holder, phase, ending, completed>>

Init ==
    /\ holder = NoTurn
    /\ phase = FirstPhase
    /\ ending = NoTurn
    /\ completed = {}

Grant(t) ==
    /\ holder = NoTurn
    /\ ending = NoTurn
    /\ t \notin completed
    /\ holder' = t
    /\ phase' = FirstPhase
    /\ UNCHANGED <<ending, completed>>

Work(p) ==
    /\ holder # NoTurn
    /\ phase' = p
    /\ UNCHANGED <<holder, ending, completed>>

Revoke ==
    /\ holder # NoTurn
    /\ holder' = NoTurn
    /\ phase' = FirstPhase
    /\ UNCHANGED <<ending, completed>>

GiveUp ==
    /\ holder # NoTurn
    /\ ending' = holder
    /\ holder' = NoTurn
    /\ phase' = FirstPhase
    /\ UNCHANGED completed

Report ==
    /\ ending # NoTurn
    /\ completed' = completed \cup {ending}
    /\ ending' = NoTurn
    /\ UNCHANGED <<holder, phase>>

Lose ==
    /\ ending # NoTurn
    /\ ending' = NoTurn
    /\ UNCHANGED <<holder, phase, completed>>

Next ==
    \/ \E t \in Turns : Grant(t)
    \/ \E p \in Phases : Work(p)
    \/ Revoke
    \/ GiveUp
    \/ Report
    \/ Lose

Spec == Init /\ [][Next]_vars
==========================================================================
