-------------------------- MODULE TurnLeaseProofs --------------------------
(***************************************************************************)
(* The turn lease for every number of turns, generations, claims, hosts    *)
(* and phases: its safety properties and its refinement of TurnGrant.      *)
(*                                                                         *)
(* The argument: a claim is recorded in the named generation's file only   *)
(* while the row carries it, because each edit of the row strips the file  *)
(* first and the registry lock keeps it stripped until the row is saved    *)
(* (LockedEdit); and a turn ID is written to a file once, when its runner  *)
(* is new, so that a stripped claim never comes back (MintedOnce).         *)
(***************************************************************************)
EXTENDS TurnLease, TLAPS

\* A leaf that names no prover is for Zenon; arithmetic and records go to SMT.
USE ZenonT(30)

\* A file without a turn is no file, and a turn that a file, a completion or a
\* revocation names has been leased before.
MintedOnce ==
    /\ \A g \in Gens : files[g].id = NoTurn => files[g] = NoFile
    /\ \A g \in Gens : files[g].id # NoTurn => runners[files[g].id].state # "new"
    /\ \A t \in revoked \cup completed : runners[t].state # "new"

\* A claim recorded for the named generation is the active row's, and its turn was
\* neither revoked nor completed.
RecordedIsHeld ==
    files[registry.gen].claim # Unrecorded =>
        /\ Executing(registry)
        /\ registry.status = "active"
        /\ files[registry.gen].claim = registry.claim
        /\ files[registry.gen].id \notin revoked \cup completed

\* What is known of the row to be saved while an edit holds the lock.
LockedEdit ==
    /\ edit.op = "lease" =>
          /\ ~Executing(registry)
          /\ registry.gen < MaxGen
          /\ registry.status = "active"
          /\ edit.turn \in Turns \ (revoked \cup completed)
          /\ edit.doc = [registry EXCEPT !.gen = @ + 1, !.record = "stored", !.turn = NoTurn]
          /\ files[registry.gen + 1] =
                [id |-> edit.turn, claim |-> registry.claim, phase |-> FirstPhase]
    /\ edit.op = "retire" =>
          /\ edit.turn \in Turns
          /\ runners[edit.turn].state # "new"
          /\ registry.gen > 1
    /\ edit.op = "release" =>
          /\ edit.turn \in Turns
          /\ runners[edit.turn].state # "new"
          /\ edit.attested => edit.turn \notin revoked
          /\ edit.doc = [registry EXCEPT !.record = "finished", !.turn = edit.turn]
          /\ files[registry.gen].id = edit.turn
          /\ files[registry.gen].claim = Unrecorded
    /\ edit.op \in {"client", "owner"} =>
          /\ edit.doc.gen = registry.gen
          /\ registry.record = "stored" => edit.doc.record # "finished"
          /\ files[registry.gen].claim = Unrecorded

\* Claims start at one, and an owner generation never overtakes the claim.
ClaimsOrdered ==
    /\ registry.claim > 0
    /\ registry.owner <= registry.claim
    /\ edit # Free => edit.doc.claim > 0 /\ edit.doc.owner <= edit.doc.claim

IInv ==
    /\ TypeOK
    /\ ClaimsOrdered
    /\ MintedOnce
    /\ GenerationHasItsFile
    /\ RecordedIsHeld
    /\ LockedEdit
    /\ RevokedNeverCompletes

-----------------------------------------------------------------------------
(* Types of the rows that edits save.                                      *)

USE DEF NoTurn, NoProcess, Unrecorded

LEMMA FreeIsNoEdit == Free \notin Edits /\ Free.op = "free"
BY DEF Free, Edits

\* A locked edit is a record of Edits, whatever its operation.
LEMMA LockedIsEdit == TypeOK /\ edit.op # "free" => edit \in Edits /\ edit # Free
BY FreeIsNoEdit DEF TypeOK

LEMMA NextClaims ==
    ASSUME NEW row \in Rows, row.claim < MaxClaim, row.owner <= row.claim
    PROVE  /\ row.claim + 1 \in Claims
           /\ row.owner + 1 \in Claims
           /\ row.owner + 1 <= row.claim + 1
           /\ row.owner <= row.claim + 1
           /\ row.claim + 1 > 0
BY SMTT(30), BoundsAssumption DEF BoundsAssumption, Rows, Claims

\* What every withdrawing edit saves: the same generation, a next claim, an owner that
\* does not overtake it, and no finished turn that was running.
Withdrawn(row) ==
    /\ row \in Rows
    /\ row.gen = registry.gen
    /\ row.claim > 0
    /\ row.owner <= row.claim
    /\ registry.record = "stored" => row.record # "finished"

LEMMA AdvancedWithdrawn ==
    ASSUME TypeOK, ClaimsOrdered, registry.claim < MaxClaim, NEW b \in BOOLEAN
    PROVE  /\ Withdrawn(Advanced(registry, b))
           /\ Advanced(registry, b).record = registry.record
           /\ Advanced(registry, b).claim = registry.claim + 1
<1>1. registry \in Rows /\ registry.owner <= registry.claim
  BY DEF TypeOK, ClaimsOrdered
<1>2. /\ registry.claim + 1 \in Claims
      /\ registry.owner + 1 \in Claims
      /\ registry.owner + 1 <= registry.claim + 1
      /\ registry.owner <= registry.claim + 1
      /\ registry.claim + 1 > 0
  BY <1>1, NextClaims
<1>3. registry.owner \in Claims
  BY <1>1 DEF Rows
<1>. DEFINE c == registry.claim + 1
            o == IF b THEN registry.owner + 1 ELSE registry.owner
            new == [registry EXCEPT !.claim = c, !.owner = o]
<1>4. Advanced(registry, b) = new
  BY DEF Advanced
<1>5. o \in Claims /\ o <= c
  BY <1>2, <1>3
<1>6. /\ new \in Rows /\ new.claim = c /\ new.owner = o
      /\ new.gen = registry.gen /\ new.record = registry.record
  <2>. HIDE DEF c, o
  <2>1. c \in Claims
    BY <1>2 DEF c
  <2>. QED
    BY <1>1, <1>5, <2>1 DEF Rows
<1>. QED
  BY <1>2, <1>4, <1>5, <1>6 DEF Withdrawn

LEMMA WithdrawnEdit ==
    ASSUME NEW row, Withdrawn(row), NEW status \in {"active", "stopped", "archived"},
           NEW record \in {"none", "stored", "finished"}, NEW process \in Hosts \cup {NoProcess},
           registry.record = "stored" => record # "finished"
    PROVE  /\ Withdrawn([row EXCEPT !.status = status])
           /\ Withdrawn([row EXCEPT !.status = status, !.record = record])
           /\ Withdrawn([row EXCEPT !.process = process, !.record = record])
           /\ Withdrawn([row EXCEPT !.process = process])
           /\ [row EXCEPT !.status = status].record = row.record
BY DEF Withdrawn, Rows
\* The rows of all withdrawing edits are as Withdrawn says.
LEMMA RowsWithdrawn ==
    ASSUME TypeOK, ClaimsOrdered, registry.claim < MaxClaim
    PROVE  /\ Withdrawn(Fenced(registry)) /\ Withdrawn(Unregistered(registry))
           /\ Withdrawn([Unregistered(registry) EXCEPT !.owner = registry.owner + 1])
           /\ Withdrawn(Archived(registry)) /\ Withdrawn(Resumed(registry))
           /\ \A p \in Hosts : Withdrawn(Reserved(registry, p))
<1>1. Active(registry) \in BOOLEAN
  BY DEF Active, Alive
<1>2. registry \in Rows /\ registry.owner <= registry.claim
  BY DEF TypeOK, ClaimsOrdered
<1>3. /\ Released(registry.record) \in {"none", "stored", "finished"}
      /\ registry.record = "stored" => Released(registry.record) # "finished"
  BY <1>2 DEF Rows, Released
<1>4. Withdrawn(Fenced(registry))
  <2>. DEFINE row == Advanced(registry, Active(registry))
  <2>1. Withdrawn(row) /\ row.record = registry.record
    BY <1>1, AdvancedWithdrawn
  <2>2. Fenced(registry) = [row EXCEPT !.status = "stopped", !.record = Released(registry.record)]
    BY <2>1 DEF Fenced
  <2>. HIDE DEF row
  <2>3. Withdrawn([row EXCEPT !.status = "stopped", !.record = Released(registry.record)])
    BY <1>3, <2>1 DEF Withdrawn, Rows
  <2>. QED
    BY <2>2, <2>3
<1>5. Withdrawn(Unregistered(registry))
  BY <1>3, <1>4, WithdrawnEdit DEF Unregistered
<1>6. Unregistered(registry).claim = registry.claim + 1
  <2>1. /\ Advanced(registry, Active(registry)).claim = registry.claim + 1
        /\ Withdrawn(Advanced(registry, Active(registry)))
    BY <1>1, AdvancedWithdrawn
  <2>. QED
    BY <2>1 DEF Unregistered, Fenced, Withdrawn, Rows
<1>7. Withdrawn([Unregistered(registry) EXCEPT !.owner = registry.owner + 1])
  <2>1. registry.owner + 1 \in Claims /\ registry.owner + 1 <= registry.claim + 1
    BY <1>2, NextClaims
  <2>. QED
    BY <1>5, <1>6, <2>1 DEF Withdrawn, Rows
<1>8. Withdrawn(Archived(registry))
  <2>1. Withdrawn(Advanced(registry, FALSE))
    BY AdvancedWithdrawn
  <2>. QED
    BY <1>3, <2>1, WithdrawnEdit DEF Archived
<1>9. Withdrawn(Resumed(registry)) /\ Resumed(registry).record = registry.record
  <2>1. /\ Withdrawn(Advanced(registry, TRUE))
        /\ Advanced(registry, TRUE).record = registry.record
    BY AdvancedWithdrawn
  <2>. QED
    BY <1>3, <2>1, WithdrawnEdit DEF Resumed
<1>10. \A p \in Hosts : Withdrawn(Reserved(registry, p))
  BY <1>3, <1>9, WithdrawnEdit DEF Reserved
<1>. QED
  BY <1>4, <1>5, <1>7, <1>8, <1>9, <1>10
-----------------------------------------------------------------------------
(* The invariant is inductive.                                             *)

LEMMA InitInv == Init => IInv
<1>. SUFFICES ASSUME Init PROVE IInv
  OBVIOUS
<1>. USE BoundsAssumption DEF BoundsAssumption, Init
<1>1. NoFile \in TurnFiles /\ 0 \in Gens /\ 0 \in Claims /\ 1 \in Claims /\ 1 \in Hosts
  BY SMTT(30) DEF NoFile, TurnFiles, Gens, Claims, Hosts
<1>2. TypeOK
  BY <1>1 DEF TypeOK, Rows, Runners
<1>3. ClaimsOrdered /\ GenerationHasItsFile /\ RevokedNeverCompletes
  BY SMTT(30) DEF ClaimsOrdered, GenerationHasItsFile, RevokedNeverCompletes
<1>4. MintedOnce
  BY DEF MintedOnce, NoFile
<1>5. RecordedIsHeld /\ LockedEdit
  BY <1>1 DEF RecordedIsHeld, LockedEdit, NoFile, Free
<1>. QED
  BY <1>2, <1>3, <1>4, <1>5 DEF IInv

\* Every withdrawing edit strips the file of the turn it takes the row from.
LEMMA WithdrawInv ==
    ASSUME IInv, NEW op \in {"client", "owner"}, NEW row, Withdrawn(row), Withdraw(op, row),
           stop' \in [owner : Claims, claim : Claims]
    PROVE  IInv'
<1>. USE DEF IInv, Withdraw
<1>1. registry \in Rows /\ registry.gen \in Gens /\ files \in [Gens -> TurnFiles]
  BY DEF TypeOK, Rows
<1>2. /\ files' \in [Gens -> TurnFiles]
      /\ \A g \in Gens : files'[g].id = files[g].id
      /\ \A g \in Gens : files[g].id = NoTurn => files'[g] = files[g]
      /\ files'[registry.gen].claim = Unrecorded
  <2>1. CASE Executing(registry)
    <3>1. Unrecorded \in Claims
      BY SMTT(30), BoundsAssumption DEF BoundsAssumption, Claims
    <3>2. files' = [files EXCEPT ![registry.gen].claim = Unrecorded]
      BY <2>1 DEF WithoutClaim
    <3>3. files' \in [Gens -> TurnFiles] /\ \A g \in Gens : files'[g].id = files[g].id
      BY SMTT(30), <1>1, <3>1, <3>2 DEF TurnFiles
    <3>4. files'[registry.gen].claim = Unrecorded
      BY SMTT(30), <1>1, <3>2 DEF TurnFiles
    <3>5. ASSUME NEW g \in Gens, files[g].id = NoTurn
          PROVE  files'[g] = files[g]
      BY SMTT(30), <1>1, <3>2, <3>5 DEF MintedOnce, NoFile
    <3>. QED
      BY <3>3, <3>4, <3>5
  <2>2. CASE ~Executing(registry)
    BY <1>1, <2>2 DEF WithoutClaim, RecordedIsHeld
  <2>. QED
    BY <2>1, <2>2
<1>3. Stripped \subseteq Turns \ completed
  BY SMTT(30), <1>1 DEF Stripped, RecordedIsHeld, MintedOnce, NoFile, TurnFiles
<1>4. \A t \in Stripped : runners[t].state # "new"
  BY SMTT(30), <1>1 DEF Stripped, MintedOnce, NoFile
<1>5. edit' \in Edits /\ edit' # Free
  BY DEF Edits, Withdrawn, Free
<1>6. TypeOK'
  BY <1>2, <1>3, <1>5 DEF TypeOK
<1>7. ClaimsOrdered'
  BY DEF ClaimsOrdered, Withdrawn
<1>8. MintedOnce'
  BY <1>2, <1>4 DEF MintedOnce
<1>9. GenerationHasItsFile'
  BY <1>1, <1>2 DEF GenerationHasItsFile
<1>10. RecordedIsHeld' /\ LockedEdit'
  BY <1>2 DEF RecordedIsHeld, LockedEdit, Withdrawn
<1>11. RevokedNeverCompletes'
  BY <1>3 DEF RevokedNeverCompletes
<1>. QED
  BY <1>6, <1>7, <1>8, <1>9, <1>10, <1>11
\* A lease writes the file of a generation the row does not name yet.
LEMMA WriteLeaseInv ==
    ASSUME IInv, NEW t \in Turns, LeaseTurn(t)
    PROVE  IInv'
<1>. USE DEF IInv, LeaseTurn, WriteLease
<1>1. /\ registry \in Rows /\ registry.gen \in Gens /\ registry.gen + 1 \in Gens
      /\ registry.gen + 1 # registry.gen /\ files \in [Gens -> TurnFiles]
      /\ t # NoTurn /\ runners \in [Turns -> Runners]
  BY SMTT(30), BoundsAssumption DEF BoundsAssumption, TypeOK, Rows, Gens, Turns
<1>2. edit' \in Edits /\ edit'.doc \in Rows
  <2>1. [registry EXCEPT !.gen = registry.gen + 1, !.record = "stored", !.turn = NoTurn] \in Rows
    BY <1>1 DEF Rows
  <2>. QED
    BY <2>1 DEF Edits
<1>3. files' \in [Gens -> TurnFiles] /\ runners' \in [Turns -> Runners]
  BY SMTT(30), <1>1, BoundsAssumption DEF BoundsAssumption, Rows, TurnFiles, Runners, Claims
<1>4. TypeOK'
  BY <1>2, <1>3 DEF TypeOK
<1>5. ClaimsOrdered'
  BY <1>1 DEF ClaimsOrdered, Rows
<1>6. MintedOnce'
  BY SMTT(30), <1>1 DEF MintedOnce
<1>7. files'[registry.gen] = files[registry.gen]
  BY <1>1
<1>8. GenerationHasItsFile' /\ RecordedIsHeld' /\ RevokedNeverCompletes'
  BY <1>7 DEF GenerationHasItsFile, RecordedIsHeld, RevokedNeverCompletes
<1>9. LockedEdit'
  <2>1. t \notin revoked \cup completed
    BY DEF MintedOnce
  <2>. QED
    BY <1>1, <2>1 DEF LockedEdit, Active
<1>. QED
  BY <1>4, <1>5, <1>6, <1>8, <1>9

\* The row is saved while the named file still is the one the lease wrote.
LEMMA SaveLeaseInv ==
    ASSUME IInv, SaveLease
    PROVE  IInv'
<1>. USE DEF IInv, SaveLease
<1>1. /\ edit \in Edits /\ edit # Free /\ edit.doc \in Rows /\ registry \in Rows
      /\ edit.turn \in Turns \ (revoked \cup completed)
  BY LockedIsEdit DEF Edits, TypeOK, LockedEdit
<1>2. /\ registry'.gen = registry.gen + 1 /\ registry'.record = "stored"
      /\ registry'.status = "active" /\ registry'.claim = registry.claim
      /\ registry.gen + 1 \in Gens /\ registry.gen \in Gens
  <2>1. /\ registry' = [registry EXCEPT !.gen = registry.gen + 1, !.record = "stored", !.turn = NoTurn]
        /\ registry.gen < MaxGen /\ registry.status = "active"
    BY DEF LockedEdit
  <2>2. registry.gen \in Gens /\ registry.gen + 1 \in Gens
    BY SMTT(30), <1>1, <2>1, BoundsAssumption DEF BoundsAssumption, Rows, Gens
  <2>. QED
    BY <1>1, <2>1, <2>2 DEF Rows
<1>3. /\ files[registry.gen + 1] =
            [id |-> edit.turn, claim |-> registry.claim, phase |-> FirstPhase]
      /\ edit.turn # NoTurn
  BY SMTT(30), <1>1 DEF LockedEdit, Turns
<1>4. /\ runners' \in [Turns -> Runners]
      /\ \A u \in Turns : runners'[u].state = "new" => runners[u].state = "new"
      /\ runners[edit.turn].state # "new"
  <2>1. runners[edit.turn].state # "new"
    BY SMTT(30), <1>2, <1>3 DEF MintedOnce
  <2>2. runners \in [Turns -> Runners]
    BY DEF TypeOK
  <2>. QED
    BY SMTT(30), <1>1, <2>1, <2>2 DEF Runners
<1>5. edit' = Free \/ (edit' \in Edits /\ edit'.doc = edit.doc /\ edit'.op = "retire"
                       /\ edit'.turn = edit.turn /\ registry.gen # 0)
  BY <1>1 DEF Edits
<1>6. TypeOK'
  BY <1>1, <1>4, <1>5 DEF TypeOK
<1>7. ClaimsOrdered'
  BY <1>1, <1>5 DEF ClaimsOrdered
<1>8. MintedOnce'
  BY <1>1, <1>4 DEF MintedOnce, TypeOK, TurnFiles
<1>9. GenerationHasItsFile' /\ RecordedIsHeld' /\ RevokedNeverCompletes'
  BY SMTT(30), <1>1, <1>2, <1>3
     DEF GenerationHasItsFile, RecordedIsHeld, RevokedNeverCompletes, Executing
<1>10. LockedEdit'
  <2>1. registry.gen # 0 => registry'.gen > 1
    BY SMTT(30), <1>2, BoundsAssumption DEF BoundsAssumption, Gens
  <2>2. runners'[edit.turn].state # "new"
    BY <1>1, <1>4
  <2>. QED
    BY SMTT(30), <1>1, <1>5, <2>1, <2>2 DEF LockedEdit, Free
<1>. QED
  BY <1>6, <1>7, <1>8, <1>9, <1>10
\* The file that goes is not the named generation's.
LEMMA RetireInv ==
    ASSUME IInv, RetireSuperseded
    PROVE  IInv'
<1>. USE DEF IInv, RetireSuperseded
<1>1. /\ registry \in Rows /\ registry.gen \in Gens /\ registry.gen - 1 # registry.gen
      /\ edit.turn \in Turns /\ files \in [Gens -> TurnFiles] /\ NoFile \in TurnFiles
  BY SMTT(30), BoundsAssumption
     DEF BoundsAssumption, TypeOK, Rows, Gens, LockedEdit, NoFile, TurnFiles, Claims
<1>2. /\ files' \in [Gens -> TurnFiles]
      /\ files'[registry.gen] = files[registry.gen]
      /\ \A g \in Gens : files'[g] = files[g] \/ files'[g] = NoFile
  BY <1>1
<1>3. /\ runners' \in [Turns -> Runners]
      /\ \A u \in Turns : runners'[u].state = "new" => runners[u].state = "new"
  BY SMTT(30), <1>1 DEF TypeOK, Runners
<1>4. TypeOK'
  BY <1>2, <1>3 DEF TypeOK
<1>5. MintedOnce'
  BY SMTT(30), <1>1, <1>2, <1>3 DEF MintedOnce, TypeOK, TurnFiles, NoFile
<1>6. ClaimsOrdered' /\ LockedEdit'
  BY DEF ClaimsOrdered, LockedEdit, Free
<1>7. GenerationHasItsFile' /\ RecordedIsHeld' /\ RevokedNeverCompletes'
  BY <1>2 DEF GenerationHasItsFile, RecordedIsHeld, RevokedNeverCompletes
<1>. QED
  BY <1>4, <1>5, <1>6, <1>7

\* Reading a lease changes its runner only.
LEMMA RunnerInv ==
    ASSUME IInv, NEW t \in Turns,
           ReadLease(t) \/ ReleaseRefused(t)
    PROVE  IInv'
<1>. USE DEF IInv
<1>1. /\ runners' \in [Turns -> Runners]
      /\ \A u \in Turns : runners'[u].state = "new" => runners[u].state = "new"
      /\ UNCHANGED <<registry, files, edit, host, stop, completed, revoked>>
  <2>1. CASE ReadLease(t)
    <3>1. runners \in [Turns -> Runners] /\ files[runners[t].gen] \in TurnFiles
      BY DEF TypeOK, Runners
    <3>. DEFINE file == files[runners[t].gen]
                state == IF file.id = t /\ file.claim # Unrecorded THEN "holding" ELSE "over"
                claim == IF file.id = t THEN file.claim ELSE Unrecorded
    <3>2. state \in {"holding", "over"} /\ claim \in Claims
      BY SMTT(30), <3>1, BoundsAssumption DEF BoundsAssumption, TurnFiles, Claims
    <3>. DEFINE new == [state |-> state, gen |-> runners[t].gen, claim |-> claim]
    <3>3. runners' = [runners EXCEPT ![t] = new]
      BY <2>1 DEF ReadLease
    <3>4. new \in Runners /\ new.state # "new"
      <4>. HIDE DEF state, claim
      <4>. QED
        BY <3>1, <3>2 DEF Runners
    <3>. HIDE DEF new
    <3>. QED
      BY <2>1, <3>1, <3>3, <3>4 DEF ReadLease
  <2>2. CASE ReleaseRefused(t)
    BY <2>2 DEF ReleaseRefused, TypeOK, Runners
  <2>. QED
    BY <2>1, <2>2
<1>2. TypeOK'
  BY <1>1 DEF TypeOK
<1>3. MintedOnce'
  BY <1>1 DEF MintedOnce, TypeOK, TurnFiles
<1>4. LockedEdit'
  BY <1>1 DEF LockedEdit
<1>5. /\ ClaimsOrdered' /\ GenerationHasItsFile' /\ RecordedIsHeld' /\ RevokedNeverCompletes'
  BY <1>1 DEF ClaimsOrdered, GenerationHasItsFile, RecordedIsHeld, RevokedNeverCompletes
<1>. QED
  BY <1>2, <1>3, <1>4, <1>5

LEMMA TransitionInv ==
    ASSUME IInv, NEW t \in Turns, NEW p \in Phases, Transition(t, p)
    PROVE  IInv'
<1>. USE DEF IInv, Transition
<1>1. /\ files \in [Gens -> TurnFiles] /\ runners[t].gen \in Gens /\ t # NoTurn
      /\ files[runners[t].gen].id = t
  BY SMTT(30) DEF TypeOK, Runners, Turns, HeldBy
<1>2. /\ files' \in [Gens -> TurnFiles]
      /\ \A g \in Gens : /\ files'[g].id = files[g].id
                         /\ files'[g].claim = files[g].claim
                         /\ files[g].id = NoTurn => files'[g] = files[g]
  BY <1>1 DEF TurnFiles
<1>3. TypeOK'
  BY <1>2 DEF TypeOK
<1>4. MintedOnce'
  <2>1. MintedOnce /\ runners' = runners /\ revoked' = revoked /\ completed' = completed
    OBVIOUS
  <2>2. \A g \in Gens : files'[g].id = NoTurn => files'[g] = NoFile
    BY <1>2, <2>1 DEF MintedOnce
  <2>3. \A g \in Gens : files'[g].id # NoTurn => runners[files'[g].id].state # "new"
    BY <1>2, <2>1 DEF MintedOnce
  <2>. QED
    BY <2>1, <2>2, <2>3 DEF MintedOnce
<1>5. registry.gen \in Gens /\ edit = Free
  BY DEF TypeOK, Rows, Unlocked
<1>6. ClaimsOrdered' /\ LockedEdit'
  BY <1>5 DEF ClaimsOrdered, LockedEdit, Free
<1>7. GenerationHasItsFile' /\ RecordedIsHeld' /\ RevokedNeverCompletes'
  BY <1>2, <1>5 DEF GenerationHasItsFile, RecordedIsHeld, RevokedNeverCompletes
<1>. QED
  BY <1>3, <1>4, <1>6, <1>7
\* A release strips the file of the very turn that the row references.
LEMMA ReleaseTurnInv ==
    ASSUME IInv, NEW t \in Turns, ReleaseTurn(t)
    PROVE  IInv'
<1>. USE DEF IInv, ReleaseTurn, WriteRelease
<1>1. /\ registry \in Rows /\ registry.gen \in Gens /\ files \in [Gens -> TurnFiles]
      /\ files[registry.gen].id = t /\ t # NoTurn /\ edit = Free
      /\ runners \in [Turns -> Runners] /\ edit'.attested \in BOOLEAN
  BY SMTT(30) DEF TypeOK, Rows, Turns, MayRelease, Unlocked
<1>2. /\ files' \in [Gens -> TurnFiles]
      /\ \A g \in Gens : /\ files'[g].id = files[g].id
                         /\ files[g].id = NoTurn => files'[g] = files[g]
      /\ files'[registry.gen].claim = Unrecorded
  <2>1. files' = [files EXCEPT ![registry.gen].claim = Unrecorded] /\ Unrecorded \in Claims
    BY SMTT(30), BoundsAssumption DEF BoundsAssumption, WithoutClaim, Claims
  <2>. QED
    BY SMTT(30), <1>1, <2>1 DEF TurnFiles
<1>3. /\ runners' \in [Turns -> Runners]
      /\ \A u \in Turns : runners'[u].state = "new" => runners[u].state = "new"
      /\ runners'[t].state = "ending"
  BY SMTT(30), <1>1 DEF Runners
<1>4. edit' \in Edits /\ edit' # Free
  <2>1. [registry EXCEPT !.record = "finished", !.turn = t] \in Rows
    BY <1>1 DEF Rows
  <2>. QED
    BY <1>1, <2>1 DEF Edits, Free
<1>5. TypeOK'
  BY <1>2, <1>3, <1>4 DEF TypeOK
<1>6. ClaimsOrdered'
  BY <1>1 DEF ClaimsOrdered, Rows
<1>7. MintedOnce'
  BY SMTT(30), <1>1, <1>2, <1>3 DEF MintedOnce, TypeOK, TurnFiles
<1>8. GenerationHasItsFile' /\ RecordedIsHeld' /\ RevokedNeverCompletes'
  BY <1>1, <1>2 DEF GenerationHasItsFile, RecordedIsHeld, RevokedNeverCompletes
<1>9. LockedEdit'
  <2>1. edit'.attested => t \notin revoked
    BY <1>1 DEF HeldBy, RecordedIsHeld
  <2>. QED
    BY <1>1, <1>2, <1>3, <2>1 DEF LockedEdit
<1>. QED
  BY <1>5, <1>6, <1>7, <1>8, <1>9

LEMMA SaveReleaseInv ==
    ASSUME IInv, SaveRelease
    PROVE  IInv'
<1>. USE DEF IInv, SaveRelease
<1>1. /\ edit.doc \in Rows /\ registry \in Rows /\ edit.turn \in Turns /\ edit # Free
      /\ runners[edit.turn].state # "new" /\ runners \in [Turns -> Runners]
  BY LockedIsEdit DEF Edits, TypeOK, LockedEdit
<1>2. registry'.gen = registry.gen /\ registry'.claim = registry.claim
  <2>1. registry' = [registry EXCEPT !.record = "finished", !.turn = edit.turn]
    BY DEF LockedEdit
  <2>. QED
    BY <1>1, <2>1 DEF Rows
<1>3. /\ runners' \in [Turns -> Runners]
      /\ \A u \in Turns : runners'[u].state = "new" => runners[u].state = "new"
  BY <1>1 DEF Runners
<1>4. TypeOK'
  BY <1>1, <1>3 DEF TypeOK
<1>5. MintedOnce'
  BY <1>1, <1>3 DEF MintedOnce, TypeOK, TurnFiles
<1>6. ClaimsOrdered' /\ LockedEdit'
  BY <1>1 DEF ClaimsOrdered, LockedEdit, Free
<1>7. GenerationHasItsFile' /\ RecordedIsHeld'
  BY <1>2 DEF GenerationHasItsFile, RecordedIsHeld, LockedEdit
<1>8. RevokedNeverCompletes'
  BY DEF RevokedNeverCompletes, LockedEdit
<1>. QED
  BY <1>4, <1>5, <1>6, <1>7, <1>8

LEMMA SaveInv ==
    ASSUME IInv, Save
    PROVE  IInv'
<1>. USE DEF IInv, Save
<1>1. edit.doc \in Rows /\ edit # Free
  BY LockedIsEdit DEF Edits, TypeOK
<1>2. registry'.gen = registry.gen /\ files[registry.gen].claim = Unrecorded
  BY DEF LockedEdit
<1>3. TypeOK' /\ MintedOnce' /\ RevokedNeverCompletes'
  BY <1>1 DEF TypeOK, MintedOnce, RevokedNeverCompletes
<1>4. ClaimsOrdered' /\ LockedEdit'
  BY <1>1 DEF ClaimsOrdered, LockedEdit, Free
<1>5. GenerationHasItsFile' /\ RecordedIsHeld'
  BY <1>2 DEF GenerationHasItsFile, RecordedIsHeld
<1>. QED
  BY <1>3, <1>4, <1>5
LEMMA ProcessInv ==
    ASSUME IInv, ProcessStep
    PROVE  IInv'
<1>. USE DEF IInv
<1>1. CASE ClientDies
  BY <1>1 DEF ClientDies, TypeOK, ClaimsOrdered, MintedOnce, GenerationHasItsFile,
              RecordedIsHeld, LockedEdit, RevokedNeverCompletes, Free
<1>2. CASE HostDies
  <2>. USE <1>2 DEF HostDies
  <2>1. /\ runners' \in [Turns -> Runners]
        /\ \A u \in Turns : runners'[u].state = "new" => runners[u].state = "new"
    <3>1. ASSUME NEW u \in Turns
          PROVE  /\ runners'[u] \in Runners
                 /\ runners'[u].state = "new" => runners[u].state = "new"
      <4>. DEFINE state == IF runners[u].state = "new" THEN "new" ELSE "over"
      <4>1. runners[u] \in Runners /\ runners'[u] = [runners[u] EXCEPT !.state = state]
        BY DEF TypeOK
      <4>2. /\ [runners[u] EXCEPT !.state = state] \in Runners
            /\ [runners[u] EXCEPT !.state = state].state = state
        BY <4>1 DEF Runners
      <4>3. runners'[u] \in Runners
        BY <4>1, <4>2, ZenonT(30)
      <4>4. runners'[u].state = state
        BY <4>1, <4>2, ZenonT(30)
      <4>. QED
        BY SMTT(30), <4>3, <4>4
    <3>2. runners' = [u \in Turns |-> runners'[u]]
      OBVIOUS
    <3>. QED
      BY <3>1, <3>2
  <2>2. edit' = Free \/ (edit' = edit /\ edit.op = "client")
    OBVIOUS
  <2>3. TypeOK'
    BY <2>1, <2>2 DEF TypeOK
  <2>4. MintedOnce'
    BY <2>1 DEF MintedOnce, TypeOK, TurnFiles
  <2>5. ClaimsOrdered' /\ LockedEdit'
    BY <2>2 DEF ClaimsOrdered, LockedEdit, Free
  <2>6. GenerationHasItsFile' /\ RecordedIsHeld' /\ RevokedNeverCompletes'
    BY DEF GenerationHasItsFile, RecordedIsHeld, RevokedNeverCompletes
  <2>. QED
    BY <2>3, <2>4, <2>5, <2>6
<1>3. CASE SpawnHost
  <2>1. TypeOK'
    BY SMTT(30), <1>3, BoundsAssumption DEF BoundsAssumption, SpawnHost, TypeOK, Hosts
  <2>. QED
    BY SMTT(30), <1>3, <2>1 DEF SpawnHost, ClaimsOrdered, MintedOnce, GenerationHasItsFile,
                      RecordedIsHeld, LockedEdit, RevokedNeverCompletes
<1>. QED
  BY <1>1, <1>2, <1>3 DEF ProcessStep

LEMMA OwnerInv ==
    ASSUME IInv, OwnerStep
    PROVE  IInv'
<1>. DEFINE Stops == [owner : Claims, claim : Claims]
<1>1. stop \in Stops /\ TypeOK /\ ClaimsOrdered
  BY DEF IInv, TypeOK
<1>2. CASE FenceStop
  <2>1. Withdraw("client", Fenced(registry))
    BY <1>2 DEF FenceStop
  <2>2. Withdrawn(Fenced(registry))
    BY <1>1, <2>1, RowsWithdrawn DEF Withdraw
  <2>3. stop' \in Stops
    BY <1>2, <2>2 DEF FenceStop, Withdrawn, Rows
  <2>. QED
    BY <2>1, <2>2, <2>3, WithdrawInv
<1>3. ASSUME NEW op \in {"client", "owner"}, NEW row, Withdraw(op, row),
             registry.claim < MaxClaim => Withdrawn(row), UNCHANGED stop
      PROVE  IInv'
  BY <1>1, <1>3, WithdrawInv DEF Withdraw
<1>4. CASE StopUnbound
  BY <1>1, <1>3, <1>4, RowsWithdrawn DEF StopUnbound
<1>5. CASE CompleteSession
  BY <1>1, <1>3, <1>5, RowsWithdrawn DEF CompleteSession
<1>6. CASE FinishStopped
  BY <1>1, <1>3, <1>6, RowsWithdrawn DEF FinishStopped
<1>7. CASE Archive
  BY <1>1, <1>3, <1>7, RowsWithdrawn DEF Archive
<1>8. CASE Heartbeat
  BY <1>1, <1>3, <1>8, RowsWithdrawn DEF Heartbeat
<1>9. CASE StartOwner
  <2>1. host.n \in Hosts
    BY <1>1 DEF TypeOK
  <2>. QED
    BY <1>1, <1>3, <1>9, <2>1, RowsWithdrawn DEF StartOwner
<1>. QED
  BY <1>2, <1>4, <1>5, <1>6, <1>7, <1>8, <1>9 DEF OwnerStep

LEMMA StutterInv ==
    ASSUME IInv, UNCHANGED vars
    PROVE  IInv'
BY SMTT(30) DEF IInv, vars, TypeOK, ClaimsOrdered, MintedOnce, GenerationHasItsFile, RecordedIsHeld,
       LockedEdit, RevokedNeverCompletes

LEMMA StepInv == IInv /\ [Next]_vars => IInv'
<1>. SUFFICES ASSUME IInv, [Next]_vars PROVE IInv'
  OBVIOUS
<1>1. ASSUME NEW t \in Turns, TurnStep(t) PROVE IInv'
  BY <1>1, WriteLeaseInv, RunnerInv, TransitionInv, ReleaseTurnInv DEF TurnStep
<1>2. ASSUME EditStep PROVE IInv'
  BY <1>2, SaveLeaseInv, RetireInv, SaveReleaseInv, SaveInv DEF EditStep
<1>. QED
  BY <1>1, <1>2, OwnerInv, ProcessInv, StutterInv DEF Next

LEMMA Invariance == Spec => []IInv
<1>. QED
  BY InitInv, StepInv, PTL DEF Spec

-----------------------------------------------------------------------------
(* The properties.                                                         *)

\* The rows, turn files, edits and runners of TurnLease keep their types; claims,
\* owner generations and turn generations stay within the code's bounds.
THEOREM TypeCorrect == Spec => []TypeOK
<1>1. IInv => TypeOK
  BY DEF IInv
<1>. QED
  BY <1>1, Invariance, PTL

\* RegistryEdit.commit: the generation the registry names has its file, whichever
\* process died between writing a turn file, saving the row and retiring a file.
THEOREM NamedGenerationHasItsFile == Spec => []GenerationHasItsFile
<1>1. IInv => GenerationHasItsFile
  BY DEF IInv
<1>. QED
  BY <1>1, Invariance, PTL

\* StoredTurnRecord.without_claim before every save: a claim recorded in the named file
\* is the row's own, so NamedTurn.effects need not compare it with the row.
THEOREM RecordedClaimCurrent == Spec => []RecordedClaimIsCurrent
<1>1. IInv => RecordedClaimIsCurrent
  BY DEF IInv, RecordedIsHeld, RecordedClaimIsCurrent
<1>. QED
  BY <1>1, Invariance, PTL

\* RegistryDocument.release_turn never reports a turn as completed whose claim an edit
\* withdrew, whether or not that edit came to save its row.
THEOREM RevokedTurnsNeverComplete == Spec => []RevokedNeverCompletes
<1>1. IInv => RevokedNeverCompletes
  BY DEF IInv
<1>. QED
  BY <1>1, Invariance, PTL

LEMMA PhaseStep == IInv /\ [Next]_vars => [PhasesMoveUnderTheClaim]_vars
<1>. SUFFICES ASSUME IInv, Next, NEW g \in Gens,
                     files'[g].phase # files[g].phase, files'[g].id = files[g].id
              PROVE  /\ registry.gen = g
                     /\ registry.status = "active"
                     /\ \E t \in Turns : /\ files[g].id = t
                                         /\ runners[t].state = "holding"
                                         /\ runners[t].claim = registry.claim
  BY DEF PhasesMoveUnderTheClaim
<1>1. files \in [Gens -> TurnFiles] /\ registry.gen \in Gens
  BY DEF IInv, TypeOK, Rows
<1>2. ASSUME files' = WithoutClaim PROVE FALSE
  BY <1>1, <1>2 DEF WithoutClaim, TurnFiles
<1>3. ASSUME NEW t \in Turns, LeaseTurn(t) PROVE FALSE
  <2>1. /\ registry.gen + 1 \in Gens /\ t # NoTurn /\ runners[t].state = "new"
        /\ files' = [files EXCEPT ![registry.gen + 1] =
                        [id |-> t, claim |-> registry.claim, phase |-> FirstPhase]]
    BY SMTT(30), <1>1, <1>3, BoundsAssumption
       DEF BoundsAssumption, LeaseTurn, WriteLease, Gens, Turns
  <2>2. files[g].id = t
    BY <1>1, <2>1
  <2>. QED
    BY <2>1, <2>2 DEF IInv, MintedOnce
<1>4. ASSUME RetireSuperseded PROVE FALSE
  <2>1. files'[g] = NoFile
    BY <1>1, <1>4 DEF RetireSuperseded
  <2>. QED
    BY SMTT(30), <2>1 DEF IInv, MintedOnce, NoFile
<1>5. ASSUME NEW t \in Turns, NEW p \in Phases, Transition(t, p)
      PROVE  /\ registry.gen = g
             /\ registry.status = "active"
             /\ files[g].id = t
             /\ runners[t].state = "holding"
             /\ runners[t].claim = registry.claim
  <2>1. runners[t].gen = g /\ registry.gen = g
    BY <1>1, <1>5 DEF Transition, HoldsTurn, TurnFiles
  <2>. QED
    BY <1>5, <2>1 DEF Transition, HeldBy, IInv, RecordedIsHeld
<1>6. ASSUME UNCHANGED files PROVE FALSE
  BY <1>6
<1>7. CASE \E t \in Turns : TurnStep(t)
  BY <1>2, <1>3, <1>5, <1>6, <1>7 DEF TurnStep, ReadLease, ReleaseTurn, WriteRelease, ReleaseRefused
<1>8. CASE EditStep
  BY <1>4, <1>6, <1>8 DEF EditStep, SaveLease, SaveRelease, Save
<1>9. CASE OwnerStep
  BY <1>2, <1>9 DEF OwnerStep, FenceStop, StopUnbound, CompleteSession, FinishStopped,
                    Archive, Heartbeat, StartOwner, Withdraw
<1>10. CASE ProcessStep
  BY <1>6, <1>10 DEF ProcessStep, ClientDies, HostDies, SpawnHost
<1>. QED
  BY <1>7, <1>8, <1>9, <1>10 DEF Next

\* AgentActivity.transition_turn moves the phase of a turn only while the row names it
\* and carries the claim it was leased under.
THEOREM PhaseFenced == Spec => PhaseNeedsTheClaim
BY Invariance, PhaseStep, PTL DEF Spec, PhaseNeedsTheClaim

LEMMA FinishStep == IInv /\ [Next]_vars => [FinishesTheNamed]_vars
<1>. SUFFICES ASSUME IInv, Next, registry.record = "stored", registry'.record = "finished"
              PROVE  registry'.turn = files[registry.gen].id
  BY DEF FinishesTheNamed
<1>1. registry' # registry
  OBVIOUS
<1>2. CASE SaveRelease
  <2>1. /\ registry' = [registry EXCEPT !.record = "finished", !.turn = edit.turn]
        /\ files[registry.gen].id = edit.turn /\ registry \in Rows
    BY <1>2 DEF SaveRelease, IInv, LockedEdit, TypeOK
  <2>. QED
    BY <2>1 DEF Rows
<1>3. CASE Save
  BY <1>3 DEF Save, IInv, LockedEdit
<1>4. CASE SaveLease
  BY <1>4 DEF SaveLease, IInv, LockedEdit, Executing
<1>5. CASE \E t \in Turns : TurnStep(t)
  BY <1>1, <1>5 DEF TurnStep, LeaseTurn, WriteLease, ReadLease, Transition, ReleaseTurn,
                    WriteRelease, ReleaseRefused
<1>6. CASE OwnerStep
  BY <1>1, <1>6 DEF OwnerStep, FenceStop, StopUnbound, CompleteSession, FinishStopped,
                    Archive, Heartbeat, StartOwner, Withdraw
<1>7. CASE ProcessStep \/ RetireSuperseded
  BY <1>1, <1>7 DEF ProcessStep, ClientDies, HostDies, SpawnHost, RetireSuperseded
<1>. QED
  BY <1>2, <1>3, <1>4, <1>5, <1>6, <1>7 DEF Next, EditStep

\* RegistryDocument.release_turn by a late runner never finishes its successor's turn.
THEOREM FinishFenced == Spec => FinishesItsOwnTurn
BY Invariance, FinishStep, PTL DEF Spec, FinishesItsOwnTurn
-----------------------------------------------------------------------------
(* Refinement: each step is a step of TurnGrant or leaves the grant alone. *)

LEMMA InitGrant == Init => Grants!Init
BY SMTT(30), BoundsAssumption
   DEF BoundsAssumption, Init, Grants!Init, Holder, HolderPhase, Ending, Executing, Free

\* The grant is read off the named file and the reference to it.
LEMMA GrantUnchanged ==
    ASSUME UNCHANGED <<registry, completed>>, files'[registry.gen] = files[registry.gen],
           Ending' = Ending
    PROVE  UNCHANGED Grants!vars
BY DEF Grants!vars, Holder, HolderPhase, Executing

\* A stripped file holds nothing.
LEMMA StrippedHoldsNothing ==
    ASSUME files[registry.gen].claim = Unrecorded
    PROVE  Holder = NoTurn /\ HolderPhase = FirstPhase
BY DEF Holder, HolderPhase

LEMMA HolderIsTurn ==
    ASSUME IInv
    PROVE  /\ Holder # NoTurn <=> files[registry.gen].claim # Unrecorded
           /\ Holder # NoTurn => Holder = files[registry.gen].id /\ Holder \in Turns
<1>1. files \in [Gens -> TurnFiles] /\ registry.gen \in Gens
  BY DEF IInv, TypeOK, Rows
<1>. QED
  BY SMTT(30), <1>1 DEF IInv, MintedOnce, RecordedIsHeld, NoFile, TurnFiles, Holder

LEMMA WithoutClaimStrips ==
    ASSUME IInv
    PROVE  WithoutClaim[registry.gen].claim = Unrecorded
<1>1. files \in [Gens -> TurnFiles] /\ registry.gen \in Gens
  BY DEF IInv, TypeOK, Rows
<1>. QED
  BY <1>1 DEF IInv, RecordedIsHeld, WithoutClaim, TurnFiles

LEMMA SaveLeaseGrants ==
    ASSUME IInv, SaveLease
    PROVE  \E t \in Turns : Grants!Grant(t)
<1>1. /\ edit.turn \in Turns \ completed /\ ~Executing(registry) /\ registry \in Rows
      /\ registry' = [registry EXCEPT !.gen = registry.gen + 1, !.record = "stored", !.turn = NoTurn]
      /\ files[registry.gen + 1] =
            [id |-> edit.turn, claim |-> registry.claim, phase |-> FirstPhase]
  BY DEF SaveLease, IInv, LockedEdit, TypeOK
<1>2. /\ registry'.gen = registry.gen + 1 /\ registry'.record = "stored"
      /\ registry.claim # Unrecorded /\ edit.turn # NoTurn
  BY SMTT(30), <1>1 DEF Rows, IInv, ClaimsOrdered, Turns
<1>3. Holder = NoTurn /\ Ending = NoTurn /\ Ending' = NoTurn
  <2>1. edit \in Edits /\ edit.op = "lease"
    BY LockedIsEdit DEF SaveLease, IInv
  <2>2. edit'.op # "release"
    BY SMTT(30), <2>1 DEF SaveLease, Edits, Free
  <2>. QED
    BY <1>1, <2>1, <2>2 DEF Holder, Ending
<1>4. Holder' = edit.turn
  BY SMTT(30), <1>1, <1>2 DEF SaveLease, Holder, Executing
<1>5. HolderPhase' = FirstPhase
  BY SMTT(30), <1>1, <1>2 DEF SaveLease, HolderPhase
<1>. QED
  BY <1>1, <1>3, <1>4, <1>5 DEF Grants!Grant, SaveLease

LEMMA TransitionGrants ==
    ASSUME IInv, NEW t \in Turns, NEW p \in Phases, Transition(t, p)
    PROVE  Grants!Work(p)
<1>1. /\ files \in [Gens -> TurnFiles] /\ registry.gen \in Gens
      /\ files' = [files EXCEPT ![registry.gen].phase = p]
      /\ files[registry.gen].claim # Unrecorded
  BY DEF Transition, HoldsTurn, HeldBy, IInv, TypeOK, Rows
<1>2. /\ files'[registry.gen].id = files[registry.gen].id
      /\ files'[registry.gen].claim = files[registry.gen].claim
      /\ files'[registry.gen].phase = p
  BY <1>1 DEF TurnFiles
<1>3. Holder # NoTurn
  BY <1>1, HolderIsTurn
<1>4. Holder' = Holder /\ Ending' = Ending
  BY <1>2 DEF Transition, Holder, Ending, Executing
<1>5. HolderPhase' = p
  BY <1>2, <1>3, <1>4 DEF Transition, HolderPhase
<1>. QED
  BY <1>3, <1>4, <1>5 DEF Grants!Work, Transition
\* An attested release gives the grant up; any other takes it away, if there was one.
LEMMA ReleaseGrants ==
    ASSUME IInv, NEW t \in Turns, ReleaseTurn(t)
    PROVE  Grants!GiveUp \/ Grants!Revoke \/ UNCHANGED Grants!vars
<1>1. /\ files' = WithoutClaim /\ UNCHANGED <<registry, completed>> /\ Ending = NoTurn
      /\ edit'.op = "release" /\ edit'.turn = t /\ t # NoTurn
      /\ edit'.attested => HeldBy(files[registry.gen], t)
  BY SMTT(30) DEF ReleaseTurn, WriteRelease, Unlocked, Ending, Free, Turns
<1>2. Holder' = NoTurn /\ HolderPhase' = FirstPhase
  BY <1>1, WithoutClaimStrips DEF Holder, HolderPhase
<1>3. CASE edit'.attested
  <2>1. Holder = t
    BY <1>1, <1>3, HolderIsTurn DEF HeldBy
  <2>2. Ending' = t
    BY <1>1, <1>3 DEF Ending
  <2>. QED
    BY <1>1, <1>2, <2>1, <2>2 DEF Grants!GiveUp
<1>4. CASE ~edit'.attested
  <2>1. Ending' = NoTurn
    BY <1>1, <1>4 DEF Ending
  <2>. QED
    BY <1>1, <1>2, <2>1 DEF Grants!Revoke, Grants!vars, HolderPhase
<1>. QED
  BY <1>3, <1>4

LEMMA SaveReleaseGrants ==
    ASSUME IInv, SaveRelease
    PROVE  Grants!Report \/ UNCHANGED Grants!vars
<1>1. /\ files[registry.gen].claim = Unrecorded /\ registry \in Rows /\ edit.turn \in Turns
      /\ registry' = [registry EXCEPT !.record = "finished", !.turn = edit.turn]
  BY DEF SaveRelease, IInv, LockedEdit, TypeOK
<1>2. registry'.gen = registry.gen /\ edit.turn # NoTurn
  BY SMTT(30), <1>1 DEF Rows, Turns
<1>3. UNCHANGED <<Holder, HolderPhase>>
  BY <1>1, <1>2 DEF SaveRelease, Holder, HolderPhase
<1>4. Ending' = NoTurn
  BY DEF SaveRelease, Ending, Free
<1>5. CASE edit.attested
  BY <1>2, <1>3, <1>4, <1>5 DEF SaveRelease, Ending, Grants!Report
<1>6. CASE ~edit.attested
  BY <1>3, <1>4, <1>6 DEF SaveRelease, Ending, Grants!vars
<1>. QED
  BY <1>5, <1>6

LEMMA OwnerGrants ==
    ASSUME IInv, OwnerStep
    PROVE  Grants!Revoke \/ UNCHANGED Grants!vars
<1>1. PICK op \in {"client", "owner"} : \E row : Withdraw(op, row)
  BY DEF OwnerStep, FenceStop, StopUnbound, CompleteSession, FinishStopped, Archive,
         Heartbeat, StartOwner
<1>2. /\ files' = WithoutClaim /\ UNCHANGED <<registry, completed>>
      /\ Ending = NoTurn /\ Ending' = NoTurn
  BY SMTT(30), <1>1 DEF Withdraw, Unlocked, Ending, Free
<1>3. Holder' = NoTurn /\ HolderPhase' = FirstPhase
  BY <1>2, WithoutClaimStrips DEF Holder, HolderPhase
<1>. QED
  BY <1>2, <1>3 DEF Grants!Revoke, Grants!vars, HolderPhase

LEMMA SaveGrants ==
    ASSUME IInv, Save
    PROVE  UNCHANGED Grants!vars
<1>1. registry'.gen = registry.gen /\ files[registry.gen].claim = Unrecorded
  BY DEF Save, IInv, LockedEdit
<1>2. UNCHANGED <<Holder, HolderPhase>>
  BY <1>1 DEF Save, Holder, HolderPhase
<1>. QED
  BY <1>2 DEF Save, Ending, Free, Grants!vars

LEMMA ProcessGrants ==
    ASSUME IInv, ProcessStep
    PROVE  Grants!Lose \/ UNCHANGED Grants!vars
<1>1. UNCHANGED <<registry, files, completed>>
  BY DEF ProcessStep, ClientDies, HostDies, SpawnHost
<1>2. UNCHANGED <<Holder, HolderPhase>>
  BY <1>1 DEF Holder, HolderPhase, Executing
<1>3. Ending' = Ending \/ Ending' = NoTurn
  BY SMTT(30) DEF ProcessStep, ClientDies, HostDies, SpawnHost, Ending, Free
<1>. QED
  BY <1>1, <1>2, <1>3 DEF Grants!Lose, Grants!vars

LEMMA StepGrants == IInv /\ [Next]_vars => [Grants!Next]_Grants!vars
<1>. SUFFICES ASSUME IInv, [Next]_vars PROVE Grants!Next \/ UNCHANGED Grants!vars
  OBVIOUS
<1>1. ASSUME NEW t \in Turns, LeaseTurn(t) PROVE UNCHANGED Grants!vars
  <2>1. files'[registry.gen] = files[registry.gen]
    BY SMTT(30), <1>1, BoundsAssumption
       DEF BoundsAssumption, LeaseTurn, WriteLease, IInv, TypeOK, Rows, Gens
  <2>2. Ending' = Ending
    BY <1>1 DEF LeaseTurn, WriteLease, Unlocked, Ending, Free
  <2>. QED
    BY <1>1, <2>1, <2>2, GrantUnchanged DEF LeaseTurn, WriteLease
<1>2. ASSUME RetireSuperseded PROVE UNCHANGED Grants!vars
  <2>1. files'[registry.gen] = files[registry.gen]
    BY SMTT(30), <1>2, BoundsAssumption
       DEF BoundsAssumption, RetireSuperseded, IInv, TypeOK, Rows, Gens
  <2>2. Ending' = Ending
    BY <1>2 DEF RetireSuperseded, Ending, Free
  <2>. QED
    BY <1>2, <2>1, <2>2, GrantUnchanged DEF RetireSuperseded
<1>3. ASSUME NEW t \in Turns, ReadLease(t) \/ ReleaseRefused(t) PROVE UNCHANGED Grants!vars
  BY <1>3, GrantUnchanged DEF ReadLease, ReleaseRefused, Ending
<1>4. CASE \E t \in Turns : TurnStep(t)
  BY <1>1, <1>3, <1>4, TransitionGrants, ReleaseGrants DEF TurnStep, Grants!Next
<1>5. CASE EditStep
  BY <1>2, <1>5, SaveLeaseGrants, SaveReleaseGrants, SaveGrants DEF EditStep, Grants!Next
<1>6. CASE OwnerStep \/ ProcessStep
  BY <1>6, OwnerGrants, ProcessGrants DEF Grants!Next
<1>7. CASE UNCHANGED vars
  BY <1>7, GrantUnchanged DEF vars, Ending
<1>. QED
  BY <1>4, <1>5, <1>6, <1>7 DEF Next

\* Registry and turn files together are one grant: every run of the lease protocol, with
\* edits that die half-way and runners that act late, is a run of TurnGrant.
THEOREM LeaseImplementsGrant == Spec => ImplementsGrant
BY InitGrant, StepGrants, Invariance, PTL DEF Spec, ImplementsGrant, Grants!Spec
=============================================================================
