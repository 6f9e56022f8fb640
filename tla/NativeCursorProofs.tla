------------------------- MODULE NativeCursorProofs -------------------------
(***************************************************************************)
(* The cursor of a recipient, for every number of calls and every bound:   *)
(* it covers only what is settled, names the last input that entered       *)
(* context, is written only under its fence, and never meets an identity   *)
(* conflict.                                                               *)
(*                                                                         *)
(* The argument: what a scan reads stays true (Grows), so everything a     *)
(* call collected outside the locks still holds when it publishes          *)
(* (CallInv); and the row it compares with is the row it read, whose       *)
(* facts are the facts of the cursor at that moment (RowInv).              *)
(***************************************************************************)
EXTENDS NativeCursor, TLAPS

\* A leaf that names no prover is for Zenon; arithmetic and records go to SMT.
USE ZenonT(30)

\* An input that entered native context.
Sent(i) ==
    /\ i \in InputId
    /\ i[1] \in DOMAIN executions
    /\ i[2] \in DOMAIN executions[i[1]].inputs
    /\ executions[i[1]].inputs[i[2]].context

Carried(s, i) == Sent(i) /\ s \in executions[i[1]].sources

Entered(s) ==
    \E e \in DOMAIN executions :
        /\ s \in executions[e].sources
        /\ \E a \in DOMAIN executions[e].inputs : executions[e].inputs[a].context

\* What a message under the cursor may be.
Covered(s) ==
    \/ bus[s] = "other"
    \/ s \in sealed /\ (bus[s] = "quiet" \/ Failed(s) \/ Entered(s))

RowInv(row) ==
    /\ row \in Row
    /\ row.covered <= Len(bus) /\ row.injected <= row.covered
    /\ \A s \in 1 .. row.covered : Covered(s)
    /\ row.injected > 0 => Carried(row.injected, row.input)
    /\ \A s \in row.injected + 1 .. row.covered : bus[s] = "wake" => Failed(s)
    /\ row.input # NoInput => Sent(row.input) /\ MatchesInput(row, row.input)

Scanning == {"cohort", "evidence", "commit"}

CallInv(k) ==
    /\ k.pc # "conflict"
    /\ k.pc \in {"owner", "state"} => k.proofs = {}
    /\ k.pc \in Scanning =>
         /\ RowInv(k.row) /\ Within(k, k.row)
         /\ k.row.covered <= k.covered /\ k.covered <= k.prefix /\ k.prefix <= Len(bus)
         /\ \A s \in 1 .. k.covered : Covered(s)
         /\ \A p \in k.proofs : /\ k.row.covered < p.source /\ p.source <= k.covered
                                /\ Carried(p.source, p.input)
         /\ \A s \in k.row.injected + 1 .. k.covered :
              bus[s] = "wake" => Failed(s) \/ \E p \in k.proofs : s <= p.source
    /\ k.pc = "evidence" =>
         /\ k.covered < k.at /\ k.at <= k.prefix
         /\ bus[k.at] = "wake" /\ k.at \in sealed
         /\ \A s \in k.covered + 1 .. k.at - 1 : bus[s] = "other"
         /\ k.failed => Failed(k.at)

\* Inputs are sent within the claim and the participant generation of their moment.
SentWithin ==
    \A e \in DOMAIN executions :
        /\ executions[e].claim <= registry.claim
        /\ \A a \in DOMAIN executions[e].inputs :
              /\ executions[e].inputs[a].generation <= generation
              /\ executions[e].inputs[a].claim <= registry.claim

Typed ==
    /\ TypeOK
    /\ Len(executions) <= MaxExecutions
    /\ \A e \in DOMAIN executions :
          /\ executions[e].sources \subseteq Position
          /\ Len(executions[e].inputs) <= MaxAttempts
          /\ executions[e].state = "deferred" =>
                0 < Len(executions[e].inputs) /\ Len(executions[e].inputs) < MaxAttempts

\* The bus grows message by message, so its positions are well ordered.
Ordered ==
    \A S \in (SUBSET Position) \ {{}} :
        /\ \E m \in S : \A n \in S : m <= n
        /\ \E m \in S : \A n \in S : n <= m

IInv ==
    /\ Typed
    /\ Ordered
    /\ SentWithin
    /\ RowInv(cursor)
    /\ \A c \in Call : CallInv(calls[c])

-----------------------------------------------------------------------------
(* Sequences.                                                              *)

LEMMA Appended ==
    ASSUME NEW S, NEW s \in Seq(S), NEW x \in S
    PROVE  /\ Append(s, x) \in Seq(S) /\ Len(s) \in Nat /\ Len(Append(s, x)) = Len(s) + 1
           /\ DOMAIN s = 1 .. Len(s) /\ DOMAIN Append(s, x) = 1 .. Len(s) + 1
           /\ Append(s, x)[Len(s) + 1] = x
           /\ \A i \in DOMAIN s : i \in DOMAIN Append(s, x) /\ Append(s, x)[i] = s[i]
  BY SMTT(30)

LEMMA Updated ==
    ASSUME NEW S, NEW s \in Seq(S), NEW e \in DOMAIN s, NEW x \in S
    PROVE  /\ [s EXCEPT ![e] = x] \in Seq(S) /\ Len([s EXCEPT ![e] = x]) = Len(s)
           /\ DOMAIN [s EXCEPT ![e] = x] = DOMAIN s
           /\ [s EXCEPT ![e] = x][e] = x
           /\ \A i \in DOMAIN s \ {e} : [s EXCEPT ![e] = x][i] = s[i]
  BY SMTT(30)

LEMMA Positions ==
    ASSUME NEW S, NEW s \in Seq(S)
    PROVE  Len(s) \in Nat /\ DOMAIN s = 1 .. Len(s) /\ \A i \in DOMAIN s : s[i] \in S
  BY SMTT(30)

LEMMA Executions ==
    ASSUME executions \in Seq(Execution), NEW e \in DOMAIN executions
    PROVE  /\ executions[e] \in Execution /\ executions[e].sources \in SUBSET (1 .. MaxSeq)
           /\ executions[e].claim \in Nat /\ executions[e].inputs \in Seq(Input)
           /\ \A a \in DOMAIN executions[e].inputs :
                 /\ executions[e].inputs[a] \in Input
                 /\ executions[e].inputs[a].generation \in Nat
                 /\ executions[e].inputs[a].claim \in Nat
<1>1. executions[e] \in Execution
  BY SMTT(30)
<1>2. /\ executions[e].sources \in SUBSET (1 .. MaxSeq) /\ executions[e].claim \in Nat
      /\ executions[e].inputs \in Seq(Input)
  BY <1>1 DEF Execution
<1>3. \A a \in DOMAIN executions[e].inputs : executions[e].inputs[a] \in Input
  BY SMTT(30), <1>2
<1>. QED
  BY <1>1, <1>2, <1>3 DEF Input

LEMMA ActivityFacts ==
    ASSUME NEW k \in Activity
    PROVE  /\ k.covered \in Nat /\ k.prefix \in Nat /\ k.proofs \subseteq Proof
           /\ k.row.covered \in Nat /\ k.row.injected \in Nat
           /\ \A p \in k.proofs : p.source \in Nat
<1>1. k.covered \in Nat /\ k.prefix \in Nat /\ k.proofs \subseteq Proof /\ k.row \in Row
  BY DEF Activity
<1>. QED
  BY <1>1 DEF Row, Proof

-----------------------------------------------------------------------------
(* What a scan has read stays true.                                        *)

Grows ==
    /\ Len(bus) <= Len(bus') /\ \A s \in 1 .. Len(bus) : bus'[s] = bus[s]
    /\ sealed \subseteq sealed'
    /\ \A e \in DOMAIN executions :
          /\ e \in DOMAIN executions'
          /\ executions'[e].sources = executions[e].sources
          /\ executions[e].state = "failed" => executions'[e].state = "failed"
          /\ \A a \in DOMAIN executions[e].inputs :
                /\ a \in DOMAIN executions'[e].inputs
                /\ executions'[e].inputs[a].generation = executions[e].inputs[a].generation
                /\ executions'[e].inputs[a].claim = executions[e].inputs[a].claim
                /\ executions[e].inputs[a].context => executions'[e].inputs[a].context

LEMMA StaysFailed ==
    ASSUME Grows, NEW s, Failed(s)
    PROVE  Failed(s)'
  BY DEF Grows, Failed

LEMMA StaysCarried ==
    ASSUME Grows, NEW i, Sent(i)
    PROVE  /\ Sent(i)' /\ \A s : Carried(s, i) => Carried(s, i)'
           /\ \A k : MatchesInput(k, i) => MatchesInput(k, i)'
<1>1. Sent(i)' /\ \A s : Carried(s, i) => Carried(s, i)'
  BY DEF Grows, Sent, Carried
<1>2. ASSUME NEW k, MatchesInput(k, i) PROVE MatchesInput(k, i)'
  BY <1>2 DEF Grows, Sent, MatchesInput
<1>. QED
  BY <1>1, <1>2

LEMMA StaysCovered ==
    ASSUME Grows, NEW s \in 1 .. Len(bus), Covered(s)
    PROVE  Covered(s)'
<1>1. bus'[s] = bus[s] /\ (s \in sealed => s \in sealed')
  BY DEF Grows
<1>2. Entered(s) => Entered(s)'
  BY DEF Grows, Entered
<1>. QED
  BY <1>1, <1>2, StaysFailed DEF Covered

LEMMA StaysRow ==
    ASSUME Grows, bus \in Seq(Kind), bus' \in Seq(Kind), NEW row, RowInv(row)
    PROVE  RowInv(row)'
<1>1. /\ row \in Row /\ row.covered \in Nat /\ row.injected \in Nat /\ row.covered <= Len(bus)
      /\ row.injected <= row.covered /\ Len(bus) <= Len(bus')
  BY DEF RowInv, Row, Grows
<1>2. Len(bus) \in Nat /\ Len(bus') \in Nat
  BY Positions
<1>3. row.covered <= Len(bus')
  BY SMTT(30), <1>1, <1>2
<1>4. \A s \in 1 .. row.covered : s \in 1 .. Len(bus)
  BY SMTT(30), <1>1, <1>2
<1>5. \A s \in row.injected + 1 .. row.covered : s \in 1 .. Len(bus)
  BY SMTT(30), <1>1, <1>2
<1>6. \A s \in 1 .. row.covered : Covered(s)'
  BY <1>4, StaysCovered DEF RowInv
<1>7. row.injected > 0 => Carried(row.injected, row.input)'
  BY StaysCarried DEF RowInv, Carried
<1>8. ASSUME NEW s \in row.injected + 1 .. row.covered, bus'[s] = "wake" PROVE Failed(s)'
  BY <1>5, <1>8, StaysFailed DEF RowInv, Grows
<1>9. row.input # NoInput => Sent(row.input)' /\ MatchesInput(row, row.input)'
  BY StaysCarried DEF RowInv
<1>. QED
  BY <1>1, <1>3, <1>6, <1>7, <1>8, <1>9 DEF RowInv

LEMMA StaysCall ==
    ASSUME Grows, bus \in Seq(Kind), bus' \in Seq(Kind), NEW k \in Activity, CallInv(k)
    PROVE  CallInv(k)'
<1>0. /\ Len(bus) \in Nat /\ Len(bus') \in Nat /\ Len(bus) <= Len(bus')
      /\ k.covered \in Nat /\ k.prefix \in Nat /\ k.at \in Nat
  BY Positions DEF Grows, Activity
<1>1. ASSUME k.pc \in Scanning
      PROVE  /\ RowInv(k.row)' /\ k.row \in Row /\ k.row.injected \in Nat /\ k.prefix <= Len(bus')
             /\ \A s \in 1 .. k.covered : s \in 1 .. Len(bus)
             /\ \A s \in k.row.injected + 1 .. k.covered : s \in 1 .. Len(bus)
  <2>1. RowInv(k.row) /\ k.covered <= k.prefix /\ k.prefix <= Len(bus)
    BY <1>1 DEF CallInv
  <2>2. RowInv(k.row)' /\ k.row \in Row /\ k.row.injected \in Nat
    BY <2>1, StaysRow DEF RowInv, Row
  <2>. QED
    BY SMTT(30), <1>0, <2>1, <2>2
<1>2. ASSUME k.pc \in Scanning PROVE \A s \in 1 .. k.covered : Covered(s)'
  BY <1>1, <1>2, StaysCovered DEF CallInv
<1>3. ASSUME k.pc \in Scanning, NEW p \in k.proofs PROVE Carried(p.source, p.input)'
  BY <1>3, StaysCarried DEF CallInv, Carried
<1>4. ASSUME k.pc \in Scanning, NEW s \in k.row.injected + 1 .. k.covered, bus'[s] = "wake"
      PROVE  Failed(s)' \/ \E p \in k.proofs : s <= p.source
  <2>1. bus[s] = "wake"
    BY <1>1, <1>4 DEF Grows
  <2>. QED
    BY <1>4, <2>1, StaysFailed DEF CallInv
<1>5. ASSUME k.pc = "evidence"
      PROVE  /\ bus'[k.at] = "wake" /\ k.at \in sealed'
             /\ \A s \in k.covered + 1 .. k.at - 1 : bus'[s] = "other"
             /\ k.failed => Failed(k.at)'
  <2>1. k.pc \in Scanning /\ k.covered < k.at /\ k.at <= k.prefix /\ k.prefix <= Len(bus)
    BY <1>5 DEF CallInv, Scanning
  <2>2. k.at \in 1 .. Len(bus) /\ \A s \in k.covered + 1 .. k.at - 1 : s \in 1 .. Len(bus)
    BY SMTT(30), <1>0, <2>1
  <2>. QED
    BY <1>5, <2>2, StaysFailed DEF CallInv, Grows
<1>. QED
  BY <1>1, <1>2, <1>3, <1>4, <1>5 DEF CallInv, Within

-----------------------------------------------------------------------------
(* The steps of the sources and of their owners.                           *)

LEMMA SourcesMove ==
    ASSUME IInv, Typed', Ordered', SentWithin', Grows, UNCHANGED <<cursor, calls>>
    PROVE  IInv'
<1>1. bus \in Seq(Kind) /\ bus' \in Seq(Kind) /\ calls \in [Call -> Activity]
  BY DEF IInv, Typed, TypeOK
<1>2. RowInv(cursor)'
  <2>1. PICK row : row = cursor
    OBVIOUS
  <2>2. RowInv(row)'
    BY <1>1, <2>1, StaysRow DEF IInv
  <2>3. cursor' = row
    BY <2>1
  <2>. QED
    BY <2>2, <2>3 DEF RowInv
<1>3. ASSUME NEW c \in Call PROVE CallInv(calls[c])'
  <2>1. PICK k : k = calls[c]
    OBVIOUS
  <2>2. k \in Activity /\ CallInv(k)
    BY <1>1, <2>1 DEF IInv
  <2>3. CallInv(k)'
    BY <1>1, <2>2, StaysCall
  <2>4. calls'[c] = k
    BY <2>1
  <2>. QED
    BY <2>3, <2>4 DEF CallInv
<1>. QED
  BY <1>2, <1>3 DEF IInv

LEMMA Sends ==
    ASSUME IInv, NEW kind \in Kind, Send(kind)
    PROVE  IInv'
<1>0. /\ TypeOK /\ bus \in Seq(Kind) /\ bus' = Append(bus, kind) /\ Len(bus) < MaxSeq
      /\ MaxSeq \in Nat
      /\ UNCHANGED <<sealed, executions, registry, generation, cursor, calls>>
  BY CursorBounds DEF IInv, Typed, TypeOK, Send, owners
<1>1. /\ bus' \in Seq(Kind) /\ Len(bus) \in Nat /\ Len(bus') = Len(bus) + 1
      /\ \A i \in 1 .. Len(bus) : bus'[i] = bus[i]
  BY SMTT(30), <1>0
<1>2. /\ Position' = Position \cup {Len(bus) + 1} /\ Len(bus) <= Len(bus') /\ Len(bus') <= MaxSeq
      /\ Position \subseteq Position'
  BY SMTT(30), <1>0, <1>1 DEF Position
<1>3. Typed'
  BY <1>0, <1>1, <1>2 DEF IInv, Typed, TypeOK
<1>4. ASSUME NEW S \in (SUBSET (Position \cup {Len(bus) + 1})) \ {{}}
      PROVE  /\ \E m \in S : \A n \in S : m <= n
             /\ \E m \in S : \A n \in S : n <= m
  <2>. DEFINE top == Len(bus) + 1
             T == S \ {top}
  <2>0. \A n \in S : n \in Nat /\ n <= top
    BY SMTT(30), <1>1 DEF Position
  <2>1. CASE T = {}
    <3>1. top \in S /\ \A n \in S : n = top
      BY <2>1
    <3>. QED
      BY SMTT(30), <3>1, <1>1
  <2>2. CASE T # {}
    <3>1. T \in (SUBSET Position) \ {{}}
      BY <2>2
    <3>2. PICK lo \in T : \A n \in T : lo <= n
      BY <3>1 DEF IInv, Ordered
    <3>3. PICK hi \in T : \A n \in T : n <= hi
      BY <3>1 DEF IInv, Ordered
    <3>4. \A n \in S : lo <= n
      BY <2>0, <3>2
    <3>5. \E m \in S : \A n \in S : n <= m
      <4>1. CASE top \in S
        BY <2>0, <4>1
      <4>2. CASE top \notin S
        BY <3>3, <4>2
      <4>. QED
        BY <4>1, <4>2
    <3>. QED
      BY <3>2, <3>4, <3>5
  <2>. QED
    BY <2>1, <2>2
<1>5. Ordered'
  BY <1>2, <1>4 DEF Ordered
<1>6. SentWithin'
  BY <1>0 DEF IInv, SentWithin
<1>7. Grows
  BY <1>0, <1>1, <1>2 DEF Grows
<1>. QED
  BY <1>0, <1>3, <1>5, <1>6, <1>7, SourcesMove

LEMMA Accepts ==
    ASSUME IInv, NEW s \in Position, Accept(s)
    PROVE  IInv'
<1>0. /\ TypeOK /\ bus \in Seq(Kind) /\ sealed' = sealed \cup {s}
      /\ UNCHANGED <<bus, executions, registry, generation, cursor, calls>>
  BY DEF IInv, Typed, TypeOK, Accept, owners
<1>1. Typed' /\ Ordered' /\ SentWithin'
  BY <1>0 DEF IInv, Typed, TypeOK, Ordered, SentWithin, Position
<1>2. Len(bus) <= Len(bus')
  BY SMTT(30), <1>0, Positions
<1>3. Grows
  BY <1>0, <1>2 DEF Grows
<1>. QED
  BY <1>0, <1>1, <1>3, SourcesMove

\* The owners move on; inputs already sent stay behind them.
LEMMA OwnersMove ==
    ASSUME IInv, UNCHANGED <<bus, sealed, executions, cursor, calls>>,
           registry' \in [claim : 1 .. MaxClaim, active : BOOLEAN], generation' \in Nat,
           registry.claim <= registry'.claim, generation <= generation'
    PROVE  IInv'
<1>1. /\ TypeOK /\ bus \in Seq(Kind) /\ executions \in Seq(Execution)
      /\ registry.claim \in Nat /\ registry'.claim \in Nat /\ generation \in Nat
  BY SMTT(30), CursorBounds DEF IInv, Typed, TypeOK
<1>2. Typed' /\ Ordered'
  BY <1>1 DEF IInv, Typed, TypeOK, Ordered, Position
<1>3. ASSUME NEW e \in DOMAIN executions
      PROVE  /\ executions[e].claim <= registry'.claim
             /\ \A a \in DOMAIN executions[e].inputs :
                   /\ executions[e].inputs[a].generation <= generation'
                   /\ executions[e].inputs[a].claim <= registry'.claim
  <2>1. executions[e].claim \in Nat /\ executions[e].inputs \in Seq(Input)
    BY <1>1, Executions
  <2>2. \A a \in DOMAIN executions[e].inputs :
          executions[e].inputs[a].generation \in Nat /\ executions[e].inputs[a].claim \in Nat
    BY <1>1, Executions
  <2>3. /\ executions[e].claim <= registry.claim
        /\ \A a \in DOMAIN executions[e].inputs :
              /\ executions[e].inputs[a].generation <= generation
              /\ executions[e].inputs[a].claim <= registry.claim
    BY DEF IInv, SentWithin
  <2>4. executions[e].claim <= registry'.claim
    BY SMTT(30), <1>1, <2>1, <2>3
  <2>5. ASSUME NEW a \in DOMAIN executions[e].inputs
        PROVE  /\ executions[e].inputs[a].generation <= generation'
               /\ executions[e].inputs[a].claim <= registry'.claim
    BY SMTT(30), <1>1, <2>2, <2>3
  <2>. QED
    BY <2>4, <2>5
<1>4. SentWithin'
  BY <1>3 DEF SentWithin
<1>5. Len(bus) <= Len(bus')
  BY SMTT(30), <1>1, Positions
<1>6. Grows
  BY <1>5 DEF Grows
<1>. QED
  BY <1>2, <1>4, <1>6, SourcesMove

LEMMA Advances ==
    ASSUME IInv, NEW e, AdvanceGeneration(e)
    PROVE  IInv'
<1>1. /\ UNCHANGED <<bus, sealed, executions, registry, cursor, calls>>
      /\ registry \in [claim : 1 .. MaxClaim, active : BOOLEAN] /\ generation \in Nat
      /\ generation' = generation + 1
  BY DEF IInv, Typed, TypeOK, AdvanceGeneration, sources
<1>2. /\ generation' \in Nat /\ generation <= generation' /\ registry.claim <= registry'.claim
      /\ registry' \in [claim : 1 .. MaxClaim, active : BOOLEAN]
  BY SMTT(30), <1>1
<1>. QED
  BY <1>1, <1>2, OwnersMove

LEMMA StopsOrRestarts ==
    ASSUME IInv, Stop \/ Restart
    PROVE  IInv'
<1>1. /\ UNCHANGED <<bus, sealed, executions, generation, cursor, calls>>
      /\ registry \in [claim : 1 .. MaxClaim, active : BOOLEAN] /\ generation \in Nat
      /\ registry.claim < MaxClaim
      /\ \E b \in BOOLEAN : registry' = [claim |-> registry.claim + 1, active |-> b]
  BY DEF IInv, Typed, TypeOK, Stop, Restart, sources
<1>2. /\ generation' \in Nat /\ generation <= generation' /\ registry.claim <= registry'.claim
      /\ registry' \in [claim : 1 .. MaxClaim, active : BOOLEAN]
  BY SMTT(30), <1>1, CursorBounds
<1>. QED
  BY <1>1, <1>2, OwnersMove

\* One execution changes: its sources and its claim stay, and its inputs only
\* grow or enter context.
LEMMA Replaces ==
    ASSUME IInv, UNCHANGED <<bus, sealed, registry, generation, cursor, calls>>,
           NEW e \in DOMAIN executions, NEW x \in Execution,
           executions' = [executions EXCEPT ![e] = x],
           x.sources = executions[e].sources, x.claim = executions[e].claim,
           executions[e].state # "failed",
           Len(x.inputs) <= MaxAttempts,
           x.state = "deferred" => 0 < Len(x.inputs) /\ Len(x.inputs) < MaxAttempts,
           \A a \in DOMAIN executions[e].inputs :
              /\ a \in DOMAIN x.inputs
              /\ x.inputs[a].generation = executions[e].inputs[a].generation
              /\ x.inputs[a].claim = executions[e].inputs[a].claim
              /\ executions[e].inputs[a].context => x.inputs[a].context,
           \A a \in DOMAIN x.inputs :
              /\ x.inputs[a].generation <= generation
              /\ x.inputs[a].claim <= registry.claim
    PROVE  IInv'
<1>1. TypeOK /\ bus \in Seq(Kind) /\ executions \in Seq(Execution)
  BY DEF IInv, Typed, TypeOK
<1>2. /\ executions' \in Seq(Execution) /\ Len(executions') = Len(executions)
      /\ DOMAIN executions' = DOMAIN executions /\ executions'[e] = x
      /\ \A i \in DOMAIN executions \ {e} : executions'[i] = executions[i]
  BY SMTT(30), <1>1
<1>3. ASSUME NEW i \in DOMAIN executions
      PROVE  /\ executions'[i].sources = executions[i].sources
             /\ executions'[i].claim = executions[i].claim
             /\ executions[i].state = "failed" => executions'[i].state = "failed"
             /\ Len(executions'[i].inputs) <= MaxAttempts
             /\ executions'[i].state = "deferred" =>
                   0 < Len(executions'[i].inputs) /\ Len(executions'[i].inputs) < MaxAttempts
             /\ \A a \in DOMAIN executions[i].inputs :
                   /\ a \in DOMAIN executions'[i].inputs
                   /\ executions'[i].inputs[a].generation = executions[i].inputs[a].generation
                   /\ executions'[i].inputs[a].claim = executions[i].inputs[a].claim
                   /\ executions[i].inputs[a].context => executions'[i].inputs[a].context
             /\ \A a \in DOMAIN executions'[i].inputs :
                   /\ executions'[i].inputs[a].generation <= generation
                   /\ executions'[i].inputs[a].claim <= registry.claim
  <2>1. CASE i = e
    BY <1>2, <2>1
  <2>2. CASE i # e
    <3>1. executions'[i] = executions[i]
      BY <1>2, <2>2
    <3>2. /\ Len(executions[i].inputs) <= MaxAttempts
          /\ executions[i].state = "deferred" =>
                0 < Len(executions[i].inputs) /\ Len(executions[i].inputs) < MaxAttempts
      BY DEF IInv, Typed
    <3>3. \A a \in DOMAIN executions[i].inputs :
                   /\ executions[i].inputs[a].generation <= generation
                   /\ executions[i].inputs[a].claim <= registry.claim
      BY DEF IInv, SentWithin
    <3>. QED
      BY <3>1, <3>2, <3>3
  <2>. QED
    BY <2>1, <2>2
<1>4. Typed'
  BY <1>1, <1>2, <1>3 DEF IInv, Typed, TypeOK, Position
<1>5. Ordered'
  BY DEF IInv, Ordered, Position
<1>6. SentWithin'
  <2>1. \A i \in DOMAIN executions : executions[i].claim <= registry.claim
    BY DEF IInv, SentWithin
  <2>2. registry' = registry /\ generation' = generation
    OBVIOUS
  <2>3. ASSUME NEW i \in DOMAIN executions'
        PROVE  /\ executions'[i].claim <= registry'.claim
               /\ \A a \in DOMAIN executions'[i].inputs :
                     /\ executions'[i].inputs[a].generation <= generation'
                     /\ executions'[i].inputs[a].claim <= registry'.claim
    <3>1. i \in DOMAIN executions
      BY <1>2
    <3>2. /\ executions'[i].claim <= registry.claim
          /\ \A a \in DOMAIN executions'[i].inputs :
                /\ executions'[i].inputs[a].generation <= generation
                /\ executions'[i].inputs[a].claim <= registry.claim
      BY <1>3, <2>1, <3>1
    <3>. QED
      BY <2>2, <3>2
  <2>. QED
    BY <2>3 DEF SentWithin
<1>7. Len(bus) <= Len(bus')
  BY SMTT(30), <1>1, Positions
<1>8. Grows
  BY <1>2, <1>3, <1>7 DEF Grows
<1>. QED
  BY <1>4, <1>5, <1>6, <1>8, SourcesMove

LEMMA Ended ==
    ASSUME IInv, UNCHANGED <<bus, sealed, registry, generation, cursor, calls>>,
           NEW e \in DOMAIN executions, executions[e].state = "active",
           NEW state \in {"deferred", "failed", "completed"}, Ends(e, state),
           state = "deferred" => Len(executions[e].inputs) \in 1 .. MaxAttempts - 1
    PROVE  IInv'
<1>1. /\ executions \in Seq(Execution) /\ executions[e] \in Execution
      /\ Len(executions[e].inputs) <= MaxAttempts
  BY Executions DEF IInv, Typed, TypeOK
<1>2. PICK x : x = [executions[e] EXCEPT !.state = state]
  OBVIOUS
<1>3. /\ x \in Execution /\ x.sources = executions[e].sources /\ x.claim = executions[e].claim
      /\ x.state = state /\ x.inputs = executions[e].inputs
  BY <1>1, <1>2 DEF Execution
<1>4. executions' = [executions EXCEPT ![e] = x]
  BY <1>2 DEF Ends
<1>5. x.state = "deferred" => 0 < Len(x.inputs) /\ Len(x.inputs) < MaxAttempts
  BY SMTT(30), <1>3, CursorBounds
<1>6. \A a \in DOMAIN x.inputs :
         x.inputs[a].generation <= generation /\ x.inputs[a].claim <= registry.claim
  BY <1>3 DEF IInv, SentWithin
<1>. QED
  BY <1>1, <1>3, <1>4, <1>5, <1>6, Replaces

LEMMA Ending ==
    ASSUME IInv, NEW e \in DOMAIN executions, Defer(e) \/ Fail(e) \/ Complete(e)
    PROVE  IInv'
<1>1. /\ UNCHANGED <<bus, sealed, registry, generation, cursor, calls>>
      /\ executions[e].state = "active"
  BY DEF Defer, Fail, Complete, owners
<1>2. CASE Defer(e)
  BY <1>1, <1>2, Ended DEF Defer
<1>3. CASE Fail(e)
  BY <1>1, <1>3, Ended DEF Fail
<1>4. CASE Complete(e)
  BY <1>1, <1>4, Ended DEF Complete
<1>. QED
  BY <1>2, <1>3, <1>4

LEMMA Starts ==
    ASSUME IInv, NEW e \in DOMAIN executions, StartAttempt(e)
    PROVE  IInv'
<1>1. /\ executions \in Seq(Execution) /\ executions[e] \in Execution
      /\ executions[e].inputs \in Seq(Input)
      /\ executions[e].state = "deferred" => Len(executions[e].inputs) < MaxAttempts
      /\ registry \in [claim : 1 .. MaxClaim, active : BOOLEAN] /\ generation \in Nat
  BY Executions DEF IInv, Typed, TypeOK
<1>2. /\ UNCHANGED <<bus, sealed, registry, generation, cursor, calls>>
      /\ executions[e].state # "failed"
      /\ executions[e].inputs = <<>> \/ executions[e].state = "deferred"
  BY DEF StartAttempt, owners
<1>3. PICK new : new = [generation |-> generation, claim |-> registry.claim, context |-> FALSE]
  OBVIOUS
<1>4. /\ new \in Input /\ new.generation <= generation /\ new.claim <= registry.claim
      /\ registry.claim \in Nat
  BY SMTT(30), <1>1, <1>3, CursorBounds DEF Input
<1>5. PICK inputs : inputs = Append(executions[e].inputs, new)
  OBVIOUS
<1>6. /\ inputs \in Seq(Input)
      /\ \A a \in DOMAIN executions[e].inputs :
            a \in DOMAIN inputs /\ inputs[a] = executions[e].inputs[a]
      /\ \A a \in DOMAIN inputs : a \in DOMAIN executions[e].inputs \/ inputs[a] = new
  BY SMTT(30), <1>1, <1>4, <1>5
<1>7. Len(inputs) <= MaxAttempts
  BY SMTT(30), <1>1, <1>2, <1>4, <1>5, CursorBounds
<1>8. PICK x : x = [executions[e] EXCEPT !.state = "active", !.inputs = inputs]
  OBVIOUS
<1>9. /\ x \in Execution /\ x.sources = executions[e].sources /\ x.claim = executions[e].claim
      /\ x.state = "active" /\ x.inputs = inputs
  BY <1>1, <1>6, <1>8 DEF Execution
<1>10. executions' = [executions EXCEPT ![e] = x]
  BY <1>3, <1>5, <1>8 DEF StartAttempt
<1>11. \A a \in DOMAIN executions[e].inputs :
         /\ executions[e].inputs[a].generation <= generation
         /\ executions[e].inputs[a].claim <= registry.claim
  BY DEF IInv, SentWithin
<1>12. \A a \in DOMAIN x.inputs :
         x.inputs[a].generation <= generation /\ x.inputs[a].claim <= registry.claim
  BY <1>4, <1>6, <1>9, <1>11
<1>13. \A a \in DOMAIN executions[e].inputs :
              /\ a \in DOMAIN x.inputs
              /\ x.inputs[a].generation = executions[e].inputs[a].generation
              /\ x.inputs[a].claim = executions[e].inputs[a].claim
              /\ executions[e].inputs[a].context => x.inputs[a].context
  BY <1>6, <1>9
<1>14. Len(x.inputs) <= MaxAttempts /\ x.state # "deferred"
  BY <1>7, <1>9
<1>. QED
  BY <1>2, <1>9, <1>10, <1>12, <1>13, <1>14, Replaces

LEMMA EntersContext ==
    ASSUME IInv, NEW e \in DOMAIN executions, CommitContext(e)
    PROVE  IInv'
<1>1. /\ executions \in Seq(Execution) /\ executions[e] \in Execution
      /\ executions[e].inputs \in Seq(Input) /\ Len(executions[e].inputs) <= MaxAttempts
  BY Executions DEF IInv, Typed, TypeOK
<1>2. /\ UNCHANGED <<bus, sealed, registry, generation, cursor, calls>>
      /\ executions[e].state = "active" /\ executions[e].inputs # <<>>
  BY DEF CommitContext, owners
<1>3. PICK last : last = Len(executions[e].inputs)
  OBVIOUS
<1>4. last \in DOMAIN executions[e].inputs
  BY SMTT(30), <1>1, <1>2, <1>3
<1>5. PICK new : new = [executions[e].inputs[last] EXCEPT !.context = TRUE]
  OBVIOUS
<1>6. /\ new \in Input /\ new.context
      /\ new.generation = executions[e].inputs[last].generation
      /\ new.claim = executions[e].inputs[last].claim
  <2>1. executions[e].inputs[last] \in Input
    BY <1>1, <1>4, Executions
  <2>. QED
    BY <1>5, <2>1 DEF Input
<1>7. PICK inputs : inputs = [executions[e].inputs EXCEPT ![last] = new]
  OBVIOUS
<1>8. /\ inputs \in Seq(Input) /\ Len(inputs) = Len(executions[e].inputs)
      /\ DOMAIN inputs = DOMAIN executions[e].inputs /\ inputs[last] = new
      /\ \A a \in DOMAIN executions[e].inputs \ {last} : inputs[a] = executions[e].inputs[a]
  BY SMTT(30), <1>1, <1>4, <1>6, <1>7
<1>9. \A a \in DOMAIN executions[e].inputs :
         /\ a \in DOMAIN inputs
         /\ inputs[a].generation = executions[e].inputs[a].generation
         /\ inputs[a].claim = executions[e].inputs[a].claim
         /\ executions[e].inputs[a].context => inputs[a].context
  BY <1>6, <1>8
<1>10. PICK x : x = [executions[e] EXCEPT !.inputs = inputs]
  OBVIOUS
<1>11. /\ x \in Execution /\ x.sources = executions[e].sources /\ x.claim = executions[e].claim
       /\ x.state = executions[e].state /\ x.inputs = inputs
  BY <1>1, <1>8, <1>10 DEF Execution
<1>12. executions' = [executions EXCEPT ![e] = x]
  BY SMTT(30), <1>1, <1>3, <1>5, <1>7, <1>10 DEF CommitContext
<1>13. \A a \in DOMAIN executions[e].inputs :
         /\ executions[e].inputs[a].generation <= generation
         /\ executions[e].inputs[a].claim <= registry.claim
  BY DEF IInv, SentWithin
<1>14. \A a \in DOMAIN x.inputs :
         x.inputs[a].generation <= generation /\ x.inputs[a].claim <= registry.claim
  BY <1>8, <1>9, <1>11, <1>13
<1>15. \A a \in DOMAIN executions[e].inputs :
              /\ a \in DOMAIN x.inputs
              /\ x.inputs[a].generation = executions[e].inputs[a].generation
              /\ x.inputs[a].claim = executions[e].inputs[a].claim
              /\ executions[e].inputs[a].context => x.inputs[a].context
  BY <1>9, <1>11
<1>16. Len(x.inputs) <= MaxAttempts /\ x.state # "deferred" /\ executions[e].state # "failed"
  BY <1>1, <1>2, <1>8, <1>11
<1>. QED
  BY <1>2, <1>11, <1>12, <1>14, <1>15, <1>16, Replaces

LEMMA Engages ==
    ASSUME IInv, NEW batch \in (SUBSET (Position \cap sealed)) \ {{}}, Engage(batch)
    PROVE  IInv'
<1>1. /\ TypeOK /\ bus \in Seq(Kind) /\ executions \in Seq(Execution) /\ Len(bus) <= MaxSeq
      /\ registry \in [claim : 1 .. MaxClaim, active : BOOLEAN] /\ generation \in Nat
  BY DEF IInv, Typed, TypeOK
<1>2. /\ UNCHANGED <<bus, sealed, registry, generation, cursor, calls>>
      /\ Len(executions) < MaxExecutions
  BY DEF Engage, owners
<1>3. PICK x : x = [sources |-> batch, claim |-> registry.claim, inputs |-> <<>>,
                    state |-> "active"]
  OBVIOUS
<1>4. /\ x \in Execution /\ x.sources \subseteq Position /\ x.claim <= registry.claim
      /\ x.state = "active" /\ Len(x.inputs) <= MaxAttempts /\ DOMAIN x.inputs = {}
  <2>1. batch \subseteq Position /\ batch \in SUBSET (1 .. MaxSeq)
    BY SMTT(30), <1>1, Positions, CursorBounds DEF Position
  <2>2. /\ registry.claim \in Nat /\ registry.claim <= registry.claim
        /\ <<>> \in Seq(Input) /\ Len(<<>>) <= MaxAttempts /\ DOMAIN <<>> = {}
    BY SMTT(30), <1>1, CursorBounds
  <2>. QED
    BY <1>3, <2>1, <2>2 DEF Execution
<1>5. executions' = Append(executions, x)
  BY <1>3 DEF Engage
<1>6. /\ executions' \in Seq(Execution) /\ Len(executions') <= MaxExecutions
      /\ \A i \in DOMAIN executions : i \in DOMAIN executions' /\ executions'[i] = executions[i]
      /\ \A i \in DOMAIN executions' : i \in DOMAIN executions \/ executions'[i] = x
  BY SMTT(30), <1>1, <1>2, <1>4, <1>5, CursorBounds
<1>7. ASSUME NEW i \in DOMAIN executions'
      PROVE  /\ executions'[i].sources \subseteq Position
             /\ Len(executions'[i].inputs) <= MaxAttempts
             /\ executions'[i].state = "deferred" =>
                   0 < Len(executions'[i].inputs) /\ Len(executions'[i].inputs) < MaxAttempts
             /\ executions'[i].claim <= registry.claim
             /\ \A a \in DOMAIN executions'[i].inputs :
                   /\ executions'[i].inputs[a].generation <= generation
                   /\ executions'[i].inputs[a].claim <= registry.claim
  <2>1. CASE i \in DOMAIN executions
    <3>1. executions'[i] = executions[i]
      BY <1>6, <2>1
    <3>. QED
      BY <2>1, <3>1 DEF IInv, Typed, SentWithin
  <2>2. CASE executions'[i] = x
    BY <1>4, <2>2
  <2>. QED
    BY <1>6, <2>1, <2>2
<1>8. Typed'
  <2>1. Position' = Position
    BY <1>2 DEF Position
  <2>. QED
    BY <1>1, <1>2, <1>6, <1>7, <2>1 DEF Typed, TypeOK
<1>9. Ordered' /\ SentWithin'
  <2>1. registry' = registry /\ generation' = generation /\ bus' = bus
    BY <1>2
  <2>. QED
    BY <1>7, <2>1 DEF IInv, Ordered, SentWithin, Position
<1>10. Len(bus) <= Len(bus')
  BY SMTT(30), <1>1, <1>2, Positions
<1>11. Grows
  BY <1>2, <1>6, <1>10 DEF Grows
<1>. QED
  BY <1>2, <1>8, <1>9, <1>11, SourcesMove

-----------------------------------------------------------------------------
(* The steps of a call.                                                    *)

LEMMA CallMoves ==
    ASSUME IInv, UNCHANGED <<sources, owners>>, RowInv(cursor'),
           NEW c \in Call, NEW k \in Activity, CallInv(k), Becomes(c, k)
    PROVE  IInv'
<1>1. /\ UNCHANGED <<bus, sealed, executions, registry, generation>> /\ TypeOK
      /\ calls \in [Call -> Activity]
  BY DEF IInv, Typed, TypeOK, sources, owners
<1>2. /\ calls' \in [Call -> Activity] /\ calls'[c] = k
      /\ \A d \in Call \ {c} : calls'[d] = calls[d]
  BY <1>1 DEF Becomes
<1>3. cursor' \in Row
  BY DEF RowInv
<1>4. Typed' /\ Ordered' /\ SentWithin'
  BY <1>1, <1>2, <1>3 DEF IInv, Typed, TypeOK, Ordered, SentWithin, Position
<1>5. RowInv(cursor)'
  BY <1>1 DEF RowInv, Covered, Carried, Sent, Failed, Entered, MatchesInput
<1>6. ASSUME NEW d \in Call PROVE CallInv(calls[d])'
  <2>1. PICK j : j = calls'[d]
    OBVIOUS
  <2>2. CallInv(j) /\ j \in Activity
    BY <1>1, <1>2, <2>1 DEF IInv
  <2>3. CallInv(j)'
    <3>1. bus \in Seq(Kind) /\ bus' \in Seq(Kind)
      BY <1>1 DEF TypeOK
    <3>2. Len(bus) <= Len(bus')
      BY SMTT(30), <1>1, <3>1, Positions
    <3>3. Grows
      BY <1>1, <3>2 DEF Grows
    <3>. QED
      BY <2>2, <3>1, <3>3, StaysCall
  <2>. QED
    BY <2>1, <2>3 DEF CallInv
<1>. QED
  BY <1>4, <1>5, <1>6 DEF IInv

LEMMA IdleInv == Idle \in Activity /\ CallInv(Idle)
<1>1. UnstartedCursor \in Row
  BY SMTT(30) DEF UnstartedCursor, Row, NoInput
<1>2. Idle \in Activity /\ Idle.pc = "idle"
  BY SMTT(30), <1>1 DEF Idle, Activity, NoInput
<1>. QED
  BY <1>2 DEF CallInv, Scanning

LEMMA Settles ==
    ASSUME IInv, NEW c \in Call, NEW e \in DOMAIN executions, Settle(c, e)
    PROVE  IInv'
<1>1. /\ executions \in Seq(Execution) /\ executions[e].inputs \in Seq(Input)
      /\ Len(executions) <= MaxExecutions /\ Len(executions[e].inputs) <= MaxAttempts
  BY Executions DEF IInv, Typed, TypeOK
<1>2. PICK n : n = Len(executions[e].inputs)
  OBVIOUS
<1>3. /\ UNCHANGED <<sources, owners>> /\ cursor' = cursor /\ executions[e].inputs # <<>>
      /\ Becomes(c, [Idle EXCEPT !.pc = "state", !.claim = executions[e].inputs[n].claim,
                                 !.generation = executions[e].inputs[n].generation,
                                 !.permits = <<e, n>>])
  BY <1>2 DEF Settle, Current
<1>4. n \in DOMAIN executions[e].inputs /\ n \in 1 .. MaxAttempts
  BY SMTT(30), <1>1, <1>2, <1>3, CursorBounds
<1>5. e \in 1 .. MaxExecutions
  BY SMTT(30), <1>1, CursorBounds
<1>6. <<e, n>> \in InputId
  BY SMTT(30), <1>4, <1>5 DEF InputId
<1>7. executions[e].inputs[n].claim \in Nat /\ executions[e].inputs[n].generation \in Nat
  BY <1>1, <1>4, Executions
<1>8. PICK k : k = [Idle EXCEPT !.pc = "state", !.claim = executions[e].inputs[n].claim,
                               !.generation = executions[e].inputs[n].generation,
                               !.permits = <<e, n>>]
  OBVIOUS
<1>9. k \in Activity /\ k.pc = "state" /\ k.proofs = Idle.proofs
  BY <1>6, <1>7, <1>8, IdleInv DEF Activity
<1>10. CallInv(k)
  BY SMTT(30), <1>9 DEF CallInv, Scanning, Idle
<1>11. RowInv(cursor')
  BY <1>3 DEF IInv
<1>. QED
  BY <1>3, <1>8, <1>9, <1>10, <1>11, CallMoves

LEMMA Refreshes ==
    ASSUME IInv, NEW c \in Call, Refresh(c)
    PROVE  IInv'
<1>1. /\ UNCHANGED <<sources, owners>> /\ cursor' = cursor
      /\ Becomes(c, [Idle EXCEPT !.pc = "owner", !.claim = registry.claim])
      /\ registry \in [claim : 1 .. MaxClaim, active : BOOLEAN]
  BY DEF Refresh, IInv, Typed, TypeOK
<1>2. registry.claim \in Nat
  BY SMTT(30), <1>1, CursorBounds
<1>3. PICK k : k = [Idle EXCEPT !.pc = "owner", !.claim = registry.claim]
  OBVIOUS
<1>4. k \in Activity /\ k.pc = "owner" /\ k.proofs = Idle.proofs
  BY <1>2, <1>3, IdleInv DEF Activity
<1>5. CallInv(k)
  BY SMTT(30), <1>4 DEF CallInv, Scanning, Idle
<1>6. RowInv(cursor')
  BY <1>1 DEF IInv
<1>. QED
  BY <1>1, <1>3, <1>4, <1>5, <1>6, CallMoves

LEMMA ReadsParticipant ==
    ASSUME IInv, NEW c \in Call, ReadParticipant(c)
    PROVE  IInv'
<1>1. /\ UNCHANGED <<sources, owners>> /\ cursor' = cursor
      /\ Becomes(c, [calls[c] EXCEPT !.pc = "state", !.generation = generation])
      /\ calls[c] \in Activity /\ CallInv(calls[c]) /\ calls[c].pc = "owner"
      /\ generation \in Nat
  BY DEF ReadParticipant, IInv, Typed, TypeOK
<1>2. PICK k : k = [calls[c] EXCEPT !.pc = "state", !.generation = generation]
  OBVIOUS
<1>3. k \in Activity /\ k.pc = "state" /\ k.proofs = calls[c].proofs
  BY <1>1, <1>2 DEF Activity
<1>4. CallInv(k)
  BY <1>1, <1>3 DEF CallInv, Scanning
<1>5. RowInv(cursor')
  BY <1>1 DEF IInv
<1>. QED
  BY <1>1, <1>2, <1>3, <1>4, <1>5, CallMoves

LEMMA IsRefused ==
    ASSUME IInv, NEW c \in Call, Refused(c)
    PROVE  IInv'
<1>1. UNCHANGED <<sources, owners>> /\ cursor' = cursor /\ Becomes(c, Idle)
  BY DEF Refused
<1>2. RowInv(cursor')
  BY <1>1 DEF IInv
<1>. QED
  BY <1>1, <1>2, IdleInv, CallMoves

\* An input of the row is an input of every owner that continues the row.
LEMMA InputWithin ==
    ASSUME executions \in Seq(Execution), NEW k \in Activity, NEW row, RowInv(row),
           Within(k, row), row.input # NoInput
    PROVE  MatchesInput(k, row.input)
<1>1. /\ row \in Row /\ row.generation \in Nat /\ row.claim \in Nat /\ Sent(row.input)
      /\ MatchesInput(row, row.input)
  BY DEF RowInv, Row
<1>2. k.generation \in Nat /\ k.claim \in Nat
  BY DEF Activity
<1>3. PICK input : input = executions[row.input[1]].inputs[row.input[2]]
  OBVIOUS
<1>4. input.generation \in Nat /\ input.claim \in Nat
  BY <1>1, <1>3, Executions DEF Sent
<1>5. input.generation <= row.generation /\ input.claim <= row.claim /\ input.context
  BY <1>1, <1>3 DEF MatchesInput
<1>6. row.generation <= k.generation /\ row.claim <= k.claim
  BY DEF Within
<1>7. input.generation <= k.generation /\ input.claim <= k.claim
  BY SMTT(30), <1>1, <1>2, <1>4, <1>5, <1>6
<1>. QED
  BY <1>3, <1>5, <1>7 DEF MatchesInput

LEMMA ReadsState ==
    ASSUME IInv, NEW c \in Call, ReadState(c)
    PROVE  IInv'
<1>1. /\ UNCHANGED <<sources, owners>> /\ cursor' = cursor /\ RowInv(cursor)
      /\ executions \in Seq(Execution) /\ bus \in Seq(Kind)
      /\ calls[c] \in Activity /\ CallInv(calls[c]) /\ calls[c].pc = "state"
  BY DEF ReadState, IInv, Typed, TypeOK
<1>2. PICK k : k = calls[c]
  OBVIOUS
<1>3. Within(k, cursor) => RecordedInput(k, cursor)
  BY <1>1, <1>2, InputWithin DEF RecordedInput
<1>4. PICK n : n = IF ~Within(k, cursor) THEN Idle
                   ELSE [k EXCEPT !.pc = "cohort", !.row = cursor,
                                  !.prefix = Len(bus), !.covered = cursor.covered]
  OBVIOUS
<1>5. Becomes(c, n)
  BY <1>2, <1>3, <1>4 DEF ReadState
<1>6. n \in Activity /\ CallInv(n)
  <2>1. CASE ~Within(k, cursor)
    BY <1>4, <2>1, IdleInv
  <2>2. CASE Within(k, cursor)
    <3>1. /\ cursor \in Row /\ cursor.covered \in Nat /\ Len(bus) \in Nat
          /\ cursor.injected \in Nat
      BY <1>1, Positions DEF RowInv, Row
    <3>2. /\ n \in Activity /\ n.pc = "cohort" /\ n.row = cursor /\ n.prefix = Len(bus)
          /\ n.covered = cursor.covered /\ n.proofs = k.proofs
          /\ n.generation = k.generation /\ n.claim = k.claim
      BY <1>1, <1>2, <1>4, <2>2, <3>1 DEF Activity
    <3>3. n.proofs = {}
      BY <1>1, <1>2, <3>2 DEF CallInv
    <3>4. cursor.covered <= cursor.covered /\ Len(bus) <= Len(bus)
      BY SMTT(30), <3>1
    <3>5. Within(n, n.row)
      BY <2>2, <3>2 DEF Within
    <3>. QED
      BY <1>1, <3>2, <3>3, <3>4, <3>5 DEF CallInv, RowInv, Scanning
  <2>. QED
    BY <2>1, <2>2
<1>7. RowInv(cursor')
  BY <1>1
<1>. QED
  BY <1>1, <1>5, <1>6, <1>7, CallMoves

\* The scan goes on: what it adds to its coverage is settled.
LEMMA Extends ==
    ASSUME bus \in Seq(Kind), NEW k \in Activity, CallInv(k), k.pc \in Scanning,
           NEW n \in Activity, n.pc \in Scanning, n.row = k.row, n.prefix = k.prefix,
           n.generation = k.generation, n.claim = k.claim,
           k.covered <= n.covered, n.covered <= k.prefix, k.proofs \subseteq n.proofs,
           \A s \in k.covered + 1 .. n.covered :
              /\ Covered(s)
              /\ bus[s] = "wake" => Failed(s) \/ \E p \in n.proofs : s <= p.source,
           \A p \in n.proofs \ k.proofs :
              k.covered < p.source /\ p.source <= n.covered /\ Carried(p.source, p.input),
           n.pc = "evidence" =>
              /\ n.covered < n.at /\ n.at <= n.prefix
              /\ bus[n.at] = "wake" /\ n.at \in sealed
              /\ \A s \in n.covered + 1 .. n.at - 1 : bus[s] = "other"
              /\ n.failed => Failed(n.at)
    PROVE  CallInv(n)
<1>1. /\ k.covered \in Nat /\ n.covered \in Nat /\ k.prefix \in Nat
      /\ k.row.covered \in Nat /\ k.row.injected \in Nat
      /\ \A p \in n.proofs : p.source \in Nat
  BY ActivityFacts
<1>2. /\ RowInv(k.row) /\ Within(k, k.row) /\ k.row.covered <= k.covered /\ k.prefix <= Len(bus)
      /\ \A s \in 1 .. k.covered : Covered(s)
      /\ \A p \in k.proofs : /\ k.row.covered < p.source /\ p.source <= k.covered
                             /\ Carried(p.source, p.input)
      /\ \A s \in k.row.injected + 1 .. k.covered :
           bus[s] = "wake" => Failed(s) \/ \E p \in k.proofs : s <= p.source
  BY DEF CallInv
<1>3. RowInv(n.row) /\ Within(n, n.row) /\ n.prefix <= Len(bus) /\ n.covered <= n.prefix
  BY <1>2 DEF Within
<1>4. k.row.covered <= n.covered
  BY SMTT(30), <1>1, <1>2
<1>5. /\ \A s \in 1 .. n.covered : s \in 1 .. k.covered \/ s \in k.covered + 1 .. n.covered
      /\ \A s \in k.row.injected + 1 .. n.covered :
           s \in k.row.injected + 1 .. k.covered \/ s \in k.covered + 1 .. n.covered
  BY SMTT(30), <1>1
<1>6. \A s \in 1 .. n.covered : Covered(s)
  BY <1>2, <1>5
<1>7. ASSUME NEW p \in n.proofs
      PROVE  k.row.covered < p.source /\ p.source <= n.covered /\ Carried(p.source, p.input)
  <2>1. CASE p \in k.proofs
    <3>1. k.row.covered < p.source /\ p.source <= k.covered /\ Carried(p.source, p.input)
      BY <1>2, <2>1
    <3>2. p.source <= n.covered
      BY SMTT(30), <1>1, <3>1
    <3>. QED
      BY <3>1, <3>2
  <2>2. CASE p \notin k.proofs
    <3>1. k.covered < p.source /\ p.source <= n.covered /\ Carried(p.source, p.input)
      BY <2>2
    <3>2. k.row.covered < p.source
      BY SMTT(30), <1>1, <1>2, <3>1
    <3>. QED
      BY <3>1, <3>2
  <2>. QED
    BY <2>1, <2>2
<1>8. \A s \in k.row.injected + 1 .. n.covered :
         bus[s] = "wake" => Failed(s) \/ \E p \in n.proofs : s <= p.source
  BY <1>2, <1>5
<1>9. n.pc # "conflict" /\ n.pc \notin {"owner", "state"}
  BY DEF Scanning
<1>. QED
  BY <1>3, <1>4, <1>6, <1>7, <1>8, <1>9 DEF CallInv

LEMMA ReadsCohort ==
    ASSUME IInv, NEW c \in Call, ReadCohort(c)
    PROVE  IInv'
<1>1. /\ UNCHANGED <<sources, owners>> /\ cursor' = cursor /\ RowInv(cursor)
      /\ bus \in Seq(Kind) /\ Ordered
      /\ calls[c] \in Activity /\ CallInv(calls[c]) /\ calls[c].pc = "cohort"
  BY DEF ReadCohort, IInv, Typed, TypeOK
<1>2. PICK k : k = calls[c]
  OBVIOUS
<1>3. PICK initials : initials = {s \in k.covered + 1 .. k.prefix : bus[s] # "other"}
  OBVIOUS
<1>4. PICK seq : seq = Min(initials)
  OBVIOUS
<1>5. PICK n : n = IF initials = {} THEN [k EXCEPT !.pc = "commit", !.covered = k.prefix]
                   ELSE IF seq \notin sealed THEN [k EXCEPT !.pc = "commit"]
                   ELSE IF bus[seq] = "quiet" THEN [k EXCEPT !.covered = seq]
                   ELSE [k EXCEPT !.pc = "evidence", !.at = seq, !.failed = Failed(seq)]
  OBVIOUS
<1>6. Becomes(c, n)
  BY <1>2, <1>3, <1>4, <1>5 DEF ReadCohort
<1>7. /\ k \in Activity /\ CallInv(k) /\ k.pc \in Scanning /\ k.pc = "cohort"
      /\ k.covered \in Nat /\ k.prefix \in Nat /\ Len(bus) \in Nat
      /\ k.covered <= k.prefix /\ k.prefix <= Len(bus)
  BY <1>1, <1>2, Positions DEF Scanning, CallInv, Activity
<1>8. CASE initials = {}
  <2>1. /\ n \in Activity /\ n.pc = "commit" /\ n.covered = k.prefix /\ n.row = k.row
        /\ n.prefix = k.prefix /\ n.generation = k.generation /\ n.claim = k.claim
        /\ n.proofs = k.proofs
    BY <1>5, <1>7, <1>8 DEF Activity
  <2>2. \A s \in k.covered + 1 .. n.covered : bus[s] = "other"
    BY <1>3, <1>8, <2>1
  <2>3. n.covered <= k.prefix
    BY SMTT(30), <1>7, <2>1
  <2>4. n.pc \in Scanning
    BY <2>1 DEF Scanning
  <2>5. CallInv(n)
    BY <1>1, <1>7, <2>1, <2>2, <2>3, <2>4, Extends DEF Covered
  <2>. QED
    BY <1>1, <1>6, <2>1, <2>5, CallMoves
<1>9. CASE initials # {}
  <2>1. /\ seq \in initials /\ \A s \in initials : seq <= s
    <3>1. initials \in (SUBSET Position) \ {{}}
      BY SMTT(30), <1>3, <1>7, <1>9 DEF Position
    <3>2. \E m \in initials : \A s \in initials : m <= s
      BY <1>1, <3>1 DEF Ordered
    <3>. QED
      BY <1>4, <3>2 DEF Min
  <2>2. /\ seq \in Nat /\ k.covered < seq /\ seq <= k.prefix /\ bus[seq] \in {"quiet", "wake"}
        /\ k.covered <= seq /\ k.covered <= k.covered
        /\ k.covered + 1 .. k.covered = {}
    BY SMTT(30), <1>1, <1>3, <1>7, <2>1 DEF Kind
  <2>3. \A s \in k.covered + 1 .. seq - 1 : bus[s] = "other"
    BY SMTT(30), <1>3, <1>7, <2>1, <2>2
  <2>4. \A s \in k.covered + 1 .. seq : bus[s] = "other" \/ s = seq
    BY SMTT(30), <1>7, <2>2, <2>3
  <2>5. CASE seq \notin sealed
    <3>1. /\ n \in Activity /\ n.pc = "commit" /\ n.covered = k.covered /\ n.row = k.row
          /\ n.prefix = k.prefix /\ n.generation = k.generation /\ n.claim = k.claim
          /\ n.proofs = k.proofs
      BY <1>5, <1>7, <1>9, <2>5 DEF Activity
    <3>2. n.pc \in Scanning
      BY <3>1 DEF Scanning
    <3>3. CallInv(n)
      BY <1>1, <1>7, <2>2, <3>1, <3>2, Extends
    <3>. QED
      BY <1>1, <1>6, <3>1, <3>3, CallMoves
  <2>6. CASE seq \in sealed /\ bus[seq] = "quiet"
    <3>1. /\ n \in Activity /\ n.pc = "cohort" /\ n.covered = seq /\ n.row = k.row
          /\ n.prefix = k.prefix /\ n.generation = k.generation /\ n.claim = k.claim
          /\ n.proofs = k.proofs
      BY <1>5, <1>7, <1>9, <2>2, <2>6 DEF Activity
    <3>2. n.pc \in Scanning
      BY <3>1 DEF Scanning
    <3>3. \A s \in k.covered + 1 .. n.covered : Covered(s) /\ bus[s] # "wake"
      BY <2>4, <2>6, <3>1 DEF Covered
    <3>4. CallInv(n)
      BY <1>1, <1>7, <2>2, <3>1, <3>2, <3>3, Extends
    <3>. QED
      BY <1>1, <1>6, <3>1, <3>4, CallMoves
  <2>7. CASE seq \in sealed /\ bus[seq] = "wake"
    <3>1. Failed(seq) \in BOOLEAN
      BY DEF Failed
    <3>2. /\ n \in Activity /\ n.pc = "evidence" /\ n.covered = k.covered /\ n.row = k.row
          /\ n.prefix = k.prefix /\ n.generation = k.generation /\ n.claim = k.claim
          /\ n.proofs = k.proofs /\ n.at = seq /\ n.failed = Failed(seq)
      BY <1>5, <1>7, <1>9, <2>2, <2>7, <3>1 DEF Activity
    <3>3. n.pc \in Scanning
      BY <3>2 DEF Scanning
    <3>4. /\ n.covered < n.at /\ n.at <= n.prefix /\ bus[n.at] = "wake" /\ n.at \in sealed
          /\ \A s \in n.covered + 1 .. n.at - 1 : bus[s] = "other"
          /\ n.failed => Failed(n.at)
      BY <2>2, <2>3, <2>7, <3>2
    <3>5. CallInv(n)
      BY <1>1, <1>7, <2>2, <3>2, <3>3, <3>4, Extends
    <3>. QED
      BY <1>1, <1>6, <3>2, <3>5, CallMoves
  <2>. QED
    BY <2>2, <2>5, <2>6, <2>7
<1>. QED
  BY <1>8, <1>9

\* Evidence is a set of proofs, each by an input in context that carried the source.
LEMMA EvidenceIsCarried ==
    ASSUME Typed, NEW s \in Nat, NEW p \in Evidence(s)
    PROVE  p \in Proof /\ p.source = s /\ Carried(s, p.input)
<1>1. PICK e \in DOMAIN executions :
         /\ s \in executions[e].sources /\ executions[e].inputs # <<>> /\ Current(e).context
         /\ p = [source |-> s, input |-> <<e, Len(executions[e].inputs)>>]
  BY SMTT(30) DEF Evidence
<1>2. /\ executions \in Seq(Execution) /\ executions[e].inputs \in Seq(Input)
      /\ Len(executions) <= MaxExecutions /\ Len(executions[e].inputs) <= MaxAttempts
  BY Executions DEF Typed, TypeOK
<1>3. PICK n : n = Len(executions[e].inputs)
  OBVIOUS
<1>4. n \in DOMAIN executions[e].inputs /\ n \in 1 .. MaxAttempts /\ e \in 1 .. MaxExecutions
  <2>1. executions[e].inputs # <<>>
    BY <1>1
  <2>2. e \in 1 .. MaxExecutions
    BY SMTT(30), <1>2, CursorBounds
  <2>. QED
    BY SMTT(30), <1>2, <1>3, <2>1, <2>2, CursorBounds
<1>5. executions[e].inputs[n].context
  BY <1>1, <1>3 DEF Current
<1>6. PICK i : i = <<e, n>>
  OBVIOUS
<1>7. i \in InputId /\ i[1] = e /\ i[2] = n /\ p.source = s /\ p.input = i /\ p \in Proof
  BY SMTT(30), <1>1, <1>3, <1>4, <1>6 DEF InputId, Proof
<1>. QED
  BY <1>1, <1>4, <1>5, <1>7 DEF Carried, Sent

LEMMA ReadsEvidence ==
    ASSUME IInv, NEW c \in Call, ReadEvidence(c)
    PROVE  IInv'
<1>1. /\ UNCHANGED <<sources, owners>> /\ cursor' = cursor /\ RowInv(cursor) /\ Typed
      /\ bus \in Seq(Kind)
      /\ calls[c] \in Activity /\ CallInv(calls[c]) /\ calls[c].pc = "evidence"
  BY DEF ReadEvidence, IInv, Typed, TypeOK
<1>2. PICK k : k = calls[c]
  OBVIOUS
<1>3. PICK evidence : evidence = Evidence(k.at)
  OBVIOUS
<1>4. PICK n : n = IF evidence = {} /\ ~k.failed THEN [k EXCEPT !.pc = "commit"]
                   ELSE [k EXCEPT !.pc = "cohort", !.covered = k.at,
                                  !.proofs = k.proofs \cup evidence]
  OBVIOUS
<1>5. Becomes(c, n)
  BY <1>2, <1>3, <1>4 DEF ReadEvidence
<1>6. /\ k \in Activity /\ CallInv(k) /\ k.pc \in Scanning /\ k.covered \in Nat /\ k.at \in Nat
      /\ k.prefix \in Nat /\ k.covered <= k.prefix /\ k.proofs \subseteq Proof
  BY <1>1, <1>2 DEF Scanning, CallInv, Activity
<1>7. /\ k.covered < k.at /\ k.at <= k.prefix /\ bus[k.at] = "wake" /\ k.at \in sealed
      /\ \A s \in k.covered + 1 .. k.at - 1 : bus[s] = "other"
      /\ k.failed => Failed(k.at)
  BY <1>1, <1>2 DEF CallInv
<1>8. /\ k.covered <= k.covered /\ k.covered + 1 .. k.covered = {} /\ k.covered <= k.at
      /\ k.at <= k.at
      /\ \A s \in k.covered + 1 .. k.at : s \in k.covered + 1 .. k.at - 1 \/ s = k.at
  BY SMTT(30), <1>6, <1>7
<1>9. \A p \in evidence : p \in Proof /\ p.source = k.at /\ Carried(k.at, p.input)
  BY <1>1, <1>3, <1>6, EvidenceIsCarried
<1>10. CASE evidence = {} /\ ~k.failed
  <2>1. /\ n \in Activity /\ n.pc = "commit" /\ n.covered = k.covered /\ n.row = k.row
        /\ n.prefix = k.prefix /\ n.generation = k.generation /\ n.claim = k.claim
        /\ n.proofs = k.proofs
    BY <1>4, <1>6, <1>10 DEF Activity
  <2>2. n.pc \in Scanning
    BY <2>1 DEF Scanning
  <2>3. CallInv(n)
    BY <1>1, <1>6, <1>8, <2>1, <2>2, Extends
  <2>. QED
    BY <1>1, <1>5, <2>1, <2>3, CallMoves
<1>11. CASE evidence # {} \/ k.failed
  <2>0. k.proofs \cup evidence \in SUBSET Proof
    BY <1>6, <1>9
  <2>1. /\ n \in Activity /\ n.pc = "cohort" /\ n.covered = k.at /\ n.row = k.row
        /\ n.prefix = k.prefix /\ n.generation = k.generation /\ n.claim = k.claim
        /\ n.proofs = k.proofs \cup evidence
    BY <1>4, <1>6, <1>11, <2>0 DEF Activity
  <2>2. n.pc \in Scanning /\ n.pc # "evidence"
    BY <2>1 DEF Scanning
  <2>3. k.proofs \subseteq n.proofs /\ \A p \in n.proofs \ k.proofs : p \in evidence
    BY <2>1
  <2>4. Failed(k.at) \/ \E p \in n.proofs : k.at <= p.source
    BY <1>7, <1>8, <1>9, <1>11, <2>1
  <2>5. Covered(k.at)
    BY <1>7, <1>9, <1>11 DEF Covered, Carried, Sent, Entered
  <2>6. \A s \in k.covered + 1 .. n.covered :
           /\ Covered(s)
           /\ bus[s] = "wake" => Failed(s) \/ \E p \in n.proofs : s <= p.source
    BY <1>7, <1>8, <2>1, <2>4, <2>5 DEF Covered
  <2>7. \A p \in n.proofs \ k.proofs :
           k.covered < p.source /\ p.source <= n.covered /\ Carried(p.source, p.input)
    BY <1>7, <1>8, <1>9, <2>1, <2>3
  <2>8. CallInv(n)
    BY <1>1, <1>6, <1>7, <1>8, <2>1, <2>2, <2>3, <2>6, <2>7, Extends
  <2>. QED
    BY <1>1, <1>5, <2>1, <2>8, CallMoves
<1>. QED
  BY <1>10, <1>11

\* LastProof picks a proof with the greatest source, and it is above everything
\* the row that was read covers.
LEMMA LastProofIsLast ==
    ASSUME Ordered, bus \in Seq(Kind), NEW k \in Activity, CallInv(k), k.pc \in Scanning,
           k.proofs # {}
    PROVE  /\ LastProof(k) \in k.proofs
           /\ \A q \in k.proofs : q.source <= LastProof(k).source
<1>1. /\ k.row.covered \in Nat /\ k.covered \in Nat /\ k.prefix \in Nat /\ Len(bus) \in Nat
      /\ \A p \in k.proofs : p.source \in Nat
  BY Positions, ActivityFacts
<1>2. /\ k.covered <= k.prefix /\ k.prefix <= Len(bus)
      /\ \A p \in k.proofs : k.row.covered < p.source /\ p.source <= k.covered
  BY DEF CallInv
<1>3. PICK S : S = {p.source : p \in k.proofs}
  OBVIOUS
<1>4. \A p \in k.proofs : p.source \in Position
  BY SMTT(30), <1>1, <1>2 DEF Position
<1>5. S \in (SUBSET Position) \ {{}}
  BY <1>3, <1>4
<1>6. PICK m \in S : \A s \in S : s <= m
  BY <1>5 DEF Ordered
<1>7. PICK p \in k.proofs : p.source = m
  BY <1>3, <1>6
<1>8. \A q \in k.proofs : q.source <= p.source
  BY <1>3, <1>6, <1>7
<1>. QED
  BY <1>7, <1>8 DEF LastProof

\* What a call has to publish, by whether it proved an input.
LEMMA CandidateFacts ==
    ASSUME IInv, NEW k \in Activity, CallInv(k), k.pc = "commit"
    PROVE  /\ Candidate(k) \in Row
           /\ Candidate(k).generation = k.generation /\ Candidate(k).claim = k.claim
           /\ Candidate(k).covered = k.covered
           /\ k.row.injected \in Nat /\ k.row.covered \in Nat /\ k.covered \in Nat
           /\ k.row.injected <= Candidate(k).injected /\ Candidate(k).injected <= k.covered
           /\ k.proofs = {} => /\ Candidate(k).injected = k.row.injected
                               /\ Candidate(k).input = k.row.input
           /\ k.proofs # {} => /\ LastProof(k) \in k.proofs /\ LastProof(k).source \in Nat
                               /\ \A q \in k.proofs : q.source <= LastProof(k).source
                               /\ Candidate(k).injected = LastProof(k).source
                               /\ Candidate(k).input = LastProof(k).input
                               /\ k.row.injected < LastProof(k).source
                               /\ Carried(LastProof(k).source, LastProof(k).input)
<1>1. /\ bus \in Seq(Kind) /\ Ordered /\ k.pc \in Scanning
  BY DEF IInv, Typed, TypeOK, Scanning
<1>2. /\ RowInv(k.row) /\ k.row.covered <= k.covered
      /\ \A p \in k.proofs : /\ k.row.covered < p.source /\ p.source <= k.covered
                             /\ Carried(p.source, p.input)
  BY <1>1 DEF CallInv
<1>3. /\ k.row \in Row /\ k.row.injected \in Nat /\ k.row.covered \in Nat /\ k.covered \in Nat
      /\ k.row.injected <= k.row.covered /\ k.row.input \in InputId \cup {NoInput}
      /\ k.generation \in Nat /\ k.claim \in Nat
  BY <1>2 DEF RowInv, Row, Activity
<1>4. PICK new : new = Candidate(k)
  OBVIOUS
<1>5. CASE k.proofs = {}
  <2>1. /\ new = [generation |-> k.generation, claim |-> k.claim, covered |-> k.covered,
                  injected |-> k.row.injected, input |-> k.row.input]
    BY <1>4, <1>5 DEF Candidate
  <2>2. /\ new \in Row /\ new.generation = k.generation /\ new.claim = k.claim
        /\ new.covered = k.covered /\ new.injected = k.row.injected /\ new.input = k.row.input
    BY SMTT(30), <1>3, <2>1 DEF Row
  <2>3. k.row.injected <= k.row.injected /\ k.row.injected <= k.covered
    BY SMTT(30), <1>2, <1>3
  <2>. QED
    BY <1>3, <1>4, <1>5, <2>2, <2>3
<1>6. CASE k.proofs # {}
  <2>1. PICK last : last = LastProof(k)
    OBVIOUS
  <2>2. last \in k.proofs /\ \A q \in k.proofs : q.source <= last.source
    BY <1>1, <1>6, <2>1, LastProofIsLast
  <2>3. /\ last.source \in Nat /\ last.input \in InputId /\ k.row.covered < last.source
        /\ last.source <= k.covered /\ Carried(last.source, last.input)
    BY <1>2, <2>2 DEF Activity, Proof
  <2>4. new = [generation |-> k.generation, claim |-> k.claim, covered |-> k.covered,
               injected |-> last.source, input |-> last.input]
    BY <1>4, <1>6, <2>1 DEF Candidate
  <2>5. /\ new \in Row /\ new.generation = k.generation /\ new.claim = k.claim
        /\ new.covered = k.covered /\ new.injected = last.source /\ new.input = last.input
    BY SMTT(30), <1>3, <2>3, <2>4 DEF Row
  <2>6. k.row.injected < last.source /\ k.row.injected <= last.source
    BY SMTT(30), <1>3, <2>3
  <2>. QED
    BY <1>3, <1>4, <1>6, <2>1, <2>2, <2>3, <2>5, <2>6
<1>. QED
  BY <1>5, <1>6

\* Every proof of a matching prefix, and the input of the row, is an input of the owner.
LEMMA CandidateMatches ==
    ASSUME IInv, NEW k \in Activity, CallInv(k), k.pc = "commit", MatchesPrefix(k),
           Candidate(k).input # NoInput
    PROVE  Sent(Candidate(k).input) /\ MatchesInput(k, Candidate(k).input)
<1>1. executions \in Seq(Execution) /\ RowInv(k.row) /\ Within(k, k.row)
  BY DEF IInv, Typed, TypeOK, CallInv, Scanning
<1>2. CASE k.proofs = {}
  <2>1. Candidate(k).input = k.row.input
    BY <1>2, CandidateFacts
  <2>2. Sent(k.row.input) /\ MatchesInput(k, k.row.input)
    BY <1>1, <2>1, InputWithin DEF RowInv
  <2>. QED
    BY <2>1, <2>2
<1>3. CASE k.proofs # {}
  <2>1. /\ LastProof(k) \in k.proofs /\ Candidate(k).input = LastProof(k).input
        /\ Carried(LastProof(k).source, LastProof(k).input)
    BY <1>3, CandidateFacts
  <2>2. MatchesInput(k, LastProof(k).input)
    BY <2>1 DEF MatchesPrefix
  <2>. QED
    BY <2>1, <2>2 DEF Carried
<1>. QED
  BY <1>2, <1>3

LEMMA CandidateInv ==
    ASSUME IInv, NEW k \in Activity, CallInv(k), k.pc = "commit", MatchesPrefix(k)
    PROVE  RowInv(Candidate(k))
<1>1. PICK new : new = Candidate(k)
  OBVIOUS
<1>2. /\ bus \in Seq(Kind) /\ Len(bus) \in Nat /\ RowInv(k.row) /\ k.covered \in Nat
      /\ k.prefix \in Nat /\ k.covered <= k.prefix /\ k.prefix <= Len(bus)
      /\ \A s \in 1 .. k.covered : Covered(s)
      /\ \A s \in k.row.injected + 1 .. k.covered :
           bus[s] = "wake" => Failed(s) \/ \E p \in k.proofs : s <= p.source
      /\ \A p \in k.proofs : p.source \in Nat
  <2>1. bus \in Seq(Kind) /\ k.pc \in Scanning
    BY DEF IInv, Typed, TypeOK, Scanning
  <2>2. /\ k.covered \in Nat /\ k.prefix \in Nat /\ Len(bus) \in Nat
        /\ \A p \in k.proofs : p.source \in Nat
    BY <2>1, Positions, ActivityFacts
  <2>. QED
    BY <2>1, <2>2 DEF CallInv
<1>3. /\ new \in Row /\ new.generation = k.generation /\ new.claim = k.claim
      /\ new.covered = k.covered /\ new.injected <= k.covered /\ k.row.injected <= new.injected
      /\ new.injected \in Nat /\ k.row.injected \in Nat
  BY <1>1, CandidateFacts DEF Row
<1>4. k.covered <= Len(bus)
  BY SMTT(30), <1>2
<1>5. new.injected > 0 => Carried(new.injected, new.input)
  <2>1. CASE k.proofs = {}
    BY <1>1, <1>2, <2>1, CandidateFacts DEF RowInv
  <2>2. CASE k.proofs # {}
    BY <1>1, <2>2, CandidateFacts
  <2>. QED
    BY <2>1, <2>2
<1>6. ASSUME NEW s \in new.injected + 1 .. k.covered, bus[s] = "wake" PROVE Failed(s)
  <2>1. s \in k.row.injected + 1 .. k.covered /\ s \in Nat /\ new.injected < s
    BY SMTT(30), <1>2, <1>3
  <2>2. ASSUME NEW p \in k.proofs, s <= p.source PROVE FALSE
    <3>1. p.source <= new.injected
      BY <1>1, CandidateFacts
    <3>2. p.source \in Nat
      BY <1>2
    <3>. QED
      BY SMTT(30), <1>3, <2>1, <2>2, <3>1, <3>2
  <2>. QED
    BY <1>2, <1>6, <2>1, <2>2
<1>7. new.input # NoInput => Sent(new.input) /\ MatchesInput(new, new.input)
  BY <1>1, <1>3, CandidateMatches DEF MatchesInput
<1>8. RowInv(new)
  BY <1>2, <1>3, <1>4, <1>5, <1>6, <1>7 DEF RowInv
<1>. QED
  BY <1>1, <1>8

\* Under the fence no check of the publication can fail: every proof lies above
\* what the row covers, and the row and the proofs are inputs of this owner.
LEMMA FencedIsConsistent ==
    ASSUME IInv, NEW k \in Activity, CallInv(k), k.pc = "commit", Unchanged(k)
    PROVE  Consistent(k)
<1>1. /\ RowInv(k.row) /\ Within(k, k.row) /\ k.row.covered <= k.covered
      /\ \A p \in k.proofs : k.row.covered < p.source
      /\ executions \in Seq(Execution)
  BY DEF IInv, Typed, TypeOK, CallInv, Scanning
<1>2. /\ k.row.covered \in Nat /\ k.row.injected \in Nat /\ k.covered \in Nat
      /\ \A p \in k.proofs : p.source \in Nat
  BY ActivityFacts
<1>3. PICK new : new = Candidate(k)
  OBVIOUS
<1>4. PICK last : last = LastProof(k)
  OBVIOUS
<1>5. /\ new.generation = k.generation /\ new.claim = k.claim /\ new.covered = k.covered
      /\ k.row.injected <= new.injected
      /\ k.proofs = {} => new.injected = k.row.injected /\ new.input = k.row.input
      /\ k.proofs # {} => /\ last \in k.proofs /\ last.source \in Nat
                          /\ new.injected = last.source /\ new.input = last.input
                          /\ k.row.injected < last.source
  BY <1>3, <1>4, CandidateFacts
<1>6. k.proofs # {} => ~(last.source <= k.row.injected) /\ last.source # k.row.injected
  BY SMTT(30), <1>2, <1>5
<1>7. \A p \in k.proofs : ~(p.source <= k.row.covered)
  BY SMTT(30), <1>1, <1>2
<1>8. k.covered <= k.covered
  BY SMTT(30), <1>2
<1>9. Progress(k)
  BY <1>1, <1>3, <1>4, <1>5, <1>6 DEF Progress, Within
<1>10. ColumnGuards(cursor, new)
  <2>1. cursor = k.row
    BY DEF Unchanged
  <2>2. k.row.injected = new.injected => k.row.input = new.input
    BY <1>5, <1>6
  <2>. QED
    BY <1>1, <1>5, <2>1, <2>2 DEF ColumnGuards, Within
<1>11. CASE Publishes(k)
  <2>1. MatchesPrefix(k)
    BY <1>11 DEF Publishes
  <2>2. RecordedInput(k, new)
    BY <1>3, <2>1, CandidateMatches DEF RecordedInput
  <2>3. Covers(k, new)
    BY <1>4, <1>5, <1>8, <2>1, <2>2 DEF Covers, MatchesPrefix
  <2>. QED
    BY <1>3, <1>9, <1>10, <1>11, <2>3 DEF Consistent, Published
<1>12. CASE ~Publishes(k)
  <2>1. RecordedInput(k, k.row)
    BY <1>1, InputWithin DEF RecordedInput
  <2>2. Covers(k, k.row)
    BY <1>1, <1>4, <1>6, <1>7, <2>1 DEF Covers
  <2>. QED
    BY <1>9, <1>12, <2>2 DEF Consistent, Published
<1>. QED
  BY <1>11, <1>12

LEMMA Commits ==
    ASSUME IInv, NEW c \in Call, Commit(c)
    PROVE  IInv'
<1>1. /\ UNCHANGED <<sources, owners>> /\ RowInv(cursor)
      /\ calls[c] \in Activity /\ CallInv(calls[c]) /\ calls[c].pc = "commit"
  BY DEF Commit, IInv, Typed, TypeOK
<1>2. PICK k : k = calls[c]
  OBVIOUS
<1>3. Unchanged(k) => Consistent(k)
  BY <1>1, <1>2, FencedIsConsistent
<1>4. Becomes(c, Idle) /\ (cursor' = cursor \/ cursor' = Published(k))
  BY <1>2, <1>3 DEF Commit
<1>5. RowInv(k.row)
  BY <1>1, <1>2 DEF CallInv, Scanning
<1>6. RowInv(Published(k))
  BY <1>1, <1>2, <1>5, CandidateInv DEF Published, Publishes
<1>7. RowInv(cursor')
  BY <1>1, <1>4, <1>6
<1>. QED
  BY <1>1, <1>4, <1>7, IdleInv, CallMoves

-----------------------------------------------------------------------------
(* The invariant and what follows from it.                                 *)

LEMMA Initial ==
    ASSUME Init
    PROVE  IInv
<1>1. /\ bus \in Seq(Kind) /\ Len(bus) = 0 /\ Len(bus) <= MaxSeq /\ Position = {}
      /\ executions \in Seq(Execution) /\ DOMAIN executions = {} /\ Len(executions) <= MaxExecutions
      /\ registry \in [claim : 1 .. MaxClaim, active : BOOLEAN] /\ generation \in Nat
  BY SMTT(30), CursorBounds DEF Init, Position
<1>2. /\ sealed = {} /\ cursor = UnstartedCursor /\ calls = [c \in Call |-> Idle]
  BY DEF Init
<1>3. /\ cursor \in Row /\ cursor.covered = 0 /\ cursor.injected = 0 /\ cursor.input = NoInput
      /\ 1 .. 0 = {} /\ 0 + 1 .. 0 = {} /\ ~(0 > 0) /\ 0 <= 0
  BY SMTT(30), <1>2 DEF UnstartedCursor, Row, NoInput
<1>4. Typed /\ Ordered /\ SentWithin
  BY <1>1, <1>2, <1>3, IdleInv DEF Typed, TypeOK, Ordered, SentWithin
<1>5. RowInv(cursor)
  BY <1>1, <1>3 DEF RowInv
<1>. QED
  BY <1>2, <1>4, <1>5, IdleInv DEF IInv

LEMMA Stutters ==
    ASSUME IInv, UNCHANGED vars
    PROVE  IInv'
<1>1. UNCHANGED <<bus, sealed, executions, registry, generation, cursor, calls>>
  BY DEF vars, sources, owners
<1>2. registry \in [claim : 1 .. MaxClaim, active : BOOLEAN] /\ generation \in Nat
  BY DEF IInv, Typed, TypeOK
<1>3. /\ registry.claim <= registry'.claim /\ generation <= generation'
      /\ registry' \in [claim : 1 .. MaxClaim, active : BOOLEAN] /\ generation' \in Nat
  BY SMTT(30), <1>1, <1>2
<1>. QED
  BY <1>1, <1>3, OwnersMove

LEMMA Preserved ==
    ASSUME IInv, [Next]_vars
    PROVE  IInv'
<1>1. CASE \E kind \in Kind : Send(kind)
  BY <1>1, Sends
<1>2. CASE \E s \in Position : Accept(s)
  BY <1>2, Accepts
<1>3. CASE \E batch \in (SUBSET (Position \cap sealed)) \ {{}} : Engage(batch)
  BY <1>3, Engages
<1>4. ASSUME NEW e \in DOMAIN executions,
             \/ AdvanceGeneration(e) \/ StartAttempt(e) \/ CommitContext(e)
             \/ Defer(e) \/ Fail(e) \/ Complete(e)
             \/ \E c \in Call : Settle(c, e)
      PROVE  IInv'
  BY <1>4, Advances, Starts, EntersContext, Ending, Settles
<1>5. CASE Stop \/ Restart
  BY <1>5, StopsOrRestarts
<1>6. ASSUME NEW c \in Call,
             \/ Refresh(c) \/ ReadParticipant(c) \/ ReadState(c)
             \/ ReadCohort(c) \/ ReadEvidence(c) \/ Commit(c) \/ Refused(c)
      PROVE  IInv'
  BY <1>6, Refreshes, ReadsParticipant, ReadsState, ReadsCohort, ReadsEvidence, Commits,
     IsRefused
<1>7. CASE UNCHANGED vars
  BY <1>7, Stutters
<1>. QED
  BY <1>1, <1>2, <1>3, <1>4, <1>5, <1>6, <1>7 DEF Next

\* The inductive invariant: the row and every scan state only what is settled.
THEOREM Invariant == Spec => []IInv
<1>1. Init => IInv
  BY Initial
<1>2. IInv /\ [Next]_vars => IInv'
  BY Preserved
<1>. QED
  BY <1>1, <1>2, PTL DEF Spec

\* Every variable keeps its type: no execution, row or call leaves the ranges
\* of its identifiers.
THEOREM TypeCorrect == Spec => []TypeOK
<1>1. IInv => TypeOK
  BY DEF IInv, Typed
<1>. QED
  BY <1>1, Invariant, PTL

\* covered_seq never passes a message that is not settled, whatever happens
\* between the reads of _advance_owned and its publication.
THEOREM CoverageIsSettled == Spec => []CoveredIsSettled
<1>1. IInv => CoveredIsSettled
  BY DEF IInv, RowInv, Covered, Entered, CoveredIsSettled
<1>. QED
  BY <1>1, Invariant, PTL

\* injected_seq and its input are those of the last covered source that entered
\* native context (ProvenSourceCoverage.proof).
THEOREM InjectedIsTheLatest == Spec => []InjectedIsLatest
<1>1. IInv => InjectedIsLatest
  BY DEF IInv, RowInv, Carried, Sent, InjectedIsLatest
<1>. QED
  BY <1>1, Invariant, PTL

\* The identity conflicts of state and advance are unreachable: they guard
\* against damaged stores only.
THEOREM NoConflict == Spec => []NoIdentityConflict
<1>1. IInv => NoIdentityConflict
  BY DEF IInv, CallInv, NoIdentityConflict
<1>. QED
  BY <1>1, Invariant, PTL

\* A fenced refresh can use every proof it collected, whichever earlier claim or
\* generation sent the input (_matches_input).
THEOREM RefreshGoesThrough == Spec => []RefreshIsNeverHeldBack
<1>1. ASSUME IInv, NEW c \in Call, calls[c].pc = "commit", RequireLive(calls[c]),
             RequireParticipant(calls[c]), NEW p \in calls[c].proofs
      PROVE  MatchesInput(calls[c], p.input)
  <2>1. Sent(p.input)
    BY <1>1 DEF IInv, CallInv, Scanning, Carried
  <2>2. registry.claim = calls[c].claim /\ generation = calls[c].generation
    BY <1>1 DEF RequireLive, RequireParticipant
  <2>. QED
    BY <1>1, <2>1, <2>2 DEF IInv, SentWithin, Sent, MatchesInput
<1>2. IInv => RefreshIsNeverHeldBack
  BY <1>1 DEF RefreshIsNeverHeldBack, MatchesPrefix
<1>. QED
  BY <1>2, Invariant, PTL

\* What a step does to the cursor: nothing, or the candidate of a fenced call.
LEMMA OnlyCommitWrites ==
    ASSUME [Next]_vars, cursor' # cursor
    PROVE  \E c \in Call : /\ Commit(c)
                          /\ RequireLive(calls[c]) /\ RequireParticipant(calls[c])
                          /\ Unchanged(calls[c]) /\ Consistent(calls[c])
                          /\ Publishes(calls[c]) /\ cursor' = Candidate(calls[c])
<1>1. PICK c \in Call : Commit(c)
  BY DEF Next, vars, Send, Accept, Engage, AdvanceGeneration, StartAttempt, CommitContext,
         Defer, Fail, Complete, Settle, Stop, Restart, Refresh, ReadParticipant, ReadState,
         ReadCohort, ReadEvidence, Refused
<1>. QED
  BY <1>1 DEF Commit, Unchanged, Published

\* Only the active owner writes the cursor, under the claim and the generation
\* of that moment (require_live, require_participant).
THEOREM WritesUnderTheFence == Spec => FencedWrites
<1>1. ASSUME IInv, [Next]_vars, cursor' # cursor
      PROVE  registry.active /\ cursor'.claim = registry.claim /\ cursor'.generation = generation
  <2>1. PICK c \in Call : /\ Commit(c) /\ RequireLive(calls[c]) /\ RequireParticipant(calls[c])
                          /\ cursor' = Candidate(calls[c])
    BY <1>1, OnlyCommitWrites
  <2>2. calls[c] \in Activity /\ CallInv(calls[c]) /\ calls[c].pc = "commit"
    BY <1>1, <2>1 DEF IInv, Typed, TypeOK, Commit
  <2>3. cursor'.generation = calls[c].generation /\ cursor'.claim = calls[c].claim
    BY <1>1, <2>1, <2>2, CandidateFacts
  <2>. QED
    BY <2>1, <2>3 DEF RequireLive, RequireParticipant
<1>2. IInv /\ [Next]_vars => WritesAreFenced
  BY <1>1 DEF WritesAreFenced
<1>. QED
  BY <1>2, Invariant, PTL DEF Spec, FencedWrites

=============================================================================
