---------------------------- MODULE NativeCursor ----------------------------
(***************************************************************************)
(* The cursor of one recipient over the bus (cursor_owner.py and           *)
(* proven_source_coverage.py): up to which message its sources are         *)
(* settled, and which native input was the last one injected.              *)
(*                                                                         *)
(* A call reads the cursor row, proves the messages after it one by one    *)
(* outside any lock, and publishes the result under the registry and       *)
(* coordinator locks.  Between those steps messages arrive, cohorts are    *)
(* sealed, inputs enter native context, attempts are retried or fail, the  *)
(* owner is stopped and replaced, and other calls publish.                 *)
(*                                                                         *)
(* Messages that wake the recipient are the ones that go straight to a     *)
(* full execution; the triage of a message is not modelled.  An input in   *)
(* context has its prompt equality established: it is verified before the  *)
(* context is recorded.  The 32 pages of 100 messages that one call may    *)
(* read are one page here.                                                 *)
(***************************************************************************)
EXTENDS Integers, Sequences, FiniteSets, FiniteSetsExt

CONSTANTS Call,            \* concurrent cursor calls
          MaxSeq,          \* bound: messages on the bus
          MaxExecutions,   \* bound: executions
          MaxAttempts,     \* max_attempts of an execution
          MaxClaim         \* bound: input claims granted by the registry

ASSUME CallAssumption == IsFiniteSet(Call)
ASSUME CursorBounds ==
    {MaxSeq, MaxExecutions, MaxAttempts, MaxClaim} \subseteq Nat \ {0}

VARIABLES
    bus,           \* kind of each message, in bus order
    sealed,        \* messages whose cohort is accepted and sealed
    executions,    \* executions of the recipient, with their native inputs
    registry,      \* the recipient's input claim and whether it is active
    generation,    \* the participant's OwnerGenerations row
    cursor,        \* CurrentNativeCursor: no row, or one
    calls          \* the calls in progress

sources == <<bus, sealed, executions>>
owners == <<registry, generation>>
vars == <<sources, owners, cursor, calls>>

Position == 1 .. Len(bus)

\* "other" is for someone else; "quiet" is delivered and needs no input;
\* "wake" needs one.
Kind == {"other", "quiet", "wake"}

\* One native input per attempt; its id is <<execution, attempt>>.
Input == [generation : Nat, claim : Nat, context : BOOLEAN]
Execution == [sources : SUBSET (1 .. MaxSeq), claim : Nat, inputs : Seq(Input),
              state : {"active", "deferred", "failed", "completed"}]
InputId == (1 .. MaxExecutions) \X (1 .. MaxAttempts)
NoInput == <<0, 0>>

Row == [generation : Nat, claim : Nat, covered : Nat, injected : Nat,
        input : InputId \cup {NoInput}]
UnstartedCursor == [generation |-> 0, claim |-> 0, covered |-> 0,
                    injected |-> 0, input |-> NoInput]

(***************************************************************************)
(* A call: the owner it acts for, the one input a settlement may advance   *)
(* through, the row it read, the captured prefix, the message in hand and  *)
(* whether its claim was failed, and the proofs collected so far.          *)
(***************************************************************************)
Proof == [source : Nat, input : InputId]
Activity == [pc : {"idle", "owner", "state", "cohort", "evidence", "commit",
                   "conflict"},
             generation : Nat, claim : Nat, permits : InputId \cup {NoInput},
             row : Row, prefix : Nat, at : Nat, failed : BOOLEAN,
             covered : Nat, proofs : SUBSET Proof]

Idle == [pc |-> "idle", generation |-> 0, claim |-> 0, permits |-> NoInput,
         row |-> UnstartedCursor, prefix |-> 0, at |-> 0, failed |-> FALSE,
         covered |-> 0, proofs |-> {}]

Init ==
    /\ bus = <<>> /\ sealed = {} /\ executions = <<>>
    /\ registry = [claim |-> 1, active |-> TRUE]
    /\ generation = 1
    /\ cursor = UnstartedCursor
    /\ calls = [c \in Call |-> Idle]

-----------------------------------------------------------------------------
(* Messages, executions and their native inputs *)

Send(kind) ==
    /\ Len(bus) < MaxSeq
    /\ bus' = Append(bus, kind)
    /\ UNCHANGED <<sealed, executions, owners, cursor, calls>>

\* Acceptance inserts the cohort's claims and seals them in one transaction.
Accept(s) ==
    /\ s \in Position \ sealed
    /\ bus[s] # "other"
    /\ sealed' = sealed \cup {s}
    /\ UNCHANGED <<bus, executions, owners, cursor, calls>>

Claimed(s) == \E e \in DOMAIN executions : s \in executions[e].sources

\* The owner's turn selects claims of one route and creates their execution.
\* A deferred execution of this claim still holds the turn.
Engage(batch) ==
    /\ registry.active
    /\ Len(executions) < MaxExecutions
    /\ \A s \in batch : bus[s] = "wake" /\ ~Claimed(s)
    /\ \A e \in DOMAIN executions :
          /\ executions[e].state # "active"
          /\ executions[e].state = "deferred" => executions[e].claim # registry.claim
    /\ executions' = Append(executions, [sources |-> batch, claim |-> registry.claim,
                                         inputs |-> <<>>, state |-> "active"])
    /\ UNCHANGED <<bus, sealed, owners, cursor, calls>>

Current(e) == executions[e].inputs[Len(executions[e].inputs)]

\* prepare_attempt: a retry first acquires a newer participant generation.
AdvanceGeneration(e) ==
    /\ executions[e].state = "deferred"
    /\ Current(e).generation = generation
    /\ generation' = generation + 1
    /\ UNCHANGED <<sources, registry, cursor, calls>>

Ends(e, state) == executions' = [executions EXCEPT ![e].state = state]

\* The attempt starts and its one input is granted to the registry's claim.
StartAttempt(e) ==
    /\ \/ executions[e].state = "active" /\ executions[e].inputs = <<>>
       \/ /\ executions[e].state = "deferred"
          /\ Current(e).generation < generation
    /\ registry.active /\ registry.claim = executions[e].claim
    /\ LET input == [generation |-> generation, claim |-> registry.claim,
                     context |-> FALSE]
       IN  executions' = [executions EXCEPT ![e] =
              [@ EXCEPT !.state = "active",
                        !.inputs = Append(executions[e].inputs, input)]]
    /\ UNCHANGED <<bus, sealed, owners, cursor, calls>>

\* The process that sent the input records its context under the attempt's
\* fence.  A stop in the registry does not refuse it.
CommitContext(e) ==
    /\ executions[e].state = "active" /\ executions[e].inputs # <<>>
    /\ ~Current(e).context
    /\ Current(e).generation = generation
    /\ executions' = [executions EXCEPT
          ![e].inputs[Len(executions[e].inputs)].context = TRUE]
    /\ UNCHANGED <<bus, sealed, owners, cursor, calls>>

\* A terminal provider failure with retries left: the claims wait.
Defer(e) ==
    /\ executions[e].state = "active"
    /\ Len(executions[e].inputs) \in 1 .. MaxAttempts - 1
    /\ Ends(e, "deferred")
    /\ UNCHANGED <<bus, sealed, owners, cursor, calls>>

Fail(e) ==
    /\ executions[e].state = "active"
    /\ Ends(e, "failed")
    /\ UNCHANGED <<bus, sealed, owners, cursor, calls>>

Complete(e) ==
    /\ executions[e].state = "active" /\ executions[e].inputs # <<>>
    /\ Current(e).context
    /\ Ends(e, "completed")
    /\ UNCHANGED <<bus, sealed, owners, cursor, calls>>

Stop ==
    /\ registry.active /\ registry.claim < MaxClaim
    /\ registry' = [claim |-> registry.claim + 1, active |-> FALSE]
    /\ UNCHANGED <<sources, generation, cursor, calls>>

Restart ==
    /\ ~registry.active /\ registry.claim < MaxClaim
    /\ registry' = [claim |-> registry.claim + 1, active |-> TRUE]
    /\ UNCHANGED <<sources, generation, cursor, calls>>

-----------------------------------------------------------------------------
(* A cursor call *)

Becomes(c, k) == calls' = [calls EXCEPT ![c] = k]

\* CoordinatedTurn.capture: the turn settles its own input as the owner that
\* sent it, and may advance through no other input.
Settle(c, e) ==
    /\ calls[c].pc = "idle"
    /\ executions[e].inputs # <<>> /\ Current(e).context
    /\ Becomes(c, [Idle EXCEPT !.pc = "state", !.claim = Current(e).claim,
                               !.generation = Current(e).generation,
                               !.permits = <<e, Len(executions[e].inputs)>>])
    /\ UNCHANGED <<sources, owners, cursor>>

\* _refresh_owned reads the live claim first and the participant afterwards.
Refresh(c) ==
    /\ calls[c].pc = "idle" /\ registry.active
    /\ Becomes(c, [Idle EXCEPT !.pc = "owner", !.claim = registry.claim])
    /\ UNCHANGED <<sources, owners, cursor>>

ReadParticipant(c) ==
    /\ calls[c].pc = "owner"
    /\ Becomes(c, [calls[c] EXCEPT !.pc = "state", !.generation = generation])
    /\ UNCHANGED <<sources, owners, cursor>>

\* Mutant: an input counts only for the claim that sent it.
MatchesClaim(k, i) ==
    LET input == executions[i[1]].inputs[i[2]]
    IN  input.generation <= k.generation /\ input.claim = k.claim /\ input.context

\* _matches_input: sent within this participant generation and claim.
MatchesInput(k, i) ==
    LET input == executions[i[1]].inputs[i[2]]
    IN  /\ input.generation <= k.generation
        /\ input.claim <= k.claim
        /\ input.context

RecordedInput(k, row) == row.input # NoInput => MatchesInput(k, row.input)

\* CursorOwner.state: the row may be an earlier owner's, never a newer one's.
Within(k, row) == row.generation <= k.generation /\ row.claim <= k.claim

ReadState(c) ==
    LET k == calls[c]
    IN  /\ k.pc = "state"
        /\ Becomes(c,
             IF ~Within(k, cursor) THEN Idle
             ELSE IF ~RecordedInput(k, cursor) THEN [k EXCEPT !.pc = "conflict"]
             ELSE [k EXCEPT !.pc = "cohort", !.row = cursor,
                            !.prefix = Len(bus), !.covered = cursor.covered])
        /\ UNCHANGED <<sources, owners, cursor>>

Failed(s) ==
    \E e \in DOMAIN executions :
        s \in executions[e].sources /\ executions[e].state = "failed"

\* The next delivery of the captured prefix: the end of the prefix, a cohort
\* that is not sealed, a delivery without a wake, or a claim to look up.
ReadCohort(c) ==
    LET k == calls[c]
        initials == {s \in k.covered + 1 .. k.prefix : bus[s] # "other"}
        seq == Min(initials)
    IN  /\ k.pc = "cohort"
        /\ Becomes(c,
             IF initials = {} THEN [k EXCEPT !.pc = "commit", !.covered = k.prefix]
             ELSE IF seq \notin sealed THEN [k EXCEPT !.pc = "commit"]
             ELSE IF bus[seq] = "quiet" THEN [k EXCEPT !.covered = seq]
             ELSE [k EXCEPT !.pc = "evidence", !.at = seq, !.failed = Failed(seq)])
        /\ UNCHANGED <<sources, owners, cursor>>

\* Mutant: the attempt ordinal starts at zero.
EvidenceFromZero(s) ==
    {[source |-> s, input |-> <<e, Len(executions[e].inputs) - 1>>] :
        e \in {f \in DOMAIN executions :
                  /\ s \in executions[f].sources
                  /\ executions[f].inputs # <<>> /\ Current(f).context}}

\* read_historical_native_inputs: inputs in context that no later attempt
\* replaced.
Evidence(s) ==
    {[source |-> s, input |-> <<e, Len(executions[e].inputs)>>] :
        e \in {f \in DOMAIN executions :
                  /\ s \in executions[f].sources
                  /\ executions[f].inputs # <<>> /\ Current(f).context}}

\* Mutant: an unproved claim is passed over and the scan goes on.
ReadEvidenceSkips(c) ==
    LET k == calls[c]
    IN  /\ k.pc = "evidence"
        /\ Becomes(c, [k EXCEPT !.pc = "cohort", !.covered = k.at,
                                !.proofs = @ \cup Evidence(k.at)])
        /\ UNCHANGED <<sources, owners, cursor>>

\* source_settlement: proved by an input, or failed without one.
ReadEvidence(c) ==
    LET k == calls[c]
        evidence == Evidence(k.at)
    IN  /\ k.pc = "evidence"
        /\ Becomes(c,
             IF evidence = {} /\ ~k.failed THEN [k EXCEPT !.pc = "commit"]
             ELSE [k EXCEPT !.pc = "cohort", !.covered = k.at,
                            !.proofs = @ \cup evidence])
        /\ UNCHANGED <<sources, owners, cursor>>

\* Mutant: the first injected source stands for the suffix.
FirstProof(k) ==
    CHOOSE p \in k.proofs : \A q \in k.proofs : p.source <= q.source

\* ProvenSourceCoverage.proof: the input of the last injected source.
LastProof(k) ==
    CHOOSE p \in k.proofs : \A q \in k.proofs : q.source <= p.source

\* InjectedInput and NoInjectedInput candidates.
Candidate(k) ==
    [generation |-> k.generation, claim |-> k.claim, covered |-> k.covered,
     injected |-> IF k.proofs = {} THEN k.row.injected ELSE LastProof(k).source,
     input |-> IF k.proofs = {} THEN k.row.input ELSE LastProof(k).input]

\* Mutant: any active owner will do.
RequireActive(k) == registry.active

\* Mutant: the row is compared by its owner only.
UnchangedOwner(k) ==
    cursor.generation = k.row.generation /\ cursor.claim = k.row.claim

\* The locked checks before anything is compared or written.
RequireLive(k) == registry.active /\ registry.claim = k.claim
RequireParticipant(k) == generation = k.generation
Unchanged(k) == cursor = k.row

\* Every proof was sent by this owner or one it continues.
MatchesPrefix(k) == \A p \in k.proofs : MatchesInput(k, p.input)

\* permits_input: a settlement advances only through its own input.
Permits(k) == k.proofs # {} => k.permits \in {NoInput, LastProof(k).input}

\* require_progress against the row read, require_input_progress once the
\* proofs match, and the column guards against the row being replaced.
Progress(k) ==
    LET new == Candidate(k)
    IN  /\ k.row.covered <= k.covered /\ k.row.injected <= new.injected
        /\ k.row.generation <= k.generation
        /\ MatchesPrefix(k) /\ k.proofs # {} /\ LastProof(k).source <= k.row.injected
             => LastProof(k).input = k.row.input

ColumnGuards(old, new) ==
    /\ old.covered <= new.covered /\ old.injected <= new.injected
    /\ old.generation <= new.generation /\ old.claim <= new.claim
    /\ old.injected = new.injected => old.input = new.input

\* CursorOwner.require_coverage and require_reference, of the resulting row.
Covers(k, row) ==
    /\ row.covered <= k.covered
    /\ \A p \in k.proofs : p.source <= row.covered => MatchesInput(k, p.input)
    /\ RecordedInput(k, row)
    /\ k.proofs # {} /\ row.injected = LastProof(k).source
         => row.input = LastProof(k).input

\* The row after the call: unchanged, or the candidate.
Publishes(k) ==
    MatchesPrefix(k) /\ Permits(k) /\ (k.row = UnstartedCursor => k.covered > 0)
Published(k) == IF Publishes(k) THEN Candidate(k) ELSE k.row

Consistent(k) ==
    /\ Progress(k)
    /\ Publishes(k) => ColumnGuards(cursor, Candidate(k))
    /\ Published(k) # UnstartedCursor => Covers(k, Published(k))

\* _advance_owned: one transaction under the registry lock.  A stale fence
\* ends the call; a failed consistency check is an identity conflict.
Commit(c) ==
    LET k == calls[c]
        fenced == RequireLive(k) /\ RequireParticipant(k) /\ Unchanged(k)
    IN  /\ k.pc = "commit"
        /\ cursor' = IF fenced /\ Consistent(k) THEN Published(k) ELSE cursor
        /\ Becomes(c, IF fenced /\ ~Consistent(k) THEN [k EXCEPT !.pc = "conflict"]
                                                 ELSE Idle)
        /\ UNCHANGED <<sources, owners>>

\* A changed turn, a busy store or the end of the process ends a call.
Refused(c) ==
    /\ calls[c].pc \notin {"idle", "conflict"}
    /\ Becomes(c, Idle)
    /\ UNCHANGED <<sources, owners, cursor>>

-----------------------------------------------------------------------------
Next ==
    \/ \E kind \in Kind : Send(kind)
    \/ \E s \in Position : Accept(s)
    \/ \E batch \in (SUBSET (Position \cap sealed)) \ {{}} : Engage(batch)
    \/ \E e \in DOMAIN executions :
          \/ AdvanceGeneration(e) \/ StartAttempt(e) \/ CommitContext(e)
          \/ Defer(e) \/ Fail(e) \/ Complete(e)
          \/ \E c \in Call : Settle(c, e)
    \/ Stop \/ Restart
    \/ \E c \in Call :
          \/ Refresh(c) \/ ReadParticipant(c) \/ ReadState(c)
          \/ ReadCohort(c) \/ ReadEvidence(c) \/ Commit(c) \/ Refused(c)

Spec == Init /\ [][Next]_vars

-----------------------------------------------------------------------------
(* Properties *)

\* Every variable has its type.
TypeOK ==
    /\ bus \in Seq(Kind) /\ Len(bus) <= MaxSeq
    /\ sealed \subseteq Position
    /\ executions \in Seq(Execution)
    /\ registry \in [claim : 1 .. MaxClaim, active : BOOLEAN]
    /\ generation \in Nat
    /\ cursor \in Row
    /\ calls \in [Call -> Activity]

\* The cursor is no acknowledgement in advance: every message at or below
\* covered_seq is for someone else, or its cohort is sealed and it needs no
\* input, entered native context, or failed.  The scan's early stop
\* (proven_source_coverage.py:265-276) must hold against everything that
\* happens between its reads and the publication.
CoveredIsSettled ==
    \A s \in 1 .. cursor.covered :
        \/ bus[s] = "other"
        \/ /\ s \in sealed
           /\ \/ bus[s] = "quiet"
              \/ Failed(s)
              \/ \E e \in DOMAIN executions :
                    /\ s \in executions[e].sources
                    /\ \E a \in DOMAIN executions[e].inputs :
                          executions[e].inputs[a].context

\* injected_seq names the last source under the cursor that entered context,
\* and the recorded input really carried that source: whatever wakes the
\* recipient between injected_seq and covered_seq failed without an input
\* (ProvenSourceCoverage.proof, RecordedCursor.without_input).
InjectedIsLatest ==
    /\ cursor.injected <= cursor.covered
    /\ cursor.injected > 0 =>
          LET e == cursor.input[1] IN
          /\ cursor.injected \in executions[e].sources
          /\ executions[e].inputs[cursor.input[2]].context
    /\ \A s \in cursor.injected + 1 .. cursor.covered :
          bus[s] = "wake" => Failed(s)

WritesAreFenced ==
    cursor' # cursor =>
        /\ registry.active
        /\ cursor'.claim = registry.claim
        /\ cursor'.generation = generation

\* Only the active owner writes the cursor, under the claim and the
\* participant generation of that moment: a call of a stopped or replaced
\* owner that proved its coverage in time is still too late to publish it
\* (cursor_owner.py:128-131).
FencedWrites == [][WritesAreFenced]_vars

\* A refresh that is still fenced can use every proof it found: a cursor is
\* continued across restarts and retries, and no input of an earlier claim or
\* generation can hold it back for ever (_matches_input, sent_by_lineage).
RefreshIsNeverHeldBack ==
    \A c \in Call :
        LET k == calls[c] IN
        /\ k.pc = "commit" /\ k.permits = NoInput
        /\ RequireLive(k) /\ RequireParticipant(k)
        => MatchesPrefix(k)

\* The consistency checks of a call (IdentityConflict and the row's column
\* guards) guard against damaged stores only: no order of sends, retries,
\* restarts and concurrent calls makes one fail.
NoIdentityConflict == \A c \in Call : calls[c].pc # "conflict"
=============================================================================
