----------------------------- MODULE NativeTriage -----------------------------
(***************************************************************************)
(* The native triage driver (control_plane/native_triage.py) as the native *)
(* pipeline runs it (control_plane/native_pipeline.py), composed with the  *)
(* execution store it drives.                                              *)
(*                                                                         *)
(* One pipeline process advances one revision at a time.  An advance is a  *)
(* sequence of calls, each its own transaction of the store, so a process  *)
(* that dies leaves a prefix of them behind; the next tick repeats the     *)
(* whole sequence and relies on every call to be replayable.  A call that  *)
(* the store refuses raises, and the pipeline journals a hold and retries  *)
(* at a later tick.  No caller of the store other than this driver exists, *)
(* and the driver calls neither release, expire nor restart.               *)
(***************************************************************************)
EXTENDS TriageExecution

CONSTANTS
    Worker,      \* the identity the pipeline's proof authenticates
    Decision,    \* plan_native_schedule is replay-stable: one decision per item
    SlowTurns,   \* whether time may pass while a turn is running
    MaxFaults,   \* bound: process deaths and refused creations
    MaxChanges   \* bound: changes of a citation or of a retrieval

ASSUME NativeTriageAssumption ==
    /\ Worker \in Workers
    /\ Decision \in Decisions
    /\ Requests \subseteq Evidence
    /\ None \notin Requests
    /\ SlowTurns \in BOOLEAN
    /\ MaxFaults \in Nat
    /\ MaxChanges \in Nat

VARIABLES
    at,        \* the call the running advance makes next; "idle" between turns
    turn,      \* the item being advanced and the request built for it
    retrieved, \* retrieved[i]: the retrieval bound into i's Version is complete
    cited,     \* cited[i]: request the current Candidate citation of i gives
    rebuilt,   \* rebuilt[i]: the next turn rebuilds the retrieval bound into i's Version
    disposed,  \* disposed[i]: proposal whose dispositions are retained, or None
    journal,   \* journal[i]: stage of i in the pipeline journal
    faults,    \* process deaths and refused creations so far
    changes    \* changes of a citation or of a retrieval so far

driver == <<at, turn, retrieved, cited, rebuilt, disposed, journal, faults, changes>>
allVars == <<vars, driver>>

Calls == {"create", "batch", "attempt", "claim", "complete", "persist"}

\* DISPOSED stands for every outcome reached after the dispositions are kept:
\* OPERATIONAL_HOLD, CANDIDATE_READY, SAME_STATE_ASSOCIATED and what follows.
Stages == {"GRAPHITI_COMPLETE", "RETRIEVAL_PENDING", "RETRIEVAL_HOLD", "DISPOSED"}

DriverTypeOK ==
    /\ TypeOK
    /\ at \in {"idle"} \cup Calls
    /\ turn \in [item : Items, request : Requests]
    /\ retrieved \in [Items -> BOOLEAN]
    /\ \A i \in Items : usable[i] => retrieved[i]
    /\ cited \in [Items -> Requests]
    /\ rebuilt \in [Items -> BOOLEAN]
    /\ disposed \in [Items -> Requests \cup {None}]
    /\ journal \in [Items -> Stages]
    /\ faults \in 0..MaxFaults
    /\ changes \in 0..MaxChanges

-----------------------------------------------------------------------------
(* The records an advance builds, all of them functions of the turn.       *)

item == turn.item

TheBatch == [decision |-> Decision, members |-> {<<item, 1>>}]

\* WorkerAttempt.create: ordinal one, input digest over the citation.
TheAttempt == [item |-> item, version |-> 1, chain |-> <<turn.request>>]

\* digest_bytes(proposal.canonical_bytes): the proposal is built from the
\* attempt and the citation, so the request determines it.
TheEvidence == turn.request

\* The call returned and the next one follows.
Goes(next) ==
    /\ at' = next
    /\ UNCHANGED <<turn, cited, rebuilt, disposed, journal, faults, changes>>

\* The turn ends: it returned, or a call raised and the pipeline held the item.
EndTurn(stage) ==
    /\ at' = "idle"
    /\ journal' = [journal EXCEPT ![item] = stage]
    /\ UNCHANGED <<turn, cited, rebuilt, changes>>

-----------------------------------------------------------------------------
(* One turn.                                                               *)

\* _advance_revisions reaches i: the citation is read before the first write.
\* An item already disposed of has a turn again while it is held downstream.
Begin(i) ==
    /\ at = "idle"
    /\ at' = "create"
    /\ turn' = [item |-> i, request |-> cited[i]]
    /\ UNCHANGED <<vars, retrieved, cited, rebuilt, disposed, journal, faults, changes>>

\* A retained Version answers a repeated call only if it is the same one, and
\* its retrieval is rebuilt by every turn.
CreateAccepts == head[item] = 0 \/ rebuilt[item]

\* create_or_replay, then the early return for an incomplete retrieval, which
\* is a fact of the Version and not of its upstream heads.
Create ==
    /\ at = "create"
    /\ CreateAccepts
    /\ IF head[item] = 0
       THEN AppendVersion(item) /\ retrieved' = [retrieved EXCEPT ![item] = usable'[item]]
       ELSE UNCHANGED <<vars, retrieved>>
    /\ IF retrieved'[item]
       THEN Goes("batch")
       ELSE EndTurn("RETRIEVAL_PENDING") /\ UNCHANGED <<disposed, faults>>

\* _require_upstream or _reject_overlap refuses the creation this time.
CreateRefused ==
    /\ at = "create"
    /\ head[item] = 0
    /\ faults < MaxFaults
    /\ faults' = faults + 1
    /\ EndTurn("RETRIEVAL_HOLD")
    /\ UNCHANGED <<vars, retrieved, disposed>>

Register ==
    /\ at = "batch"
    /\ \/ RegisterBatch(TheBatch)
       \/ TheBatch \in batches /\ UNCHANGED vars
    /\ Goes("attempt")
    /\ UNCHANGED retrieved

\* The retained attempt answers a repeated call only if it is the same one.
\* The seeded fault takes every repeated registration for a conflict.
AttemptReplays_Never(id) == FALSE

AttemptReplays(id) == \E a \in attempts : a.id = id /\ a.batch = TheBatch

RegisterFirst ==
    /\ at = "attempt"
    /\ \/ RegisterAttempt(TheBatch, item, 1, turn.request)
       \/ AttemptReplays(TheAttempt) /\ UNCHANGED vars
    /\ Goes("claim")
    /\ UNCHANGED retrieved

ClaimCall ==
    /\ at = "claim"
    /\ \/ \E a \in attempts : a.id = TheAttempt /\ Claim(Worker, a)
       \/ \E l \in leases : l.attempt = TheAttempt /\ ClaimReplay(Worker, l)
    /\ Goes("complete")
    /\ UNCHANGED retrieved

\* The seeded fault goes on with the lease whatever complete said.
CompleteCall_Unchecked ==
    /\ at = "complete"
    /\ \E l \in leases :
          /\ l.attempt = TheAttempt
          /\ \/ Complete(Worker, l, TheEvidence)
             \/ UNCHANGED vars
    /\ Goes("persist")
    /\ UNCHANGED retrieved

CompleteCall ==
    /\ at = "complete"
    /\ \E l \in leases :
          /\ l.attempt = TheAttempt
          /\ \/ Complete(Worker, l, TheEvidence)
             \/ TerminalReplay(Worker, l, "complete", TheEvidence)
    /\ Goes("persist")
    /\ UNCHANGED retrieved

\* dispositions.persist: the Version is the usable head, and the retained set,
\* if there is one, is the same.
PersistAccepts ==
    /\ UsableCurrent(item, 1)
    /\ disposed[item] \in {None, turn.request}

Persist ==
    /\ at = "persist"
    /\ PersistAccepts
    /\ disposed' = [disposed EXCEPT ![item] = turn.request]
    /\ EndTurn("DISPOSED")
    /\ UNCHANGED <<vars, retrieved, faults>>

\* A refused call rolls back and raises; the pipeline journals the hold.
Accepts ==
    /\ at = "create" => CreateAccepts
    /\ at = "batch" => TheBatch \in batches \/ UsableCurrent(item, 1)
    /\ at = "attempt" =>
          \/ AttemptReplays(TheAttempt)
          \/ ~OrdinalTaken(TheAttempt) /\ UsableCurrent(item, 1)
    /\ at = "claim" =>
          \/ \E l \in leases : l.attempt = TheAttempt /\ OwnsLease(Worker, l)
          \/ /\ \A l \in leases : l.attempt # TheAttempt
             /\ UsableCurrent(item, 1)
             /\ ~HasCurrentLease(item, 1)
    /\ at = "complete" =>
          \E l \in leases :
             /\ l.attempt = TheAttempt
             /\ \/ Releasable(Worker, l) /\ UsableCurrent(item, 1)
                \/ l.lifecycle # "CLAIMED" /\ ReplayMatches(l, "complete", TheEvidence)
    /\ at = "persist" => PersistAccepts

Refused ==
    /\ at \in Calls
    /\ ~Accepts
    /\ EndTurn("RETRIEVAL_HOLD")
    /\ UNCHANGED <<vars, retrieved, disposed, faults>>

-----------------------------------------------------------------------------
(* The environment.                                                        *)

\* The process dies between two calls; its successor starts idle.
Crash ==
    /\ faults < MaxFaults
    /\ at # "idle"
    /\ faults' = faults + 1
    /\ at' = "idle"
    /\ UNCHANGED <<vars, turn, retrieved, cited, rebuilt, disposed, journal, changes>>

\* Time matters to this driver only while a lease runs.
Elapse ==
    /\ at = "idle" \/ SlowTurns
    /\ \E l \in leases : l.lifecycle = "CLAIMED" /\ ~IsExpired(l)
    /\ ClockAdvance
    /\ UNCHANGED driver

\* A Candidate from another revision of the same source item is admitted: the
\* current Candidate head, and with it the citation of i, changes.
Recite(i, r) ==
    /\ changes < MaxChanges
    /\ at = "idle"
    /\ cited[i] # r
    /\ cited' = [cited EXCEPT ![i] = r]
    /\ changes' = changes + 1
    /\ UNCHANGED <<vars, at, turn, retrieved, rebuilt, disposed, journal, faults>>

\* A document of any revision is prepared, or its rights change: the inventory
\* the retained retrieval was made for is no longer the current one, and the
\* next turn retrieves again.  What it gets may differ from what the Version
\* holds, or be that again.
Retrieve(i) ==
    /\ changes < MaxChanges
    /\ at = "idle"
    /\ head[i] > 0
    /\ rebuilt' = [rebuilt EXCEPT ![i] = ~@]
    /\ changes' = changes + 1
    /\ UNCHANGED <<vars, at, turn, retrieved, cited, disposed, journal, faults>>

\* A Version whose retrieval is incomplete is never usable.  The seeded fault
\* forgets that.
UpstreamMoves_AnyVersion(i) == UpstreamChange(i) /\ UNCHANGED driver

UpstreamMoves(i) ==
    /\ retrieved[i]
    /\ UpstreamChange(i)
    /\ UNCHANGED driver

DriverInit ==
    /\ Init
    /\ at = "idle"
    /\ turn \in [item : Items, request : Requests]
    /\ retrieved = [i \in Items |-> FALSE]
    /\ cited \in [Items -> Requests]
    /\ rebuilt = [i \in Items |-> TRUE]
    /\ disposed = [i \in Items |-> None]
    /\ journal = [i \in Items |-> "GRAPHITI_COMPLETE"]
    /\ faults = 0
    /\ changes = 0

Call == Create \/ Register \/ RegisterFirst \/ ClaimCall \/ CompleteCall
           \/ Persist \/ Refused \/ CreateRefused

DriverNext ==
    \/ \E i \in Items : Begin(i) \/ UpstreamMoves(i) \/ Retrieve(i)
    \/ Create \/ Register \/ RegisterFirst \/ ClaimCall \/ CompleteCall
    \/ Persist \/ Refused \/ CreateRefused
    \/ Crash
    \/ Elapse
    \/ \E i \in Items, r \in Requests : Recite(i, r)

DriverSpec == DriverInit /\ [][DriverNext]_allVars

\* A turn that has begun runs on unless the process dies.
FairDriver == DriverSpec /\ WF_allVars(Call)

\* The turns of i reach the driver again and again: the tick has time left for
\* it, and neither discovery, retrieval, scheduling nor collision, which come
\* before the driver, holds it.
ReachesDriver(i) == SF_allVars(disposed[i] = None /\ Begin(i))

FairTurns == FairDriver /\ \A i \in Items : ReachesDriver(i)

-----------------------------------------------------------------------------
(* Properties.                                                             *)

\* Crash-safe replay without duplicate semantic transitions: whatever prefix of
\* a turn a crash leaves, and whatever citation a later turn reads, an item has
\* one attempt, and the dispositions retained for it are those of the proposal
\* whose digest completed that attempt's lease.
DisposedAsCompleted ==
    \A i \in Items :
        /\ \A a, b \in attempts : a.id.item = i /\ b.id.item = i => a = b
        /\ disposed[i] # None =>
              \E l \in leases :
                  /\ l.attempt.item = i
                  /\ l.lifecycle = "RELEASED"
                  /\ l.evidence = disposed[i]
                  /\ l.attempt.chain = <<disposed[i]>>

\* What makes the store refuse every later turn: a lease that ran out while the
\* process was down, an attempt registered under a citation that is no longer
\* the current one, and a Version whose retrieval comes out differently now.
LeaseRanOut(i) ==
    \E l \in leases : l.attempt.item = i /\ IsExpired(l)

InputChanged(i) ==
    \E a \in attempts : a.id.item = i /\ a.id.chain # <<cited[i]>>

Diverged(i) == head[i] > 0 /\ ~rebuilt[i]

\* An item that keeps reaching the driver, and whose upstream settles, is
\* disposed of or ends in one of those three states: between create_or_replay
\* and dispositions.persist no other interleaving of crashes, elapsed time,
\* upstream changes, new citations and new retrievals strands it.
DriverStrandsOnlyByChange ==
    \A i \in Items :
        ReachesDriver(i) /\ <>[](head[i] > 0 => usable[i]) =>
            \/ <>(disposed[i] # None)
            \/ <>[](LeaseRanOut(i) \/ InputChanged(i) \/ Diverged(i))

\* docs/specs/editorial-automation/discovery-workflow.md, FLOW-084: "A crash
\* after source access, model invocation or downstream submission MUST be
\* recoverable without duplicate semantic transitions."  An item whose upstream
\* is always current is disposed of, however long the process was down.
CrashIsRecoverable ==
    \A i \in Items : [](head[i] > 0 => usable[i]) => <>(disposed[i] # None)
=============================================================================
