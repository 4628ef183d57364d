# Newsroom: TLA+ models and proofs

TLA+ specifications of the parts of the newsroom code that own durable state and
are used by more than one process, call or tick: who may work on what, for how
long, what survives a crash, and what a late or repeated call may still change.
TLC checks each module on small instances; TLAPS proves the main safety
properties for every value of the constants.

Contents: 1 the system, 2 the modules, 3 the runs, 4 what the runs refute,
5 bounds, 6 fairness, 7 the proofs, 8 not modelled, 9 the plan.

## 1. The system

Newsroom is an editorial automation system. It polls sources and lands their
revisions in an append-only ledger, projects them into a knowledge graph
(Graphiti), triages them into Work Items, retrieves evidence, proposes
dispositions and Candidates, and writes unpublished copy in governed evaluation
cycles. Nearly all state is in SQLite; nearly every operation is one
`BEGIN IMMEDIATE` transaction on append-only, digest-chained rows. The
processes are command-line workers, a native pipeline that ticks, operators and
probes. They share nothing but the databases.

| Component | State it keeps | Operations | What is hard |
|---|---|---|---|
| Triage execution store (`increment6/_execution_store.py`, `execution.py`) | Batches, Worker Attempts, Work Item Leases with fences | `register_batch`, `register_attempt`, `claim`, `complete`, `release`, `expire`, `restart`, and replays of all of them | replay of a call whose answer was lost; a lapsed owner and its successor; a Work Item that gets a new Version while leased; a wall clock that steps back |
| Triage Work Items (`increment6/work_items.py`) | Versions and heads of Work Items, their retrieval | `create_or_replay`, new Versions | the store above reads the head, which moves |
| Native triage driver (`control_plane/native_triage.py`, `native_cycle.py`, `native_pipeline.py`) | the pipeline journal | create, batch, attempt, claim, complete, persist in six transactions, repeated from the start after a crash | a crash between any two calls; inputs of the replay (citation, retrieval) that changed meanwhile |
| Cycle governor (`control_plane/cycle_governor.py`) | the lease of the one governed unit, its cooldown, the streak, the CONT writer circuit, health probes | `claim`, `renew`, `complete`, `fail_ambiguous`, `release_with_health_probe` (three transactions), operator reset | clocks read before the write lock; decisions on a snapshot taken at claim; a probe that overlaps a new failure |
| Graphiti event queue (`control_plane/graphiti_events.py`, repair and bounded supply) | one row per landed revision, circuit, checkpoint | reconciliation, claims, `process_one`, recovery, repair, supply, health | takeover of a lapsed claim while its owner dispatches; when the checkpoint may pass a revision; retry without end |
| Operational queue (`increment8/operations.py`) | due work, leases per attempt, retry Findings | `append_work`, `append_lease`, `close_lease_and_transition`, `append_retry_finding`, reconciliation of leaks, `due_work` | instants are the caller's; renewals that add up; capacity under concurrent writers; legacy rows |
| Graphiti ingest (`control_plane/cycle.py` `_ingest`, spend rows of `store.py`) | spend reservations, attempt receipts, ingested units, failure counts | reserve, claim, dispatch, settle, give back, re-enter | a call that was paid and not settled; two workers on one attempt; the sum at its ceiling |
| Neo4j mutation guard (`graphiti_adapter/neo4j_guard.py`, `real.py`, `combined_temporal_pipeline.py`) | ingest markers, the owner of the generation, snapshots | claim, snapshot, mutate, seal, roll back, take over | every query is a transaction of its own; sessions die or outlive their lease in the middle of pages of writes |
| Control-plane ledger (`control_plane/store.py`) | digest chain | append | concurrent appends |
| Authority event store and projections (`authority/`) | event streams, outbox, checkpoints | optimistic append, projection | concurrent appends, projection restarts |
| Handoffs, dispositions, scheduling (`increment6/`) | append-only heads | submit, acknowledge, supersede | lost acknowledgements |
| Private serving, transport (`increment10/`), shadow controller (`increment9/`) | epochs, replay protection | serve, publish, advance an epoch | replays, stale epochs |

How they interact. The native pipeline calls the native cycle for one revision
at a time; the cycle calls the triage driver, which calls the Work Item store,
the execution store and the disposition store in turn, each call a transaction
of its own. The ledger feeds the Graphiti event queue: a landed revision gets a
queue row only when some claim, repair or health call reconciles it. Governed
units run under the cycle governor; whether the writer may dispatch is decided
from the circuit snapshot in the lease. What the evaluation cycle and the event
workers dispatch goes through the ingest loop, which reserves its worst cost
first, and through the adapter, whose guard makes each episode atomic in Neo4j;
the loop learns from the guard's journal how an attempt ended that nobody
settled. `PROJECT.json` lists every component,
the hazards with their lines, and the properties that watch them.

What makes each part correct, in a sentence: the execution store has at most
one current owner of a Work Item and a total order of all owners; the driver
never disposes of work that its lease does not vouch for; governed units never
overlap or start early and the circuit says why it is open or closed; a finished
revision stays finished and no held one is passed by the checkpoint; an episode is in the
graph as a whole or not at all; what a provider charged is counted against the
ceiling and a sealed result is paid for once; and the
operational queue never oversubscribes the host, never leaks a place and keeps
retries within their number, spacing and horizon.

## 2. The modules

| Module | Models |
|---|---|
| `TriageExecution` | the execution store, over the heads of Work Items |
| `TriageExecutionProofs` | its theorems |
| `NativeTriage` | the driver, composed with the store by `EXTENDS TriageExecution` |
| `NativeTriageProofs` | its theorems, among them that it implements the store's specification |
| `CycleGovernor`, `CycleGovernorProofs` | the governor and its theorems |
| `GraphitiEventQueue`, `GraphitiEventQueueProofs` | the event queue and its theorems |
| `OperationalQueue`, `OperationalQueueProofs` | the operational queue and its batch selection, and their theorems |
| `AtomicEpisodes` | what the mutation guard promises: episodes applied in one indivisible step |
| `MutationGuard`, `MutationGuardProofs` | the guard's journal and its sessions, and its theorems, among them that it implements `AtomicEpisodes` |
| `GraphitiIngest`, `GraphitiIngestProofs` | the ingest loop over the spend ledger, with the adapter as the guard leaves it, and its theorems |
| `MC*` | instances for TLC |

Conventions. A public operation is one action, because it is one transaction;
an operation of several transactions is several actions with the caller's place
in a variable (`at`, `held`, `probing`, `job`). A refused call rolls back and is a
stuttering step, unless the refusal itself writes (`ClaimRefused` of the
governor, which keeps `last_observed_utc`). A digest is replaced by the content
it identifies. Definitions named `X_Something` next to a definition `X` are
plausible mistakes in `X`; no specification uses them. They show which mistake
each property would notice.

**TriageExecution.** Variables `batches`, `attempts` and `leases` are the three
tables; `head` and `usable` are what the store reads of a Work Item; `now` is the
wall clock, which `ClockAdvance` and `ClockStepBack` move; `answers` is history,
what the calls returned. The identity of an attempt is its Work Item Version and
the chain of requests that led to it, exactly what its digest covers, so replays
are recognised as the code recognises them. `VerifyIntegrity` is the check the
store makes when it is reopened (`_verify_integrity`).

**NativeTriage.** `at` is the call the running turn makes next; a turn goes
create, batch, attempt, claim, complete, persist. `Crash` returns to `idle`
and leaves what was committed; `Refused` is a call the store rejects, which the
pipeline journals as RETRIEVAL_HOLD and retries. Every turn rebuilds its inputs:
`Recite` changes the Candidate citation from which the request is made; `Retrieve`
changes whether the turn's retrieval comes out as the one the Version was created
with (`rebuilt`), and when it does not, `Create` of a Work Item that has a head is
refused ("Work Item replay diverges", `CreateAccepts`). `UpstreamMoves` changes
whether the Version's retrieval is still current in the store. The calls of the driver are the actions of
`TriageExecution`, conjoined with the driver's own state.

**CycleGovernor.** Every operation takes any instant `t`, because the code reads
the clock before it waits for the lock; what orders operations is the retained
`lastSeen`. A row of `cycles` keeps the circuit and streak of its claim, the
snapshot `complete` decides on. `release_with_health_probe` is `ProbeReserve`,
`ProbeTerminal`, `ProbeRelease`, or `ProbeAbandon` if the prober dies.

**GraphitiEventQueue.** A row's timestamp is the flag `due`, and what a caller
sees of it is a parameter (a stale clock sees less). `job[w]` is the place of a
worker in `process_one`. A claim is one transaction that reconciles new
revisions, recovers lapsed claims, buries damaged rows and takes the first due
row, and it is one action; an exact claim (`ClaimExact`), the one the shipped worker
makes, neither reconciles nor recovers. Two more callers share the rows: the event repair,
which can hold a revision back for good, and the bounded supply.

**OperationalQueue.** `lease[w]` and `finding[w]` are sequences indexed by
attempt, the latest version of each. Every operation rechecks the rows it read
inside its transaction, so it is one step on the latest rows. The store reads no
clock; each action takes any instant. `Legacy` is work that an earlier version of
the code may have left with a leaked lease; those rows are inputs (the code and its tests
handle them explicitly), in the three shapes of `LegacyShapes`. `due_work` is the
selection as a pure operator on the state; `FairBatch` states what the batch
must be without using its construction.

**MutationGuard.** `marker` and `owner` are the marker nodes and what the
generation node names; `graph` has one object per episode and the ones that were
there before, each absent, clean or changed by an attempt that does not own it
(`drift`); `snap` holds the pages of each snapshot. `fence` is the worker whose
open transaction holds the lock of the generation node; pages written behind it
are steps of their own and survive the worker. `pc` and `sess` are a session's
place and its guard object. A session starts on the marker `_add_episode` chooses
(`GuardsFor`), reads, claims or takes it over, and ends sealed, rolled back,
refused or dead. `Expire` is the 15-minute lease. `Reliable` is the refinement
mapping: the snapshot while an attempt can still be rolled back, the graph
otherwise.

**GraphitiIngest.** `spend`, `receipt`, `ingested` and `fails` are the tables of
the ledger; `journal` is the adapter's marker of each unit, what `MutationGuard`
leaves visible. A worker goes through `pick`, `read` (its attempt number is
known, its row not yet reserved), `reserved`, `claimed` (behind the fence),
`calling`, `called` and `settle`; each is a transaction or a call. `charged` is
history, what the provider took for each attempt; `shared` is history, the
attempts that were claimed again while another worker that had reserved or claimed
them was alive and not through with them.

## 3. The runs

| Run | States | Checks |
|---|---|---|
| `triage` | 101 k | attempts of a Version never fork (`SingleLineage`), repeated calls agree with each other and the lease (`AnswersAgree`), fences order all owners across Versions, the current owner holds the newest (`FencesTotallyOrdered`), every state passes the reopening check (`VerifyIntegrity`), a restarted worker can no longer act (`SupersededWorkerCannotAct`), stale Versions never advance (`StaleWorkIsFrozen`) |
| `native_triage` | 609 k | dispositions are those of the proposal that completed the lease, whatever was cut short and repeated (`DisposedAsCompleted`); an item whose turns keep reaching the driver is disposed of unless its lease lapsed, its citation changed or its retrieval comes out differently (`DriverStrandsOnlyByChange`, liveness) |
| `native_triage_crash` | violation | section 4 |
| `governor` | 409 k | units never overlap or start inside a cooldown (`NoEarlyStart`), a permission to dispatch stays true while the lease is active (`PermitIsCurrent`), probes keep their interval across openings (`ProbesSpaced`), the circuit row names its failure or its release (`CircuitIsExplained`), an ended cycle is final (`EndedCycleIsFinal`) |
| `graphiti_queue` | 65 k | a revision held after an attempt holds the checkpoint (`HeldEventsHoldCheckpoint`), two workers past `_start` of one revision make different attempts (`OneWorkerPerAttempt`), finished is final (`TerminalIsFinal`), a claim ends by its owner (`ClaimEndsByItsOwner`); liveness: if the operator keeps asking for the status, claims of dead workers are taken back (`LostClaimIsRecovered`) |
| `graphiti_checkpoint` | violation | section 4 |
| `operational_retry` | 276 k | a lease runs exactly while its work is LEASED (`LeaseMatchesWork`), retries keep class, spacing, number and horizon under any renewals (`RetryDiscipline`), outcomes that count were released with authority and orphans are quarantined (`OutcomeHasAuthority`) |
| `operational_batch` | 1.3 M | queue, reserve and host are never oversubscribed (`NoOversubscription`); the batch is ready, within its bound, serves the longest starved and keeps every higher class (`FairBatch`) |
| `operational_legacy_slot` | violation | section 4 |
| `mutation_guard` | 555 k | one owner of the generation, and only the holder of its token is behind the fence (`OneOwner`); a rollback can always finish exactly (`RollbackPossible`); the journal implements indivisible episodes (`EpisodesAreAtomic`, the refinement of `AtomicEpisodes`); compensations that are granted end with the attempt resolved, wherever it was interrupted (`GrantedCompensationResolves`, liveness) |
| `graphiti_ingest` | 2.7 M | the ledger counts at least what was charged (`ChargesAreCounted`) and stays within the ceiling (`CommittedWithinCeiling`), both unless an attempt was shared (section 4); re-entry never leaves an open attempt behind a newer one (`OneOpenAttempt`); ingested units are sealed, receipted and in order (`IngestedMeansSealed`); failures are counted once per settled attempt (`FailuresAreSettled`); a sealed success is never paid again (`SealedNeverCharged`) |
| `graphiti_ingest_shared` | violation | section 4 |

Each module also has one type invariant in one of its runs. Deadlock is not
checked where the system may come to rest: every lease ended and every bound
reached is a legitimate end.

## 4. What the runs refute

Four statements of the documents, tests or messages do not hold of the code.

* `CheckpointIsContiguous`: the checkpoint takes the maximum of the whole ledger
  when no row is open, and so passes revisions that landed but were not yet
  reconciled into rows (`graphiti_events.py:869`).
* `CrashIsRecoverable`: the driver never expires or restarts a lease; a crash
  between `claim` and `complete` that outlasts the lease leaves the item on
  RETRIEVAL_HOLD for ever (`native_triage.py:434`). `DriverStrandsOnlyByChange` shows
  that, of an item whose turns reach the driver, only this, a changed citation and a
  changed retrieval keep the driver from disposing.
* `SlotsRecoverable`: for legacy work on its second attempt whose first lease
  leaked, reconciling the leak (ORPHANED) makes the authority deadline of the
  running lease underivable, so that it can be closed in no way at all
  (`operations.py:1480`).
* `EveryCallIsLedgered`: re-entering an attempt cannot tell whether the worker that
  reserved it is dead. If it is alive and waiting for the fence, it gives the
  reservation back when the fence stays locked or the rights are gone, although the
  other worker has called the provider under it (`cycle.py:1521`): the charge is
  counted as zero and the ceiling can be passed. No fault is needed.
  For capped dispatch, `ChargesAreCounted` and `CommittedWithinCeiling` show that an
  attempt in two living hands (this one, or one whose claim lapsed under a stalled
  settlement) is the only way. The rows of uncapped native dispatch are in the same sum
  and are reserved without the comparison (`store.py:1403`), so they can pass the ceiling
  by themselves; they are not modelled (section 8).

Behaviours met on the way that no property is about (the last but one is at odds with a
docstring, the others contradict no document):

* a health probe reserved for one failure also releases a later one with the same
  reason, since only the reason string is compared (`cycle_governor.py:1043`);
* a cycle claimed under an open circuit that is released meanwhile writes OPEN and
  its old streak back (`cycle_governor.py:926`);
* a Graphiti worker that has lost its claim still opens the circuit
  (`graphiti_events.py:707`), recovery requeues a row whatever its attempt count
  (`:54`), and the shipped workers claim with `require_fresh` and so never take up a
  held event (`hermes_graphiti_worker.py:1820`);
* one refused triage call abandons the statuses behind it in `advance_native_cycle`
  (`native_cycle.py:175`), which the pipeline avoids by passing one at a time;
* `due_work` ignores the deadline, so expired work keeps its place until closed
  (`operations.py:1806`), and a retry may be acquired at an instant before the closure
  of the attempt it retries (`:1303`);
* the retrieval of a revision is retained together with the rights inventory of the whole
  journal; when any document or any right changes, it is made again
  (`native_retrieval.py:136`), and if it comes out differently `create_or_replay`
  refuses the item that already has a Version (`work_items.py:2134`), although the class
  says "retain the exact first completed context" (`native_retrieval.py:73`);
* owned compensation is for PENDING and ROLLING_BACK markers: an owner that died while
  SNAPSHOTTING or RECOVERING is taken over only by another attempt of the same episode
  (`neo4j_guard.py:343`). Nor is it certain for the two: it gives up unless
  `authenticated_input` finds the attempt's authority record, its landed native unit,
  current rights and time left (`real.py:359`, `control_plane/graphiti.py:1250`), and
  the record is committed only when the session has returned
  (`_graphiti_adapter_boundary.py:289`), so that a session that died is left alone, as
  "a group HOLD" (`graphiti.py:1309`). What is left then is another session of the same
  episode, for the attempt re-entered or for a later one; until one is dispatched the
  generation belongs to the dead one.

## 5. Bounds

* Triage: two attempts make a predecessor and its restart; two workers, requests and
  evidence digests are enough for every disagreement of two answers; two Versions
  and two Batches are enough for a head to move under a lease; TTL 1 and a clock that
  advances and steps back make leases live, lapse, and live again. Longer chains of
  attempts are covered by the proofs. Items do not interact in the store, so one is
  enough; the driver has two.
* Driver: one crash or refused creation, at every point of a turn, and two changes of a
  citation or a retrieval between turns, so that a retrieval can also come back to what
  it was. Two crashes add nothing to `DisposedAsCompleted`, which is
  proved for any number.
* Governor: three cycles (before, during and after an opening), two probes, two
  workers and one prober; cooldowns 1 and 2 and a probe interval 2 in six
  instants, so that every comparison is met, just met and missed.
* Graphiti queue: two ledger entries, one of which may be open while the other lands
  (the refuting run has three, with a settled one as well); two attempts give a retry
  and a last one; two faults let a takeover and its recovery both fail.
* Mutation guard: two processes and two episodes, so that a session meets the markers
  of its own episode and of another; one of them gets a second attempt, which gives
  takeover by a later attempt and a fresh retry marker; one object that was there
  before and may drift; one death or overrun lease, at every step and between any two
  pages; nine tokens, one more than markers and sessions can store at a time, so that a
  fresh one is left in every state (`TokenAssumption`).
* Ingest: two chunks of one revision, the second behind the first; two attempts of the
  first chunk and one of the second; a reservation of 2, calls that cost 0 or 1 and a
  ceiling of 4, so that a third reservation fits only when another was settled for
  less; two failures to dead-letter; one crash or lapsed claim. The sharing run needs
  no fault. More workers, units, attempts and faults are covered by the proofs.
* Operational queue: lease 2, renewal 2, maximum 3, backoffs 1 and 2, horizon 6
  and ten instants give first and later renewals, a backoff at, before and past
  the horizon, and three attempts; the one work is new or left with a leak. Only
  RETRYABLE is told apart from the other classes of failure, so two classes stand
  for four. The batch run has five works in three classes for three places of the
  queue, one reserved, two of the host and two slots of the batch, so that every
  limit is met and exceeded by one more caller, and a starved work meets a batch
  with a routine slot, with two slots of one class and with two unique ones. Its
  callers pass one instant, the last: what competes is the order of the calls,
  and the batch at an earlier instant is that of a smaller queue. Its retry comes
  from a legacy row, since in one instant no failure can wait for its backoff.

Symmetry is used over workers, requests and evidence, in runs without liveness
properties.

## 6. Fairness

A specification assumes only what the code or the clock does by itself. What takes an
operator, another process or a grant is a hypothesis of the property, in its formula.

* `graphiti_queue`: leases and hold times run out (weak fairness of `Elapse`), nothing
  else. No process of the repository polls this queue: the shipped worker makes one
  exact `require_fresh` claim per invocation (`hermes_graphiti_worker.py:2250`), and an
  exact claim neither reconciles nor recovers (`graphiti_events.py:484`, `:523`). That
  every landed revision is settled is therefore no property: nothing in the code brings
  it about.
  Lapsed claims are taken back by `health`, the operator's status command:
  `LostClaimIsRecovered` assumes that it is run again and again (`StatusIsAskedFor`) and
  shows that nothing else is needed, wherever the worker died.
* `native_triage`: a turn that has begun makes its next call (weak fairness of `Call`).
  A turn may never come to the driver: the tick may run out of time before it, and
  discovery, retrieval, scheduling and the collision check may hold it
  (`native_cycle.py`). `DriverStrandsOnlyByChange` therefore speaks of items for which
  `ReachesDriver` holds (strong fairness of `Begin`, because the one pipeline process is
  busy with other items in between), and whose upstream settles. `native_triage_crash`
  assumes it of all items (`FairTurns`), which is the best case for the recovery that the
  run refutes. No fairness is assumed of the clock, of crashes, of the upstream or of
  the changes.
* `mutation_guard`: a session that runs makes its next step (weak fairness of `Step`,
  which leaves out failing and dying), and leases run out. That owned compensation is
  granted again and again is the hypothesis `CompensationIsGranted` of
  `GrantedCompensationResolves` (strong fairness, because the generation may be held by
  someone else when it comes round). The code does not see to it: a tick tries it only
  if it has pending units, and it is refused as section 4 says. What the property shows
  is that nothing in the journal itself stands in the way: no marker, snapshot or
  half-restored page makes each compensation fail in turn. No fairness is assumed of new
  sessions, new attempts or of failures.

## 7. The proofs

Every safety property of the passing runs, invariant or action property, is a theorem
(`PROJECT.json` lists which), and so are the two refinements. Constants carry only the
assumptions named in their modules: positive bounds and durations, that `None` is not a
value, and

* `ProfileAssumption`, `LegacyAssumption` (`OperationalQueue`): the frozen profile is
  coherent (the reserve is part of the capacity, a lease is not longer than the longest),
  and the rows an earlier version of the code left are within the limits that version
  also kept;
* `TokenAssumption` (`MutationGuard`): a fresh uuid4 can always be drawn;
* `CorpusAssumption` (`GraphitiIngest`): the corpus is finite, without which its total
  means nothing;
* `IngestAssumption` (`GraphitiIngest`): a call costs at most what was reserved for it
  (`Costs \subseteq 0 .. R`). The code does not see to this, a settlement stores whatever
  cost was reported (`store.py:1560`); it rests on the reservation being the worst case,
  as the decision on the ceiling has it. `ChargesAreCounted` and the ceiling need it.

All theorems hold for any sets of items, workers and requests and any bounds. Each
proof finds an inductive invariant, proves that `Init` gives it and every action keeps
it (one lemma or step per action), and reads the properties off it.

* **Store** (`IInv` of `TriageExecutionProofs`). None of the properties is
  inductive. The fence order needs that the fences of an item are exactly
  `1..k`, so that the next one is new and larger; the lineage needs that a
  predecessor has ended before its successor is registered and that members of a
  Batch exist; agreement of answers needs how each answer relates to its lease.
  `StepInv` states the induction step alone, for reuse. `MutualExclusion`,
  `FenceOrder`, `ReopenAccepts`, `LineageIsLinear`, `AnswersAreConsistent`
  follow; `SupersededIsInert` and `StaleIsFrozen` are action properties.
* **Driver** (`DInv`). `DriverImplementsStore`: every step of the driver is a step
  of the store or leaves it alone, so `DriverSpec => Spec` and each theorem of the
  store holds below the driver. `ReplayDisposesOnce` adds that the driver
  registers first attempts only, that a lease is completed with the evidence its
  own attempt determines, and that `persist` is reached only behind a completed
  lease of the same turn.
* **Governor**. The properties need that every recorded instant is at most
  `lastSeen`, that only the newest cycle can be ACTIVE, that the cooldowns of all
  ended cycles are over at `next`, and that a prober on its way to release has
  recorded a passed probe. With arbitrary clocks these are what keeps order.
* **Graphiti**. The invariant for the first three properties is about each row on its
  own; its one addition is that a claimed row has a sound manifest, which excludes that
  a claim buries a row another worker holds. `AttemptsAreNotShared` relates workers to
  rows (`AttemptInv`): the attempt of a worker past `_start` is at most its row's count,
  which only `_start` changes and only upwards, so that a new attempt is above those of
  all workers still out there; a recovery, a repair or an upsert leaves it alone.
* **Operational queue** (`IInv` of `OperationalQueueProofs`). No operation touches the
  rows of two works, so the invariant is a predicate `RowOK` on the work row, the leases
  and the findings of one work, and each operation has a lemma on values: rows that
  satisfy `RowOK` and the guard are rewritten to rows that satisfy it. `RowOK` adds to the
  properties that a Finding keeps the backoff and the class of the attempt it was built
  for (`FindingsSound`), that a lease has its own maximum, which renewals obey
  (`LeaseBounded`), and that a leaked lease of an earlier version is never released, so
  that its work never looks corrected (`LeakStays`). The limits relate all works and
  are proved apart, by counting. `BatchIsFair` needs no invariant but the types: the order
  of `ready.sort` is strict and total, so counting what precedes a work gives it its
  place, the sorted sequence exists, and its first places are what the property calls
  `first`. A slot that is given away was a routine one or one of several of its class.
* **Mutation guard** (`MutationGuardProofs`). A session acts on what it read long before,
  so the invariant relates each place of a session to the marker, the owner and the
  snapshot as they are now: either the token it holds is current, and then they are what
  that place promises (`SessionOK`), or it is not, and then no guard of its next step can
  hold. It adds that markers and attempts of an episode follow each other (`ChainOK`),
  that a snapshot with pages belongs to a marker of its attempt (`SnapOwned`) and what the
  graph and the snapshot hold in each state of the owner's marker (`GraphOK`). `OneOwner`
  and `RollbackPossible` follow. For the refinement (`JournalIsAtomic`), `Reliable` is
  shown to be a function of the markers alone (`Base`): the existing objects and those of
  the sealed episodes, clean, and no others; hence a step that seals nothing leaves it,
  and one that seals changes exactly the object of its episode.
* **Ingest** (`IInv` of `GraphitiIngestProofs`, sixteen conjuncts). That charges are
  counted says nothing about who will still write a row, so the invariant follows an
  attempt through its holders: two of them, one past the claim, make it shared
  (`HoldersOK`); hence an attempt that is not shared is found at its settlement as the
  claim left it (`ClaimsOK`), a reservation that can still be given back was not
  charged for (`UnusedOK`), and what a settlement will write covers the charge
  (`SettlesOK`), be it a result of its own or one replayed from another attempt, since
  charges stop at the attempt the journal names (`JournalOK`) and rows have no gaps and
  no open one but the last (`RowsOK`, with `ReadOK` for the number that was read
  before the transaction). The proof is for any number of workers, units, attempts and
  faults; it showed that the exception of `ChargesAreCounted` has to include claims
  that lapse under a worker which has yet to settle, a case that takes two faults
  and that the instance of the run does not have. `SealedNeverCharged` is an action
  property. The ceiling (`WithinCeiling`) is about a total over all rows, a fold, and no
  induction over sets is available: the total is shown to be the number of elements of a
  set of cells, as many for each attempt as it is worth. The counting satisfies the
  equation that defines the fold, and two solutions of it cannot differ, since a smallest
  set on which they do would give a smaller one. After that every step is a comparison of
  two sets: a reservation adds what it checked, everything else adds nothing.

Only model-checked:

* all liveness (`LostClaimIsRecovered`, `DriverStrandsOnlyByChange`,
  `GrantedCompensationResolves`), since fairness and ENABLED are beyond the prover used.

No module here needs a recursive operator.

## 8. Not modelled

* Canonical encoding, digests and authentication: content identity and a set of
  identities stand for them.
* What providers, Graphiti, Neo4j and the network do: an outcome chosen by the
  environment.
* The bounded canary's claim authority in the event queue, the migration of
  legacy probe rows in the governor, the counters and ledger entries that only
  report.
* The stages of the native cycle before the driver (discovery, retrieval, scheduling,
  collision), of which only what they hand to the driver is modelled, and those after the
  dispositions.
* The conditions under which `authenticated_input` grants an owned compensation: in
  `OwnedRecovery` it may be granted at any time, or never.
* Profiles, quarantine records and Handoff anchors of `increment8/operations.py`,
  which no operation of the queue reads, and the clocks of its callers.
* The uncapped dispatch of native sources in `_ingest`, which has a fence of its own and
  gives dead-lettered units credits, and the rest of `cycle.py`: the writer, its budget
  and the command service.
* What `add_episode` writes into Neo4j beyond one object per episode, and the
  extraction stages before it; the guard sees pages of writes and nothing of their
  contents.
* The other components, each with its reason, in `PROJECT.json`: pure policies
  and validators, network I/O, static proof documents, one-off migrations.

The repository has close to 400 000 lines of implementation, most of them contracts,
validators, SQL migrations with their verification, increment proofs and one-off
dispositions, whose state is one append-only insert behind checks of its own content. The
models take the parts in which several processes, crashes or clocks meet; they stand for
about 8 300 lines, a third of the files they are about and 2 % of the whole.

## 9. The plan

Done: the store, the governor, the event queue, the driver over the store, the
operational queue, the mutation guard with its abstract specification, and the ingest
loop with its reservations, and for each of them the proofs of its safety properties.
Next, in this order:

1. `EventStore`: optimistic append and outbox of `authority/_event_store_commit.py`,
   with an abstract append-only stream that it implements, and a projection over
   it (`_projection_store.py`) whose checkpoint is contiguous.
2. `Handoffs` (`increment6/handoffs.py`): submission, lost acknowledgement, retry
   and its bound; at most one accepted submission.
3. The composition of `GraphitiEventQueue`, `GraphitiIngest` and `MutationGuard`: the
   journal of the ingest loop is what the guard leaves visible, and the queue's
   outcomes are those of the loop.
4. `Scheduling` (`increment6/scheduling.py`) as a pure algorithm against its
   reference definition, and `Dispositions`, replacing the abstract `Persist` of
   `NativeTriage`.
5. `Transport` and `PrivateServing` (`increment10/`): replay protection across
   restarts; `ShadowController` (`increment9/`): epochs.
6. An abstract lease (owner, fence, ended) that `TriageExecution`,
   `GraphitiEventQueue` and `OperationalQueue` each implement.
