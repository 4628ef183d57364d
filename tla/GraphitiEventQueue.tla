------------------------- MODULE GraphitiEventQueue -------------------------
(***************************************************************************)
(* The queue that projects landed source revisions into Graphiti, one      *)
(* event per ledger entry (newsroom/control_plane/graphiti_events.py),     *)
(* with the two callers that project an exact event: the event repair      *)
(* (graphiti_event_reconciliation.py) and the bounded supply               *)
(* (issue_790_event_supply.py).                                            *)
(*                                                                         *)
(* Time is the flag due of a row: available_at has passed when the row     *)
(* waits, claim_expires_at has passed when it is claimed.  It is cleared   *)
(* when the timestamp is written and set by Elapse.  A caller reads the    *)
(* clock before it gets the write lock, so it may see only some of what is *)
(* due: that is the parameter seen of an operation.                        *)
(*                                                                         *)
(* The faults the queue retries without limit are drawn from a budget; the *)
(* ordinary failures, limited by max_attempts, are not.                    *)
(***************************************************************************)
EXTENDS Integers

CONSTANTS
    Workers,      \* processes that run process_one, each under its own owner_id
    None,         \* no owner, no event
    MaxAttempts,  \* max_attempts
    MaxSeq,       \* bound: entries of the ledger
    MaxFaults     \* bound: crashes, overrun leases, systemic failures, gate holds

ASSUME GraphitiEventQueueAssumption ==
    /\ None \notin Workers \cup Nat
    /\ MaxAttempts \in Nat \ {0}
    /\ MaxSeq \in Nat
    /\ MaxFaults \in Nat

VARIABLES
    head,        \* MAX(seq) of the ledger
    landed,      \* sequence numbers of EFFECTIVE_REVISION_LANDED entries
    held,        \* landed revisions the event repair holds back for good
    events,      \* events[s]: the row of ledger entry s
    circuit,     \* "CLOSED", "OPEN", or "DUE": open, and available_at has passed
    checkpoint,  \* ledger_seq of the checkpoint row
    job,         \* job[w]: where w is inside process_one
    faults       \* faults so far

vars == <<head, landed, held, events, circuit, checkpoint, job, faults>>

-----------------------------------------------------------------------------
Seqs == 1..MaxSeq

Waiting == {"QUEUED", "RETRY_HELD", "RIGHTS_HELD"}
Claimed == {"CLAIMED", "RUNNING"}
Settled == {"TERMINAL", "DEAD_LETTER", "CONFIGURATION_HELD"}

\* attempts stands for attempt_count up to max_attempts, the only value it is
\* compared with; bound for unit_count > 0; valid for a manifest that matches
\* its digest.  A ledger entry without a row is ABSENT.
Row == [state : Waiting \cup Claimed \cup Settled \cup {"ABSENT"},
        attempts : 0..MaxAttempts, owner : Workers \cup {None},
        due : BOOLEAN, bound : BOOLEAN, valid : BOOLEAN]

Absent == [state |-> "ABSENT", attempts |-> 0, owner |-> None,
           due |-> FALSE, bound |-> FALSE, valid |-> TRUE]

\* ending is the state the worker will record after it has opened the circuit.
Phases == {"idle", "claimed", "running", "dispatching", "ending"}
Job == [phase : Phases, event : Seqs \cup {None}, attempt : 0..MaxAttempts,
        ending : {"RETRY_HELD", "CONFIGURATION_HELD"}]

Idle == [phase |-> "idle", event |-> None, attempt |-> 0, ending |-> "RETRY_HELD"]

\* The claim columns are set exactly while a row is claimed, and a worker in
\* process_one has an event that has a row.
TypeOK ==
    /\ head \in 0..MaxSeq
    /\ landed \subseteq 1..head
    /\ held \subseteq landed
    /\ events \in [Seqs -> Row]
    /\ \A s \in Seqs : events[s].state \in Claimed <=> events[s].owner # None
    /\ \A s \in Seqs : events[s].state # "ABSENT" => s \in landed
    /\ circuit \in {"CLOSED", "OPEN", "DUE"}
    /\ checkpoint \in 0..head
    /\ job \in [Workers -> Job]
    /\ \A w \in Workers : (job[w].phase = "idle") = (job[w].event = None)
    /\ faults \in 0..MaxFaults

-----------------------------------------------------------------------------
(* The ledger (external to the queue): entries of its kind, and of others. *)

Land ==
    /\ head < MaxSeq
    /\ head' = head + 1
    /\ landed' = landed \cup {head + 1}
    /\ UNCHANGED <<held, events, circuit, checkpoint, job, faults>>

AppendOther ==
    /\ head < MaxSeq
    /\ head' = head + 1
    /\ UNCHANGED <<landed, held, events, circuit, checkpoint, job, faults>>

\* A stored manifest is damaged from outside, while no worker has read it.
Corrupt(s) ==
    /\ events[s].state \in Waiting
    /\ events[s].valid
    /\ faults < MaxFaults
    /\ faults' = faults + 1
    /\ events' = [events EXCEPT ![s].valid = FALSE]
    /\ UNCHANGED <<head, landed, held, circuit, checkpoint, job>>

\* available_at or claim_expires_at passes.  A lease that its worker still
\* works under overruns only within the budget.
Elapse(s) ==
    LET live == \E w \in Workers : events[s].owner = w /\ job[w].event = s IN
    /\ events[s].state \in Waiting \cup Claimed
    /\ ~events[s].due
    /\ events' = [events EXCEPT ![s].due = TRUE]
    /\ live => faults < MaxFaults
    /\ faults' = IF live THEN faults + 1 ELSE faults
    /\ UNCHANGED <<head, landed, held, circuit, checkpoint, job>>

ElapseCircuit ==
    /\ circuit = "OPEN"
    /\ circuit' = "DUE"
    /\ UNCHANGED <<head, landed, held, events, checkpoint, job, faults>>

-----------------------------------------------------------------------------
(* reconcile_graphiti_events and _recover_expired_claims.                  *)

\* ON CONFLICT ... WHERE unit_count=0 AND excluded.unit_count>0.
ConflictUpdates_Always(row, bound) == row.state # "ABSENT"

ConflictUpdates(row, bound) == row.state # "ABSENT" /\ ~row.bound /\ bound

Inserted(bound) == [state |-> "QUEUED", attempts |-> 0, owner |-> None,
                    due |-> TRUE, bound |-> bound, valid |-> TRUE]

\* One upsert.  The claim columns of a row it updates are left alone.
Upsert(row, bound) ==
    IF row.state = "ABSENT"
    THEN Inserted(bound)
    ELSE IF ConflictUpdates(row, bound)
    THEN [row EXCEPT !.state = "QUEUED", !.due = TRUE, !.bound = bound, !.valid = TRUE]
    ELSE row

\* Without units, as claim and health call it: every landed revision that is
\* not held back.
Reconciled ==
    [s \in Seqs |-> IF s \in landed \ held THEN Upsert(events[s], FALSE) ELSE events[s]]

\* The claims a recovery takes back; the seeded fault takes back only those
\* whose worker had not started.
Expired_NotStarted(row) == row.state = "CLAIMED" /\ row.due

Expired(row) == row.state \in Claimed /\ row.due

\* A row keeps its attempt_count; the seeded fault gives it its attempts back.
Recover_Afresh(ev, seen) ==
    [s \in Seqs |-> IF Expired(ev[s]) /\ s \in seen /\ s \notin held
                    THEN [ev[s] EXCEPT !.state = "QUEUED", !.owner = None, !.attempts = 0]
                    ELSE ev[s]]

Recover(ev, seen) ==
    [s \in Seqs |-> IF Expired(ev[s]) /\ s \in seen /\ s \notin held
                    THEN [ev[s] EXCEPT !.state = "QUEUED", !.owner = None]
                    ELSE ev[s]]

\* What a caller that saw these timestamps pass works on: a row it has itself
\* just inserted is available at its own reading of the clock.
Scan(seen) == Recover(Reconciled, seen)

InScan(seen, s) == s \in seen \/ events[s].state = "ABSENT"

Health(seen) ==
    /\ events' = Scan(seen)
    /\ UNCHANGED <<head, landed, held, circuit, checkpoint, job, faults>>

-----------------------------------------------------------------------------
(* claim                                                                   *)

Claimable(seen) ==
    {s \in Seqs : /\ Scan(seen)[s].state \in Waiting
                  /\ Scan(seen)[s].due
                  /\ InScan(seen, s)
                  /\ s \notin held}

Dead(row) == [row EXCEPT !.state = "DEAD_LETTER", !.owner = None, !.due = FALSE]

Taken(row, w) == [row EXCEPT !.state = "CLAIMED", !.owner = w, !.due = FALSE]

TakesUp(w, s) ==
    job' = [job EXCEPT ![w] = [phase |-> "claimed", event |-> s, attempt |-> 0,
                               ending |-> "RETRY_HELD"]]

\* The circuit is open at the caller's reading: only the reconciliation stays.
ClaimBlocked ==
    /\ circuit # "CLOSED"
    /\ events' = Reconciled
    /\ UNCHANGED <<head, landed, held, circuit, checkpoint, job, faults>>

\* The oldest sound event is claimed, the damaged ones before it are dead
\* letters; an open circuit whose time has passed is closed.
Claim(w, s, seen) ==
    /\ job[w].phase = "idle"
    /\ circuit \in {"CLOSED", "DUE"}
    /\ s \in Claimable(seen)
    /\ Scan(seen)[s].valid
    /\ \A r \in Claimable(seen) : r < s => ~Scan(seen)[r].valid
    /\ circuit' = "CLOSED"
    /\ events' = [r \in Seqs |->
                    IF r = s THEN Taken(Scan(seen)[r], w)
                    ELSE IF r \in Claimable(seen) /\ r < s THEN Dead(Scan(seen)[r])
                    ELSE Scan(seen)[r]]
    /\ TakesUp(w, s)
    /\ UNCHANGED <<head, landed, held, checkpoint, faults>>

\* No sound event is left: the damaged ones are dead letters all the same.
ClaimNothing(seen) ==
    /\ circuit \in {"CLOSED", "DUE"}
    /\ \A s \in Claimable(seen) : ~Scan(seen)[s].valid
    /\ circuit' = "CLOSED"
    /\ events' = [s \in Seqs |-> IF s \in Claimable(seen)
                                 THEN Dead(Scan(seen)[s]) ELSE Scan(seen)[s]]
    /\ UNCHANGED <<head, landed, held, checkpoint, job, faults>>

\* claim with an exact event_id: neither reconciliation nor recovery, and the
\* row alone decides.  require_fresh asks for an untouched event.
ClaimExact(w, s, fresh) ==
    /\ job[w].phase = "idle"
    /\ circuit \in {"CLOSED", "DUE"}
    /\ s \notin held
    /\ events[s].state \in Waiting
    /\ events[s].due
    /\ fresh => events[s].state = "QUEUED" /\ events[s].attempts = 0
    /\ circuit' = "CLOSED"
    /\ IF events[s].valid
       THEN /\ events' = [events EXCEPT ![s] = Taken(@, w)]
            /\ TakesUp(w, s)
       ELSE /\ events' = [events EXCEPT ![s] = Dead(@)]
            /\ UNCHANGED job
    /\ UNCHANGED <<head, landed, held, checkpoint, faults>>

\* An exact event that cannot be claimed: a circuit whose time has passed is
\* closed all the same.
ClaimExactNothing ==
    /\ circuit = "DUE"
    /\ circuit' = "CLOSED"
    /\ UNCHANGED <<head, landed, held, events, checkpoint, job, faults>>

-----------------------------------------------------------------------------
(* process_one after the claim.                                            *)

Return(w) == job' = [job EXCEPT ![w] = Idle]

\* The WHERE clause of _start, bind_resolved_units and _transition.
Owns_AnyOwner(w, s, state) == events[s].state = state

Owns(w, s, state) == events[s].state = state /\ events[s].owner = w

\* _start.  A claim that was taken back meanwhile ends the call with an error.
Start(w) ==
    LET s == job[w].event
        n == IF events[s].attempts < MaxAttempts THEN events[s].attempts + 1
             ELSE MaxAttempts
    IN
    /\ job[w].phase = "claimed"
    /\ IF Owns(w, s, "CLAIMED")
       THEN /\ events' = [events EXCEPT ![s].state = "RUNNING", ![s].attempts = n]
            /\ job' = [job EXCEPT ![w].phase = "running", ![w].attempt = n]
       ELSE Return(w) /\ UNCHANGED events
    /\ UNCHANGED <<head, landed, held, circuit, checkpoint, faults>>

\* _advance_checkpoint: up to the first row that is not TERMINAL, or to the end
\* of the ledger.  The seeded fault takes the states that wait for nothing more
\* than time for done.
Gaps_NotHeld(ev) == {s \in Seqs : ev[s].state \notin {"ABSENT", "TERMINAL", "RETRY_HELD", "RIGHTS_HELD"}}

Gaps(ev) == {s \in Seqs : ev[s].state \notin {"ABSENT", "TERMINAL"}}

Watermark(ev) ==
    IF Gaps(ev) = {} THEN head
    ELSE (CHOOSE s \in Gaps(ev) : \A r \in Gaps(ev) : s <= r) - 1

\* _transition.  It is refused, and the result lost, when the claim is.
Transition(w, state) ==
    LET s == job[w].event IN
    /\ IF Owns(w, s, "RUNNING")
       THEN /\ events' = [events EXCEPT ![s].state = state, ![s].owner = None,
                                        ![s].due = FALSE]
            /\ checkpoint' = Watermark(events')
       ELSE UNCHANGED <<events, checkpoint>>
    /\ Return(w)
    /\ UNCHANGED <<head, landed, held>>

\* The gate fails, or holds the event for its rights: neither counts against
\* max_attempts.
GateHolds(w, state) ==
    /\ job[w].phase = "running"
    /\ state \in {"RETRY_HELD", "RIGHTS_HELD"}
    /\ faults < MaxFaults
    /\ faults' = faults + 1
    /\ Transition(w, state)
    /\ UNCHANGED circuit

\* The gate allows: it binds the resolved units, and a lost claim makes that
\* fail and the call with it.
GateAllows(w) ==
    LET s == job[w].event IN
    /\ job[w].phase = "running"
    /\ IF Owns(w, s, "RUNNING")
       THEN /\ events' = [events EXCEPT ![s].bound = TRUE]
            /\ job' = [job EXCEPT ![w].phase = "dispatching"]
       ELSE Return(w) /\ UNCHANGED events
    /\ UNCHANGED <<head, landed, held, circuit, checkpoint, faults>>

\* What is recorded for an ordinary failure.
AfterFailure(attempt) ==
    IF attempt >= MaxAttempts THEN "DEAD_LETTER" ELSE "RETRY_HELD"

\* dispatch returns, or raises what is no route failure.
DispatchEnds(w, state) ==
    /\ job[w].phase = "dispatching"
    /\ state \in {"TERMINAL", "DEAD_LETTER", AfterFailure(job[w].attempt)}
    /\ Transition(w, state)
    /\ UNCHANGED <<circuit, faults>>

\* dispatch raises a systemic or a configuration failure: the circuit is opened
\* in a transaction of its own, whether or not the claim is still held.
OpenCircuit(w, ending) ==
    /\ job[w].phase = "dispatching"
    /\ ending \in {"RETRY_HELD", "CONFIGURATION_HELD"}
    /\ faults < MaxFaults
    /\ faults' = faults + 1
    /\ circuit' = "OPEN"
    /\ job' = [job EXCEPT ![w].phase = "ending", ![w].ending = ending]
    /\ UNCHANGED <<head, landed, held, events, checkpoint>>

RouteFails(w) ==
    /\ job[w].phase = "ending"
    /\ Transition(w, job[w].ending)
    /\ UNCHANGED <<circuit, faults>>

\* The process dies, or an exception process_one does not catch leaves it.
Crash(w) ==
    /\ job[w].phase # "idle"
    /\ faults < MaxFaults
    /\ faults' = faults + 1
    /\ Return(w)
    /\ UNCHANGED <<head, landed, held, events, circuit, checkpoint>>

-----------------------------------------------------------------------------
(* The callers that project an exact event.                                *)

Missing == {s \in landed \ held : events[s].state = "ABSENT"}

\* The event repair: every landed revision without a row is projected with its
\* units or held back, and the receipt becomes a ledger entry.
Repair(project) ==
    /\ head < MaxSeq
    /\ project \subseteq Missing
    /\ events' = [s \in Seqs |-> IF s \in project THEN Upsert(events[s], TRUE) ELSE events[s]]
    /\ held' = held \cup (Missing \ project)
    /\ head' = head + 1
    /\ UNCHANGED <<landed, circuit, checkpoint, job, faults>>

\* The bounded supply lands one revision and projects it in one transaction.
Supply ==
    LET s == head + 1 IN
    /\ head < MaxSeq
    /\ head' = s
    /\ landed' = landed \cup {s}
    /\ events' = [events EXCEPT ![s] = Upsert(@, TRUE)]
    /\ UNCHANGED <<held, circuit, checkpoint, job, faults>>

-----------------------------------------------------------------------------
Init ==
    /\ head = 0
    /\ landed = {}
    /\ held = {}
    /\ events = [s \in Seqs |-> Absent]
    /\ circuit = "CLOSED"
    /\ checkpoint = 0
    /\ job = [w \in Workers |-> Idle]
    /\ faults = 0

Due == {s \in Seqs : events[s].due}

Next ==
    \/ Land \/ AppendOther \/ Supply \/ ElapseCircuit \/ ClaimBlocked \/ ClaimExactNothing
    \/ \E s \in Seqs : Corrupt(s) \/ Elapse(s)
    \/ \E project \in SUBSET Missing : Repair(project)
    \/ \E seen \in SUBSET Due : Health(seen) \/ ClaimNothing(seen)
    \/ \E w \in Workers, s \in Seqs, seen \in SUBSET Due : Claim(w, s, seen)
    \/ \E w \in Workers, s \in Seqs, fresh \in BOOLEAN : ClaimExact(w, s, fresh)
    \/ \E w \in Workers : Start(w) \/ GateAllows(w) \/ RouteFails(w) \/ Crash(w)
    \/ \E w \in Workers, state \in {"RETRY_HELD", "RIGHTS_HELD"} : GateHolds(w, state)
    \/ \E w \in Workers, state \in {"TERMINAL", "DEAD_LETTER", "RETRY_HELD"} :
          DispatchEnds(w, state)
    \/ \E w \in Workers, ending \in {"RETRY_HELD", "CONFIGURATION_HELD"} :
          OpenCircuit(w, ending)

Spec == Init /\ [][Next]_vars

\* Time passes.  Nothing else is assumed: no consumer of the repository polls
\* this queue, its workers run once for one exact event.
Fairness == \A s \in Seqs : WF_vars(Elapse(s))

FairSpec == Spec /\ Fairness

-----------------------------------------------------------------------------
(* Safety.                                                                 *)

\* A revision that a worker attempted and that is held for a retry, for its
\* rights or for the operator keeps the checkpoint below it, whatever else
\* finishes around it.
HeldEventsHoldCheckpoint ==
    \A s \in Seqs :
        events[s].state \in {"RETRY_HELD", "RIGHTS_HELD", "CONFIGURATION_HELD"}
        => checkpoint < s

\* What a contiguous checkpoint means: every landed revision up to it, unless
\* the repair has held it back, is done.
CheckpointIsContiguous ==
    \A s \in landed \ held : s <= checkpoint => events[s].state = "TERMINAL"

\* Nothing reopens a finished revision: not a late worker, not a recovery, not
\* one of the reconciliations that upsert its row on every claim.
TerminalIsFinal ==
    [][\A s \in Seqs : events[s].state = "TERMINAL" => events'[s] = events[s]]_vars

\* A claim ends in an outcome only by the worker that holds it.  A worker whose
\* lease was taken over while it dispatched cannot end its successor's claim.
ClaimEndsByItsOwner ==
    [][\A s \in Seqs :
          /\ events[s].state \in Claimed
          /\ events'[s].state \notin {"CLAIMED", "RUNNING", "QUEUED"}
          => \E w \in Workers : /\ events[s].owner = w
                                /\ job[w].event = s
                                /\ job'[w] = Idle]_vars

Started(w) == job[w].phase \in {"running", "dispatching", "ending"}

\* Every attempt of a revision is made by one worker.  Lapsed leases may leave
\* several workers past _start for the same revision, but each counted a new
\* attempt, so the first one, which is all that require_fresh lets a worker of
\* the repository make, is dispatched at most once.  (From max_attempts on the
\* model keeps no number.)
OneWorkerPerAttempt ==
    \A v, w \in Workers :
        /\ v # w
        /\ Started(v) /\ Started(w)
        /\ job[v].event = job[w].event
        /\ job[v].attempt = job[w].attempt
        => job[v].attempt = MaxAttempts

-----------------------------------------------------------------------------
(* Liveness.                                                               *)

\* The operator's status command, the one caller of health, is run again and
\* again.
StatusIsAskedFor == WF_vars(Health(Due))

Lost(s) ==
    /\ events[s].state \in Claimed
    /\ \A w \in Workers : events[s].owner = w => job[w].event # s

\* A claim whose worker is gone is taken back by asking for the status: if the
\* operator keeps doing so no revision stays with a dead worker, whether it
\* died before or after _start.
LostClaimIsRecovered == StatusIsAskedFor => \A s \in Seqs : Lost(s) ~> ~Lost(s)

=============================================================================
