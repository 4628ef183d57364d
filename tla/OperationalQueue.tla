--------------------------- MODULE OperationalQueue ---------------------------
(***************************************************************************)
(* The operational queue of increment 8 (newsroom/increment8/operations.py,*)
(* class OperationalAuthority): due work, the leases that workers take on  *)
(* it, the retry Findings they leave, and the batch due_work offers them.  *)
(*                                                                         *)
(* Rows are append-only, chained by digests.  Every operation first builds *)
(* its record from the rows it read and then, inside BEGIN IMMEDIATE,      *)
(* compares those rows with the latest ones and gives up if they moved.  A *)
(* call is therefore one step on the latest rows, or it changes nothing.   *)
(*                                                                         *)
(* The store reads no clock: every instant is an argument of the caller,   *)
(* so each action takes any instant t and the order of the calls says      *)
(* nothing of the order of their instants.                                 *)
(***************************************************************************)
EXTENDS Integers, Sequences, FiniteSets, FiniteSetsExt, SequencesExt

CONSTANTS Works,             \* identities of work, ordered as work_id is
          urgency,           \* the urgency of each work
          Deadlines,         \* the <<due_at, deadline_at>> callers enqueue with
          Instants,          \* the instants callers pass
          Classes,           \* the classifications of failures callers use
          Legacy,            \* work the code before its correction may have left
          QueueCapacity, UrgentReserve, HostConcurrency,
          LeaseSeconds, RenewalSeconds, MaximumLeaseSeconds,
          MaximumAttempts, MaximumElapsed, BaseBackoff, MaximumBackoff,
          CatchUpItems, StarvationLimit, None

Urgencies == <<"URGENT", "TIME_SENSITIVE", "PLANNED", "ROUTINE">>
Ready     == {"QUEUED", "RETRY_PENDING"}
Open      == Ready \cup {"LEASED"}
Closed    == {"COMPLETED", "EXPLICITLY_CLOSED", "QUARANTINED"}

ASSUME QueueAssumption ==
    /\ Works \subseteq Nat /\ IsFiniteSet(Works) /\ Legacy \subseteq Works
    /\ urgency \in [Works -> ToSet(Urgencies)]
    /\ Instants \subseteq Nat
    /\ Classes \subseteq {"RETRYABLE", "NON_RETRYABLE", "OPERATOR_REQUIRED",
                           "AMBIGUOUS_EFFECT"}
    /\ Deadlines \subseteq Nat \X Nat
    /\ {QueueCapacity, UrgentReserve, HostConcurrency, LeaseSeconds,
        RenewalSeconds, MaximumLeaseSeconds, MaximumAttempts, MaximumElapsed,
        BaseBackoff, MaximumBackoff, CatchUpItems, StarvationLimit} \subseteq Nat
    /\ None \notin Nat

(* The frozen operational profile: the reserve is part of the queue, a      *)
(* lease is not longer than the longest, and work gets an attempt.          *)
ASSUME ProfileAssumption ==
    /\ UrgentReserve <= QueueCapacity
    /\ LeaseSeconds <= MaximumLeaseSeconds
    /\ MaximumAttempts >= 1

(* The code before its correction kept the same limits: what it may have    *)
(* left, at most two running leases for each work, is within them.          *)
ASSUME LegacyAssumption ==
    /\ Cardinality(Legacy) <= QueueCapacity
    /\ Cardinality({w \in Legacy : urgency[w] # "URGENT"})
          <= QueueCapacity - UrgentReserve
    /\ 2 * Cardinality(Legacy) <= HostConcurrency

VARIABLES
    work,      \* the latest version of each due_work row
    lease,     \* per work, the latest version of the lease of each attempt
    finding    \* per work, the retry Finding of each attempt that has one

vars == <<work, lease, finding>>

-----------------------------------------------------------------------------
(* Reading the tables.                                                      *)

OpenWork == {w \in Works : work[w].state \in Open}

ActiveLeases(w) == {k \in DOMAIN lease[w] : lease[w][k].status = "ACTIVE"}

active_lease_count == Cardinality(UNION {{w} \X ActiveLeases(w) : w \in Works})

attempt(w) == work[w].attempts

HasFinding(w) == attempt(w) \in DOMAIN finding[w]

(* _retry_first_attempt answers only if the attempt of the Finding was      *)
(* RELEASED and failed while its lease ran.                                 *)
PredecessorSound(w, k) ==
    /\ k \in DOMAIN finding[w]
    /\ lease[w][k].status = "RELEASED"
    /\ finding[w][k].failed \in lease[w][k].acquired .. lease[w][k].expires

RetryHorizon(w, k) == finding[w][k].first + MaximumElapsed

(* _leased_work_authority_deadline of a work that is LEASED: known for a    *)
(* first attempt, and for a later one if its predecessor is sound.          *)
AuthorityKnown(w) == attempt(w) > 1 => PredecessorSound(w, attempt(w) - 1)

AuthorityDeadline(w) ==
    IF attempt(w) = 1
    THEN work[w].deadline
    ELSE Min({work[w].deadline, RetryHorizon(w, attempt(w) - 1)})

-----------------------------------------------------------------------------
(* The records the builders make.                                           *)

enqueue_due_work(due, deadline) ==
    [state |-> "QUEUED", attempts |-> 0, due |-> due, deadline |-> deadline]

(* The transitions transition_work allows from a state.                     *)
Allowed(state) ==
    IF state \in Ready THEN {"LEASED", "EXPLICITLY_CLOSED", "QUARANTINED"}
    ELSE IF state = "LEASED" THEN {"RETRY_PENDING", "COMPLETED", "QUARANTINED"}
    ELSE {}

transition_work(row, state) ==
    [row EXCEPT !.state = state,
                !.attempts = row.attempts + (IF state = "LEASED" THEN 1 ELSE 0)]

acquire_lease(t, authority) ==
    [status |-> "ACTIVE", acquired |-> t,
     expires |-> Min({authority, t + LeaseSeconds}),
     maximum |-> Min({authority, t + MaximumLeaseSeconds}),
     authority |-> authority, closed |-> None]

(* Faulty: renewal forgets the maximum.                                     *)
renew_lease_Uncapped(l, t, authority) ==
    [l EXCEPT !.expires = Max({l.expires, t + RenewalSeconds}),
              !.authority = authority]

renew_lease(l, t, authority) ==
    LET expiry  == Min({l.expires, authority})
        maximum == Min({l.maximum, authority})
    IN  [l EXCEPT !.expires = Max({expiry, Min({maximum, t + RenewalSeconds})}),
                  !.maximum = maximum,
                  !.authority = authority]

close_lease(l, status, t) == [l EXCEPT !.status = status, !.closed = t]

Backoff(k) == Min({MaximumBackoff, BaseBackoff * 2 ^ (k - 1)})

build_retry_finding(class, k, first, failed) ==
    LET spent  == k >= MaximumAttempts \/ failed - first >= MaximumElapsed
        due    == failed + Backoff(k)
        late   == due >= first + MaximumElapsed
        retry  == class = "RETRYABLE" /\ ~spent
    IN  [class |-> class, first |-> first, failed |-> failed,
         next |-> IF retry /\ ~late THEN due ELSE None,
         exhausted |-> spent \/ (retry /\ late)]

Retryable(f) == f.class = "RETRYABLE" /\ ~f.exhausted /\ f.next # None

-----------------------------------------------------------------------------
(* Work the code before its correction could leave, the lease of its first  *)
(* attempt never closed: waiting for its second attempt, on it, or waiting  *)
(* for its third.  Leases of that time carry no authority deadline.         *)

LegacyLease(t, status) ==
    [status |-> status, acquired |-> t, expires |-> t + LeaseSeconds,
     maximum |-> t + MaximumLeaseSeconds, authority |-> None,
     closed |-> IF status = "ACTIVE" THEN None ELSE t]

LegacyFinding(k) == build_retry_finding("RETRYABLE", k, 0, (k - 1) * Backoff(1))

LegacyShapes ==
    {[state |-> "RETRY_PENDING", leases |-> <<"ACTIVE">>, findings |-> 1],
     [state |-> "LEASED", leases |-> <<"ACTIVE", "ACTIVE">>, findings |-> 1],
     [state |-> "RETRY_PENDING", leases |-> <<"ACTIVE", "RELEASED">>,
      findings |-> 2]}

Absent == [state |-> "ABSENT", leases |-> <<>>, findings |-> 0]

Init ==
    \E shape \in [Legacy -> LegacyShapes \cup {Absent}],
       deadline \in {d[2] : d \in Deadlines} :
       LET was == [w \in Works |-> IF w \in Legacy THEN shape[w] ELSE Absent]
       IN  /\ work = [w \in Works |->
                 [state |-> was[w].state, attempts |-> Len(was[w].leases), due |-> 0,
                  deadline |-> IF was[w] = Absent THEN 0 ELSE deadline]]
           /\ lease = [w \in Works |-> [k \in DOMAIN was[w].leases |->
                 LegacyLease((k - 1) * Backoff(1), was[w].leases[k])]]
           /\ finding = [w \in Works |->
                 [k \in 1..was[w].findings |-> LegacyFinding(k)]]

(* append_work of a first version.                                          *)
Enqueue(w, due, deadline) ==
    /\ work[w].state = "ABSENT"
    /\ due <= deadline
    /\ Cardinality(OpenWork) < QueueCapacity
    /\ \/ urgency[w] = "URGENT"
       \/ Cardinality({v \in OpenWork : urgency[v] # "URGENT"})
             < QueueCapacity - UrgentReserve
    /\ work' = [work EXCEPT ![w] = enqueue_due_work(due, deadline)]
    /\ UNCHANGED <<lease, finding>>

(* append_work of a later version: only ready work, and never to LEASED.    *)
CloseReady(w, state) ==
    /\ work[w].state # "LEASED"
    /\ state \in Allowed(work[w].state) \ {"LEASED"}
    /\ work' = [work EXCEPT ![w] = transition_work(@, state)]
    /\ UNCHANGED <<lease, finding>>

(* What commit_acquisition asks of a work that waits for a retry.           *)
RetryIsDue(w, t) ==
    LET k == attempt(w)
    IN  /\ ActiveLeases(w) = {}
        /\ PredecessorSound(w, k)
        /\ Retryable(finding[w][k])
        /\ t >= finding[w][k].next
        /\ t < RetryHorizon(w, k)

(* Faulty: one lease too many.                                              *)
HostHasPlace_OffByOne == active_lease_count <= HostConcurrency

HostHasPlace == active_lease_count < HostConcurrency

(* append_lease of a first version: the lease and the LEASED work, at once. *)
Acquire(w, t) ==
    /\ t <= work[w].deadline
    /\ \/ work[w].state = "QUEUED" /\ t >= work[w].due
       \/ work[w].state = "RETRY_PENDING" /\ RetryIsDue(w, t)
    /\ HostHasPlace
    /\ work' = [work EXCEPT ![w] = transition_work(@, "LEASED")]
    /\ lease' = [lease EXCEPT ![w] = Append(@, acquire_lease(t,
                    IF attempt(w) = 0 THEN work[w].deadline
                    ELSE Min({work[w].deadline, RetryHorizon(w, attempt(w))})))]
    /\ UNCHANGED finding

(* append_lease of a later version.  A lease without an authority deadline  *)
(* takes the derived one.                                                   *)
Renew(w, k, t) ==
    LET l == lease[w][k]
        authority == AuthorityDeadline(w)
    IN  /\ work[w].state = "LEASED"
        /\ k \in ActiveLeases(w)
        /\ AuthorityKnown(w)
        /\ l.authority \in {None, authority}
        /\ t \in l.acquired .. Min({l.expires, authority})
        /\ lease' = [lease EXCEPT ![w][k] = renew_lease(l, t, authority)]
        /\ UNCHANGED <<work, finding>>

(* What close_lease_and_transition asks, its instant and states aside.      *)
Closable(w) ==
    /\ work[w].state = "LEASED"
    /\ attempt(w) \in ActiveLeases(w)
    /\ AuthorityKnown(w)

(* Faulty: a release is compared with the deadline of the work alone.       *)
MayRelease_AfterExpiry(w, t) == t <= work[w].deadline

MayRelease(w, t) ==
    t <= Min({AuthorityDeadline(w), work[w].deadline,
              lease[w][attempt(w)].expires})

(* Faulty: the work moves on and its lease stays.                           *)
Close_WorkOnly(w, t, status, state) ==
    /\ Closable(w)
    /\ status = "ORPHANED" /\ state = "QUARANTINED"
    /\ work' = [work EXCEPT ![w].state = state]
    /\ UNCHANGED <<lease, finding>>

(* close_lease_and_transition: the lease and its work, at once.             *)
Close(w, t, status, state) ==
    LET k == attempt(w)
        l == lease[w][k]
    IN  /\ Closable(w)
        /\ state \in Allowed("LEASED")
        /\ t >= l.acquired
        /\ \/ status = "RELEASED" /\ MayRelease(w, t)
           \/ status = "ORPHANED" /\ state = "QUARANTINED"
        /\ state = "RETRY_PENDING" =>
              HasFinding(w) /\ Retryable(finding[w][k])
                            /\ finding[w][k].failed <= t
        /\ lease' = [lease EXCEPT ![w][k] = close_lease(l, status, t)]
        /\ work' = [work EXCEPT ![w] = transition_work(@, state)]
        /\ UNCHANGED finding

Leaked(w, k) ==
    /\ k \in ActiveLeases(w)
    /\ ~(work[w].state = "LEASED" /\ k = attempt(w))

(* orphan_leaked_lease_for_reconciliation.                                  *)
OrphanLeaked(w, k, t) ==
    /\ Leaked(w, k)
    /\ t >= lease[w][k].acquired
    /\ lease' = [lease EXCEPT ![w][k] = close_lease(lease[w][k], "ORPHANED", t)]
    /\ UNCHANGED <<work, finding>>

LatestActive(w) ==
    {k \in ActiveLeases(w) :
        \A j \in ActiveLeases(w) : lease[w][j].acquired <= lease[w][k].acquired}

(* Faulty: a second Finding for the same attempt.                           *)
FirstFinding_Any(w) == TRUE

FirstFinding(w) == ~HasFinding(w)

(* append_retry_finding: once for each attempt, while a lease of it runs.   *)
AppendRetryFinding(w, class, failed) ==
    /\ work[w].state = "LEASED"
    /\ FirstFinding(w)
    /\ \E k \in LatestActive(w) :
          failed \in lease[w][k].acquired .. lease[w][k].expires
    /\ finding' = [finding EXCEPT ![w] = Append(@,
          build_retry_finding(class, attempt(w),
             Min({lease[w][k].acquired : k \in DOMAIN lease[w]}), failed))]
    /\ UNCHANGED <<work, lease>>

Next ==
    \E w \in Works :
       \/ \E d \in Deadlines : Enqueue(w, d[1], d[2])
       \/ \E s \in Closed : CloseReady(w, s)
       \/ \E t \in Instants :
             \/ Acquire(w, t)
             \/ \E k \in DOMAIN lease[w] : Renew(w, k, t) \/ OrphanLeaked(w, k, t)
             \/ \E s \in {"RELEASED", "ORPHANED"}, v \in Open \cup Closed :
                   Close(w, t, s, v)
             \/ \E c \in Classes : AppendRetryFinding(w, c, t)

Spec == Init /\ [][Next]_vars

-----------------------------------------------------------------------------
(* due_work: what a worker is offered at an instant.                        *)

ReadyAt(now) ==
    {w \in Works :
        \/ work[w].state = "QUEUED" /\ work[w].due <= now
        \/ /\ work[w].state = "RETRY_PENDING"
           /\ HasFinding(w)
           /\ finding[w][attempt(w)].next # None
           /\ finding[w][attempt(w)].next <= now}

Priority(w) == CHOOSE i \in DOMAIN Urgencies : Urgencies[i] = urgency[w]

(* The order of two keys that are sequences of three numbers.               *)
Precedes(a, b) ==
    \E i \in 1..3 : a[i] < b[i] /\ \A j \in 1..(i - 1) : a[j] = b[j]

ByPriority(v, w) == Precedes(<<Priority(v), work[v].deadline, v>>,
                             <<Priority(w), work[w].deadline, w>>)

(* ready.sort: the works of a set one after the other, in that order.       *)
Sorted(S) ==
    CHOOSE s \in [1..Cardinality(S) -> S] :
       \A i, j \in DOMAIN s : i < j => ByPriority(s[i], s[j])

ByWaiting(v, w) == Precedes(<<work[v].due, work[v].deadline, v>>,
                            <<work[w].due, work[w].deadline, w>>)

Starved(now) == {w \in ReadyAt(now) : /\ urgency[w] = "ROUTINE"
                                      /\ now - work[w].due >= StarvationLimit}

LongestStarved(now) ==
    CHOOSE w \in Starved(now) : \A v \in Starved(now) \ {w} : ByWaiting(w, v)

(* Faulty: any slot.                                                        *)
Replaceable_Any(batch) == DOMAIN batch

(* The slots a starved work may take: a routine one, or one whose class     *)
(* has another.                                                             *)
Replaceable(batch) ==
    {i \in DOMAIN batch :
        \/ urgency[batch[i]] = "ROUTINE"
        \/ \E j \in DOMAIN batch \ {i} : urgency[batch[j]] = urgency[batch[i]]}

due_work(now) ==
    LET ready    == Sorted(ReadyAt(now))
        selected == SubSeq(ready, 1, Min({CatchUpItems, Len(ready)}))
    IN  IF \/ Starved(now) = {}
           \/ LongestStarved(now) \in ToSet(selected)
           \/ Replaceable(selected) = {}
        THEN selected
        ELSE [selected EXCEPT ![Max(Replaceable(selected))] = LongestStarved(now)]

-----------------------------------------------------------------------------
(* Properties.                                                              *)

Leases == [status : {"ACTIVE", "RELEASED", "ORPHANED"},
           acquired : Nat, expires : Nat, maximum : Nat,
           authority : Nat \cup {None}, closed : Nat \cup {None}]

Findings == [class : Classes \cup {"RETRYABLE"}, first : Nat, failed : Nat,
             next : Nat \cup {None}, exhausted : BOOLEAN]

(* Every row has the shape of its table, and work has exactly one lease for *)
(* each attempt and a Finding for each attempt but perhaps the last.        *)
TypeOK ==
    /\ work \in [Works -> [state : Open \cup Closed \cup {"ABSENT"},
                           attempts : Nat, due : Nat, deadline : Nat]]
    /\ lease \in [Works -> Seq(Leases)]
    /\ finding \in [Works -> Seq(Findings)]
    /\ \A w \in Works : /\ Len(lease[w]) = attempt(w)
                         /\ Len(finding[w]) \in {attempt(w) - 1, attempt(w)} \cap Nat

(* However many workers enqueue, lease and retry, the queue stays within    *)
(* its capacity, ordinary work never takes the places kept for urgent work  *)
(* and the host never runs more leases than its concurrency.                *)
NoOversubscription ==
    /\ Cardinality(OpenWork) <= QueueCapacity
    /\ Cardinality({w \in OpenWork : urgency[w] # "URGENT"})
          <= QueueCapacity - UrgentReserve
    /\ active_lease_count <= HostConcurrency

(* Work the code before its correction did not leave: every lease carries   *)
(* an authority deadline, from the first.                                   *)
Corrected == {w \in Works : lease[w] # <<>> => lease[w][1].authority # None}

(* Acquisition and closure each write a lease and its work in one           *)
(* transaction, so a lease runs exactly while its work is LEASED and only   *)
(* for its current attempt: no crash leaks a place of the host.             *)
LeaseMatchesWork ==
    \A w \in Corrected :
       ActiveLeases(w) = IF work[w].state = "LEASED" THEN {attempt(w)} ELSE {}

(* A retry follows a released attempt whose failure was classed RETRYABLE,  *)
(* no sooner than its backoff, and at most MaximumAttempts times; and no    *)
(* attempt, however often renewed, has authority past the deadline or, if   *)
(* it is a retry, past the time allowed since the first acquisition.        *)
RetryDiscipline ==
    \A w \in Corrected : \A k \in DOMAIN lease[w] :
       /\ k <= MaximumAttempts
       /\ lease[w][k].acquired <= lease[w][k].expires
       /\ lease[w][k].expires <= work[w].deadline
       /\ lease[w][k].expires <= lease[w][k].acquired + MaximumLeaseSeconds
       /\ k > 1 =>
            /\ lease[w][k - 1].status = "RELEASED"
            /\ finding[w][k - 1].class = "RETRYABLE"
            /\ lease[w][k].acquired >= finding[w][k - 1].failed + Backoff(k - 1)
            /\ lease[w][k].expires <= lease[w][1].acquired + MaximumElapsed

(* An outcome that counts (COMPLETED, or RETRY_PENDING) is that of an       *)
(* attempt closed while it held authority; work whose attempt was orphaned  *)
(* is quarantined for good.                                                 *)
OutcomeHasAuthority ==
    \A w \in Corrected : attempt(w) > 0 =>
       LET l == lease[w][attempt(w)]
       IN  /\ work[w].state \in {"COMPLETED", "RETRY_PENDING"} =>
                 /\ l.status = "RELEASED"
                 /\ l.closed \in l.acquired .. l.expires
           /\ work[w].state = "RETRY_PENDING" =>
                 finding[w][attempt(w)].failed \in l.acquired .. l.closed
           /\ l.status = "ORPHANED" => work[w].state = "QUARANTINED"

(* Every place of the host can be given back: a running lease that is alone *)
(* on its work can be closed with it, or orphaned as a leak.  (Section      *)
(* "Review corrections" of the 8C plan: "legacy host slots remain           *)
(* recoverable".)                                                           *)
SlotsRecoverable ==
    \A w \in Works : \A k \in ActiveLeases(w) :
       ActiveLeases(w) = {k} => Leaked(w, k) \/ (k = attempt(w) /\ Closable(w))

(* The batch offered at any instant is of ready work without repetition, as *)
(* long as the catch-up bound and the queue allow; the fairness slot keeps  *)
(* every higher class that the plain order would have served; and it serves *)
(* the longest starved routine work unless every slot is the only one of a  *)
(* higher class.                                                            *)
FairBatch ==
    \A now \in Instants :
       LET b == due_work(now)
           n == Min({CatchUpItems, Cardinality(ReadyAt(now))})
           ahead(w) == {v \in ReadyAt(now) : ByPriority(v, w)}
           first == {w \in ReadyAt(now) : Cardinality(ahead(w)) < n}
       IN  /\ Len(b) = n /\ Cardinality(ToSet(b)) = n
           /\ ToSet(b) \subseteq ReadyAt(now)
           /\ {urgency[w] : w \in first} \ {"ROUTINE"}
                 \subseteq {urgency[w] : w \in ToSet(b)}
           /\ \A w \in Starved(now) \ ToSet(b) :
                 \/ \E v \in Starved(now) \cap ToSet(b) : work[v].due <= work[w].due
                 \/ /\ "ROUTINE" \notin {urgency[v] : v \in ToSet(b)}
                    /\ Cardinality({urgency[v] : v \in ToSet(b)}) = n
=============================================================================
