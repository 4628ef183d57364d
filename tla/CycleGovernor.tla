---------------------------- MODULE CycleGovernor ----------------------------
(***************************************************************************)
(* The durable governor of the evaluation cycle: the lease of the one      *)
(* governed unit, the cooldown after it and the circuit of the CONT writer *)
(* route (newsroom/control_plane/cycle_governor.py), driven by             *)
(* _governed_unit and the writer-health-probe command of                   *)
(* scripts/hermes_control_plane.py.                                        *)
(*                                                                         *)
(* Each method reads the UTC clock first and then waits for the write lock *)
(* of BEGIN IMMEDIATE; other processes commit in between, and the clock    *)
(* itself may be set back.  So the reading t of an operation is any        *)
(* instant, and order is kept only by the retained last_observed_utc.      *)
(* NoTime stands for a NULL timestamp, None for an empty reason.           *)
(***************************************************************************)
EXTENDS Integers, Sequences

CONSTANTS
    Workers,         \* processes that run _governed_unit
    Probers,         \* processes that run release_with_health_probe
    Failures,        \* systemic failure reasons a unit can report
    None,            \* no reason
    LeaseSeconds,    \* lease_seconds
    NormalCooldown,  \* policy.normal_cooldown_seconds
    LongCooldown,    \* policy.unproductive_cooldown_seconds
    ProbeInterval,   \* policy.health_probe_interval_seconds
    MaxTime,         \* bound: last instant a clock shows
    MaxCycles,       \* bound: rows of unpublished_governed_cycles
    MaxProbes        \* bound: rows of unpublished_route_health_probes

StaleRecovery == "STALE_LEASE_RECOVERY_AMBIGUOUS"
Consecutive == "CONSECUTIVE_UNPRODUCTIVE_PROVIDER"

ASSUME CycleGovernorAssumption ==
    /\ LeaseSeconds \in Nat \ {0}
    /\ NormalCooldown \in Nat \ {0}
    /\ LongCooldown \in Nat \ {0}
    /\ ProbeInterval \in Nat \ {0}
    /\ MaxTime \in Nat
    /\ MaxCycles \in Nat
    /\ MaxProbes \in Nat
    /\ None \notin Failures \cup {StaleRecovery, Consecutive}

VARIABLES
    next,      \* next_cycle_eligible_at
    lastSeen,  \* last_observed_utc
    streak,    \* writer_unproductive_streak
    circuit,   \* the CONT row of unpublished_route_circuits
    cycles,    \* rows of unpublished_governed_cycles, oldest first
    probes,    \* rows of unpublished_route_health_probes, oldest first
    held,      \* held[w]: the CycleLease w keeps in memory
    probing    \* probing[q]: where q is inside release_with_health_probe

vars == <<next, lastSeen, streak, circuit, cycles, probes, held, probing>>

-----------------------------------------------------------------------------
Time == 0..MaxTime
NoTime == -1
Reasons == Failures \cup {StaleRecovery, Consecutive}

\* release_evidence_json: the probe, or the operator, that closed the circuit.
Evidence == [kind : {"none", "operator", "probe"}, probe : Nat]
NoEvidence == [kind |-> "none", probe |-> 0]

Circuit == [state : {"OPEN", "CLOSED"}, reason : Reasons \cup {None},
            opened : Time \cup {NoTime}, lastProbe : Time \cup {NoTime},
            evidence : Evidence]

\* A row keeps the circuit and the streak its lease was claimed under: the
\* CycleLease in the worker's memory is this snapshot.  ended and outcome are
\* NULL until the cycle ends.
Outcomes == {"IDLE", "PRODUCTIVE", "UNPRODUCTIVE", "SYSTEMIC"}

Cycle == [state : {"ACTIVE", "TERMINAL", "RECOVERED"}, acquired : Time,
          expires : Nat, ended : Time \cup {NoTime}, outcome : Outcomes \cup {"NULL"},
          before : Nat, circuit : {"OPEN", "CLOSED"}, reason : Reasons \cup {None}]

Probe == [at : Time, reason : Reasons, state : {"RESERVED", "TERMINAL"},
          passed : BOOLEAN]

NoLease == [cycle |-> 0, dispatched |-> FALSE]
NoProbe == [probe |-> 0, passed |-> FALSE]

TypeOK ==
    /\ next \in Nat
    /\ lastSeen \in Time
    /\ streak \in Nat
    /\ circuit \in Circuit
    /\ cycles \in Seq(Cycle)
    /\ probes \in Seq(Probe)
    /\ held \in [Workers -> [cycle : Nat, dispatched : BOOLEAN]]
    /\ \A w \in Workers : held[w].cycle \in 0..Len(cycles)
    /\ probing \in [Probers -> [probe : Nat, passed : BOOLEAN]]
    /\ \A q \in Probers : probing[q].probe \in 0..Len(probes)

Active == {n \in DOMAIN cycles : cycles[n].state = "ACTIVE"}

\* The last_observed_utc check every operation makes; the seeded fault leaves
\* it out.
ClockAccepted_Always(t) == t \in Time

ClockAccepted(t) == lastSeen <= t

Opened(reason, at) ==
    [circuit EXCEPT !.state = "OPEN", !.reason = reason, !.opened = at,
                    !.evidence = NoEvidence]

\* The row of a cycle that ends at t and leaves this reason on the circuit.
Ended(c, state, t, outcome, reason) ==
    [c EXCEPT !.state = state, !.ended = t, !.outcome = outcome,
              !.circuit = IF reason = None THEN "CLOSED" ELSE "OPEN",
              !.reason = reason]

-----------------------------------------------------------------------------
(* claim: three refusals that are recorded, and the lease.                 *)

\* A refusal under a running lease or in the cooldown only records that the
\* clock was seen; a clock seen going backwards is not recorded at all.
ClaimRefused(t) ==
    /\ ClockAccepted(t)
    /\ \/ \E n \in Active : t < cycles[n].expires
       \/ Active = {} /\ t < next
    /\ lastSeen' = t
    /\ UNCHANGED <<next, streak, circuit, cycles, probes, held, probing>>

\* An expired lease: the claimer ends the cycle, opens the circuit, since
\* what the lost worker dispatched is unknown, and is itself refused.
ClaimRecovers(n, t) ==
    /\ ClockAccepted(t)
    /\ n \in Active
    /\ cycles[n].expires <= t
    /\ next' = t + NormalCooldown
    /\ lastSeen' = t
    /\ circuit' = Opened(StaleRecovery, t)
    /\ cycles' = [cycles EXCEPT
                    ![n] = Ended(@, "RECOVERED", t, "SYSTEMIC", StaleRecovery)]
    /\ UNCHANGED <<streak, probes, held, probing>>

CooldownOver_Ignored(t) == t \in Time

CooldownOver(t) == next <= t

Claim(w, t) ==
    /\ held[w] = NoLease
    /\ Len(cycles) < MaxCycles
    /\ ClockAccepted(t)
    /\ Active = {}
    /\ CooldownOver(t)
    /\ cycles' = Append(cycles,
                    [state |-> "ACTIVE", acquired |-> t, expires |-> t + LeaseSeconds,
                     ended |-> NoTime, outcome |-> "NULL", before |-> streak,
                     circuit |-> circuit.state, reason |-> circuit.reason])
    /\ lastSeen' = t
    /\ held' = [held EXCEPT ![w] = [cycle |-> Len(cycles) + 1, dispatched |-> FALSE]]
    /\ UNCHANGED <<next, streak, circuit, probes, probing>>

-----------------------------------------------------------------------------
(* The holder of a lease.                                                  *)

OwnsActive_AnyState(w) == held[w] # NoLease

OwnsActive(w) == held[w].cycle \in Active

\* renew, before the cycle and before every writer dispatch (the fence).  A
\* writer dispatches only if the snapshot of its lease has the circuit closed.
Renewable_Expired(w, t) == OwnsActive(w)

Renewable(w, t) == OwnsActive(w) /\ t < cycles[held[w].cycle].expires

Renew(w, t, dispatch) ==
    /\ ClockAccepted(t)
    /\ Renewable(w, t)
    /\ dispatch => cycles[held[w].cycle].circuit = "CLOSED"
    /\ cycles' = [cycles EXCEPT ![held[w].cycle] = [@ EXCEPT !.expires = t + LeaseSeconds]]
    /\ lastSeen' = t
    /\ held' = [held EXCEPT ![w] = [@ EXCEPT !.dispatched = @ \/ dispatch]]
    /\ UNCHANGED <<next, streak, circuit, probes, probing>>

\* _classify, from the reported failure, whether a payload was accepted,
\* whether the provider was called and whether the unit had nothing to write
\* (or was told not to).  "INCONSISTENT" raises.
Class(snapshot, failure, accepted, dispatched, idle) ==
    IF failure # None THEN "SYSTEMIC"
    ELSE IF accepted THEN "PRODUCTIVE"
    ELSE IF dispatched THEN "UNPRODUCTIVE"
    ELSE IF idle THEN "IDLE"
    ELSE IF snapshot = "OPEN" THEN "SYSTEMIC"
    ELSE "INCONSISTENT"

StreakAfter_Decay(class, before, accepted) ==
    IF class = "PRODUCTIVE" THEN before - 1
    ELSE IF class = "UNPRODUCTIVE" THEN before + 1
    ELSE before

StreakAfter(class, before, accepted) ==
    IF class = "PRODUCTIVE" \/ (class = "SYSTEMIC" /\ accepted) THEN 0
    ELSE IF class = "UNPRODUCTIVE" THEN before + 1
    ELSE before

Cooldown(class) == IF class = "UNPRODUCTIVE" THEN LongCooldown ELSE NormalCooldown

\* The reason complete leaves on the circuit; None when it leaves it alone.
ReasonAfter(class, c, failure, after) ==
    IF class = "SYSTEMIC" /\ failure # None THEN failure
    ELSE IF class = "UNPRODUCTIVE" /\ after >= 2 THEN Consecutive
    ELSE c.reason

\* complete decides everything from the snapshot; in the transaction it only
\* checks that the lease is still ACTIVE, expired or not.
Complete(w, t, failure, accepted, idle) ==
    LET n == held[w].cycle
        c == cycles[n]
        class == Class(c.circuit, failure, accepted, held[w].dispatched, idle)
        after == StreakAfter(class, c.before, accepted)
        reason == ReasonAfter(class, c, failure, after) IN
    /\ OwnsActive(w)
    /\ ClockAccepted(t)
    /\ accepted => held[w].dispatched
    /\ class \in Outcomes
    /\ next' = t + Cooldown(class)
    /\ lastSeen' = t
    /\ streak' = after
    /\ circuit' = IF reason = None
                  THEN circuit
                  ELSE Opened(reason, IF circuit.opened = NoTime THEN t ELSE circuit.opened)
    /\ cycles' = [cycles EXCEPT ![n] = Ended(@, "TERMINAL", t, class, reason)]
    /\ held' = [held EXCEPT ![w] = NoLease]
    /\ UNCHANGED <<probes, probing>>

\* The process dies, or both complete and fail_ambiguous raise: the lease is
\* forgotten and its row stays as it is.
Abandon(w) ==
    /\ held[w] # NoLease
    /\ held' = [held EXCEPT ![w] = NoLease]
    /\ UNCHANGED <<next, lastSeen, streak, circuit, cycles, probes, probing>>

-----------------------------------------------------------------------------
(* Releasing the circuit.                                                  *)

IntervalOver_SinceOpened(t) == circuit.opened + ProbeInterval <= t

IntervalOver(t) ==
    /\ circuit.opened + ProbeInterval <= t
    /\ circuit.lastProbe # NoTime => circuit.lastProbe + ProbeInterval <= t

\* First transaction of release_with_health_probe.  The bound reason is the
\* one the caller has seen.
ProbeReserve(q, t) ==
    /\ probing[q] = NoProbe
    /\ Len(probes) < MaxProbes
    /\ circuit.state = "OPEN"
    /\ ClockAccepted(t)
    /\ IntervalOver(t)
    /\ probes' = Append(probes, [at |-> t, reason |-> circuit.reason,
                                 state |-> "RESERVED", passed |-> FALSE])
    /\ circuit' = [circuit EXCEPT !.lastProbe = t]
    /\ lastSeen' = t
    /\ probing' = [probing EXCEPT ![q] = [probe |-> Len(probes) + 1, passed |-> FALSE]]
    /\ UNCHANGED <<next, streak, cycles, held>>

\* The probe itself runs outside a transaction; the second one records its
\* result.  A failed probe raises.
ContinuesAfter_Always(passed) == passed \in BOOLEAN

ContinuesAfter(passed) == passed

ProbeTerminal(q, t, passed) ==
    LET p == probing[q].probe IN
    /\ probing[q] # NoProbe
    /\ ~probing[q].passed
    /\ probes[p].at <= t
    /\ ClockAccepted(t)
    /\ probes[p].state = "RESERVED"
    /\ probes' = [probes EXCEPT
                    ![p] = [@ EXCEPT !.state = "TERMINAL", !.passed = passed]]
    /\ lastSeen' = t
    /\ probing' = [probing EXCEPT ![q] = IF ContinuesAfter(passed)
                                         THEN [probe |-> p, passed |-> TRUE]
                                         ELSE NoProbe]
    /\ UNCHANGED <<next, streak, circuit, cycles, held>>

\* _release_circuit.
ReleaseCircuit(reason, t, evidence) ==
    /\ circuit.state = "OPEN"
    /\ circuit.reason = reason
    /\ ClockAccepted(t)
    /\ circuit' = [circuit EXCEPT !.state = "CLOSED", !.reason = None,
                                  !.opened = NoTime, !.evidence = evidence]
    /\ streak' = 0
    /\ lastSeen' = t

ProbeRelease(q, t) ==
    LET p == probing[q].probe IN
    /\ probing[q].passed
    /\ ReleaseCircuit(probes[p].reason, t, [kind |-> "probe", probe |-> p])
    /\ probing' = [probing EXCEPT ![q] = NoProbe]
    /\ UNCHANGED <<next, cycles, probes, held>>

\* The prober dies or is refused: its row keeps whatever state it has.
ProbeAbandon(q) ==
    /\ probing[q] # NoProbe
    /\ probing' = [probing EXCEPT ![q] = NoProbe]
    /\ UNCHANGED <<next, lastSeen, streak, circuit, cycles, probes, held>>

OperatorReset(t) ==
    /\ ReleaseCircuit(circuit.reason, t, [kind |-> "operator", probe |-> 0])
    /\ UNCHANGED <<next, cycles, probes, held, probing>>

-----------------------------------------------------------------------------
Init ==
    /\ next = 0
    /\ lastSeen = 0
    /\ streak = 0
    /\ circuit = [state |-> "CLOSED", reason |-> None, opened |-> NoTime,
                  lastProbe |-> NoTime, evidence |-> NoEvidence]
    /\ cycles = <<>>
    /\ probes = <<>>
    /\ held = [w \in Workers |-> NoLease]
    /\ probing = [q \in Probers |-> NoProbe]

Next ==
    \/ \E t \in Time :
          \/ ClaimRefused(t)
          \/ \E n \in DOMAIN cycles : ClaimRecovers(n, t)
          \/ \E w \in Workers :
                \/ Claim(w, t)
                \/ \E dispatch \in BOOLEAN : Renew(w, t, dispatch)
                \/ \E failure \in Failures \cup {None}, accepted, idle \in BOOLEAN :
                      Complete(w, t, failure, accepted, idle)
          \/ \E q \in Probers :
                \/ ProbeReserve(q, t)
                \/ \E passed \in BOOLEAN : ProbeTerminal(q, t, passed)
                \/ ProbeRelease(q, t)
          \/ OperatorReset(t)
    \/ \E w \in Workers : Abandon(w)
    \/ \E q \in Probers : ProbeAbandon(q)

Spec == Init /\ [][Next]_vars

-----------------------------------------------------------------------------
(* Safety.                                                                 *)

\* Units never overlap and never start early: when a cycle is claimed every
\* earlier one has ended and its own full cooldown has passed, whatever the
\* clocks of the workers did and however late an expired worker reported.
NoEarlyStart ==
    \A m, n \in DOMAIN cycles : m < n =>
        /\ cycles[m].state # "ACTIVE"
        /\ cycles[m].acquired <= cycles[m].ended
        /\ cycles[m].ended + (IF cycles[m].outcome = "UNPRODUCTIVE"
                             THEN LongCooldown ELSE NormalCooldown) <= cycles[n].acquired

\* The permission to dispatch that a worker carries in memory is never stale:
\* while a lease claimed under a closed circuit is active the circuit is still
\* closed and the streak is still the one complete will count from.
PermitIsCurrent ==
    \A n \in Active :
        cycles[n].circuit = "CLOSED" => circuit.state = "CLOSED" /\ streak = cycles[n].before

\* Health probes are never closer than the probe interval, across every
\* closing and reopening of the circuit.
ProbesSpaced ==
    \A p, q \in DOMAIN probes : p < q => probes[p].at + ProbeInterval <= probes[q].at

\* A circuit closed by a probe rests on a recorded, passed probe; an open one
\* names its failure and the time since when, and two unproductive cycles in a
\* row always leave it open.
CircuitIsExplained ==
    /\ circuit.evidence.kind = "probe" =>
          /\ circuit.evidence.probe \in DOMAIN probes
          /\ probes[circuit.evidence.probe].state = "TERMINAL"
          /\ probes[circuit.evidence.probe].passed
    /\ circuit.state = "OPEN" <=> circuit.reason # None
    /\ circuit.state = "OPEN" <=> circuit.opened # NoTime
    /\ circuit.state = "OPEN" => circuit.evidence = NoEvidence
    /\ streak >= 2 => circuit.state = "OPEN"

-----------------------------------------------------------------------------
(* What a step may never do.                                               *)

\* A worker whose lease has ended, because it finished or because another
\* claimer recovered it, changes nothing: the row is final.  Nothing is ever
\* recorded before something that was recorded earlier.
EndedCycleIsFinal ==
    [][/\ lastSeen <= lastSeen'
       /\ \A n \in DOMAIN cycles : cycles[n].state # "ACTIVE" => cycles'[n] = cycles[n]]_vars

=============================================================================
