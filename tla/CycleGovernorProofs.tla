------------------------- MODULE CycleGovernorProofs -------------------------
(***************************************************************************)
(* Theorems of the cycle governor, for any workers, probers, policy and    *)
(* bounds.  The invariants of the module hold only together with facts     *)
(* about the retained rows that no property states: every recorded instant *)
(* is at most last_observed_utc, only the newest cycle can be ACTIVE, the  *)
(* cooldowns of all ended cycles are over at next_cycle_eligible_at, and a *)
(* prober that goes on to release has recorded a passed probe.             *)
(***************************************************************************)
EXTENDS CycleGovernor, SequenceTheorems, TLAPS

CyclesOK ==
    \A n \in 1..Len(cycles) :
        /\ cycles[n].acquired <= lastSeen
        /\ cycles[n].state = "ACTIVE" => n = Len(cycles)
        /\ cycles[n].state # "ACTIVE" =>
              /\ cycles[n].outcome \in Outcomes
              /\ cycles[n].acquired <= cycles[n].ended
              /\ cycles[n].ended + Cooldown(cycles[n].outcome) <= next

CooldownsKept ==
    \A m, n \in 1..Len(cycles) :
        m < n => cycles[m].ended + Cooldown(cycles[m].outcome) <= cycles[n].acquired

SnapshotOK ==
    \A n \in 1..Len(cycles) : cycles[n].state = "ACTIVE" =>
        /\ cycles[n].circuit = "OPEN" => cycles[n].reason # None
        /\ cycles[n].circuit = "CLOSED" =>
              /\ cycles[n].reason = None
              /\ cycles[n].before < 2
              /\ circuit.state = "CLOSED"
              /\ streak = cycles[n].before

ProbesOK ==
    /\ \A p \in 1..Len(probes) : /\ circuit.lastProbe # NoTime
                                 /\ probes[p].at <= circuit.lastProbe
    /\ \A p, q \in 1..Len(probes) : p < q => probes[p].at + ProbeInterval <= probes[q].at

ProbingOK ==
    \A q \in Probers : probing[q] # NoProbe =>
        /\ probing[q].probe \in 1..Len(probes)
        /\ probing[q].passed => /\ probes[probing[q].probe].state = "TERMINAL"
                                /\ probes[probing[q].probe].passed

CircuitOK ==
    /\ circuit.evidence.kind = "probe" =>
          /\ circuit.evidence.probe \in 1..Len(probes)
          /\ probes[circuit.evidence.probe].state = "TERMINAL"
          /\ probes[circuit.evidence.probe].passed
    /\ circuit.state = "OPEN" <=> circuit.reason # None
    /\ circuit.state = "OPEN" <=> circuit.opened # NoTime
    /\ circuit.state = "OPEN" => circuit.evidence = NoEvidence
    /\ streak >= 2 => circuit.state = "OPEN"

IInv == /\ TypeOK
        /\ CyclesOK
        /\ CooldownsKept
        /\ SnapshotOK
        /\ ProbesOK
        /\ ProbingOK
        /\ CircuitOK

-----------------------------------------------------------------------------
(* What complete computes from the snapshot.                               *)

\* complete's streak is a natural number, and a cooldown is positive.
LEMMA OutcomeTypes ==
    ASSUME NEW class \in Outcomes, NEW before \in Nat, NEW accepted \in BOOLEAN
    PROVE  /\ StreakAfter(class, before, accepted) \in Nat
           /\ Cooldown(class) \in Nat \ {0}
BY CycleGovernorAssumption DEF StreakAfter, Cooldown, Outcomes

\* complete never closes a circuit its lease saw open, and it opens one it saw
\* closed as soon as the streak reaches two.
LEMMA OutcomeOpens ==
    ASSUME NEW c \in Cycle, NEW failure \in Failures \cup {None},
           NEW accepted \in BOOLEAN, NEW dispatched \in BOOLEAN, NEW idle \in BOOLEAN,
           NEW class \in Outcomes,
           class = Class(c.circuit, failure, accepted, dispatched, idle),
           c.circuit = "OPEN" => c.reason # None,
           c.circuit = "CLOSED" => c.reason = None /\ c.before < 2
    PROVE  LET after == StreakAfter(class, c.before, accepted)
               reason == ReasonAfter(class, c, failure, after)
           IN  /\ reason \in Reasons \cup {None}
               /\ c.circuit = "OPEN" => reason # None
               /\ reason = None => after < 2
<1>1. c.circuit \in {"OPEN", "CLOSED"} /\ c.reason \in Reasons \cup {None} /\ c.before \in Nat
    BY DEF Cycle
<1>2. Consecutive \in Reasons /\ Consecutive # None /\ Failures \subseteq Reasons
    BY CycleGovernorAssumption DEF Reasons
<1>3. CASE class = "SYSTEMIC"
    <2>1. failure # None \/ c.circuit = "OPEN"
        BY <1>1, <1>3 DEF Class
    <2> QED
        BY <1>1, <1>2, <1>3, <2>1 DEF ReasonAfter
<1>4. CASE class = "UNPRODUCTIVE"
    BY <1>1, <1>2, <1>4 DEF ReasonAfter, StreakAfter
<1>5. CASE class = "PRODUCTIVE"
    BY <1>1, <1>5 DEF ReasonAfter, StreakAfter
<1>6. CASE class = "IDLE"
    BY <1>1, <1>6 DEF ReasonAfter, StreakAfter
<1> QED
    BY <1>3, <1>4, <1>5, <1>6 DEF Outcomes

\* The numbers in the rows of the tables.
LEMMA RowTypes ==
    ASSUME TypeOK
    PROVE  /\ lastSeen \in Nat
           /\ Len(cycles) \in Nat /\ DOMAIN cycles = 1..Len(cycles)
           /\ Len(probes) \in Nat /\ DOMAIN probes = 1..Len(probes)
           /\ \A n \in 1..Len(cycles) :
                 /\ cycles[n] \in Cycle
                 /\ cycles[n].acquired \in Nat
                 /\ cycles[n].ended \in Int
                 /\ Cooldown(cycles[n].outcome) \in Nat \ {0}
           /\ \A p \in 1..Len(probes) : probes[p] \in Probe /\ probes[p].at \in Nat
           /\ circuit.lastProbe \in Int
<1>1. cycles \in Seq(Cycle) /\ probes \in Seq(Probe) /\ circuit \in Circuit /\ lastSeen \in Time
    BY DEF TypeOK
<1>2. Time \subseteq Nat /\ Time \cup {NoTime} \subseteq Int
    BY CycleGovernorAssumption DEF Time, NoTime
<1>3. \A c \in Cycle : c.acquired \in Nat /\ c.ended \in Int
    BY <1>2 DEF Cycle
<1>4. \A o : Cooldown(o) \in Nat \ {0}
    BY CycleGovernorAssumption DEF Cooldown
<1>5. \A p \in Probe : p.at \in Nat
    BY <1>2 DEF Probe
<1>6. circuit.lastProbe \in Int
    BY <1>1, <1>2 DEF Circuit
<1>7. \A n \in 1..Len(cycles) : cycles[n] \in Cycle
    BY <1>1
<1>8. \A p \in 1..Len(probes) : probes[p] \in Probe
    BY <1>1
<1> QED
    BY <1>1, <1>2, <1>3, <1>4, <1>5, <1>6, <1>7, <1>8

-----------------------------------------------------------------------------
(* Preservation.                                                           *)

\* ensure_cycle_governor_schema creates a closed circuit and empty tables.
LEMMA InitInv == Init => IInv
<1> SUFFICES ASSUME Init PROVE IInv
    OBVIOUS
<1>1. TypeOK
    <2>1. circuit \in Circuit
        BY CycleGovernorAssumption DEF Init, Circuit, Evidence, NoEvidence
    <2> QED
        BY <2>1, CycleGovernorAssumption DEF Init, TypeOK, Time, NoLease, NoProbe
<1> QED
    BY <1>1 DEF Init, IInv, CyclesOK, CooldownsKept, SnapshotOK, ProbesOK, ProbingOK,
                CircuitOK, NoProbe, NoTime, NoEvidence

\* A refused claim only moves last_observed_utc forward.
LEMMA ClaimRefusedInv ==
    ASSUME IInv, NEW t \in Time, ClaimRefused(t) PROVE IInv'
<1>1. /\ lastSeen \in Nat /\ t \in Nat /\ lastSeen <= t /\ lastSeen' = t
      /\ UNCHANGED <<next, streak, circuit, cycles, probes, held, probing>>
    BY CycleGovernorAssumption DEF IInv, TypeOK, ClaimRefused, ClockAccepted, Time
<1>2. TypeOK'
    BY <1>1 DEF IInv, TypeOK
<1>3. CyclesOK'
    <2>1. \A n \in 1..Len(cycles) : cycles[n].acquired \in Nat
        BY RowTypes DEF IInv
    <2> QED
        BY <1>1, <2>1 DEF IInv, CyclesOK, Cooldown
<1> QED
    BY <1>1, <1>2, <1>3 DEF IInv, CooldownsKept, SnapshotOK, ProbesOK, ProbingOK, CircuitOK

\* A process that dies changes no table.
LEMMA AbandonInv ==
    ASSUME IInv, \/ \E w \in Workers : Abandon(w)
                 \/ \E q \in Probers : ProbeAbandon(q)
    PROVE  IInv'
<1>1. CASE \E w \in Workers : Abandon(w)
    BY <1>1 DEF IInv, Abandon, TypeOK, CyclesOK, CooldownsKept, SnapshotOK,
                ProbesOK, ProbingOK, CircuitOK, NoLease
<1>2. CASE \E q \in Probers : ProbeAbandon(q)
    <2>1. PICK q \in Probers : ProbeAbandon(q)
        BY <1>2
    <2>2. TypeOK'
        BY <2>1 DEF IInv, ProbeAbandon, TypeOK, NoProbe
    <2>3. ProbingOK'
        BY <2>1 DEF IInv, ProbeAbandon, TypeOK, ProbingOK
    <2> QED
        BY <2>1, <2>2, <2>3 DEF IInv, ProbeAbandon, CyclesOK, CooldownsKept, SnapshotOK,
                                ProbesOK, CircuitOK
<1> QED
    BY <1>1, <1>2

\* A claim is made with every cooldown over and no lease running.
LEMMA ClaimInv ==
    ASSUME IInv, NEW w \in Workers, NEW t \in Time, Claim(w, t) PROVE IInv'
<1> DEFINE row == [state |-> "ACTIVE", acquired |-> t, expires |-> t + LeaseSeconds,
                   ended |-> NoTime, outcome |-> "NULL", before |-> streak,
                   circuit |-> circuit.state, reason |-> circuit.reason]
<1>1. /\ cycles \in Seq(Cycle) /\ lastSeen \in Time /\ t \in Nat /\ lastSeen \in Nat
      /\ streak \in Nat /\ circuit \in Circuit /\ next \in Nat /\ Len(cycles) \in Nat
    BY CycleGovernorAssumption DEF IInv, TypeOK, Time
<1>2. row \in Cycle
    BY <1>1, CycleGovernorAssumption DEF Cycle, Circuit, Time
<1>3. cycles' = Append(cycles, row)
    BY DEF Claim
<1>4. /\ cycles' \in Seq(Cycle)
      /\ Len(cycles') = Len(cycles) + 1
      /\ \A n \in 1..Len(cycles) : cycles'[n] = cycles[n]
      /\ cycles'[Len(cycles) + 1] = row
    BY <1>1, <1>2, <1>3, AppendProperties
<1>5. \A n \in 1..Len(cycles) : cycles[n] \in Cycle /\ cycles[n].state # "ACTIVE"
    BY <1>1 DEF Claim, Active
<1>6. lastSeen' = t /\ lastSeen <= t /\ next <= t
    BY DEF Claim, ClockAccepted, CooldownOver
<1>7. TypeOK'
    <2>1. held' \in [Workers -> [cycle : Nat, dispatched : BOOLEAN]]
        BY <1>1 DEF IInv, TypeOK, Claim
    <2>2. \A v \in Workers : held'[v].cycle \in 0..Len(cycles')
        BY <1>1, <1>4 DEF IInv, TypeOK, Claim
    <2> QED
        BY <1>4, <2>1, <2>2 DEF IInv, TypeOK, Claim
<1>8. CyclesOK'
    BY <1>1, <1>4, <1>5, <1>6 DEF IInv, CyclesOK, Claim, Cycle, Time
<1>9. CooldownsKept'
    <2> SUFFICES ASSUME NEW m \in 1..Len(cycles'), NEW n \in 1..Len(cycles'), m < n
                 PROVE  cycles'[m].ended + Cooldown(cycles'[m].outcome) <= cycles'[n].acquired
        BY DEF CooldownsKept, Cooldown
    <2>1. m \in 1..Len(cycles)
        BY <1>1, <1>4
    <2>2. CASE n \in 1..Len(cycles)
        BY <1>4, <2>1, <2>2 DEF IInv, CooldownsKept
    <2>3. CASE n = Len(cycles) + 1
        <3>1. cycles[m].ended + Cooldown(cycles[m].outcome) <= next
            BY <1>5, <2>1 DEF IInv, CyclesOK
        <3>2. cycles[m].ended \in Int /\ Cooldown(cycles[m].outcome) \in Nat
            BY <1>5, <2>1, CycleGovernorAssumption DEF Cycle, Time, NoTime, Cooldown
        <3> QED
            BY <1>1, <1>4, <1>6, <2>1, <2>3, <3>1, <3>2
    <2> QED
        BY <1>1, <1>4, <2>2, <2>3
<1>10. SnapshotOK'
    <2>1. \A n \in 1..Len(cycles') : cycles'[n].state = "ACTIVE" => cycles'[n] = row
        BY <1>1, <1>4, <1>5
    <2>2. circuit' = circuit /\ streak' = streak
        BY DEF Claim
    <2>3. circuit.state = "CLOSED" => circuit.reason = None /\ streak < 2
        BY <1>1 DEF IInv, CircuitOK, Circuit
    <2> QED
        BY <1>1, <2>1, <2>2, <2>3 DEF SnapshotOK, IInv, CircuitOK
<1> QED
    BY <1>7, <1>8, <1>9, <1>10 DEF IInv, Claim, ProbesOK, ProbingOK, CircuitOK

\* Ending the active cycle at t: it was the newest, its cooldown starts now, and
\* so every cooldown is over when the new next_cycle_eligible_at is.
LEMMA EndCycle ==
    ASSUME IInv, NEW n \in Active, NEW t \in Time, lastSeen <= t,
           NEW state \in {"TERMINAL", "RECOVERED"}, NEW outcome \in Outcomes,
           NEW reason \in Reasons \cup {None},
           cycles' = [cycles EXCEPT ![n] = Ended(@, state, t, outcome, reason)],
           lastSeen' = t, next' = t + Cooldown(outcome)
    PROVE  /\ next' \in Nat /\ lastSeen' \in Time
           /\ cycles' \in Seq(Cycle) /\ Len(cycles') = Len(cycles)
           /\ CyclesOK' /\ CooldownsKept' /\ SnapshotOK'
<1> DEFINE row == Ended(cycles[n], state, t, outcome, reason)
<1>1. /\ TypeOK /\ cycles \in Seq(Cycle) /\ t \in Nat /\ Cooldown(outcome) \in Nat
      /\ next \in Nat
    BY CycleGovernorAssumption DEF IInv, TypeOK, Time, Cooldown
<1>2. n \in 1..Len(cycles) /\ cycles[n].state = "ACTIVE" /\ n = Len(cycles)
    BY <1>1, RowTypes DEF Active, IInv, CyclesOK
<1>3. /\ cycles[n] \in Cycle
      /\ \A m \in 1..Len(cycles) :
            /\ cycles[m].acquired \in Nat /\ cycles[m].ended \in Int
            /\ Cooldown(cycles[m].outcome) \in Nat
    BY <1>1, <1>2, RowTypes
<1>4. /\ row \in Cycle /\ row.state = state /\ row.ended = t /\ row.outcome = outcome
      /\ row.acquired = cycles[n].acquired
    BY <1>3 DEF Ended, Cycle
<1>5. /\ cycles' \in Seq(Cycle) /\ Len(cycles') = Len(cycles)
      /\ \A m \in 1..Len(cycles) : cycles'[m] = IF m = n THEN row ELSE cycles[m]
    BY <1>1, <1>2, <1>4, ExceptSeq
<1>6. \A m \in 1..Len(cycles) : cycles[m].acquired <= lastSeen
    BY DEF IInv, CyclesOK
<1>7. lastSeen \in Nat
    BY <1>1, RowTypes
<1>8. \A m \in 1..Len(cycles) : m # n =>
          /\ m < n /\ cycles[m].state # "ACTIVE" /\ cycles[m].outcome \in Outcomes
          /\ cycles[m].acquired <= cycles[m].ended
          /\ cycles[m].ended + Cooldown(cycles[m].outcome) <= cycles[n].acquired
    BY <1>1, <1>2 DEF IInv, CyclesOK, CooldownsKept
<1>9. CyclesOK'
    <2> SUFFICES ASSUME NEW m \in 1..Len(cycles)
                 PROVE  /\ cycles'[m].acquired <= t
                        /\ cycles'[m].state = "ACTIVE" => m = Len(cycles)
                        /\ cycles'[m].state # "ACTIVE" =>
                              /\ cycles'[m].outcome \in Outcomes
                              /\ cycles'[m].acquired <= cycles'[m].ended
                              /\ cycles'[m].ended + Cooldown(cycles'[m].outcome)
                                    <= t + Cooldown(outcome)
        BY <1>5 DEF CyclesOK, Cooldown
    <2>1. CASE m = n
        BY <1>1, <1>2, <1>3, <1>4, <1>5, <1>6, <1>7, <2>1
    <2>2. CASE m # n
        <3>1. cycles'[m] = cycles[m]
            BY <1>5, <2>2
        <3>2. cycles[m].acquired <= t /\ cycles[n].acquired <= t
            BY <1>1, <1>2, <1>3, <1>6, <1>7
        <3>3. cycles[m].ended + Cooldown(cycles[m].outcome) <= t + Cooldown(outcome)
            <4> DEFINE x == cycles[m].ended + Cooldown(cycles[m].outcome)
            <4>1. x <= cycles[n].acquired /\ x \in Int /\ cycles[n].acquired \in Nat
                BY <1>2, <1>3, <1>8, <2>2
            <4> HIDE DEF x
            <4>2. x <= t + Cooldown(outcome)
                BY <1>1, <3>2, <4>1
            <4> QED
                BY <4>2 DEF x
        <3> QED
            BY <1>8, <2>2, <3>1, <3>2, <3>3
    <2> QED
        BY <2>1, <2>2
<1>10. CooldownsKept'
    <2> SUFFICES ASSUME NEW k \in 1..Len(cycles), NEW m \in 1..Len(cycles), k < m
                 PROVE  cycles'[k].ended + Cooldown(cycles'[k].outcome) <= cycles'[m].acquired
        BY <1>5 DEF CooldownsKept, Cooldown
    <2>1. k # n
        BY <1>1, <1>2
    <2>2. cycles'[k] = cycles[k] /\ cycles'[m].acquired = cycles[m].acquired
        BY <1>4, <1>5, <2>1
    <2> QED
        BY <2>2 DEF IInv, CooldownsKept
<1>11. SnapshotOK'
    BY <1>2, <1>4, <1>5, <1>8 DEF SnapshotOK
<1> QED
    BY <1>1, <1>5, <1>9, <1>10, <1>11

\* Opening the circuit keeps its row well formed and forgets the evidence of the
\* last release.
LEMMA OpenedTypes ==
    ASSUME IInv, NEW reason \in Reasons, NEW at \in Time
    PROVE  LET c == Opened(reason, at) IN
           /\ c \in Circuit /\ c.state = "OPEN" /\ c.reason = reason /\ reason # None
           /\ c.opened = at /\ at # NoTime /\ c.evidence = NoEvidence
           /\ c.evidence.kind = "none" /\ c.lastProbe = circuit.lastProbe
<1>1. circuit \in Circuit
    BY DEF IInv, TypeOK
<1>2. NoEvidence \in Evidence
    BY CycleGovernorAssumption DEF NoEvidence, Evidence
<1>3. Opened(reason, at) \in Circuit
    BY <1>1, <1>2 DEF Opened, Circuit
<1>4. reason # None /\ at # NoTime
    BY CycleGovernorAssumption DEF Reasons, Time, NoTime
<1> QED
    BY <1>1, <1>3, <1>4 DEF Opened, Circuit, NoEvidence

\* A claimer that finds an expired lease ends that cycle and opens the circuit.
LEMMA RecoverInv ==
    ASSUME IInv, NEW t \in Time, NEW n \in DOMAIN cycles, ClaimRecovers(n, t)
    PROVE  IInv'
<1>1. "SYSTEMIC" \in Outcomes /\ StaleRecovery \in Reasons /\ Cooldown("SYSTEMIC") = NormalCooldown
    BY DEF Outcomes, Reasons, Cooldown
<1>2. /\ next' \in Nat /\ lastSeen' \in Time
      /\ cycles' \in Seq(Cycle) /\ Len(cycles') = Len(cycles)
      /\ CyclesOK' /\ CooldownsKept' /\ SnapshotOK'
    <2>1. /\ n \in Active /\ lastSeen <= t /\ lastSeen' = t /\ next' = t + Cooldown("SYSTEMIC")
          /\ cycles' = [cycles EXCEPT ![n] = Ended(@, "RECOVERED", t, "SYSTEMIC", StaleRecovery)]
        BY <1>1 DEF ClaimRecovers, ClockAccepted
    <2> QED
        BY <1>1, <2>1, EndCycle
<1>3. /\ circuit' \in Circuit /\ circuit'.state = "OPEN" /\ circuit'.reason # None
      /\ circuit'.opened # NoTime /\ circuit'.evidence = NoEvidence
      /\ circuit'.evidence.kind = "none" /\ circuit'.lastProbe = circuit.lastProbe
    BY <1>1, OpenedTypes DEF ClaimRecovers
<1>4. TypeOK'
    BY <1>2, <1>3 DEF IInv, TypeOK, ClaimRecovers
<1>5. ProbesOK' /\ ProbingOK' /\ CircuitOK'
    BY <1>3 DEF IInv, ProbesOK, ProbingOK, CircuitOK, ClaimRecovers
<1> QED
    BY <1>2, <1>4, <1>5 DEF IInv

\* complete writes back what it computed from the snapshot; PermitIsCurrent is
\* what makes a closed snapshot safe to write back.
LEMMA CompleteInv ==
    ASSUME IInv, NEW w \in Workers, NEW t \in Time, NEW failure \in Failures \cup {None},
           NEW accepted \in BOOLEAN, NEW idle \in BOOLEAN,
           Complete(w, t, failure, accepted, idle)
    PROVE  IInv'
<1> DEFINE n == held[w].cycle
           c == cycles[n]
           class == Class(c.circuit, failure, accepted, held[w].dispatched, idle)
           after == StreakAfter(class, c.before, accepted)
           reason == ReasonAfter(class, c, failure, after)
<1>1. /\ n \in Active /\ lastSeen <= t /\ lastSeen' = t /\ class \in Outcomes
      /\ next' = t + Cooldown(class) /\ streak' = after
      /\ cycles' = [cycles EXCEPT ![n] = Ended(@, "TERMINAL", t, class, reason)]
      /\ circuit' = IF reason = None
                    THEN circuit
                    ELSE Opened(reason, IF circuit.opened = NoTime THEN t ELSE circuit.opened)
      /\ held' = [held EXCEPT ![w] = NoLease] /\ UNCHANGED <<probes, probing>>
    BY DEF Complete, OwnsActive, ClockAccepted
<1>2. /\ n \in 1..Len(cycles) /\ c \in Cycle /\ c.state = "ACTIVE"
      /\ held[w].dispatched \in BOOLEAN
    BY <1>1, RowTypes DEF Active, IInv, TypeOK
<1>3. /\ c.circuit = "OPEN" => c.reason # None
      /\ c.circuit = "CLOSED" => /\ c.reason = None /\ c.before < 2
                                 /\ circuit.state = "CLOSED"
      /\ c.circuit \in {"OPEN", "CLOSED"} /\ c.before \in Nat
    BY <1>2 DEF IInv, SnapshotOK, Cycle
<1>4. /\ after \in Nat
      /\ reason \in Reasons \cup {None}
      /\ c.circuit = "OPEN" => reason # None
      /\ reason = None => after < 2
    <2>1. after \in Nat
        BY <1>1, <1>3, OutcomeTypes
    <2>2. /\ reason \in Reasons \cup {None}
          /\ c.circuit = "OPEN" => reason # None
          /\ reason = None => after < 2
        <3> DEFINE dispatched == held[w].dispatched
        <3>1. class = Class(c.circuit, failure, accepted, dispatched, idle)
            OBVIOUS
        <3> HIDE DEF c, class, dispatched
        <3>2. dispatched \in BOOLEAN /\ c \in Cycle /\ class \in Outcomes
            BY <1>1, <1>2 DEF dispatched
        <3> QED
            BY <1>3, <3>1, <3>2, OutcomeOpens
    <2> QED
        BY <2>1, <2>2
<1> HIDE DEF n, c, class, after, reason
<1>5. /\ next' \in Nat /\ lastSeen' \in Time
      /\ cycles' \in Seq(Cycle) /\ Len(cycles') = Len(cycles)
      /\ CyclesOK' /\ CooldownsKept' /\ SnapshotOK'
    BY <1>1, <1>4, EndCycle
<1>6. circuit \in Circuit
    BY DEF IInv, TypeOK
<1>7. circuit' \in Circuit /\ CircuitOK' /\ circuit'.lastProbe = circuit.lastProbe
    <2>1. CASE reason = None
        <3>1. circuit' = circuit /\ streak' < 2 /\ streak' \in Nat
            BY <1>1, <1>4, <2>1
        <3> QED
            BY <1>1, <1>6, <3>1 DEF IInv, CircuitOK
    <2>2. CASE reason # None
        <3> DEFINE at == IF circuit.opened = NoTime THEN t ELSE circuit.opened
        <3>1. reason \in Reasons /\ at \in Time
            BY <1>4, <1>6, <2>2 DEF Circuit
        <3>2. circuit' = Opened(reason, at)
            BY <1>1, <2>2
        <3> HIDE DEF at
        <3>3. /\ circuit' \in Circuit /\ circuit'.state = "OPEN" /\ circuit'.reason # None
              /\ circuit'.opened # NoTime /\ circuit'.evidence = NoEvidence
              /\ circuit'.evidence.kind = "none" /\ circuit'.lastProbe = circuit.lastProbe
            BY <3>1, <3>2, OpenedTypes
        <3> QED
            BY <3>3 DEF CircuitOK
    <2> QED
        BY <2>1, <2>2
<1>8. TypeOK'
    <2>1. held' \in [Workers -> [cycle : Nat, dispatched : BOOLEAN]]
        BY <1>1 DEF IInv, TypeOK, NoLease
    <2>2. \A v \in Workers : held'[v].cycle \in 0..Len(cycles')
        BY <1>1, <1>5, RowTypes DEF IInv, TypeOK, NoLease
    <2> QED
        BY <1>1, <1>4, <1>5, <1>7, <2>1, <2>2 DEF IInv, TypeOK
<1>9. ProbesOK' /\ ProbingOK'
    BY <1>1, <1>7 DEF IInv, ProbesOK, ProbingOK
<1> QED
    BY <1>5, <1>7, <1>8, <1>9 DEF IInv

\* renew moves the expiry of the active row and nothing the invariant reads.
LEMMA RenewInv ==
    ASSUME IInv, NEW w \in Workers, NEW t \in Time, NEW dispatch \in BOOLEAN,
           Renew(w, t, dispatch)
    PROVE  IInv'
<1> DEFINE n == held[w].cycle
           row == [cycles[n] EXCEPT !.expires = t + LeaseSeconds]
<1>1. /\ n \in Active /\ lastSeen <= t /\ lastSeen' = t
      /\ cycles' = [cycles EXCEPT ![n] = row]
      /\ held' = [held EXCEPT ![w] = [@ EXCEPT !.dispatched = @ \/ dispatch]]
      /\ UNCHANGED <<next, streak, circuit, probes, probing>>
    BY DEF Renew, Renewable, OwnsActive, ClockAccepted
<1>2. n \in 1..Len(cycles) /\ cycles[n] \in Cycle /\ cycles \in Seq(Cycle) /\ t \in Nat
    BY <1>1, RowTypes, CycleGovernorAssumption DEF Active, IInv, TypeOK, Time
<1>3. /\ row \in Cycle
      /\ row.state = cycles[n].state /\ row.acquired = cycles[n].acquired
      /\ row.ended = cycles[n].ended /\ row.outcome = cycles[n].outcome
      /\ row.before = cycles[n].before /\ row.circuit = cycles[n].circuit
      /\ row.reason = cycles[n].reason
    <2>1. ASSUME NEW c \in Cycle, NEW x \in Nat
          PROVE  LET r == [c EXCEPT !.expires = x] IN
                 /\ r \in Cycle
                 /\ r.state = c.state /\ r.acquired = c.acquired /\ r.ended = c.ended
                 /\ r.outcome = c.outcome /\ r.before = c.before /\ r.circuit = c.circuit
                 /\ r.reason = c.reason
        BY DEF Cycle
    <2>2. t + LeaseSeconds \in Nat
        BY <1>2, CycleGovernorAssumption
    <2> QED
        BY <1>2, <2>1, <2>2
<1>4. /\ cycles' \in Seq(Cycle) /\ Len(cycles') = Len(cycles)
      /\ \A m \in 1..Len(cycles) : cycles'[m] = IF m = n THEN row ELSE cycles[m]
    BY <1>1, <1>2, <1>3, ExceptSeq
<1> HIDE DEF row
<1>5. \A m \in 1..Len(cycles) :
          /\ cycles'[m].state = cycles[m].state
          /\ cycles'[m].acquired = cycles[m].acquired
          /\ cycles'[m].ended = cycles[m].ended
          /\ cycles'[m].outcome = cycles[m].outcome
          /\ cycles'[m].before = cycles[m].before
          /\ cycles'[m].circuit = cycles[m].circuit
          /\ cycles'[m].reason = cycles[m].reason
    BY <1>3, <1>4
<1>6. TypeOK'
    <2>1. held' \in [Workers -> [cycle : Nat, dispatched : BOOLEAN]]
        BY <1>1 DEF IInv, TypeOK
    <2>2. \A v \in Workers : held'[v].cycle = held[v].cycle
        BY <1>1 DEF IInv, TypeOK
    <2> QED
        BY <1>1, <1>4, <2>1, <2>2 DEF IInv, TypeOK
<1>7. CyclesOK'
    <2>1. lastSeen \in Nat /\ \A m \in 1..Len(cycles) : cycles[m].acquired \in Nat
        BY RowTypes DEF IInv
    <2> QED
        BY <1>1, <1>2, <1>4, <1>5, <2>1 DEF IInv, CyclesOK, Cooldown
<1>8. CooldownsKept'
    BY <1>4, <1>5 DEF IInv, CooldownsKept, Cooldown
<1>9. SnapshotOK'
    BY <1>1, <1>4, <1>5 DEF IInv, SnapshotOK
<1> QED
    BY <1>1, <1>6, <1>7, <1>8, <1>9 DEF IInv, ProbesOK, ProbingOK, CircuitOK

\* A reservation is at least the interval after the last probe, hence after all
\* of them.
LEMMA ReserveInv ==
    ASSUME IInv, NEW q \in Probers, NEW t \in Time, ProbeReserve(q, t) PROVE IInv'
<1> DEFINE row == [at |-> t, reason |-> circuit.reason, state |-> "RESERVED", passed |-> FALSE]
<1>1. /\ probes \in Seq(Probe) /\ circuit \in Circuit /\ t \in Nat /\ lastSeen \in Nat
      /\ Len(probes) \in Nat /\ circuit.reason # None /\ t # NoTime
    BY RowTypes, CycleGovernorAssumption
       DEF IInv, TypeOK, Time, NoTime, ProbeReserve, CircuitOK
<1>2. row \in Probe
    BY <1>1 DEF Probe, Circuit
<1>3. probes' = Append(probes, row)
    BY DEF ProbeReserve
<1>4. /\ probes' \in Seq(Probe) /\ Len(probes') = Len(probes) + 1
      /\ \A p \in 1..Len(probes) : probes'[p] = probes[p]
      /\ probes'[Len(probes) + 1] = row
    BY <1>1, <1>2, <1>3, AppendProperties
<1>5. /\ circuit' \in Circuit /\ circuit'.lastProbe = t /\ circuit'.state = circuit.state
      /\ circuit'.reason = circuit.reason /\ circuit'.opened = circuit.opened
      /\ circuit'.evidence = circuit.evidence
    BY <1>1 DEF ProbeReserve, Circuit
<1>6. \A p \in 1..Len(probes) : /\ probes[p].at \in Nat /\ probes[p].at <= t
                                /\ probes[p].at + ProbeInterval <= t
    <2>1. ASSUME NEW p \in 1..Len(probes)
          PROVE  /\ circuit.lastProbe # NoTime /\ probes[p].at <= circuit.lastProbe
                 /\ circuit.lastProbe \in Int /\ probes[p].at \in Nat
        BY RowTypes DEF IInv, ProbesOK
    <2>2. circuit.lastProbe # NoTime => circuit.lastProbe + ProbeInterval <= t
        BY DEF ProbeReserve, IntervalOver
    <2> QED
        BY <1>1, <2>1, <2>2, CycleGovernorAssumption
<1>7. ProbesOK'
    <2>1. \A p \in 1..Len(probes') : probes'[p].at <= t
        BY <1>1, <1>4, <1>6
    <2>2. ASSUME NEW p \in 1..Len(probes'), NEW r \in 1..Len(probes'), p < r
          PROVE  probes'[p].at + ProbeInterval <= probes'[r].at
        <3>1. p \in 1..Len(probes)
            BY <1>1, <1>4, <2>2
        <3>2. CASE r \in 1..Len(probes)
            BY <1>4, <2>2, <3>1, <3>2 DEF IInv, ProbesOK
        <3>3. CASE r = Len(probes) + 1
            BY <1>4, <1>6, <3>1, <3>3
        <3> QED
            BY <1>1, <1>4, <3>2, <3>3
    <2> QED
        BY <1>1, <1>5, <2>1, <2>2 DEF ProbesOK
<1>8. probing' = [probing EXCEPT ![q] = [probe |-> Len(probes) + 1, passed |-> FALSE]]
    BY DEF ProbeReserve
<1>9. ProbingOK'
    <2> SUFFICES ASSUME NEW r \in Probers, probing'[r] # NoProbe
                 PROVE  /\ probing'[r].probe \in 1..Len(probes')
                        /\ probing'[r].passed => /\ probes'[probing'[r].probe].state = "TERMINAL"
                                                 /\ probes'[probing'[r].probe].passed
        BY DEF ProbingOK
    <2>1. CASE r = q
        BY <1>1, <1>4, <1>8, <2>1 DEF IInv, TypeOK
    <2>2. CASE r # q
        <3>1. probing'[r] = probing[r]
            BY <1>8, <2>2 DEF IInv, TypeOK
        <3>2. probing[r].probe \in 1..Len(probes)
            BY <3>1 DEF IInv, ProbingOK
        <3>3. probes'[probing[r].probe] = probes[probing[r].probe]
            BY <1>4, <3>2
        <3> QED
            BY <1>1, <1>4, <3>1, <3>2, <3>3 DEF IInv, ProbingOK
    <2> QED
        BY <2>1, <2>2
<1>10. TypeOK'
    <2>1. probing' \in [Probers -> [probe : Nat, passed : BOOLEAN]]
        BY <1>1, <1>8 DEF IInv, TypeOK
    <2>2. \A r \in Probers : probing'[r].probe \in 0..Len(probes')
        BY <1>1, <1>4, <1>8 DEF IInv, TypeOK
    <2> QED
        BY <1>4, <1>5, <2>1, <2>2 DEF IInv, TypeOK, ProbeReserve
<1>11. CircuitOK'
    BY <1>1, <1>4, <1>5 DEF IInv, CircuitOK, ProbeReserve
<1>12. CyclesOK'
    <2>1. \A n \in 1..Len(cycles) : cycles[n].acquired \in Nat
        BY RowTypes DEF IInv
    <2> QED
        BY <1>1, <2>1 DEF IInv, CyclesOK, Cooldown, ProbeReserve, ClockAccepted
<1>13. CooldownsKept' /\ SnapshotOK'
    BY <1>5 DEF IInv, CooldownsKept, Cooldown, SnapshotOK, ProbeReserve
<1> QED
    BY <1>7, <1>9, <1>10, <1>11, <1>12, <1>13 DEF IInv

\* Recording a probe's result touches only its RESERVED row.
LEMMA TerminalInv ==
    ASSUME IInv, NEW q \in Probers, NEW t \in Time, NEW passed \in BOOLEAN,
           ProbeTerminal(q, t, passed)
    PROVE  IInv'
<1> DEFINE p == probing[q].probe
           row == [probes[p] EXCEPT !.state = "TERMINAL", !.passed = passed]
<1>1. /\ p \in 1..Len(probes) /\ probes \in Seq(Probe) /\ probes[p] \in Probe
      /\ probes[p].state = "RESERVED" /\ lastSeen \in Nat /\ t \in Nat /\ lastSeen <= t
      /\ lastSeen' = t
    BY RowTypes, CycleGovernorAssumption
       DEF IInv, TypeOK, ProbingOK, ProbeTerminal, ClockAccepted, Time
<1>2. row \in Probe /\ row.at = probes[p].at /\ row.state = "TERMINAL" /\ row.passed = passed
    BY <1>1 DEF Probe
<1>3. /\ probes' = [probes EXCEPT ![p] = row]
      /\ probing' = [probing EXCEPT ![q] = IF passed THEN [probe |-> p, passed |-> TRUE]
                                                    ELSE NoProbe]
      /\ UNCHANGED <<next, streak, circuit, cycles, held>>
    BY DEF ProbeTerminal, ContinuesAfter
<1>4. /\ probes' \in Seq(Probe) /\ Len(probes') = Len(probes)
      /\ \A r \in 1..Len(probes) : probes'[r] = IF r = p THEN row ELSE probes[r]
    BY <1>1, <1>2, <1>3, ExceptSeq
<1>5. p \in Nat
    BY <1>1
<1> HIDE DEF p, row
<1>6. \A r \in 1..Len(probes) : /\ probes'[r].at = probes[r].at
                                /\ probes[r].state = "TERMINAL" => probes'[r] = probes[r]
    BY <1>1, <1>2, <1>4
<1>7. ProbesOK'
    BY <1>3, <1>4, <1>6 DEF IInv, ProbesOK
<1>8. ProbingOK'
    <2> SUFFICES ASSUME NEW r \in Probers, probing'[r] # NoProbe
                 PROVE  /\ probing'[r].probe \in 1..Len(probes)
                        /\ probing'[r].passed => /\ probes'[probing'[r].probe].state = "TERMINAL"
                                                 /\ probes'[probing'[r].probe].passed
        BY <1>4 DEF ProbingOK
    <2>1. CASE r = q
        <3>1. probing'[r] = IF passed THEN [probe |-> p, passed |-> TRUE] ELSE NoProbe
            BY <1>3, <2>1 DEF IInv, TypeOK
        <3>2. passed
            BY <3>1
        <3>3. probing'[r] = [probe |-> p, passed |-> TRUE]
            BY <3>1, <3>2
        <3>4. probes'[p].state = "TERMINAL" /\ probes'[p].passed = passed
            BY <1>1, <1>2, <1>4
        <3>5. probing'[r].probe = p
            BY <3>3
        <3> QED
            BY <1>1, <3>2, <3>4, <3>5
    <2>2. CASE r # q
        <3>1. probing'[r] = probing[r]
            BY <1>3, <2>2 DEF IInv, TypeOK
        <3> QED
            BY <1>6, <3>1 DEF IInv, ProbingOK
    <2> QED
        BY <2>1, <2>2
<1>9. TypeOK'
    <2>1. probing' \in [Probers -> [probe : Nat, passed : BOOLEAN]]
        BY <1>3, <1>5 DEF IInv, TypeOK, NoProbe
    <2>2. \A r \in Probers : probing'[r].probe \in 0..Len(probes')
        BY <1>1, <1>3, <1>4 DEF IInv, TypeOK, NoProbe
    <2> QED
        BY <1>1, <1>3, <1>4, <2>1, <2>2 DEF IInv, TypeOK
<1>10. CircuitOK'
    BY <1>3, <1>4, <1>6 DEF IInv, CircuitOK
<1>11. CyclesOK'
    <2>1. \A n \in 1..Len(cycles) : cycles[n].acquired \in Nat
        BY RowTypes DEF IInv
    <2> QED
        BY <1>1, <1>3, <2>1 DEF IInv, CyclesOK, Cooldown
<1> QED
    BY <1>3, <1>7, <1>8, <1>9, <1>10, <1>11 DEF IInv, CooldownsKept, Cooldown, SnapshotOK

\* Closing the circuit resets the streak; a lease that saw it open keeps its own
\* snapshot, so no permission becomes stale.
LEMMA ReleaseInv ==
    ASSUME IInv, NEW t \in Time, NEW reason, NEW evidence \in Evidence,
           evidence.kind = "probe" =>
              /\ evidence.probe \in 1..Len(probes)
              /\ probes[evidence.probe].state = "TERMINAL"
              /\ probes[evidence.probe].passed,
           ReleaseCircuit(reason, t, evidence),
           UNCHANGED <<next, cycles, probes, held>>,
           probing' \in [Probers -> [probe : Nat, passed : BOOLEAN]],
           \A q \in Probers : probing'[q].probe \in 0..Len(probes),
           ProbingOK'
    PROVE  IInv'
<1>1. /\ circuit \in Circuit /\ circuit.state = "OPEN" /\ streak' = 0 /\ lastSeen' = t
      /\ lastSeen <= t /\ lastSeen \in Nat /\ t \in Nat
    BY CycleGovernorAssumption DEF IInv, TypeOK, ReleaseCircuit, ClockAccepted, Time
<1>2. /\ circuit' \in Circuit /\ circuit'.state = "CLOSED" /\ circuit'.reason = None
      /\ circuit'.opened = NoTime /\ circuit'.evidence = evidence
      /\ circuit'.lastProbe = circuit.lastProbe
    BY <1>1 DEF ReleaseCircuit, Circuit
<1>3. TypeOK'
    BY <1>1, <1>2 DEF IInv, TypeOK
<1>4. CyclesOK'
    <2>1. \A n \in 1..Len(cycles) : cycles[n].acquired \in Nat
        BY RowTypes DEF IInv
    <2> QED
        BY <1>1, <2>1 DEF IInv, CyclesOK, Cooldown
<1>5. SnapshotOK'
    BY <1>1 DEF IInv, SnapshotOK
<1>6. CircuitOK'
    BY <1>1, <1>2 DEF CircuitOK
<1> QED
    BY <1>2, <1>3, <1>4, <1>5, <1>6 DEF IInv, CooldownsKept, Cooldown, ProbesOK

\* Both ways of releasing: by a recorded passed probe, or by the operator.
LEMMA ReleasesInv ==
    ASSUME IInv, NEW t \in Time,
           (\E q \in Probers : ProbeRelease(q, t)) \/ OperatorReset(t)
    PROVE  IInv'
<1>1. CASE \E q \in Probers : ProbeRelease(q, t)
    <2>1. PICK q \in Probers : ProbeRelease(q, t)
        BY <1>1
    <2> DEFINE p == probing[q].probe
               evidence == [kind |-> "probe", probe |-> p]
    <2>2. /\ p \in 1..Len(probes) /\ probes[p].state = "TERMINAL" /\ probes[p].passed
        <3>1. probing[q].passed
            BY <2>1 DEF ProbeRelease
        <3>2. probing[q] # NoProbe
            BY <3>1 DEF NoProbe
        <3> QED
            BY <3>1, <3>2 DEF IInv, ProbingOK
    <2>3. ReleaseCircuit(probes[p].reason, t, evidence) /\ UNCHANGED <<next, cycles, probes, held>>
        BY <2>1 DEF ProbeRelease
    <2>4. probing' = [probing EXCEPT ![q] = NoProbe]
        BY <2>1 DEF ProbeRelease
    <2>5. /\ probing' \in [Probers -> [probe : Nat, passed : BOOLEAN]]
          /\ \A r \in Probers : probing'[r].probe \in 0..Len(probes)
        BY <2>4 DEF IInv, TypeOK, NoProbe
    <2>6. ProbingOK'
        BY <2>3, <2>4 DEF IInv, TypeOK, ProbingOK
    <2>7. evidence.kind = "probe" /\ evidence.probe = p
        OBVIOUS
    <2>8. evidence \in Evidence
        BY <2>2 DEF Evidence
    <2> HIDE DEF evidence, p
    <2> QED
        BY <2>2, <2>3, <2>5, <2>6, <2>7, <2>8, ReleaseInv
<1>2. CASE OperatorReset(t)
    <2> DEFINE evidence == [kind |-> "operator", probe |-> 0]
    <2>1. evidence \in Evidence /\ evidence.kind # "probe"
        BY CycleGovernorAssumption DEF Evidence
    <2>2. /\ ReleaseCircuit(circuit.reason, t, evidence)
          /\ UNCHANGED <<next, cycles, probes, held, probing>>
        BY <1>2 DEF OperatorReset
    <2>3. /\ probing' \in [Probers -> [probe : Nat, passed : BOOLEAN]]
          /\ \A q \in Probers : probing'[q].probe \in 0..Len(probes)
          /\ ProbingOK'
        BY <2>2 DEF IInv, TypeOK, ProbingOK
    <2> HIDE DEF evidence
    <2> QED
        BY <2>1, <2>2, <2>3, ReleaseInv
<1> QED
    BY <1>1, <1>2

-----------------------------------------------------------------------------
(* The theorems.                                                           *)

\* Every operation of the governor, its workers and its probers keeps IInv.
LEMMA NextInv == IInv /\ [Next]_vars => IInv'
<1> SUFFICES ASSUME IInv, [Next]_vars PROVE IInv'
    OBVIOUS
<1>1. CASE UNCHANGED vars
    BY <1>1 DEF vars, IInv, TypeOK, CyclesOK, CooldownsKept, SnapshotOK, ProbesOK,
                ProbingOK, CircuitOK, Cooldown
<1>2. CASE Next
    <2>1. ASSUME NEW t \in Time, ClaimRefused(t) PROVE IInv'
        BY <2>1, ClaimRefusedInv
    <2>2. ASSUME NEW t \in Time, NEW n \in DOMAIN cycles, ClaimRecovers(n, t) PROVE IInv'
        BY <2>2, RecoverInv
    <2>3. ASSUME NEW t \in Time, NEW w \in Workers, Claim(w, t) PROVE IInv'
        BY <2>3, ClaimInv
    <2>4. ASSUME NEW t \in Time, NEW w \in Workers, NEW dispatch \in BOOLEAN,
                 Renew(w, t, dispatch)
          PROVE  IInv'
        BY <2>4, RenewInv
    <2>5. ASSUME NEW t \in Time, NEW w \in Workers, NEW failure \in Failures \cup {None},
                 NEW accepted \in BOOLEAN, NEW idle \in BOOLEAN,
                 Complete(w, t, failure, accepted, idle)
          PROVE  IInv'
        BY <2>5, CompleteInv
    <2>6. ASSUME NEW t \in Time, NEW q \in Probers, ProbeReserve(q, t) PROVE IInv'
        BY <2>6, ReserveInv
    <2>7. ASSUME NEW t \in Time, NEW q \in Probers, NEW passed \in BOOLEAN,
                 ProbeTerminal(q, t, passed)
          PROVE  IInv'
        BY <2>7, TerminalInv
    <2>8. ASSUME NEW t \in Time, (\E q \in Probers : ProbeRelease(q, t)) \/ OperatorReset(t)
          PROVE  IInv'
        BY <2>8, ReleasesInv
    <2>9. CASE (\E w \in Workers : Abandon(w)) \/ (\E q \in Probers : ProbeAbandon(q))
        BY <2>9, AbandonInv
    <2> QED
        BY <1>2, <2>1, <2>2, <2>3, <2>4, <2>5, <2>6, <2>7, <2>8, <2>9 DEF Next
<1> QED
    BY <1>1, <1>2

\* IInv is inductive.
THEOREM Inductive == Spec => []IInv
BY InitInv, NextInv, PTL DEF Spec

\* Type correctness of the governor's rows and of the processes around it.
THEOREM TypeCorrect == Spec => []TypeOK
<1>1. IInv => TypeOK
    BY DEF IInv
<1> QED
    BY <1>1, Inductive, PTL

\* No two governed units overlap and none starts inside a cooldown, whatever the
\* clocks of the workers show.
THEOREM NoEarlyStarts == Spec => []NoEarlyStart
<1>1. IInv => NoEarlyStart
    <2> SUFFICES ASSUME IInv, NEW m \in DOMAIN cycles, NEW n \in DOMAIN cycles, m < n
                 PROVE  /\ cycles[m].state # "ACTIVE"
                        /\ cycles[m].acquired <= cycles[m].ended
                        /\ cycles[m].ended + Cooldown(cycles[m].outcome) <= cycles[n].acquired
        BY DEF NoEarlyStart, Cooldown
    <2>1. m \in 1..Len(cycles) /\ n \in 1..Len(cycles) /\ Len(cycles) \in Nat
        BY RowTypes DEF IInv
    <2>2. cycles[m].state # "ACTIVE"
        BY <2>1 DEF IInv, CyclesOK
    <2> QED
        BY <2>1, <2>2 DEF IInv, CyclesOK, CooldownsKept
<1> QED
    BY <1>1, Inductive, PTL

\* A worker's permission to dispatch is current as long as its lease is active.
THEOREM PermitsAreCurrent == Spec => []PermitIsCurrent
<1>1. IInv => PermitIsCurrent
    BY RowTypes DEF IInv, PermitIsCurrent, SnapshotOK, Active
<1> QED
    BY <1>1, Inductive, PTL

\* Health probes keep their interval across every opening of the circuit.
THEOREM ProbesAreSpaced == Spec => []ProbesSpaced
<1>1. IInv => ProbesSpaced
    BY RowTypes DEF IInv, ProbesSpaced, ProbesOK
<1> QED
    BY <1>1, Inductive, PTL

\* The circuit row always says why it is open, or what closed it.
THEOREM CircuitExplained == Spec => []CircuitIsExplained
<1>1. IInv => CircuitIsExplained
    BY RowTypes DEF IInv, CircuitIsExplained, CircuitOK
<1> QED
    BY <1>1, Inductive, PTL

\* Ended cycles are final and recorded time never goes back.
THEOREM EndedIsFinal == Spec => EndedCycleIsFinal
<1> DEFINE Step == /\ lastSeen <= lastSeen'
                   /\ \A n \in DOMAIN cycles :
                         cycles[n].state # "ACTIVE" => cycles'[n] = cycles[n]
<1>1. ASSUME IInv, Next PROVE Step
    <2>1. /\ lastSeen \in Nat /\ cycles \in Seq(Cycle) /\ DOMAIN cycles = 1..Len(cycles)
          /\ \A n \in DOMAIN cycles : cycles[n] \in Cycle
        BY <1>1, RowTypes DEF IInv, TypeOK
    <2>2. ASSUME NEW t \in Time, NEW n \in DOMAIN cycles, ClaimRecovers(n, t) PROVE Step
        BY <2>1, <2>2 DEF ClaimRecovers, ClockAccepted, Active
    <2>3. ASSUME NEW t \in Time, NEW w \in Workers, Claim(w, t) PROVE Step
        BY <2>1, <2>3 DEF Claim, ClockAccepted
    <2>4. ASSUME NEW t \in Time, NEW w \in Workers, NEW dispatch \in BOOLEAN,
                 Renew(w, t, dispatch)
          PROVE  Step
        BY <2>1, <2>4 DEF Renew, Renewable, OwnsActive, Active, ClockAccepted
    <2>5. ASSUME NEW t \in Time, NEW w \in Workers, NEW failure \in Failures \cup {None},
                 NEW accepted \in BOOLEAN, NEW idle \in BOOLEAN,
                 Complete(w, t, failure, accepted, idle)
          PROVE  Step
        <3> DEFINE m == held[w].cycle
        <3>1. /\ lastSeen <= lastSeen' /\ m \in Active
              /\ \E row : cycles' = [cycles EXCEPT ![m] = row]
            BY <2>5 DEF Complete, OwnsActive, ClockAccepted
        <3> QED
            BY <2>1, <3>1 DEF Active
    <2>6. ASSUME NEW t \in Time,
                 \/ ClaimRefused(t)
                 \/ \E q \in Probers :
                       \/ ProbeReserve(q, t)
                       \/ \E passed \in BOOLEAN : ProbeTerminal(q, t, passed)
                       \/ ProbeRelease(q, t)
                 \/ OperatorReset(t)
          PROVE  Step
        BY <2>1, <2>6 DEF ClaimRefused, ProbeReserve, ProbeTerminal, ProbeRelease,
                          OperatorReset, ReleaseCircuit, ClockAccepted
    <2>7. CASE (\E w \in Workers : Abandon(w)) \/ (\E q \in Probers : ProbeAbandon(q))
        BY <2>1, <2>7 DEF Abandon, ProbeAbandon
    <2> QED
        BY <1>1, <2>2, <2>3, <2>4, <2>5, <2>6, <2>7 DEF Next
<1>2. IInv /\ [Next]_vars => [Step]_vars
    BY <1>1
<1> QED
    BY <1>2, Inductive, PTL DEF Spec, EndedCycleIsFinal

=============================================================================
