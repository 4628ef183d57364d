---------------------- MODULE GraphitiEventQueueProofs ----------------------
(***************************************************************************)
(* Proofs about GraphitiEventQueue, for any set of workers, any length of  *)
(* the ledger and any number of faults.  The invariant is a statement      *)
(* about each row on its own, RowInv, and the types of the rest.  What it  *)
(* adds to the properties is that a claimed row has a sound manifest: a    *)
(* claim recovers lapsed rows and buries damaged ones in one transaction,  *)
(* and only this fact excludes that it buries a row some worker still      *)
(* holds.  That attempts are not shared is a second invariant on top of    *)
(* it, AttemptInv.                                                         *)
(***************************************************************************)
EXTENDS GraphitiEventQueue, WellFoundedInduction, TLAPS

HeldBack == {"RETRY_HELD", "RIGHTS_HELD", "CONFIGURATION_HELD"}

RowInv(row, s, ld, cp) ==
    /\ row \in Row
    /\ row.state \in Claimed <=> row.owner # None
    /\ row.state # "ABSENT" => s \in ld
    /\ row.state \in Claimed => row.valid
    /\ row.state \in HeldBack => cp < s

RowsInv == \A s \in Seqs : RowInv(events[s], s, landed, checkpoint)

JobInv ==
    /\ job \in [Workers -> Job]
    /\ \A w \in Workers : (job[w].phase = "idle") = (job[w].event = None)

LedgerInv ==
    /\ head \in 0..MaxSeq
    /\ landed \subseteq 1..head
    /\ held \subseteq landed
    /\ checkpoint \in 0..head
    /\ circuit \in {"CLOSED", "OPEN", "DUE"}
    /\ faults \in 0..MaxFaults

\* The inductive invariant.
IInv ==
    /\ LedgerInv
    /\ events \in [Seqs -> Row]
    /\ RowsInv
    /\ JobInv

-----------------------------------------------------------------------------
(* Rows.                                                                   *)

\* A non-empty set of ledger positions has a least element.
LEMMA LeastSeq ==
    ASSUME NEW S, S \subseteq Nat, S # {}
    PROVE  \E s \in S : \A r \in S : s <= r
<1>1. PICK x \in S : \A y \in S : ~(<<y, x>> \in OpToRel(<, Nat))
    BY NatLessThanWellFounded, WFMin, Zenon
<1>2. \A y \in S : ~(y < x)
    BY <1>1 DEF OpToRel
<1>3. \A y \in S : x <= y
    BY <1>2
<1> QED
    BY <1>3

\* _advance_checkpoint stays within the ledger and below every open row.
LEMMA WatermarkBelowGaps ==
    ASSUME NEW ev \in [Seqs -> Row], head \in 0..MaxSeq, MaxSeq \in Nat,
           \A s \in Seqs : ev[s].state # "ABSENT" => s \in 1..head
    PROVE  /\ Watermark(ev) \in 0..head
           /\ \A s \in Gaps(ev) : Watermark(ev) < s
<1>1. CASE Gaps(ev) = {}
    BY <1>1 DEF Watermark
<1>2. CASE Gaps(ev) # {}
    <2> DEFINE m == CHOOSE s \in Gaps(ev) : \A r \in Gaps(ev) : s <= r
    <2>1. Gaps(ev) \subseteq 1..head
        BY DEF Gaps, Seqs
    <2>2. Gaps(ev) \subseteq Nat
        BY <2>1
    <2>3. \E s \in Gaps(ev) : \A r \in Gaps(ev) : s <= r
        BY <1>2, <2>2, LeastSeq
    <2>4. m \in Gaps(ev) /\ \A r \in Gaps(ev) : m <= r
        BY <2>3
    <2>5. Watermark(ev) = m - 1
        BY <1>2 DEF Watermark
    <2>6. m \in 1..head
        BY <2>1, <2>4
    <2> HIDE DEF m
    <2>7. Watermark(ev) \in 0..head
        BY <2>5, <2>6
    <2>8. ASSUME NEW s \in Gaps(ev) PROVE Watermark(ev) < s
        BY <2>1, <2>4, <2>5, <2>6
    <2> QED
        BY <2>7, <2>8
<1> QED
    BY <1>1, <1>2

\* A row just inserted meets the invariant.
LEMMA InsertedRow ==
    ASSUME NEW bound \in BOOLEAN, NEW s \in landed
    PROVE  RowInv(Inserted(bound), s, landed, checkpoint)
<1>1. Inserted(bound) \in Row
    BY GraphitiEventQueueAssumption DEF Row, Inserted, Waiting
<1> QED
    BY <1>1 DEF RowInv, Inserted, Claimed, HeldBack

\* An upsert without units inserts a missing row and changes no other.
LEMMA UpsertWithoutUnits ==
    ASSUME NEW row \in Row
    PROVE  Upsert(row, FALSE) =
             IF row.state = "ABSENT"
             THEN Inserted(FALSE)
             ELSE row
BY DEF Upsert, ConflictUpdates

\* What a reconciliation leaves in a row.
LEMMA ReconciledRow ==
    ASSUME IInv, NEW s \in Seqs
    PROVE  /\ Reconciled[s] = IF s \in landed \ held /\ events[s].state = "ABSENT"
                              THEN Inserted(FALSE)
                              ELSE events[s]
           /\ RowInv(Reconciled[s], s, landed, checkpoint)
<1>1. events[s] \in Row /\ RowInv(events[s], s, landed, checkpoint)
    BY DEF IInv, RowsInv
<1>2. Reconciled[s] = IF s \in landed \ held /\ events[s].state = "ABSENT"
                      THEN Inserted(FALSE)
                      ELSE events[s]
    BY <1>1, UpsertWithoutUnits DEF Reconciled
<1>3. CASE s \in landed \ held /\ events[s].state = "ABSENT"
    <2>1. Reconciled[s] = Inserted(FALSE)
        BY <1>2, <1>3
    <2>2. RowInv(Inserted(FALSE), s, landed, checkpoint)
        BY <1>3, InsertedRow
    <2> QED
        BY <1>2, <2>1, <2>2
<1>4. CASE ~(s \in landed \ held /\ events[s].state = "ABSENT")
    BY <1>1, <1>2, <1>4
<1> QED
    BY <1>2, <1>3, <1>4

\* A row that goes back to the queue.
LEMMA RequeuedRow ==
    ASSUME NEW row \in Row, NEW r, r = [row EXCEPT !.state = "QUEUED", !.owner = None]
    PROVE  /\ r.state = "QUEUED" /\ r.owner = None
           /\ r.valid = row.valid /\ r.attempts = row.attempts /\ r \in Row
BY DEF Row, Waiting

\* What a recovery after it leaves: a row as it was, or queued and unclaimed.
LEMMA ScanRow ==
    ASSUME IInv, NEW s \in Seqs, NEW seen
    PROVE  /\ RowInv(Scan(seen)[s], s, landed, checkpoint)
           /\ \/ Scan(seen)[s] = events[s]
              \/ events[s].state = "ABSENT" /\ Scan(seen)[s].state = "QUEUED"
              \/ /\ events[s].state \in Claimed
                 /\ Scan(seen)[s].state = "QUEUED"
                 /\ Scan(seen)[s].valid
<1> DEFINE row == Reconciled[s]
<1>1. RowInv(row, s, landed, checkpoint)
    BY ReconciledRow
<1>2. row = events[s] \/ (events[s].state = "ABSENT" /\ row.state = "QUEUED")
    BY ReconciledRow DEF Inserted
<1>3. Scan(seen)[s] = IF Expired(row) /\ s \in seen /\ s \notin held
                      THEN [row EXCEPT !.state = "QUEUED", !.owner = None]
                      ELSE row
    BY DEF Scan, Recover
<1> HIDE DEF row
<1>4. CASE Expired(row) /\ s \in seen /\ s \notin held
    <2>1. row.state \in Claimed
        BY <1>4 DEF Expired
    <2>2. row = events[s]
        BY <1>2, <2>1 DEF Claimed
    <2>3. /\ Scan(seen)[s].state = "QUEUED" /\ Scan(seen)[s].owner = None
          /\ Scan(seen)[s].valid = row.valid /\ Scan(seen)[s] \in Row
        <3>1. row \in Row
            BY <1>1 DEF RowInv
        <3>2. Scan(seen)[s] = [row EXCEPT !.state = "QUEUED", !.owner = None]
            BY <1>3, <1>4
        <3> QED
            BY <3>1, <3>2, RequeuedRow
    <2> QED
        BY <1>1, <2>1, <2>2, <2>3 DEF RowInv, Claimed, HeldBack
<1>5. CASE ~(Expired(row) /\ s \in seen /\ s \notin held)
    BY <1>1, <1>2, <1>3, <1>5
<1> QED
    BY <1>4, <1>5

-----------------------------------------------------------------------------
(* Steps.  Every action preserves the invariant and keeps to RowStep, the  *)
(* two action properties for one row.                                      *)

Outcome(state) == state \notin {"CLAIMED", "RUNNING", "QUEUED"}

EndsByOwner(s) ==
    \E w \in Workers : events[s].owner = w /\ job[w].event = s /\ job'[w] = Idle

RowStep(s) ==
    /\ events[s].state = "TERMINAL" => events'[s] = events[s]
    /\ events[s].state \in Claimed /\ Outcome(events'[s].state) => EndsByOwner(s)

Good == IInv' /\ \A s \in Seqs : RowStep(s)

\* It is enough to look at the ledger, at each row and at the jobs.
LEMMA GoodByRows ==
    ASSUME LedgerInv', JobInv', events' = [s \in Seqs |-> events'[s]],
           \A s \in Seqs : RowInv(events'[s], s, landed', checkpoint') /\ RowStep(s)
    PROVE  Good
<1>1. \A s \in Seqs : events'[s] \in Row
    BY DEF RowInv
<1>2. events' \in [Seqs -> Row]
    BY <1>1
<1> QED
    BY <1>2 DEF Good, IInv, RowsInv

\* A row that does not change meets the invariant under a longer ledger.
LEMMA RowKept ==
    ASSUME IInv, NEW s \in Seqs, events'[s] = events[s],
           landed \subseteq landed', checkpoint' = checkpoint
    PROVE  RowInv(events'[s], s, landed', checkpoint') /\ RowStep(s)
<1>1. RowInv(events[s], s, landed, checkpoint)
    BY DEF IInv, RowsInv
<1> QED
    BY <1>1 DEF RowInv, RowStep, Outcome, Claimed

\* A worker that returns, and one that takes up an event, has a proper job.
LEMMA JobReturns ==
    ASSUME IInv, NEW w \in Workers, Return(w)
    PROVE  JobInv' /\ job'[w] = Idle
<1>1. Idle \in Job
    BY GraphitiEventQueueAssumption DEF Idle, Job, Phases
<1>2. job' \in [Workers -> Job]
    BY <1>1 DEF IInv, JobInv, Return
<1>3. \A v \in Workers : job'[v] = IF v = w THEN Idle ELSE job[v]
    BY DEF IInv, JobInv, Return
<1>4. (Idle.phase = "idle") = (Idle.event = None)
    BY DEF Idle
<1>5. \A v \in Workers : (job'[v].phase = "idle") = (job'[v].event = None)
    BY <1>3, <1>4 DEF IInv, JobInv
<1> QED
    BY <1>2, <1>3, <1>5 DEF JobInv

\* A worker that advances to another phase keeps its event.
LEMMA JobAdvances ==
    ASSUME IInv, NEW w \in Workers, NEW j \in Job,
           job[w].phase # "idle", j.phase # "idle", j.event = job[w].event,
           job' = [job EXCEPT ![w] = j]
    PROVE  JobInv'
BY DEF IInv, JobInv

\* The event of a worker inside process_one is a ledger position.
LEMMA JobHasEvent ==
    ASSUME IInv, NEW w \in Workers, job[w].phase # "idle"
    PROVE  job[w].event \in Seqs
BY DEF IInv, JobInv, Job

\* None is no ledger position, so a claim gives its worker an event.
LEMMA JobTakesUp ==
    ASSUME IInv, NEW w \in Workers, NEW s \in Seqs, s # None, TakesUp(w, s)
    PROVE  JobInv'
<1> DEFINE j == [phase |-> "claimed", event |-> s, attempt |-> 0, ending |-> "RETRY_HELD"]
<1>1. j \in Job
    BY GraphitiEventQueueAssumption DEF Job, Phases
<1>2. job' = [job EXCEPT ![w] = j]
    BY DEF TakesUp
<1>3. j.phase = "claimed" /\ j.event = s
    OBVIOUS
<1> HIDE DEF j
<1> QED
    BY <1>1, <1>2, <1>3 DEF IInv, JobInv

-----------------------------------------------------------------------------
(* The ledger, the clock and the damage.                                   *)

\* The ledger grows by one entry.
LEMMA LedgerGrows ==
    ASSUME IInv, head < MaxSeq, head' = head + 1,
           landed' \subseteq landed \cup {head + 1}, held' \subseteq landed',
           UNCHANGED <<checkpoint, circuit, faults>>
    PROVE  LedgerInv'
<1>1. /\ head' \in 0..MaxSeq /\ checkpoint' \in 0..head' /\ 1..head \subseteq 1..head'
      /\ head + 1 \in 1..head'
    BY GraphitiEventQueueAssumption DEF IInv, LedgerInv
<1>2. landed' \subseteq 1..head'
    BY <1>1 DEF IInv, LedgerInv
<1> QED
    BY <1>1, <1>2 DEF IInv, LedgerInv

\* A new ledger entry, of either kind.
LEMMA AppendGood ==
    ASSUME IInv, Land \/ AppendOther
    PROVE  Good
<1>1. LedgerInv'
    <2>1. head < MaxSeq /\ head' = head + 1 /\ landed' \subseteq landed \cup {head + 1}
        BY DEF Land, AppendOther
    <2>2. held' \subseteq landed'
        BY DEF IInv, LedgerInv, Land, AppendOther
    <2>3. UNCHANGED <<checkpoint, circuit, faults>>
        BY DEF Land, AppendOther
    <2> QED
        BY <2>1, <2>2, <2>3, LedgerGrows
<1>2. JobInv'
    BY DEF IInv, JobInv, Land, AppendOther
<1>3. events' = events /\ checkpoint' = checkpoint /\ landed \subseteq landed'
    BY DEF Land, AppendOther
<1>4. events' = [s \in Seqs |-> events'[s]]
    BY <1>3 DEF IInv
<1> QED
    BY <1>1, <1>2, <1>3, <1>4, RowKept, GoodByRows

\* The circuit's time passes, or an exact claim that finds nothing closes it.
LEMMA CircuitGood ==
    ASSUME IInv, ElapseCircuit \/ ClaimExactNothing
    PROVE  Good
<1>1. LedgerInv'
    BY DEF IInv, LedgerInv, ElapseCircuit, ClaimExactNothing
<1>2. JobInv'
    BY DEF IInv, JobInv, ElapseCircuit, ClaimExactNothing
<1>3. events' = events /\ checkpoint' = checkpoint /\ landed \subseteq landed'
    BY DEF ElapseCircuit, ClaimExactNothing
<1>4. events' = [s \in Seqs |-> events'[s]]
    BY <1>3 DEF IInv
<1> QED
    BY <1>1, <1>2, <1>3, <1>4, RowKept, GoodByRows

\* One row is replaced by r, the rest of the rows stay: look at r only.
LEMMA GoodByOneRow ==
    ASSUME IInv, NEW s \in Seqs, NEW r, events' = [events EXCEPT ![s] = r],
           landed \subseteq landed', checkpoint' = checkpoint, LedgerInv', JobInv',
           RowInv(r, s, landed', checkpoint'),
           events[s].state # "TERMINAL",
           events[s].state \in Claimed => ~Outcome(r.state)
    PROVE  Good
<1>1. events \in [Seqs -> Row]
    BY DEF IInv
<1>2. events' = [t \in Seqs |-> events'[t]]
    BY <1>1
<1>3. ASSUME NEW t \in Seqs
      PROVE  RowInv(events'[t], t, landed', checkpoint') /\ RowStep(t)
    <2>1. CASE t = s
        BY <1>1, <2>1 DEF RowStep
    <2>2. CASE t # s
        BY <1>1, <2>2, RowKept
    <2> QED
        BY <2>1, <2>2
<1> QED
    BY <1>2, <1>3, GoodByRows

\* A timestamp passes, or a waiting manifest is damaged.
LEMMA RowTouchedGood ==
    ASSUME IInv, NEW s \in Seqs, Corrupt(s) \/ Elapse(s)
    PROVE  Good
<1>1. RowInv(events[s], s, landed, checkpoint)
    BY DEF IInv, RowsInv
<1>2. LedgerInv' /\ landed' = landed /\ checkpoint' = checkpoint
    BY GraphitiEventQueueAssumption DEF IInv, LedgerInv, Corrupt, Elapse
<1>3. JobInv'
    BY DEF IInv, JobInv, Corrupt, Elapse
<1>4. CASE Corrupt(s)
    <2> DEFINE r == [events[s] EXCEPT !.valid = FALSE]
    <2>1. events' = [events EXCEPT ![s] = r]
        BY <1>4 DEF Corrupt
    <2>2. events[s].state \in Waiting
        BY <1>4 DEF Corrupt
    <2>3. r \in Row /\ r.state = events[s].state /\ r.owner = events[s].owner
        BY <1>1 DEF RowInv, Row
    <2> HIDE DEF r
    <2>4. RowInv(r, s, landed', checkpoint')
        BY <1>1, <1>2, <2>2, <2>3 DEF RowInv, Waiting, Claimed
    <2>5. events[s].state # "TERMINAL" /\ events[s].state \notin Claimed
        BY <2>2 DEF Waiting, Claimed
    <2> QED
        BY <1>2, <1>3, <2>1, <2>4, <2>5, GoodByOneRow
<1>5. CASE Elapse(s)
    <2> DEFINE r == [events[s] EXCEPT !.due = TRUE]
    <2>1. events' = [events EXCEPT ![s] = r]
        BY <1>5 DEF Elapse
    <2>2. events[s].state \in Waiting \cup Claimed
        BY <1>5 DEF Elapse
    <2>3. /\ r \in Row /\ r.state = events[s].state /\ r.owner = events[s].owner
          /\ r.valid = events[s].valid
        BY <1>1 DEF RowInv, Row
    <2> HIDE DEF r
    <2>4. RowInv(r, s, landed', checkpoint')
        BY <1>1, <1>2, <2>3 DEF RowInv
    <2>5. events[s].state # "TERMINAL"
        BY <2>2 DEF Waiting, Claimed
    <2>6. events[s].state \in Claimed => ~Outcome(r.state)
        BY <2>3 DEF Claimed, Outcome
    <2> QED
        BY <1>2, <1>3, <2>1, <2>4, <2>5, <2>6, GoodByOneRow
<1> QED
    BY <1>4, <1>5

-----------------------------------------------------------------------------
(* health and claim.                                                       *)

\* A row that a scan leaves as it is may be kept.
LEMMA ScanRowGood ==
    ASSUME IInv, NEW s \in Seqs, NEW seen, events'[s] = Scan(seen)[s],
           landed' = landed, checkpoint' = checkpoint
    PROVE  RowInv(events'[s], s, landed', checkpoint') /\ RowStep(s)
<1>1. RowInv(events'[s], s, landed', checkpoint')
    BY ScanRow
<1>2. CASE events'[s] = events[s]
    BY <1>2, RowKept
<1>3. CASE events'[s] # events[s]
    BY <1>3, ScanRow DEF RowStep, Outcome, Claimed
<1> QED
    BY <1>1, <1>2, <1>3

\* A damaged row of the scan that becomes a dead letter was claimed by nobody.
LEMMA DeadRowGood ==
    ASSUME IInv, NEW s \in Seqs, NEW seen, s \in Claimable(seen), ~Scan(seen)[s].valid,
           events'[s] = Dead(Scan(seen)[s]), landed' = landed, checkpoint' = checkpoint
    PROVE  RowInv(events'[s], s, landed', checkpoint') /\ RowStep(s)
<1> DEFINE row == Scan(seen)[s]
<1>1. RowInv(row, s, landed, checkpoint) /\ row.state \in Waiting
    BY ScanRow DEF Claimable
<1>2. /\ Dead(row) \in Row /\ Dead(row).state = "DEAD_LETTER" /\ Dead(row).owner = None
    BY <1>1 DEF RowInv, Row, Dead, Settled
<1>3. s \in landed
    BY <1>1 DEF RowInv, Waiting
<1>4. RowInv(events'[s], s, landed', checkpoint')
    BY <1>2, <1>3 DEF RowInv, Claimed, HeldBack
<1>5. events[s].state \notin Claimed
    <2>1. CASE row = events[s]
        BY <1>1, <2>1 DEF Waiting, Claimed
    <2>2. CASE row # events[s]
        BY <2>2, ScanRow DEF Claimed
    <2> QED
        BY <2>1, <2>2
<1>6. events[s].state # "TERMINAL"
    BY <1>1, ScanRow DEF Waiting, Claimed
<1> QED
    BY <1>4, <1>5, <1>6 DEF RowStep

\* The row that is claimed.
LEMMA TakenRowGood ==
    ASSUME IInv, NEW w \in Workers, NEW s \in Seqs, NEW row,
           RowInv(row, s, landed, checkpoint), row.state \in Waiting, row.valid,
           row = events[s] \/ events[s].state \in Claimed \cup {"ABSENT"},
           events'[s] = Taken(row, w), landed' = landed, checkpoint' = checkpoint
    PROVE  RowInv(events'[s], s, landed', checkpoint') /\ RowStep(s)
<1>1. /\ Taken(row, w) \in Row /\ Taken(row, w).state = "CLAIMED"
      /\ Taken(row, w).owner = w /\ Taken(row, w).valid = row.valid
    BY DEF RowInv, Row, Taken, Claimed
<1>2. s \in landed
    BY DEF RowInv, Waiting
<1>3. w # None
    BY GraphitiEventQueueAssumption
<1>4. RowInv(events'[s], s, landed', checkpoint')
    BY <1>1, <1>2, <1>3 DEF RowInv, Claimed, HeldBack
<1>5. events[s].state # "TERMINAL"
    BY DEF Waiting, Claimed
<1> QED
    BY <1>1, <1>4, <1>5 DEF RowStep, Outcome

\* health, and a claim that the circuit blocks: only rows of a scan.
LEMMA ScanGood ==
    ASSUME IInv, NEW seen, Health(seen) \/ (events' = Reconciled /\ ClaimBlocked)
    PROVE  Good
<1>1. LedgerInv' /\ JobInv' /\ landed' = landed /\ checkpoint' = checkpoint
    BY DEF IInv, LedgerInv, JobInv, Health, ClaimBlocked
<1>2. CASE Health(seen)
    <2>1. events' = Scan(seen)
        BY <1>2 DEF Health
    <2>2. events' = [s \in Seqs |-> events'[s]]
        BY <2>1 DEF Scan, Recover
    <2>3. \A s \in Seqs : RowInv(events'[s], s, landed', checkpoint') /\ RowStep(s)
        BY <1>1, <2>1, ScanRowGood
    <2> QED
        BY <1>1, <2>2, <2>3, GoodByRows
<1>3. CASE events' = Reconciled
    <2>1. events' = [s \in Seqs |-> events'[s]]
        BY <1>3 DEF Reconciled
    <2>2. ASSUME NEW s \in Seqs
          PROVE  RowInv(events'[s], s, landed', checkpoint') /\ RowStep(s)
        <3>1. RowInv(events'[s], s, landed', checkpoint')
            BY <1>1, <1>3, ReconciledRow
        <3>2. events'[s] = events[s] \/ events[s].state = "ABSENT"
            BY <1>3, ReconciledRow
        <3> QED
            BY <1>1, <3>1, <3>2, RowKept DEF RowStep, Claimed
    <2> QED
        BY <1>1, <2>1, <2>2, GoodByRows
<1> QED
    BY <1>2, <1>3

\* A generic claim that takes the oldest sound event.
LEMMA ClaimGood ==
    ASSUME IInv, NEW w \in Workers, NEW s \in Seqs, NEW seen, Claim(w, s, seen)
    PROVE  Good
<1>1. LedgerInv' /\ landed' = landed /\ checkpoint' = checkpoint
    BY DEF IInv, LedgerInv, Claim
<1>2. s # None
    BY GraphitiEventQueueAssumption DEF Seqs
<1>3. JobInv'
    BY <1>2, JobTakesUp DEF Claim
<1>4. events' = [r \in Seqs |->
                    IF r = s THEN Taken(Scan(seen)[r], w)
                    ELSE IF r \in Claimable(seen) /\ r < s THEN Dead(Scan(seen)[r])
                    ELSE Scan(seen)[r]]
    BY DEF Claim
<1>5. events' = [r \in Seqs |-> events'[r]]
    BY <1>4
<1>6. ASSUME NEW r \in Seqs
      PROVE  RowInv(events'[r], r, landed', checkpoint') /\ RowStep(r)
    <2>1. CASE r = s
        <3>1. events'[s] = Taken(Scan(seen)[s], w)
            BY <1>4
        <3>2. Scan(seen)[s].state \in Waiting /\ Scan(seen)[s].valid
            BY DEF Claim, Claimable
        <3>3. /\ RowInv(Scan(seen)[s], s, landed, checkpoint)
              /\ Scan(seen)[s] = events[s] \/ events[s].state \in Claimed \cup {"ABSENT"}
            BY ScanRow
        <3> QED
            BY <1>1, <2>1, <3>1, <3>2, <3>3, TakenRowGood
    <2>2. CASE r # s /\ r \in Claimable(seen) /\ r < s
        <3>1. events'[r] = Dead(Scan(seen)[r])
            BY <1>4, <2>2
        <3>2. ~Scan(seen)[r].valid
            BY <2>2 DEF Claim
        <3> QED
            BY <1>1, <2>2, <3>1, <3>2, DeadRowGood
    <2>3. CASE r # s /\ ~(r \in Claimable(seen) /\ r < s)
        <3>1. events'[r] = Scan(seen)[r]
            BY <1>4, <2>3
        <3> QED
            BY <1>1, <3>1, ScanRowGood
    <2> QED
        BY <2>1, <2>2, <2>3
<1> QED
    BY <1>1, <1>3, <1>5, <1>6, GoodByRows

\* A generic claim that finds no sound event.
LEMMA ClaimNothingGood ==
    ASSUME IInv, NEW seen, ClaimNothing(seen)
    PROVE  Good
<1>1. LedgerInv' /\ JobInv' /\ landed' = landed /\ checkpoint' = checkpoint
    BY DEF IInv, LedgerInv, JobInv, ClaimNothing
<1>2. events' = [s \in Seqs |-> IF s \in Claimable(seen)
                                THEN Dead(Scan(seen)[s]) ELSE Scan(seen)[s]]
    BY DEF ClaimNothing
<1>3. events' = [s \in Seqs |-> events'[s]]
    BY <1>2
<1>4. ASSUME NEW s \in Seqs
      PROVE  RowInv(events'[s], s, landed', checkpoint') /\ RowStep(s)
    <2>1. CASE s \in Claimable(seen)
        <3>1. events'[s] = Dead(Scan(seen)[s]) /\ ~Scan(seen)[s].valid
            BY <1>2, <2>1 DEF ClaimNothing
        <3> QED
            BY <1>1, <2>1, <3>1, DeadRowGood
    <2>2. CASE s \notin Claimable(seen)
        <3>1. events'[s] = Scan(seen)[s]
            BY <1>2, <2>2
        <3> QED
            BY <1>1, <3>1, ScanRowGood
    <2> QED
        BY <2>1, <2>2
<1> QED
    BY <1>1, <1>3, <1>4, GoodByRows

\* A claim of an exact event.
LEMMA ClaimExactGood ==
    ASSUME IInv, NEW w \in Workers, NEW s \in Seqs, NEW fresh, ClaimExact(w, s, fresh)
    PROVE  Good
<1>1. LedgerInv' /\ landed' = landed /\ checkpoint' = checkpoint
    BY DEF IInv, LedgerInv, ClaimExact
<1>2. RowInv(events[s], s, landed, checkpoint)
    BY DEF IInv, RowsInv
<1>3. events[s].state \in Waiting
    BY DEF ClaimExact
<1>4. events[s].state # "TERMINAL" /\ events[s].state \notin Claimed /\ s \in landed
    BY <1>2, <1>3 DEF RowInv, Waiting, Claimed
<1>5. CASE events[s].valid
    <2>1. events' = [events EXCEPT ![s] = Taken(events[s], w)] /\ TakesUp(w, s)
        BY <1>5 DEF ClaimExact
    <2>2. JobInv'
        BY <2>1, JobTakesUp, GraphitiEventQueueAssumption DEF Seqs
    <2>3. events'[s] = Taken(events[s], w)
        BY <2>1 DEF IInv
    <2>4. RowInv(Taken(events[s], w), s, landed', checkpoint')
        BY <1>1, <1>2, <1>3, <1>5, <2>3, TakenRowGood
    <2> QED
        BY <1>1, <1>4, <2>1, <2>2, <2>4, GoodByOneRow
<1>6. CASE ~events[s].valid
    <2>1. events' = [events EXCEPT ![s] = Dead(events[s])] /\ job' = job
        BY <1>6 DEF ClaimExact
    <2>2. JobInv'
        BY <2>1 DEF IInv, JobInv
    <2>3. /\ Dead(events[s]) \in Row /\ Dead(events[s]).state = "DEAD_LETTER"
          /\ Dead(events[s]).owner = None
        BY <1>2 DEF RowInv, Row, Dead, Settled
    <2>4. RowInv(Dead(events[s]), s, landed', checkpoint')
        BY <1>1, <1>4, <2>3 DEF RowInv, Claimed, HeldBack
    <2> QED
        BY <1>1, <1>4, <2>1, <2>2, <2>4, GoodByOneRow
<1> QED
    BY <1>5, <1>6

-----------------------------------------------------------------------------
(* process_one after the claim.                                            *)

\* A step of a worker that changes no row and not the checkpoint.
LEMMA JobOnlyGood ==
    ASSUME IInv, LedgerInv', JobInv', UNCHANGED <<landed, events, checkpoint>>
    PROVE  Good
<1>1. events' = [s \in Seqs |-> events'[s]]
    BY DEF IInv
<1> QED
    BY <1>1, RowKept, GoodByRows

\* _start.
LEMMA StartGood ==
    ASSUME IInv, NEW w \in Workers, Start(w)
    PROVE  Good
<1> DEFINE s == job[w].event
           n == IF events[s].attempts < MaxAttempts THEN events[s].attempts + 1
                ELSE MaxAttempts
<1>1. LedgerInv' /\ landed' = landed /\ checkpoint' = checkpoint
    BY DEF IInv, LedgerInv, Start
<1>2. job[w].phase # "idle"
    BY DEF Start
<1>3. s \in Seqs
    BY <1>2, JobHasEvent
<1>4. CASE Owns(w, s, "CLAIMED")
    <2> DEFINE r == [events[s] EXCEPT !.state = "RUNNING", !.attempts = n]
               j == [job[w] EXCEPT !.phase = "running", !.attempt = n]
    <2>1. RowInv(events[s], s, landed, checkpoint) /\ events[s].state = "CLAIMED"
        BY <1>3, <1>4 DEF IInv, RowsInv, Owns
    <2>2. n \in 0..MaxAttempts
        BY <2>1, GraphitiEventQueueAssumption DEF RowInv, Row
    <2>3. events' = [events EXCEPT ![s] = r] /\ job' = [job EXCEPT ![w] = j]
        BY <1>4 DEF Start
    <2> HIDE DEF n
    <2>4. /\ r \in Row /\ r.state = "RUNNING" /\ r.owner = events[s].owner
          /\ r.valid = events[s].valid
        BY <2>1, <2>2 DEF RowInv, Row, Claimed
    <2>5. j \in Job /\ j.phase # "idle" /\ j.event = job[w].event
        BY <2>2 DEF IInv, JobInv, Job, Phases
    <2> HIDE DEF r, j
    <2>6. JobInv'
        BY <1>2, <2>3, <2>5, JobAdvances
    <2>7. RowInv(r, s, landed', checkpoint')
        BY <1>1, <2>1, <2>4 DEF RowInv, Claimed, HeldBack
    <2>8. events[s].state # "TERMINAL" /\ ~Outcome(r.state)
        BY <2>1, <2>4 DEF Outcome
    <2> QED
        BY <1>1, <1>3, <2>3, <2>6, <2>7, <2>8, GoodByOneRow
<1>5. CASE ~Owns(w, s, "CLAIMED")
    <2>1. Return(w) /\ events' = events
        BY <1>5 DEF Start
    <2> QED
        BY <1>1, <2>1, JobReturns, JobOnlyGood
<1> QED
    BY <1>4, <1>5

\* The gate allows, and binds the units.
LEMMA GateAllowsGood ==
    ASSUME IInv, NEW w \in Workers, GateAllows(w)
    PROVE  Good
<1> DEFINE s == job[w].event
<1>1. LedgerInv' /\ landed' = landed /\ checkpoint' = checkpoint
    BY DEF IInv, LedgerInv, GateAllows
<1>2. job[w].phase # "idle"
    BY DEF GateAllows
<1>3. s \in Seqs
    BY <1>2, JobHasEvent
<1>4. CASE Owns(w, s, "RUNNING")
    <2> DEFINE r == [events[s] EXCEPT !.bound = TRUE]
               j == [job[w] EXCEPT !.phase = "dispatching"]
    <2>1. RowInv(events[s], s, landed, checkpoint) /\ events[s].state = "RUNNING"
        BY <1>3, <1>4 DEF IInv, RowsInv, Owns
    <2>2. events' = [events EXCEPT ![s] = r] /\ job' = [job EXCEPT ![w] = j]
        BY <1>4 DEF GateAllows
    <2>3. /\ r \in Row /\ r.state = "RUNNING" /\ r.owner = events[s].owner
          /\ r.valid = events[s].valid
        BY <2>1 DEF RowInv, Row
    <2>4. j \in Job /\ j.phase # "idle" /\ j.event = job[w].event
        BY DEF IInv, JobInv, Job, Phases
    <2> HIDE DEF r, j
    <2>5. JobInv'
        BY <1>2, <2>2, <2>4, JobAdvances
    <2>6. RowInv(r, s, landed', checkpoint')
        BY <1>1, <2>1, <2>3 DEF RowInv, Claimed, HeldBack
    <2>7. events[s].state # "TERMINAL" /\ ~Outcome(r.state)
        BY <2>1, <2>3 DEF Outcome
    <2> QED
        BY <1>1, <1>3, <2>2, <2>5, <2>6, <2>7, GoodByOneRow
<1>5. CASE ~Owns(w, s, "RUNNING")
    <2>1. Return(w) /\ events' = events
        BY <1>5 DEF GateAllows
    <2> QED
        BY <1>1, <2>1, JobReturns, JobOnlyGood
<1> QED
    BY <1>4, <1>5

\* _transition: the outcome is recorded by the owner, and the checkpoint is
\* moved below every row that is not TERMINAL then.
LEMMA TransitionGood ==
    ASSUME IInv, NEW w \in Workers, job[w].phase # "idle",
           NEW state \in {"RETRY_HELD", "RIGHTS_HELD"} \cup Settled,
           Transition(w, state), circuit' \in {"CLOSED", "OPEN", "DUE"},
           faults' \in 0..MaxFaults
    PROVE  Good
<1> DEFINE s == job[w].event
<1>1. s \in Seqs
    BY JobHasEvent
<1>2. JobInv' /\ job'[w] = Idle
    BY JobReturns DEF Transition
<1>3. head' = head /\ landed' = landed /\ held' = held
    BY DEF Transition
<1>4. CASE Owns(w, s, "RUNNING")
    <2> DEFINE r == [events[s] EXCEPT !.state = state, !.owner = None, !.due = FALSE]
    <2>1. /\ RowInv(events[s], s, landed, checkpoint)
          /\ events[s].state = "RUNNING" /\ events[s].owner = w
        BY <1>1, <1>4 DEF IInv, RowsInv, Owns
    <2>2. events' = [events EXCEPT ![s] = r] /\ checkpoint' = Watermark(events')
        BY <1>4 DEF Transition
    <2>3. r \in Row /\ r.state = state /\ r.owner = None
        BY <2>1 DEF RowInv, Row, Waiting, Settled
    <2> HIDE DEF r
    <2>4. events' \in [Seqs -> Row] /\ events' = [t \in Seqs |-> events'[t]]
        BY <2>2, <2>3 DEF IInv
    <2>5. s \in landed
        BY <2>1 DEF RowInv
    <2>6. \A t \in Seqs : events'[t].state # "ABSENT" => t \in landed
        BY <2>2, <2>5 DEF IInv, RowsInv, RowInv
    <2>7. \A t \in Seqs : events'[t].state # "ABSENT" => t \in 1..head
        BY <2>6 DEF IInv, LedgerInv
    <2>8. /\ checkpoint' \in 0..head
          /\ \A t \in Gaps(events') : checkpoint' < t
        BY <2>2, <2>4, <2>7, WatermarkBelowGaps, GraphitiEventQueueAssumption
           DEF IInv, LedgerInv
    <2>9. LedgerInv'
        BY <1>3, <2>8 DEF IInv, LedgerInv
    <2>10. ASSUME NEW t \in Seqs
           PROVE  RowInv(events'[t], t, landed', checkpoint') /\ RowStep(t)
        <3>1. events'[t].state \in HeldBack => checkpoint' < t
            BY <2>8 DEF HeldBack, Gaps
        <3>2. CASE t = s
            <4>1. events'[s] = r
                BY <1>1, <2>2 DEF IInv
            <4>2. EndsByOwner(s)
                BY <1>2, <2>1 DEF EndsByOwner
            <4>3. r.state \notin Claimed
                BY <2>3 DEF Claimed, Settled
            <4>4. RowInv(r, s, landed', checkpoint')
                BY <1>3, <2>3, <2>5, <3>1, <3>2, <4>1, <4>3 DEF RowInv
            <4> QED
                BY <2>1, <3>2, <4>1, <4>2, <4>4 DEF RowStep
        <3>3. CASE t # s
            <4>1. events'[t] = events[t]
                BY <2>2, <3>3 DEF IInv
            <4>2. RowInv(events[t], t, landed, checkpoint)
                BY DEF IInv, RowsInv
            <4> QED
                BY <1>3, <3>1, <4>1, <4>2 DEF RowInv, RowStep, Outcome, Claimed
        <3> QED
            BY <3>2, <3>3
    <2> QED
        BY <1>2, <2>4, <2>9, <2>10, GoodByRows
<1>5. CASE ~Owns(w, s, "RUNNING")
    <2>1. events' = events /\ checkpoint' = checkpoint
        BY <1>5 DEF Transition
    <2>2. LedgerInv'
        BY <1>3, <2>1 DEF IInv, LedgerInv
    <2> QED
        BY <1>2, <1>3, <2>1, <2>2, JobOnlyGood
<1> QED
    BY <1>4, <1>5

\* The ways process_one ends.
LEMMA EndGood ==
    ASSUME IInv, NEW w \in Workers,
           \/ \E state \in {"RETRY_HELD", "RIGHTS_HELD"} : GateHolds(w, state)
           \/ \E state \in {"TERMINAL", "DEAD_LETTER", "RETRY_HELD"} : DispatchEnds(w, state)
           \/ RouteFails(w)
    PROVE  Good
<1>1. ASSUME NEW state \in {"RETRY_HELD", "RIGHTS_HELD"}, GateHolds(w, state)
      PROVE  Good
    <2>1. /\ job[w].phase # "idle" /\ Transition(w, state)
          /\ circuit' \in {"CLOSED", "OPEN", "DUE"} /\ faults' \in 0..MaxFaults
        BY <1>1, GraphitiEventQueueAssumption DEF GateHolds, IInv, LedgerInv
    <2> QED
        BY <2>1, TransitionGood
<1>2. ASSUME NEW state \in {"TERMINAL", "DEAD_LETTER", "RETRY_HELD"}, DispatchEnds(w, state)
      PROVE  Good
    <2>1. /\ job[w].phase # "idle" /\ Transition(w, state)
          /\ circuit' \in {"CLOSED", "OPEN", "DUE"} /\ faults' \in 0..MaxFaults
        BY <1>2 DEF DispatchEnds, IInv, LedgerInv
    <2> QED
        BY <2>1, TransitionGood DEF Settled
<1>3. ASSUME RouteFails(w)
      PROVE  Good
    <2>1. /\ job[w].phase # "idle" /\ Transition(w, job[w].ending)
          /\ circuit' \in {"CLOSED", "OPEN", "DUE"} /\ faults' \in 0..MaxFaults
        BY <1>3 DEF RouteFails, IInv, LedgerInv
    <2>2. job[w].ending \in {"RETRY_HELD", "RIGHTS_HELD"} \cup Settled
        BY DEF IInv, JobInv, Job, Settled
    <2> QED
        BY <2>1, <2>2, TransitionGood
<1> QED
    BY <1>1, <1>2, <1>3

\* A route failure opens the circuit, a crash forgets the job: no row changes.
LEMMA OpenOrCrashGood ==
    ASSUME IInv, NEW w \in Workers,
           \/ \E ending \in {"RETRY_HELD", "CONFIGURATION_HELD"} : OpenCircuit(w, ending)
           \/ Crash(w)
    PROVE  Good
<1>1. LedgerInv' /\ UNCHANGED <<landed, events, checkpoint>>
    BY GraphitiEventQueueAssumption DEF IInv, LedgerInv, OpenCircuit, Crash
<1>2. ASSUME NEW ending \in {"RETRY_HELD", "CONFIGURATION_HELD"}, OpenCircuit(w, ending)
      PROVE  JobInv'
    <2> DEFINE j == [job[w] EXCEPT !.phase = "ending", !.ending = ending]
    <2>1. job' = [job EXCEPT ![w] = j] /\ job[w].phase # "idle"
        BY <1>2 DEF OpenCircuit
    <2>2. j \in Job /\ j.phase # "idle" /\ j.event = job[w].event
        BY DEF IInv, JobInv, Job, Phases
    <2> HIDE DEF j
    <2> QED
        BY <2>1, <2>2, JobAdvances
<1>3. ASSUME Crash(w) PROVE JobInv'
    BY <1>3, JobReturns DEF Crash
<1> QED
    BY <1>1, <1>2, <1>3, JobOnlyGood

-----------------------------------------------------------------------------
(* The callers that project an exact event.                                *)

\* The event repair inserts rows, and holds back the rest.
LEMMA RepairGood ==
    ASSUME IInv, NEW project, Repair(project)
    PROVE  Good
<1>1. LedgerInv'
    <2>1. head < MaxSeq /\ head' = head + 1 /\ landed' = landed
        BY DEF Repair
    <2>2. held' \subseteq landed'
        BY DEF IInv, LedgerInv, Repair, Missing
    <2>3. UNCHANGED <<checkpoint, circuit, faults>>
        BY DEF Repair
    <2> QED
        BY <2>1, <2>2, <2>3, LedgerGrows
<1>2. JobInv' /\ landed' = landed /\ checkpoint' = checkpoint
    BY DEF IInv, JobInv, Repair
<1>3. events' = [s \in Seqs |-> IF s \in project THEN Upsert(events[s], TRUE) ELSE events[s]]
    BY DEF Repair
<1>4. events' = [s \in Seqs |-> events'[s]]
    BY <1>3
<1>5. ASSUME NEW s \in Seqs
      PROVE  RowInv(events'[s], s, landed', checkpoint') /\ RowStep(s)
    <2>1. CASE s \in project
        <3>1. events[s].state = "ABSENT" /\ s \in landed
            BY <2>1 DEF Repair, Missing
        <3>2. events'[s] = Inserted(TRUE)
            BY <1>3, <2>1, <3>1 DEF Upsert
        <3>3. RowInv(Inserted(TRUE), s, landed', checkpoint')
            BY <1>2, <3>1, InsertedRow
        <3> QED
            BY <3>1, <3>2, <3>3 DEF RowStep, Claimed
    <2>2. CASE s \notin project
        BY <1>2, <1>3, <2>2, RowKept
    <2> QED
        BY <2>1, <2>2
<1> QED
    BY <1>1, <1>2, <1>4, <1>5, GoodByRows

\* The bounded supply lands a revision and inserts its row.
LEMMA SupplyGood ==
    ASSUME IInv, Supply
    PROVE  Good
<1> DEFINE s == head + 1
<1>1. head < MaxSeq /\ head' = s /\ landed' = landed \cup {s}
    BY DEF Supply
<1>2. UNCHANGED <<held, checkpoint, circuit, faults, job>>
    BY DEF Supply
<1>3. LedgerInv'
    <2>1. held' \subseteq landed'
        BY <1>1, <1>2 DEF IInv, LedgerInv
    <2> QED
        BY <1>1, <1>2, <2>1, LedgerGrows
<1>4. JobInv'
    BY <1>2 DEF IInv, JobInv
<1>5. s \in Seqs /\ s \notin landed
    BY <1>1, GraphitiEventQueueAssumption DEF IInv, LedgerInv, Seqs
<1>6. events[s].state = "ABSENT"
    BY <1>5 DEF IInv, RowsInv, RowInv
<1>7. events' = [events EXCEPT ![s] = Inserted(TRUE)]
    BY <1>6 DEF Supply, Upsert
<1>8. Inserted(TRUE) \in Row
    BY GraphitiEventQueueAssumption DEF Row, Inserted, Waiting
<1>9. RowInv(Inserted(TRUE), s, landed', checkpoint')
    BY <1>1, <1>8 DEF RowInv, Inserted, Claimed, HeldBack
<1> QED
    BY <1>1, <1>2, <1>3, <1>4, <1>5, <1>6, <1>7, <1>9, GoodByOneRow DEF Claimed

-----------------------------------------------------------------------------
(* The theorems.                                                           *)

\* Every step keeps the invariant and both action properties.
LEMMA StepGood ==
    ASSUME IInv, Next
    PROVE  Good
<1>1. CASE Land \/ AppendOther \/ Supply \/ ElapseCircuit \/ ClaimBlocked \/ ClaimExactNothing
    BY <1>1, AppendGood, SupplyGood, CircuitGood, ScanGood DEF ClaimBlocked
<1>2. CASE \E s \in Seqs : Corrupt(s) \/ Elapse(s)
    BY <1>2, RowTouchedGood
<1>3. CASE \E project \in SUBSET Missing : Repair(project)
    BY <1>3, RepairGood
<1>4. CASE \E seen \in SUBSET Due : Health(seen) \/ ClaimNothing(seen)
    BY <1>4, ScanGood, ClaimNothingGood
<1>5. CASE \E w \in Workers, s \in Seqs, seen \in SUBSET Due : Claim(w, s, seen)
    BY <1>5, ClaimGood
<1>6. CASE \E w \in Workers, s \in Seqs, fresh \in BOOLEAN : ClaimExact(w, s, fresh)
    BY <1>6, ClaimExactGood
<1>7. CASE \E w \in Workers : Start(w) \/ GateAllows(w) \/ RouteFails(w) \/ Crash(w)
    BY <1>7, StartGood, GateAllowsGood, EndGood, OpenOrCrashGood
<1>8. CASE \/ \E w \in Workers, state \in {"RETRY_HELD", "RIGHTS_HELD"} : GateHolds(w, state)
           \/ \E w \in Workers, state \in {"TERMINAL", "DEAD_LETTER", "RETRY_HELD"} :
                 DispatchEnds(w, state)
    BY <1>8, EndGood
<1>9. CASE \E w \in Workers, ending \in {"RETRY_HELD", "CONFIGURATION_HELD"} :
               OpenCircuit(w, ending)
    BY <1>9, OpenOrCrashGood
<1> QED
    BY <1>1, <1>2, <1>3, <1>4, <1>5, <1>6, <1>7, <1>8, <1>9 DEF Next

\* The invariant of the queue holds in every state.
THEOREM Inductive == Spec => []IInv
<1>1. Init => IInv
    <2> SUFFICES ASSUME Init PROVE IInv
        OBVIOUS
    <2>1. LedgerInv
        BY GraphitiEventQueueAssumption DEF Init, LedgerInv
    <2>2. Absent \in Row
        BY GraphitiEventQueueAssumption DEF Absent, Row
    <2>3. \A s \in Seqs : RowInv(Absent, s, landed, checkpoint)
        BY <2>2 DEF RowInv, Absent, Claimed, HeldBack
    <2>4. Idle \in Job /\ Idle.phase = "idle" /\ Idle.event = None
        BY GraphitiEventQueueAssumption DEF Idle, Job, Phases
    <2>5. JobInv
        BY <2>4 DEF Init, JobInv
    <2> QED
        BY <2>1, <2>2, <2>3, <2>5 DEF Init, IInv, RowsInv
<1>2. IInv /\ [Next]_vars => IInv'
    <2> SUFFICES ASSUME IInv, [Next]_vars PROVE IInv'
        OBVIOUS
    <2>1. CASE Next
        BY <2>1, StepGood DEF Good
    <2>2. CASE UNCHANGED vars
        BY <2>2 DEF vars, IInv, LedgerInv, RowsInv, RowInv, JobInv
    <2> QED
        BY <2>1, <2>2
<1> QED
    BY <1>1, <1>2, PTL DEF Spec

\* The rows, the ledger and the jobs keep their types: the claim columns of a
\* row are set exactly while it is claimed.
THEOREM TypeCorrect == Spec => []TypeOK
<1>1. IInv => TypeOK
    BY DEF IInv, LedgerInv, RowsInv, RowInv, JobInv, TypeOK
<1> QED
    BY <1>1, Inductive, PTL

\* A revision held for a retry, for its rights or for the operator keeps the
\* checkpoint below it, through every interleaving of claims, recoveries,
\* repairs and late results.
THEOREM CheckpointHeld == Spec => []HeldEventsHoldCheckpoint
<1>1. IInv => HeldEventsHoldCheckpoint
    BY DEF IInv, RowsInv, RowInv, HeldBack, HeldEventsHoldCheckpoint
<1> QED
    BY <1>1, Inductive, PTL

\* A finished revision is never touched again.
THEOREM FinishedIsFinal == Spec => TerminalIsFinal
<1>1. IInv /\ [Next]_vars =>
        [\A s \in Seqs : events[s].state = "TERMINAL" => events'[s] = events[s]]_vars
    BY StepGood DEF Good, RowStep
<1> QED
    BY <1>1, Inductive, PTL DEF Spec, TerminalIsFinal

\* A claim ends in an outcome only by the worker that holds it.
THEOREM OwnersEndClaims == Spec => ClaimEndsByItsOwner
<1>1. IInv /\ [Next]_vars =>
        [\A s \in Seqs :
            /\ events[s].state \in Claimed
            /\ events'[s].state \notin {"CLAIMED", "RUNNING", "QUEUED"}
            => \E w \in Workers : /\ events[s].owner = w
                                  /\ job[w].event = s
                                  /\ job'[w] = Idle]_vars
    BY StepGood DEF Good, RowStep, Outcome, EndsByOwner
<1> QED
    BY <1>1, Inductive, PTL DEF Spec, ClaimEndsByItsOwner

-----------------------------------------------------------------------------
(* Attempts.  No row loses an attempt and no worker past _start is ahead of *)
(* its row, so that _start hands out a number nobody has.                   *)

AttemptInv ==
    /\ \A s \in Seqs : events[s].state = "ABSENT" => events[s].attempts = 0
    /\ \A w \in Workers : Started(w) => job[w].attempt <= events[job[w].event].attempts
    /\ OneWorkerPerAttempt

KeepsAttempts ==
    \A s \in Seqs : /\ events'[s].attempts = events[s].attempts
                    /\ events'[s].state = "ABSENT" => events[s].state = "ABSENT"

StartsNobody ==
    \A w \in Workers : Started(w)' => /\ Started(w)
                                      /\ job'[w].event = job[w].event
                                      /\ job'[w].attempt = job[w].attempt

\* A worker past _start has a ledger position and an attempt.
LEMMA StartedJob ==
    ASSUME IInv, NEW w \in Workers, Started(w)
    PROVE  job[w].event \in Seqs /\ job[w].attempt \in 0..MaxAttempts
<1>1. job[w].phase # "idle"
    BY DEF Started
<1> QED
    BY <1>1, JobHasEvent DEF IInv, JobInv, Job

\* Every action but _start leaves the attempts of rows and workers alone.
LEMMA AttemptsStay ==
    ASSUME IInv, AttemptInv, KeepsAttempts, StartsNobody
    PROVE  AttemptInv'
<1>1. \A s \in Seqs : events'[s].state = "ABSENT" => events'[s].attempts = 0
    BY DEF AttemptInv, KeepsAttempts
<1>2. ASSUME NEW w \in Workers, Started(w)'
      PROVE  job'[w].attempt <= events'[job'[w].event].attempts
    <2>1. Started(w) /\ job'[w].event = job[w].event /\ job'[w].attempt = job[w].attempt
        BY <1>2 DEF StartsNobody
    <2>2. job[w].event \in Seqs
        BY <2>1, StartedJob
    <2> QED
        BY <2>1, <2>2 DEF AttemptInv, KeepsAttempts
<1>3. OneWorkerPerAttempt'
    BY DEF AttemptInv, StartsNobody, OneWorkerPerAttempt
<1> QED
    BY <1>1, <1>2, <1>3 DEF AttemptInv

\* A scan gives a row no attempt and takes none.
LEMMA ScanKeepsAttempts ==
    ASSUME IInv, AttemptInv, NEW s \in Seqs, NEW seen
    PROVE  /\ Reconciled[s].attempts = events[s].attempts
           /\ Reconciled[s].state = "ABSENT" => events[s].state = "ABSENT"
           /\ Scan(seen)[s].attempts = events[s].attempts
           /\ Scan(seen)[s].state = "ABSENT" => events[s].state = "ABSENT"
<1> DEFINE row == Reconciled[s]
<1>1. RowInv(row, s, landed, checkpoint)
    BY ReconciledRow
<1>2. row = events[s] \/ (events[s].state = "ABSENT" /\ row = Inserted(FALSE))
    BY ReconciledRow
<1>3. row.attempts = events[s].attempts /\ (row.state = "ABSENT" => events[s].state = "ABSENT")
    BY <1>2 DEF Inserted, AttemptInv
<1>4. Scan(seen)[s] = IF Expired(row) /\ s \in seen /\ s \notin held
                      THEN [row EXCEPT !.state = "QUEUED", !.owner = None]
                      ELSE row
    BY DEF Scan, Recover
<1> HIDE DEF row
<1>5. CASE Expired(row) /\ s \in seen /\ s \notin held
    <2>1. Scan(seen)[s].attempts = row.attempts /\ Scan(seen)[s].state = "QUEUED"
        BY <1>1, <1>4, <1>5, RequeuedRow DEF RowInv
    <2> QED
        BY <1>3, <2>1 DEF row
<1>6. CASE ~(Expired(row) /\ s \in seen /\ s \notin held)
    <2>1. Scan(seen)[s] = row
        BY <1>4, <1>6
    <2> QED
        BY <1>3, <2>1 DEF row
<1> QED
    BY <1>5, <1>6

\* Neither does a claim, nor the burial of a damaged row.
LEMMA TakenKeepsAttempts ==
    ASSUME NEW row \in Row, NEW w
    PROVE  /\ Taken(row, w).attempts = row.attempts /\ Taken(row, w).state = "CLAIMED"
           /\ Dead(row).attempts = row.attempts /\ Dead(row).state = "DEAD_LETTER"
BY DEF Taken, Dead, Row

\* A worker that returns, or takes up an event, has not started.
LEMMA OthersKeepTheirJob ==
    ASSUME IInv, NEW w \in Workers, Return(w) \/ \E s \in Seqs : TakesUp(w, s)
    PROVE  StartsNobody
<1>1. ~Started(w)'
    BY DEF IInv, JobInv, Return, TakesUp, Idle, Started
<1>2. \A v \in Workers : v # w => job'[v] = job[v]
    BY DEF IInv, JobInv, Return, TakesUp
<1> QED
    BY <1>1, <1>2 DEF StartsNobody, Started

\* Health and the claims.
LEMMA ClaimsKeepAttempts ==
    ASSUME IInv, AttemptInv, NEW seen,
           \/ ClaimBlocked \/ Health(seen) \/ ClaimNothing(seen)
           \/ \E w \in Workers, s \in Seqs : Claim(w, s, seen)
    PROVE  AttemptInv'
<1>1. \A s \in Seqs : /\ Scan(seen)[s] \in Row
                      /\ Reconciled[s].attempts = events[s].attempts
                      /\ Reconciled[s].state = "ABSENT" => events[s].state = "ABSENT"
                      /\ Scan(seen)[s].attempts = events[s].attempts
                      /\ Scan(seen)[s].state = "ABSENT" => events[s].state = "ABSENT"
    BY ScanRow, ScanKeepsAttempts DEF RowInv
<1>2. CASE ClaimBlocked \/ Health(seen)
    BY <1>1, <1>2, AttemptsStay
       DEF ClaimBlocked, Health, KeepsAttempts, StartsNobody, Started
<1>3. CASE ClaimNothing(seen)
    <2>1. \A s \in Seqs : events'[s] = Scan(seen)[s] \/ events'[s] = Dead(Scan(seen)[s])
        BY <1>3 DEF ClaimNothing
    <2>2. KeepsAttempts
        BY <1>1, <2>1, TakenKeepsAttempts DEF KeepsAttempts
    <2> QED
        BY <1>3, <2>2, AttemptsStay DEF ClaimNothing, StartsNobody, Started
<1>4. ASSUME NEW w \in Workers, NEW s \in Seqs, Claim(w, s, seen)
      PROVE  AttemptInv'
    <2>1. \A r \in Seqs : \/ events'[r] = Taken(Scan(seen)[r], w)
                          \/ events'[r] = Dead(Scan(seen)[r])
                          \/ events'[r] = Scan(seen)[r]
        BY <1>4 DEF Claim
    <2>2. KeepsAttempts
        BY <1>1, <2>1, TakenKeepsAttempts DEF KeepsAttempts
    <2>3. StartsNobody
        BY <1>4, OthersKeepTheirJob DEF Claim
    <2> QED
        BY <2>2, <2>3, AttemptsStay
<1> QED
    BY <1>2, <1>3, <1>4

\* The claim of an exact event.
LEMMA ClaimExactKeepsAttempts ==
    ASSUME IInv, AttemptInv, NEW w \in Workers, NEW s \in Seqs, NEW fresh,
           ClaimExact(w, s, fresh)
    PROVE  AttemptInv'
<1>1. events[s] \in Row
    BY DEF IInv
<1>2. \A r \in Seqs : r # s => events'[r] = events[r]
    BY DEF ClaimExact, IInv
<1>3. events'[s] = Taken(events[s], w) \/ events'[s] = Dead(events[s])
    BY DEF ClaimExact, IInv
<1>4. KeepsAttempts
    BY <1>1, <1>2, <1>3, TakenKeepsAttempts DEF KeepsAttempts
<1>5. TakesUp(w, s) \/ job' = job
    BY DEF ClaimExact
<1>6. StartsNobody
    BY <1>5, OthersKeepTheirJob DEF StartsNobody, Started
<1> QED
    BY <1>4, <1>6, AttemptsStay

\* _start counts an attempt nobody has: the others are not ahead of the row.
LEMMA StartCountsAnAttempt ==
    ASSUME IInv, AttemptInv, NEW w \in Workers, Start(w)
    PROVE  AttemptInv'
<1> DEFINE s == job[w].event
           n == IF events[s].attempts < MaxAttempts THEN events[s].attempts + 1
                ELSE MaxAttempts
<1>1. s \in Seqs
    BY JobHasEvent DEF Start
<1>2. CASE Owns(w, s, "CLAIMED")
    <2> DEFINE r == [events[s] EXCEPT !.state = "RUNNING", !.attempts = n]
               j == [job[w] EXCEPT !.phase = "running", !.attempt = n]
    <2>1. events[s] \in Row /\ job[w] \in Job
        BY <1>1 DEF IInv, JobInv
    <2>2. events[s].attempts \in 0..MaxAttempts
        BY <2>1 DEF Row
    <2>3. n \in 0..MaxAttempts /\ events[s].attempts <= n
          /\ (n = events[s].attempts => n = MaxAttempts)
        BY <2>2, GraphitiEventQueueAssumption
    <2>4. events' = [events EXCEPT ![s] = r] /\ job' = [job EXCEPT ![w] = j]
        BY <1>2 DEF Start
    <2> HIDE DEF n
    <2>5. r.state = "RUNNING" /\ r.attempts = n /\ j.attempt = n /\ j.event = s
        BY <2>1 DEF Row, Job
    <2> HIDE DEF r, j
    <2>6. events'[s] = r /\ \A t \in Seqs : t # s => events'[t] = events[t]
        BY <1>1, <2>4 DEF IInv
    <2>7. job'[w] = j /\ \A v \in Workers : v # w => job'[v] = job[v]
        BY <2>4 DEF IInv, JobInv
    <2>8. \A t \in Seqs : events'[t].state = "ABSENT" => events'[t].attempts = 0
        BY <2>5, <2>6 DEF AttemptInv
    <2>9. ASSUME NEW v \in Workers, v # w, Started(v)'
          PROVE  /\ Started(v) /\ job[v].event \in Seqs /\ job[v].attempt \in 0..MaxAttempts
                 /\ job[v].attempt <= events[job[v].event].attempts
        <3>1. Started(v)
            BY <2>7, <2>9 DEF Started
        <3> QED
            BY <3>1, StartedJob DEF AttemptInv
    <2>10. ASSUME NEW v \in Workers, Started(v)'
           PROVE  job'[v].attempt <= events'[job'[v].event].attempts
        <3>1. CASE v = w
            BY <1>1, <2>3, <2>5, <2>6, <2>7, <3>1
        <3>2. CASE v # w /\ job[v].event = s
            BY <2>2, <2>3, <2>5, <2>6, <2>7, <2>9, <2>10, <3>2
        <3>3. CASE v # w /\ job[v].event # s
            BY <2>6, <2>7, <2>9, <2>10, <3>3
        <3> QED
            BY <3>1, <3>2, <3>3
    <2>11. ASSUME NEW v \in Workers, v # w, Started(v)', job'[v].event = s,
                  job'[v].attempt = n
           PROVE  n = MaxAttempts
        <3>1. n <= events[s].attempts
            BY <2>7, <2>9, <2>11
        <3> QED
            BY <2>2, <2>3, <3>1
    <2>12. OneWorkerPerAttempt'
        <3> SUFFICES ASSUME NEW u \in Workers, NEW v \in Workers, u # v,
                            Started(u)', Started(v)',
                            job'[u].event = job'[v].event,
                            job'[u].attempt = job'[v].attempt
                     PROVE  job'[u].attempt = MaxAttempts
            BY DEF OneWorkerPerAttempt
        <3>1. CASE u = w
            BY <2>5, <2>7, <2>11, <3>1
        <3>2. CASE v = w
            BY <2>5, <2>7, <2>11, <3>2
        <3>3. CASE u # w /\ v # w
            BY <2>7, <2>9, <3>3 DEF AttemptInv, OneWorkerPerAttempt
        <3> QED
            BY <3>1, <3>2, <3>3
    <2> QED
        BY <2>8, <2>10, <2>12 DEF AttemptInv
<1>3. CASE ~Owns(w, s, "CLAIMED")
    <2>1. Return(w) /\ events' = events
        BY <1>3 DEF Start
    <2> QED
        BY <2>1, OthersKeepTheirJob, AttemptsStay DEF KeepsAttempts
<1> QED
    BY <1>2, <1>3

\* _transition, under whatever ends process_one.
LEMMA TransitionKeepsAttempts ==
    ASSUME IInv, AttemptInv, NEW w \in Workers, NEW state,
           state # "ABSENT", Transition(w, state)
    PROVE  AttemptInv'
<1> DEFINE s == job[w].event
           r == [events[s] EXCEPT !.state = state, !.owner = None, !.due = FALSE]
<1>1. StartsNobody
    BY OthersKeepTheirJob DEF Transition
<1>2. events' = events \/ events' = [events EXCEPT ![s] = r]
    BY DEF Transition
<1>3. KeepsAttempts
    <2>1. CASE events' = events
        BY <2>1 DEF KeepsAttempts
    <2>2. CASE events' = [events EXCEPT ![s] = r]
        <3>1. \A t \in Seqs : events'[t] = IF t = s THEN r ELSE events[t]
            BY <2>2 DEF IInv
        <3>2. ASSUME s \in Seqs
              PROVE  r.attempts = events[s].attempts /\ r.state = state
            BY <3>2 DEF IInv, Row
        <3> QED
            BY <3>1, <3>2 DEF KeepsAttempts
    <2> QED
        BY <1>2, <2>1, <2>2
<1> QED
    BY <1>1, <1>3, AttemptsStay

\* The rest of process_one.
LEMMA WorkKeepsAttempts ==
    ASSUME IInv, AttemptInv, NEW w \in Workers,
           \/ GateAllows(w) \/ RouteFails(w) \/ Crash(w)
           \/ \E state \in {"RETRY_HELD", "RIGHTS_HELD"} : GateHolds(w, state)
           \/ \E state \in {"TERMINAL", "DEAD_LETTER", "RETRY_HELD"} : DispatchEnds(w, state)
           \/ \E ending \in {"RETRY_HELD", "CONFIGURATION_HELD"} : OpenCircuit(w, ending)
    PROVE  AttemptInv'
<1>1. CASE GateAllows(w)
    <2> DEFINE s == job[w].event
    <2>1. s \in Seqs /\ Started(w)
        BY <1>1, JobHasEvent DEF GateAllows, Started
    <2>2. \A t \in Seqs : events'[t] = events[t] \/ events'[t] = [events[t] EXCEPT !.bound = TRUE]
        BY <1>1, <2>1 DEF GateAllows, IInv
    <2>3. \A t \in Seqs : events[t] \in Row
        BY DEF IInv
    <2>4. KeepsAttempts
        BY <2>2, <2>3 DEF KeepsAttempts, Row
    <2>5. CASE Return(w)
        BY <2>4, <2>5, OthersKeepTheirJob, AttemptsStay
    <2>6. CASE job' = [job EXCEPT ![w].phase = "dispatching"]
        <3>1. StartsNobody
            BY <2>1, <2>6 DEF IInv, JobInv, Job, StartsNobody, Started
        <3> QED
            BY <2>4, <3>1, AttemptsStay
    <2> QED
        BY <1>1, <2>5, <2>6 DEF GateAllows
<1>2. CASE RouteFails(w)
    <2>1. job[w].ending # "ABSENT"
        BY DEF IInv, JobInv, Job
    <2> QED
        BY <1>2, <2>1, TransitionKeepsAttempts DEF RouteFails
<1>3. CASE Crash(w)
    <2>1. KeepsAttempts
        BY <1>3 DEF Crash, KeepsAttempts
    <2> QED
        BY <1>3, <2>1, OthersKeepTheirJob, AttemptsStay DEF Crash
<1>4. ASSUME NEW state \in {"RETRY_HELD", "RIGHTS_HELD"}, GateHolds(w, state)
      PROVE  AttemptInv'
    BY <1>4, TransitionKeepsAttempts DEF GateHolds
<1>5. ASSUME NEW state \in {"TERMINAL", "DEAD_LETTER", "RETRY_HELD"}, DispatchEnds(w, state)
      PROVE  AttemptInv'
    BY <1>5, TransitionKeepsAttempts DEF DispatchEnds
<1>6. ASSUME NEW ending \in {"RETRY_HELD", "CONFIGURATION_HELD"}, OpenCircuit(w, ending)
      PROVE  AttemptInv'
    <2>1. KeepsAttempts /\ Started(w)
        BY <1>6 DEF OpenCircuit, KeepsAttempts, Started
    <2>2. \A v \in Workers : /\ job'[v].event = job[v].event /\ job'[v].attempt = job[v].attempt
                             /\ v # w => job'[v] = job[v]
        BY <1>6 DEF OpenCircuit, IInv, JobInv, Job
    <2>3. StartsNobody
        BY <2>1, <2>2 DEF StartsNobody, Started
    <2> QED
        BY <2>1, <2>3, AttemptsStay
<1> QED
    BY <1>1, <1>2, <1>3, <1>4, <1>5, <1>6

\* The ledger, the clock, the damage, the repair and the supply.
LEMMA OutsideKeepsAttempts ==
    ASSUME IInv, AttemptInv,
           \/ Land \/ AppendOther \/ Supply \/ ElapseCircuit \/ ClaimExactNothing
           \/ \E s \in Seqs : Corrupt(s) \/ Elapse(s)
           \/ \E project \in SUBSET Missing : Repair(project)
    PROVE  AttemptInv'
<1>1. StartsNobody
    BY DEF Land, AppendOther, Supply, ElapseCircuit, ClaimExactNothing, Corrupt, Elapse,
           Repair, StartsNobody, Started
<1>2. CASE Land \/ AppendOther \/ ElapseCircuit \/ ClaimExactNothing
    BY <1>2, <1>1, AttemptsStay
       DEF Land, AppendOther, ElapseCircuit, ClaimExactNothing, KeepsAttempts
<1>3. ASSUME NEW s \in Seqs, Corrupt(s) \/ Elapse(s)
      PROVE  AttemptInv'
    <2>1. \A t \in Seqs : events[t] \in Row
        BY DEF IInv
    <2>2. \A t \in Seqs : \/ events'[t] = events[t]
                          \/ events'[t] = [events[t] EXCEPT !.due = TRUE]
                          \/ events'[t] = [events[t] EXCEPT !.valid = FALSE]
        BY <1>3 DEF Corrupt, Elapse, IInv
    <2>3. KeepsAttempts
        BY <2>1, <2>2 DEF KeepsAttempts, Row
    <2> QED
        BY <1>1, <2>3, AttemptsStay
<1>4. ASSUME NEW project \in SUBSET Missing, Repair(project)
      PROVE  AttemptInv'
    <2>1. \A s \in Seqs : \/ events'[s] = events[s]
                          \/ events[s].state = "ABSENT" /\ events'[s] = Inserted(TRUE)
        BY <1>4 DEF Repair, Missing, Upsert
    <2>2. KeepsAttempts
        BY <2>1 DEF KeepsAttempts, AttemptInv, Inserted
    <2> QED
        BY <1>1, <2>2, AttemptsStay
<1>5. CASE Supply
    <2> DEFINE s == head + 1
    <2>1. s \in Seqs /\ s \notin landed
        BY <1>5, GraphitiEventQueueAssumption DEF IInv, LedgerInv, Seqs, Supply
    <2>2. events[s].state = "ABSENT"
        BY <2>1 DEF IInv, RowsInv, RowInv
    <2>3. events' = [events EXCEPT ![s] = Inserted(TRUE)]
        BY <1>5, <2>2 DEF Supply, Upsert
    <2>4. KeepsAttempts
        BY <2>2, <2>3 DEF KeepsAttempts, AttemptInv, Inserted, IInv
    <2> QED
        BY <1>1, <2>4, AttemptsStay
<1> QED
    BY <1>2, <1>3, <1>4, <1>5

\* Two workers that are past _start for one revision count different attempts,
\* whatever leases lapse and whoever recovers them: in particular no revision
\* is dispatched twice under its first attempt.
THEOREM AttemptsAreNotShared == Spec => []OneWorkerPerAttempt
<1>1. Init => AttemptInv
    BY DEF Init, AttemptInv, OneWorkerPerAttempt, Started, Idle, Absent
<1>2. IInv /\ AttemptInv /\ [Next]_vars => AttemptInv'
    <2> SUFFICES ASSUME IInv, AttemptInv, [Next]_vars PROVE AttemptInv'
        OBVIOUS
    <2>1. CASE Next
        BY <2>1, ClaimsKeepAttempts, ClaimExactKeepsAttempts, StartCountsAnAttempt,
           WorkKeepsAttempts, OutsideKeepsAttempts DEF Next
    <2>2. CASE UNCHANGED vars
        BY <2>2 DEF vars, AttemptInv, OneWorkerPerAttempt, Started
    <2> QED
        BY <2>1, <2>2
<1>3. AttemptInv => OneWorkerPerAttempt
    BY DEF AttemptInv
<1> QED
    BY <1>1, <1>2, <1>3, Inductive, PTL DEF Spec

=============================================================================
