------------------------ MODULE TriageExecutionProofs ------------------------
(***************************************************************************)
(* Theorems of the triage execution store, for any set of Work Items,      *)
(* workers and requests and any bounds.  The invariants of the module are  *)
(* not inductive alone: IInv adds that an attempt has at most one lease,   *)
(* that the fences of a Work Item are exactly 1..k (so that MAX(fence)+1   *)
(* exists and is new), and how each recorded answer relates to its lease.  *)
(***************************************************************************)
EXTENDS TriageExecution, TLAPS

\* triage_work_item_leases.attempt_id is UNIQUE and claim inserts at most once.
OneLeasePerAttempt ==
    \A l, m \in leases : l.attempt = m.attempt => l = m

FencesInitialSegment ==
    \A i \in Items : \E k \in Nat : FencesOf(i) = 1..k

FencesUnique ==
    \A l, m \in leases :
        l.attempt.item = m.attempt.item /\ l.fence = m.fence => l = m

CurrentHoldsNewest ==
    \A l, m \in leases :
        l.attempt.item = m.attempt.item /\ l.lifecycle = "CLAIMED"
            => m.fence <= l.fence

SuccessorIsNewer ==
    \A l, m \in leases :
        IsSuccessor(l.attempt, m.attempt) => m.fence < l.fence

MembersExist ==
    \A b \in batches : \A m \in b.members : m[2] <= head[m[1]]

AttemptsInBatches ==
    \A a \in attempts : /\ a.batch \in batches
                        /\ <<a.id.item, a.id.version>> \in a.batch.members

PredecessorTerminal ==
    \A a \in attempts :
        Ordinal(a.id) > 1 =>
            \E p \in attempts :
                /\ IsSuccessor(a.id, p.id)
                /\ p.batch = a.batch
                /\ \E l \in leases : l.attempt = p.id /\ l.lifecycle # "CLAIMED"

LeasesHaveAttempts ==
    \A l \in leases : \E a \in attempts : a.id = l.attempt

\* The terminal operation that produces a lease in this state.
EndedBy(op, l) ==
    \/ op = "complete" /\ l.lifecycle = "RELEASED" /\ l.evidence # None
    \/ op = "release" /\ l.lifecycle = "RELEASED" /\ l.evidence = None
    \/ op = "expire" /\ l.lifecycle = "EXPIRED" /\ l.evidence = None

OpenLeaseHasNoEvidence ==
    \A l \in leases : l.lifecycle # "RELEASED" => l.evidence = None

AnswersMatchLeases ==
    \A x \in answers : \E l \in leases :
        /\ l.attempt = x.attempt /\ l.owner = x.owner /\ l.fence = x.fence
        /\ x.op # "claim" => EndedBy(x.op, l) /\ l.evidence = x.evidence

LeaseInv ==
    /\ OneLeasePerAttempt
    /\ FencesInitialSegment
    /\ FencesUnique
    /\ CurrentHoldsNewest
    /\ OpenLeaseHasNoEvidence

LineageInv ==
    /\ MembersExist
    /\ AttemptsInBatches
    /\ PredecessorTerminal
    /\ LeasesHaveAttempts
    /\ SingleLineage
    /\ SuccessorIsNewer

IInv == TypeOK /\ LeaseInv /\ LineageInv /\ AnswersMatchLeases

-----------------------------------------------------------------------------
(* Fences.                                                                 *)

\* The fence a claim issues is a positive natural number above every fence of
\* the Work Item, and the fences stay an initial segment (claim's MAX(fence)+1).
LEMMA NextFenceFresh ==
    ASSUME NEW i \in Items, NEW k \in Nat, FencesOf(i) = 1..k
    PROVE  NextFence(i) = k + 1
<1>1. k + 1 \in {1} \cup {f + 1 : f \in FencesOf(i)}
    OBVIOUS
<1>2. \A f \in FencesOf(i) : f < k + 1
    OBVIOUS
<1>3. ASSUME NEW n \in {1} \cup {f + 1 : f \in FencesOf(i)},
             \A f \in FencesOf(i) : f < n
      PROVE  n = k + 1
    <2>1. k # 0 => k \in FencesOf(i) /\ k < n
        BY <1>3
    <2>2. CASE n = 1
        BY <2>1, <2>2
    <2>3. CASE n # 1
        <3>1. PICK f \in FencesOf(i) : n = f + 1
            BY <1>3, <2>3
        <3> QED
            BY <2>1, <3>1
    <2> QED
        BY <2>2, <2>3
<1> QED
    BY <1>1, <1>2, <1>3 DEF NextFence

-----------------------------------------------------------------------------
(* Preservation, one lemma per way the tables change.                      *)

\* The store opens on empty tables.
LEMMA InitInv == Init => IInv
<1> SUFFICES ASSUME Init PROVE IInv
    OBVIOUS
<1> USE DEF Init
<1>1. TypeOK
    BY TriageExecutionAssumption DEF TypeOK
<1>2. FencesInitialSegment
    <2>1. \A i \in Items : FencesOf(i) = 1..0
        BY DEF FencesOf, LeasesOf
    <2> QED
        BY <2>1 DEF FencesInitialSegment
<1>3. LeaseInv
    BY <1>2 DEF LeaseInv, OneLeasePerAttempt, FencesUnique,
                CurrentHoldsNewest, OpenLeaseHasNoEvidence
<1>4. LineageInv
    BY DEF LineageInv, MembersExist, AttemptsInBatches, PredecessorTerminal,
           LeasesHaveAttempts, SingleLineage, SuccessorIsNewer
<1>5. AnswersMatchLeases
    BY DEF AnswersMatchLeases
<1> QED
    BY <1>1, <1>3, <1>4, <1>5 DEF IInv

\* Clock steps, new Versions, upstream changes and new Batches leave the
\* attempt and lease tables alone; heads never move back.
LEMMA TablesUnchangedInv ==
    ASSUME IInv, TypeOK', UNCHANGED <<attempts, leases, answers>>,
           batches \subseteq batches', MembersExist'
    PROVE  IInv'
<1>1. LeaseInv'
    BY DEF IInv, LeaseInv, OneLeasePerAttempt, FencesInitialSegment, FencesUnique,
           CurrentHoldsNewest, OpenLeaseHasNoEvidence, FencesOf, LeasesOf
<1>2. LineageInv'
    BY DEF IInv, LineageInv, AttemptsInBatches, PredecessorTerminal,
           LeasesHaveAttempts, SingleLineage, SuccessorIsNewer
<1>3. AnswersMatchLeases'
    BY DEF IInv, AnswersMatchLeases
<1> QED
    BY <1>1, <1>2, <1>3 DEF IInv

\* The clock, new Versions, upstream changes and register_batch keep IInv.
LEMMA EnvironmentInv ==
    ASSUME IInv,
           \/ ClockAdvance
           \/ ClockStepBack
           \/ \E i \in Items : AppendVersion(i) \/ UpstreamChange(i)
           \/ \E b \in Batch : RegisterBatch(b)
    PROVE  IInv'
<1> USE TriageExecutionAssumption
<1>0. TypeOK /\ MembersExist
    BY DEF IInv, LineageInv
<1>1. CASE ClockAdvance
    <2>1. TypeOK' /\ MembersExist'
        BY <1>0, <1>1 DEF ClockAdvance, TypeOK, MembersExist
    <2> QED
        BY <1>1, <2>1, TablesUnchangedInv DEF ClockAdvance
<1>2. CASE ClockStepBack
    <2>1. TypeOK' /\ MembersExist'
        BY <1>0, <1>2 DEF ClockStepBack, TypeOK, MembersExist
    <2> QED
        BY <1>2, <2>1, TablesUnchangedInv DEF ClockStepBack
<1>3. ASSUME NEW i \in Items, AppendVersion(i)
      PROVE  IInv'
    <2>1. TypeOK'
        BY <1>0, <1>3 DEF AppendVersion, TypeOK
    <2>2. \A j \in Items : head[j] <= head'[j]
        BY <1>0, <1>3 DEF AppendVersion, TypeOK
    <2>3. ASSUME NEW b \in batches', NEW m \in b.members
          PROVE  m[2] <= head'[m[1]]
        <3>1. b \in batches /\ m \in Items \X Versions
            BY <1>0, <1>3 DEF AppendVersion, TypeOK, Batch
        <3>2. m[1] \in Items /\ m[2] \in Nat /\ m[2] <= head[m[1]]
            BY <1>0, <3>1 DEF MembersExist, Versions
        <3> QED
            BY <1>0, <2>1, <2>2, <3>2 DEF TypeOK
    <2>4. MembersExist'
        BY <2>3 DEF MembersExist
    <2> QED
        BY <1>3, <2>1, <2>4, TablesUnchangedInv DEF AppendVersion
<1>4. ASSUME NEW i \in Items, UpstreamChange(i)
      PROVE  IInv'
    <2>1. TypeOK' /\ MembersExist'
        BY <1>0, <1>4 DEF UpstreamChange, TypeOK, MembersExist
    <2> QED
        BY <1>4, <2>1, TablesUnchangedInv DEF UpstreamChange
<1>5. ASSUME NEW b \in Batch, RegisterBatch(b)
      PROVE  IInv'
    <2>1. TypeOK'
        BY <1>0, <1>5 DEF RegisterBatch, TypeOK
    <2>2. \A m \in b.members : m[2] <= head[m[1]]
        BY <1>0, <1>5 DEF RegisterBatch, UsableCurrent, TypeOK, Batch, Versions
    <2>3. MembersExist'
        BY <1>0, <1>5, <2>2 DEF RegisterBatch, MembersExist
    <2> QED
        BY <1>5, <2>1, <2>3, TablesUnchangedInv DEF RegisterBatch
<1> QED
    BY <1>1, <1>2, <1>3, <1>4, <1>5

\* An ordinal-one attempt joins the table only when its Version has none yet.
LEMMA RegisterAttemptInv ==
    ASSUME IInv, NEW b \in batches, NEW i \in Items, NEW v \in Versions,
           NEW r \in Requests, RegisterAttempt(b, i, v, r)
    PROVE  IInv'
<1> DEFINE id == [item |-> i, version |-> v, chain |-> <<r>>]
           row == [id |-> id, batch |-> b]
<1>1. /\ attempts' = attempts \cup {row}
      /\ ~OrdinalTaken(id)
      /\ <<i, v>> \in b.members
      /\ UNCHANGED <<now, head, usable, batches, leases, answers>>
    BY DEF RegisterAttempt
<1>2. Ordinal(id) = 1 /\ id \in AttemptId /\ id.chain # <<>>
    BY DEF Ordinal, AttemptId
<1>3. TypeOK'
    <2>1. row \in Attempt /\ row.id.chain # <<>>
        BY <1>2 DEF IInv, TypeOK, Attempt
    <2>2. attempts' \subseteq Attempt /\ \A x \in attempts' : x.id.chain # <<>>
        BY <1>1, <2>1 DEF IInv, TypeOK
    <2> QED
        BY <1>1, <2>2 DEF IInv, TypeOK
<1>4. LeaseInv'
    BY <1>1 DEF IInv, LeaseInv, OneLeasePerAttempt, FencesInitialSegment, FencesUnique,
           CurrentHoldsNewest, OpenLeaseHasNoEvidence, FencesOf, LeasesOf
<1>5. SingleLineage'
    BY <1>1 DEF IInv, LineageInv, SingleLineage, OrdinalTaken
<1>6. PredecessorTerminal'
    BY <1>1, <1>2 DEF IInv, LineageInv, PredecessorTerminal
<1>7. LineageInv'
    BY <1>1, <1>5, <1>6
       DEF IInv, LineageInv, MembersExist, AttemptsInBatches, LeasesHaveAttempts,
           SuccessorIsNewer
<1>8. AnswersMatchLeases'
    BY <1>1 DEF IInv, AnswersMatchLeases
<1> QED
    BY <1>3, <1>4, <1>7, <1>8 DEF IInv

\* In one lineage the predecessor of an attempt is the attempt before it, so an
\* attempt that has a successor already has a terminal lease.
LEMMA PredecessorLeased ==
    ASSUME IInv, NEW a \in attempts, NEW s \in attempts, IsSuccessor(s.id, a.id)
    PROVE  \E l \in leases : l.attempt = a.id /\ l.lifecycle # "CLAIMED"
<1>1. /\ a.id \in AttemptId /\ s.id \in AttemptId
      /\ a.id.chain \in Seq(Requests) /\ a.id.chain # <<>>
    BY DEF IInv, TypeOK, Attempt, AttemptId
<1>2. Ordinal(s.id) = Ordinal(a.id) + 1 /\ Ordinal(a.id) \in Nat /\ Ordinal(a.id) > 0
    BY <1>1 DEF IsSuccessor, Ordinal, AttemptId
<1>3. PICK p \in attempts :
          /\ IsSuccessor(s.id, p.id)
          /\ \E l \in leases : l.attempt = p.id /\ l.lifecycle # "CLAIMED"
    BY <1>2 DEF IInv, LineageInv, PredecessorTerminal
<1>4. Ordinal(s.id) = Ordinal(p.id) + 1 /\ Ordinal(p.id) \in Nat
    BY <1>3 DEF IInv, TypeOK, Attempt, IsSuccessor, Ordinal, AttemptId
<1>5. p.id.item = a.id.item /\ p.id.version = a.id.version
    BY <1>3 DEF IsSuccessor
<1>6. Ordinal(p.id) = Ordinal(a.id)
    BY <1>2, <1>4
<1>7. p = a
    BY <1>5, <1>6 DEF IInv, LineageInv, SingleLineage
<1> QED
    BY <1>3, <1>7

\* A claim adds one lease with the next fence of its Work Item, and only when
\* the item has no current lease.
LEMMA ClaimInv ==
    ASSUME IInv, NEW w \in Workers, NEW a \in attempts, Claim(w, a)
    PROVE  IInv'
<1> DEFINE i == a.id.item
           lease == [attempt |-> a.id, owner |-> w, fence |-> NextFence(i),
                     lifecycle |-> "CLAIMED", issued |-> now, expires |-> now + TTL,
                     evidence |-> None]
<1>1. /\ leases' = leases \cup {lease}
      /\ answers' = answers \cup {Reply("claim", lease)}
      /\ \A l \in leases : l.attempt # a.id
      /\ ~HasCurrentLease(i, a.id.version)
      /\ UNCHANGED <<now, head, usable, batches, attempts>>
    BY DEF Claim
<1>2. a.id \in AttemptId /\ i \in Items
    BY DEF IInv, TypeOK, Attempt, AttemptId
<1>3. PICK k \in Nat : FencesOf(i) = 1..k
    BY <1>2 DEF IInv, LeaseInv, FencesInitialSegment
<1>4. NextFence(i) = k + 1
    BY <1>2, <1>3, NextFenceFresh
<1>5. lease \in Lease
    BY <1>2, <1>4, TriageExecutionAssumption DEF IInv, TypeOK, Lease, Lifecycle
<1>6. \A l \in leases : l.attempt.item = i => l.fence \in 1..k /\ l.fence < lease.fence
    BY <1>3, <1>4 DEF FencesOf, LeasesOf
<1>7. TypeOK'
    BY <1>1, <1>5 DEF IInv, TypeOK, Reply, Answer, Lease
<1>8. FencesInitialSegment'
    <2>1. ASSUME NEW j \in Items, j # i
          PROVE  FencesOf(j)' = FencesOf(j)
        BY <1>1, <2>1 DEF FencesOf, LeasesOf
    <2>2. FencesOf(i)' = FencesOf(i) \cup {k + 1}
        BY <1>1, <1>4 DEF FencesOf, LeasesOf
    <2>3. FencesOf(i)' = 1..(k + 1)
        BY <1>3, <2>2
    <2> QED
        BY <2>1, <2>3 DEF IInv, LeaseInv, FencesInitialSegment
<1>9. LeaseInv'
    <2>1. OneLeasePerAttempt'
        BY <1>1 DEF IInv, LeaseInv, OneLeasePerAttempt
    <2>2. FencesUnique'
        BY <1>1, <1>4, <1>6 DEF IInv, LeaseInv, FencesUnique
    <2>3. CurrentHoldsNewest'
        <3> SUFFICES ASSUME NEW l \in leases', NEW m \in leases',
                            l.attempt.item = m.attempt.item, l.lifecycle = "CLAIMED"
                     PROVE  m.fence <= l.fence
            BY DEF CurrentHoldsNewest
        <3>1. CASE l = lease
            BY <1>1, <1>4, <1>6, <3>1
        <3>2. CASE l # lease
            <4>1. l \in leases /\ m \in leases
                BY <1>1, <3>2 DEF HasCurrentLease, LeasesOf
            <4> QED
                BY <4>1 DEF IInv, LeaseInv, CurrentHoldsNewest
        <3> QED
            BY <3>1, <3>2
    <2>4. OpenLeaseHasNoEvidence'
        BY <1>1 DEF IInv, LeaseInv, OpenLeaseHasNoEvidence
    <2> QED
        BY <1>8, <2>1, <2>2, <2>3, <2>4 DEF LeaseInv
<1>10. SuccessorIsNewer'
    <2> SUFFICES ASSUME NEW l \in leases', NEW m \in leases',
                        IsSuccessor(l.attempt, m.attempt)
                 PROVE  m.fence < l.fence
        BY DEF SuccessorIsNewer
    <2>1. CASE l \in leases /\ m \in leases
        BY <2>1 DEF IInv, LineageInv, SuccessorIsNewer
    <2>2. CASE l = lease /\ m \in leases
        BY <1>6, <2>2 DEF IsSuccessor
    <2>3. CASE l \in leases /\ m = lease
        <3>1. PICK s \in attempts : s.id = l.attempt
            BY <2>3 DEF IInv, LineageInv, LeasesHaveAttempts
        <3>2. \E n \in leases : n.attempt = a.id
            BY <2>3, <3>1, PredecessorLeased
        <3> QED
            BY <1>1, <3>2
    <2>4. CASE l = lease /\ m = lease
        BY <1>2, <2>4 DEF IsSuccessor, AttemptId
    <2> QED
        BY <1>1, <2>1, <2>2, <2>3, <2>4
<1>11. LineageInv'
    BY <1>1, <1>10
       DEF IInv, LineageInv, MembersExist, AttemptsInBatches, PredecessorTerminal,
           LeasesHaveAttempts, SingleLineage
<1>12. AnswersMatchLeases'
    <2> SUFFICES ASSUME NEW x \in answers'
                 PROVE  \E l \in leases' :
                          /\ l.attempt = x.attempt /\ l.owner = x.owner /\ l.fence = x.fence
                          /\ x.op # "claim" => EndedBy(x.op, l) /\ l.evidence = x.evidence
        BY DEF AnswersMatchLeases, EndedBy
    <2>1. CASE x \in answers
        BY <1>1, <2>1 DEF IInv, AnswersMatchLeases
    <2>2. CASE x = Reply("claim", lease)
        BY <1>1, <2>2 DEF Reply
    <2> QED
        BY <1>1, <2>1, <2>2
<1> QED
    BY <1>7, <1>9, <1>11, <1>12 DEF IInv

\* A replayed call changes no table: it repeats what the lease already says.
LEMMA ReplayInv ==
    ASSUME IInv, NEW l \in leases, NEW x \in Answer,
           x.attempt = l.attempt, x.owner = l.owner, x.fence = l.fence,
           x.op # "claim" => EndedBy(x.op, l) /\ l.evidence = x.evidence,
           answers' = answers \cup {x},
           UNCHANGED <<now, head, usable, batches, attempts, leases>>
    PROVE  IInv'
<1>1. TypeOK'
    BY DEF IInv, TypeOK
<1>2. LeaseInv'
    BY DEF IInv, LeaseInv, OneLeasePerAttempt, FencesInitialSegment, FencesUnique,
           CurrentHoldsNewest, OpenLeaseHasNoEvidence, FencesOf, LeasesOf
<1>3. LineageInv'
    BY DEF IInv, LineageInv, MembersExist, AttemptsInBatches, PredecessorTerminal,
           LeasesHaveAttempts, SingleLineage, SuccessorIsNewer
<1>4. AnswersMatchLeases'
    <2>1. \A y \in answers' : y \in answers \/ y = x
        OBVIOUS
    <2> QED
        BY <2>1 DEF IInv, AnswersMatchLeases, EndedBy
<1> QED
    BY <1>1, <1>2, <1>3, <1>4 DEF IInv

\* claim's replay branch: the owner is given the retained lease again.
LEMMA ClaimReplayInv ==
    ASSUME IInv, NEW w \in Workers, NEW l \in leases, ClaimReplay(w, l)
    PROVE  IInv'
<1> DEFINE x == [Reply("claim", l) EXCEPT !.owner = w, !.evidence = None]
<1>1. l \in Lease
    BY DEF IInv, TypeOK
<1>2. x \in Answer /\ x.op = "claim"
    BY <1>1 DEF Lease, Answer, Reply
<1>3. x.attempt = l.attempt /\ x.owner = l.owner /\ x.fence = l.fence
    BY DEF ClaimReplay, OwnsLease, Reply
<1> HIDE DEF x
<1> QED
    BY <1>2, <1>3, ReplayInv DEF ClaimReplay, x

\* _terminal's replay branch: an ended lease answers only the call that ended it.
LEMMA TerminalReplayInv ==
    ASSUME IInv, NEW w \in Workers, NEW l \in leases,
           NEW op \in {"complete", "release", "expire"},
           NEW e \in Evidence \cup {None}, TerminalReplay(w, l, op, e)
    PROVE  IInv'
<1> DEFINE x == Reply(op, [l EXCEPT !.evidence = e])
<1>1. l \in Lease
    BY DEF IInv, TypeOK
<1>2. x \in Answer /\ x.op = op /\ x.evidence = e
    BY <1>1 DEF Lease, Answer, Reply
<1>3. x.attempt = l.attempt /\ x.owner = l.owner /\ x.fence = l.fence
    BY <1>1 DEF Lease, Reply
<1>4. EndedBy(op, l) /\ l.evidence = e
    BY DEF TerminalReplay, ReplayMatches, EndedBy, IInv, LeaseInv, OpenLeaseHasNoEvidence
<1> HIDE DEF x
<1> QED
    BY <1>2, <1>3, <1>4, ReplayInv DEF TerminalReplay, x

\* What ending one CLAIMED lease does to the lease table: every row keeps its
\* attempt, owner and fence, terminal rows are untouched, and the lease
\* invariants survive.
LEMMA FinishLeases ==
    ASSUME IInv, NEW l \in leases, l.lifecycle = "CLAIMED",
           NEW lifecycle \in {"RELEASED", "EXPIRED"},
           NEW e \in Evidence \cup {None}, lifecycle = "EXPIRED" => e = None,
           Finish(l, lifecycle, e)
    PROVE  /\ leases' \subseteq Lease
           /\ LeaseInv'
           /\ \A n \in leases' : \E m \in leases :
                 m.attempt = n.attempt /\ m.owner = n.owner /\ m.fence = n.fence
           /\ \A m \in leases : \E n \in leases' :
                 /\ m.attempt = n.attempt /\ m.owner = n.owner /\ m.fence = n.fence
                 /\ m.lifecycle # "CLAIMED" => n = m
           /\ \A m \in leases : m.lifecycle # "CLAIMED" => m \in leases'
<1> DEFINE d == [l EXCEPT !.lifecycle = lifecycle, !.evidence = e]
<1>1. leases' = (leases \ {l}) \cup {d}
    BY DEF Finish
<1>2. l \in Lease /\ leases \subseteq Lease
    BY DEF IInv, TypeOK
<1>3. /\ d \in Lease /\ d.attempt = l.attempt /\ d.owner = l.owner /\ d.fence = l.fence
      /\ d.lifecycle = lifecycle /\ d.evidence = e
    BY <1>2 DEF Lease, Lifecycle
<1> HIDE DEF d
<1>4. leases' \subseteq Lease
    BY <1>1, <1>2, <1>3
<1>5. \A n \in leases' : n \in leases \/ n = d
    BY <1>1
<1>6. \A n \in leases' : \E m \in leases :
          m.attempt = n.attempt /\ m.owner = n.owner /\ m.fence = n.fence
    BY <1>3, <1>5
<1>7. \A m \in leases : m # l => m \in leases'
    BY <1>1
<1>8. \A m \in leases : \E n \in leases' :
          /\ m.attempt = n.attempt /\ m.owner = n.owner /\ m.fence = n.fence
          /\ m.lifecycle # "CLAIMED" => n = m
    BY <1>1, <1>3, <1>7
<1>9. ASSUME NEW i \in Items
      PROVE  FencesOf(i)' = FencesOf(i)
    <2>1. FencesOf(i)' \subseteq FencesOf(i)
        BY <1>6 DEF FencesOf, LeasesOf
    <2>2. FencesOf(i) \subseteq FencesOf(i)'
        BY <1>8 DEF FencesOf, LeasesOf
    <2> QED
        BY <2>1, <2>2
<1>10. LeaseInv'
    <2>1. FencesInitialSegment'
        BY <1>9 DEF IInv, LeaseInv, FencesInitialSegment
    <2>2. OneLeasePerAttempt'
        BY <1>1, <1>3 DEF IInv, LeaseInv, OneLeasePerAttempt
    <2>3. FencesUnique'
        BY <1>1, <1>3 DEF IInv, LeaseInv, FencesUnique
    <2>4. CurrentHoldsNewest'
        <3> SUFFICES ASSUME NEW n \in leases', NEW m \in leases',
                            n.attempt.item = m.attempt.item, n.lifecycle = "CLAIMED"
                     PROVE  m.fence <= n.fence
            BY DEF CurrentHoldsNewest
        <3>1. n \in leases
            BY <1>3, <1>5
        <3>2. PICK o \in leases : o.attempt = m.attempt /\ o.fence = m.fence
            BY <1>6
        <3> QED
            BY <3>1, <3>2 DEF IInv, LeaseInv, CurrentHoldsNewest
    <2>5. OpenLeaseHasNoEvidence'
        BY <1>3, <1>5 DEF IInv, LeaseInv, OpenLeaseHasNoEvidence
    <2> QED
        BY <2>1, <2>2, <2>3, <2>4, <2>5 DEF LeaseInv
<1> QED
    BY <1>4, <1>6, <1>7, <1>8, <1>10

\* Once its tables are known, the rest of the lineage invariant only looks at
\* which attempts have leases, and which of those are terminal.
LEMMA FinishLineage ==
    ASSUME IInv,
           \A n \in leases' : \E m \in leases :
                 m.attempt = n.attempt /\ m.owner = n.owner /\ m.fence = n.fence,
           \A m \in leases : m.lifecycle # "CLAIMED" => m \in leases',
           UNCHANGED <<head, batches, attempts>>
    PROVE  LineageInv'
<1>1. MembersExist' /\ AttemptsInBatches' /\ SingleLineage'
    BY DEF IInv, LineageInv, MembersExist, AttemptsInBatches, SingleLineage
<1>2. PredecessorTerminal'
    <2> SUFFICES ASSUME NEW a \in attempts, Ordinal(a.id) > 1
                 PROVE  \E p \in attempts :
                          /\ IsSuccessor(a.id, p.id)
                          /\ p.batch = a.batch
                          /\ \E l \in leases' : l.attempt = p.id /\ l.lifecycle # "CLAIMED"
        BY DEF PredecessorTerminal
    <2> QED
        BY DEF IInv, LineageInv, PredecessorTerminal
<1>3. LeasesHaveAttempts'
    BY DEF IInv, LineageInv, LeasesHaveAttempts
<1>4. SuccessorIsNewer'
    BY DEF IInv, LineageInv, SuccessorIsNewer
<1> QED
    BY <1>1, <1>2, <1>3, <1>4 DEF LineageInv

\* complete, release and expire.
LEMMA TerminalInv ==
    ASSUME IInv, NEW l \in leases, l.lifecycle = "CLAIMED",
           NEW op \in {"complete", "release", "expire"},
           NEW lifecycle \in {"RELEASED", "EXPIRED"},
           NEW e \in Evidence \cup {None},
           EndedBy(op, [l EXCEPT !.lifecycle = lifecycle, !.evidence = e]),
           Finish(l, lifecycle, e),
           answers' = answers \cup {Reply(op, [l EXCEPT !.evidence = e])},
           UNCHANGED <<now, head, usable, batches, attempts>>
    PROVE  IInv'
<1> DEFINE d == [l EXCEPT !.lifecycle = lifecycle, !.evidence = e]
           x == Reply(op, [l EXCEPT !.evidence = e])
<1>1. l \in Lease
    BY DEF IInv, TypeOK
<1>2. /\ d \in leases' /\ d.attempt = l.attempt /\ d.owner = l.owner
      /\ d.fence = l.fence /\ d.evidence = e /\ d.lifecycle = lifecycle
    BY <1>1 DEF Finish, Lease
<1>3. /\ x \in Answer /\ x.attempt = l.attempt /\ x.owner = l.owner
      /\ x.fence = l.fence /\ x.op = op /\ x.evidence = e
    BY <1>1 DEF Reply, Lease, Answer
<1>4. EndedBy(op, d)
    OBVIOUS
<1>5. lifecycle = "EXPIRED" => e = None
    BY <1>2, <1>4 DEF EndedBy
<1> HIDE DEF d, x
<1>6. /\ leases' \subseteq Lease
      /\ LeaseInv'
      /\ \A n \in leases' : \E m \in leases :
            m.attempt = n.attempt /\ m.owner = n.owner /\ m.fence = n.fence
      /\ \A m \in leases : \E n \in leases' :
            /\ m.attempt = n.attempt /\ m.owner = n.owner /\ m.fence = n.fence
            /\ m.lifecycle # "CLAIMED" => n = m
      /\ \A m \in leases : m.lifecycle # "CLAIMED" => m \in leases'
    BY <1>5, FinishLeases
<1>7. LineageInv'
    BY <1>6, FinishLineage
<1>8. answers' = answers \cup {x}
    BY DEF x
<1>9. TypeOK'
    BY <1>3, <1>6, <1>8 DEF IInv, TypeOK
<1>10. AnswersMatchLeases'
    <2> SUFFICES ASSUME NEW y \in answers'
                 PROVE  \E n \in leases' :
                          /\ n.attempt = y.attempt /\ n.owner = y.owner /\ n.fence = y.fence
                          /\ y.op # "claim" => EndedBy(y.op, n) /\ n.evidence = y.evidence
        BY DEF AnswersMatchLeases, EndedBy
    <2>1. CASE y \in answers
        <3>1. PICK m \in leases :
                  /\ m.attempt = y.attempt /\ m.owner = y.owner /\ m.fence = y.fence
                  /\ y.op # "claim" => EndedBy(y.op, m) /\ m.evidence = y.evidence
            BY <2>1 DEF IInv, AnswersMatchLeases
        <3>2. PICK n \in leases' :
                  /\ m.attempt = n.attempt /\ m.owner = n.owner /\ m.fence = n.fence
                  /\ m.lifecycle # "CLAIMED" => n = m
            BY <1>6
        <3>3. y.op # "claim" => n = m
            BY <3>1, <3>2 DEF EndedBy
        <3> QED
            BY <3>1, <3>2, <3>3
    <2>2. CASE y = x
        BY <1>2, <1>3, <1>4, <2>2
    <2> QED
        BY <1>8, <2>1, <2>2
<1> QED
    BY <1>6, <1>7, <1>9, <1>10 DEF IInv

\* Each of complete, release and expire is such an end, with its own evidence.
LEMMA EndingInv ==
    ASSUME IInv,
           \/ \E w \in Workers, l \in leases, e \in Evidence : Complete(w, l, e)
           \/ \E w \in Workers, l \in leases : Release(w, l)
           \/ \E l \in leases : Expire(l)
    PROVE  IInv'
<1>1. ASSUME NEW w \in Workers, NEW l \in leases, NEW e \in Evidence, Complete(w, l, e)
      PROVE  IInv'
    <2>1. l \in Lease /\ l.lifecycle = "CLAIMED"
        BY <1>1 DEF Complete, Releasable, IInv, TypeOK
    <2>2. EndedBy("complete", [l EXCEPT !.lifecycle = "RELEASED", !.evidence = e])
        BY <2>1, TriageExecutionAssumption DEF EndedBy, Lease
    <2> QED
        BY <1>1, <2>1, <2>2, TerminalInv DEF Complete
<1>2. ASSUME NEW w \in Workers, NEW l \in leases, Release(w, l)
      PROVE  IInv'
    <2>1. l \in Lease /\ l.lifecycle = "CLAIMED" /\ l.evidence = None
        BY <1>2 DEF Release, Releasable, IInv, TypeOK, LeaseInv, OpenLeaseHasNoEvidence
    <2>2. EndedBy("release", [l EXCEPT !.lifecycle = "RELEASED", !.evidence = None])
        BY <2>1 DEF EndedBy, Lease
    <2>3. [l EXCEPT !.evidence = None] = l
        BY <2>1 DEF Lease
    <2> QED
        BY <1>2, <2>1, <2>2, <2>3, TerminalInv DEF Release
<1>3. ASSUME NEW l \in leases, Expire(l)
      PROVE  IInv'
    <2>1. l \in Lease /\ l.lifecycle = "CLAIMED" /\ l.evidence = None
        BY <1>3 DEF Expire, IsExpired, IInv, TypeOK, LeaseInv, OpenLeaseHasNoEvidence
    <2>2. EndedBy("expire", [l EXCEPT !.lifecycle = "EXPIRED", !.evidence = None])
        BY <2>1 DEF EndedBy, Lease
    <2>3. [l EXCEPT !.evidence = None] = l
        BY <2>1 DEF Lease
    <2> QED
        BY <1>3, <2>1, <2>2, <2>3, TerminalInv DEF Expire
<1> QED
    BY <1>1, <1>2, <1>3

\* restart ends the predecessor's lease if it is still CLAIMED and appends the
\* only successor of the newest attempt of the lineage.
LEMMA RestartInv ==
    ASSUME IInv, NEW a \in attempts, NEW l \in leases, NEW r \in Requests,
           Restart(a, l, r)
    PROVE  IInv'
<1> DEFINE id == [a.id EXCEPT !.chain = Append(@, r)]
           row == [id |-> id, batch |-> a.batch]
<1>1. /\ attempts' = attempts \cup {row}
      /\ l.attempt = a.id
      /\ \A s \in attempts : ~IsSuccessor(s.id, a.id)
      /\ UNCHANGED <<now, head, usable, batches, answers>>
    BY DEF Restart, EndPredecessor
<1>2. a \in Attempt /\ a.id \in AttemptId /\ a.id.chain \in Seq(Requests) /\ a.id.chain # <<>>
    BY DEF IInv, TypeOK, Attempt, AttemptId
<1>3. /\ id \in AttemptId /\ id.chain = Append(a.id.chain, r)
      /\ id.item = a.id.item /\ id.version = a.id.version
    BY <1>2 DEF AttemptId
<1>4. IsSuccessor(id, a.id) /\ id.chain # <<>>
    BY <1>2, <1>3 DEF IsSuccessor
<1>5. Ordinal(id) = Ordinal(a.id) + 1 /\ Ordinal(a.id) \in Nat /\ Ordinal(a.id) > 0
    BY <1>2, <1>3 DEF Ordinal
<1>6. row \in Attempt /\ row.id = id /\ row.batch = a.batch
    BY <1>2, <1>3 DEF Attempt
<1> HIDE DEF id, row
<1>7. /\ leases' \subseteq Lease
      /\ LeaseInv'
      /\ \A n \in leases' : \E m \in leases :
            m.attempt = n.attempt /\ m.owner = n.owner /\ m.fence = n.fence
      /\ \A m \in leases : \E n \in leases' :
            /\ m.attempt = n.attempt /\ m.owner = n.owner /\ m.fence = n.fence
            /\ m.lifecycle # "CLAIMED" => n = m
      /\ \A m \in leases : m.lifecycle # "CLAIMED" => m \in leases'
    <2>1. CASE l.lifecycle = "CLAIMED"
        BY <2>1, FinishLeases DEF Restart, EndPredecessor
    <2>2. CASE l.lifecycle # "CLAIMED"
        <3>1. leases' = leases
            BY <2>2 DEF Restart, EndPredecessor
        <3>2. LeaseInv'
            BY <3>1 DEF IInv, LeaseInv, OneLeasePerAttempt, FencesInitialSegment,
                 FencesUnique, CurrentHoldsNewest, OpenLeaseHasNoEvidence, FencesOf, LeasesOf
        <3> QED
            BY <3>1, <3>2 DEF IInv, TypeOK
    <2> QED
        BY <2>1, <2>2
<1>8. \E n \in leases' : n.attempt = a.id /\ n.lifecycle # "CLAIMED"
    <2>1. CASE l.lifecycle = "CLAIMED"
        <3>1. l \in Lease
            BY DEF IInv, TypeOK
        <3>2. Finish(l, "EXPIRED", None)
            BY <2>1 DEF Restart, EndPredecessor
        <3>3. [l EXCEPT !.lifecycle = "EXPIRED", !.evidence = None] \in leases'
            BY <3>2 DEF Finish
        <3>4. /\ [l EXCEPT !.lifecycle = "EXPIRED", !.evidence = None].attempt = a.id
              /\ [l EXCEPT !.lifecycle = "EXPIRED", !.evidence = None].lifecycle = "EXPIRED"
            BY <1>1, <3>1 DEF Lease
        <3> QED
            BY <3>3, <3>4
    <2>2. CASE l.lifecycle # "CLAIMED"
        BY <1>1, <1>7, <2>2
    <2> QED
        BY <2>1, <2>2
<1>9. TypeOK'
    <2>1. attempts' \subseteq Attempt /\ \A x \in attempts' : x.id.chain # <<>>
        BY <1>1, <1>4, <1>6 DEF IInv, TypeOK
    <2> QED
        BY <1>1, <1>7, <2>1 DEF IInv, TypeOK
<1>10. SingleLineage'
    <2>1. ASSUME NEW b \in attempts, b.id.item = id.item, b.id.version = id.version,
                 Ordinal(b.id) = Ordinal(id)
          PROVE  FALSE
        <3>1. PICK p \in attempts : IsSuccessor(b.id, p.id)
            BY <1>5, <2>1 DEF IInv, LineageInv, PredecessorTerminal
        <3>2. Ordinal(b.id) = Ordinal(p.id) + 1 /\ Ordinal(p.id) \in Nat
            BY <3>1 DEF IInv, TypeOK, Attempt, IsSuccessor, Ordinal, AttemptId
        <3>3. Ordinal(p.id) = Ordinal(a.id)
            BY <1>5, <2>1, <3>2
        <3>4. p.id.item = a.id.item /\ p.id.version = a.id.version
            BY <1>3, <2>1, <3>1 DEF IsSuccessor
        <3>5. p = a
            BY <3>3, <3>4 DEF IInv, LineageInv, SingleLineage
        <3> QED
            BY <1>1, <3>1, <3>5
    <2>2. ASSUME NEW x \in attempts', NEW y \in attempts',
                 x.id.item = y.id.item, x.id.version = y.id.version,
                 Ordinal(x.id) = Ordinal(y.id)
          PROVE  x = y
        <3>1. CASE x \in attempts /\ y \in attempts
            BY <2>2, <3>1 DEF IInv, LineageInv, SingleLineage
        <3>2. CASE x = row \/ y = row
            BY <1>1, <1>6, <2>1, <2>2, <3>2
        <3> QED
            BY <1>1, <3>1, <3>2
    <2> QED
        BY <2>2 DEF SingleLineage, Ordinal
<1>11. PredecessorTerminal'
    <2> SUFFICES ASSUME NEW x \in attempts', Ordinal(x.id) > 1
                 PROVE  \E p \in attempts' :
                          /\ IsSuccessor(x.id, p.id)
                          /\ p.batch = x.batch
                          /\ \E n \in leases' : n.attempt = p.id /\ n.lifecycle # "CLAIMED"
        BY DEF PredecessorTerminal, Ordinal
    <2>1. CASE x \in attempts
        BY <1>1, <1>7, <2>1 DEF IInv, LineageInv, PredecessorTerminal
    <2>2. CASE x = row
        BY <1>1, <1>4, <1>6, <1>8, <2>2
    <2> QED
        BY <1>1, <2>1, <2>2
<1>12. AttemptsInBatches'
    BY <1>1, <1>3, <1>6 DEF IInv, LineageInv, AttemptsInBatches
<1>13. LeasesHaveAttempts' /\ MembersExist'
    BY <1>1, <1>7 DEF IInv, LineageInv, LeasesHaveAttempts, MembersExist
<1>14. SuccessorIsNewer'
    BY <1>7 DEF IInv, LineageInv, SuccessorIsNewer
<1>15. AnswersMatchLeases'
    <2> SUFFICES ASSUME NEW y \in answers
                 PROVE  \E n \in leases' :
                          /\ n.attempt = y.attempt /\ n.owner = y.owner /\ n.fence = y.fence
                          /\ y.op # "claim" => EndedBy(y.op, n) /\ n.evidence = y.evidence
        BY <1>1 DEF AnswersMatchLeases, EndedBy
    <2>1. PICK m \in leases :
              /\ m.attempt = y.attempt /\ m.owner = y.owner /\ m.fence = y.fence
              /\ y.op # "claim" => EndedBy(y.op, m) /\ m.evidence = y.evidence
        BY DEF IInv, AnswersMatchLeases
    <2>2. PICK n \in leases' :
              /\ m.attempt = n.attempt /\ m.owner = n.owner /\ m.fence = n.fence
              /\ m.lifecycle # "CLAIMED" => n = m
        BY <1>7
    <2>3. y.op # "claim" => n = m
        BY <2>1, <2>2 DEF EndedBy
    <2> QED
        BY <2>1, <2>2, <2>3
<1> QED
    BY <1>7, <1>9, <1>10, <1>11, <1>12, <1>13, <1>14, <1>15 DEF IInv, LineageInv

-----------------------------------------------------------------------------
(* The theorems.                                                           *)

\* Every step of the store preserves IInv.
LEMMA StepInv == IInv /\ [Next]_vars => IInv'
<1> SUFFICES ASSUME IInv, [Next]_vars PROVE IInv'
    OBVIOUS
<1>1. CASE UNCHANGED vars
    <2>1. TypeOK' /\ MembersExist'
        BY <1>1 DEF IInv, TypeOK, LineageInv, MembersExist, vars
    <2> QED
        BY <1>1, <2>1, TablesUnchangedInv DEF vars
<1>2. CASE Next
    BY <1>2, EnvironmentInv, RegisterAttemptInv, ClaimInv, ClaimReplayInv, EndingInv,
       TerminalReplayInv, RestartInv DEF Next
<1> QED
    BY <1>1, <1>2

\* IInv is inductive.
THEOREM Inductive == Spec => []IInv
    BY StepInv, InitInv, PTL DEF Spec

\* Type correctness of every table the store keeps.
THEOREM TypeCorrect == Spec => []TypeOK
<1>1. IInv => TypeOK
    BY DEF IInv
<1> QED
    BY <1>1, Inductive, PTL

\* A Work Item never has two current owners, on any of its Versions.
THEOREM MutualExclusion == Spec => []OneCurrentLease
<1>1. IInv => OneCurrentLease
    <2> SUFFICES ASSUME IInv, NEW l \in leases, NEW m \in leases,
                        l.lifecycle = "CLAIMED", m.lifecycle = "CLAIMED",
                        l.attempt.item = m.attempt.item
                 PROVE  l = m
        BY DEF OneCurrentLease
    <2>1. l.fence <= m.fence /\ m.fence <= l.fence
        BY DEF IInv, LeaseInv, CurrentHoldsNewest
    <2>2. l.fence \in Nat /\ m.fence \in Nat
        BY DEF IInv, TypeOK, Lease
    <2>3. l.fence = m.fence
        BY <2>1, <2>2
    <2> QED
        BY <2>3 DEF IInv, LeaseInv, FencesUnique
<1> QED
    BY <1>1, Inductive, PTL

\* Fences order every lease a Work Item has ever had, newest owner last.
THEOREM FenceOrder == Spec => []FencesTotallyOrdered
<1>1. IInv => FencesTotallyOrdered
    <2> SUFFICES ASSUME IInv PROVE FencesTotallyOrdered
        OBVIOUS
    <2>1. ASSUME NEW i \in Items, NEW f \in FencesOf(i)
          PROVE  f = 1 \/ f - 1 \in FencesOf(i)
        <3>1. PICK k \in Nat : FencesOf(i) = 1..k
            BY DEF IInv, LeaseInv, FencesInitialSegment
        <3>2. f \in 1..k
            BY <3>1
        <3>3. f = 1 \/ f - 1 \in 1..k
            BY <3>2
        <3> QED
            BY <3>1, <3>3
    <2> QED
        BY <2>1 DEF FencesTotallyOrdered, IInv, LeaseInv, LineageInv, FencesUnique,
                    CurrentHoldsNewest, SuccessorIsNewer
<1> QED
    BY <1>1, Inductive, PTL

\* The store accepts on reopening every database it has written.
THEOREM ReopenAccepts == Spec => []VerifyIntegrity
<1>1. IInv /\ OneCurrentLease => VerifyIntegrity
    BY DEF IInv, LineageInv, VerifyIntegrity, MembersExist, AttemptsInBatches,
           PredecessorTerminal, LeasesHaveAttempts
<1> QED
    BY <1>1, Inductive, MutualExclusion, PTL

\* Retries never fork: one attempt per ordinal of a Work Item Version.
THEOREM LineageIsLinear == Spec => []SingleLineage
<1>1. IInv => SingleLineage
    BY DEF IInv, LineageInv
<1> QED
    BY <1>1, Inductive, PTL

\* Lost responses are harmless: all answers about an attempt agree with each
\* other and with the retained lease.
THEOREM AnswersAreConsistent == Spec => []AnswersAgree
<1>1. IInv => AnswersAgree
    <2> SUFFICES ASSUME IInv PROVE AnswersAgree
        OBVIOUS
    <2>1. \A x \in answers : \E l \in leases :
              /\ l.attempt = x.attempt /\ l.owner = x.owner /\ l.fence = x.fence
              /\ x.op # "claim" => EndedBy(x.op, l) /\ l.evidence = x.evidence
        BY DEF IInv, AnswersMatchLeases
    <2>2. ASSUME NEW x \in answers, NEW y \in answers, x.attempt = y.attempt
          PROVE  /\ x.owner = y.owner /\ x.fence = y.fence
                 /\ x.op # "claim" /\ y.op # "claim"
                       => x.op = y.op /\ x.evidence = y.evidence
        <3>1. PICK l \in leases :
                  /\ l.attempt = x.attempt /\ l.owner = x.owner /\ l.fence = x.fence
                  /\ x.op # "claim" => EndedBy(x.op, l) /\ l.evidence = x.evidence
            BY <2>1
        <3>2. PICK m \in leases :
                  /\ m.attempt = y.attempt /\ m.owner = y.owner /\ m.fence = y.fence
                  /\ y.op # "claim" => EndedBy(y.op, m) /\ m.evidence = y.evidence
            BY <2>1
        <3>3. l = m
            BY <2>2, <3>1, <3>2 DEF IInv, LeaseInv, OneLeasePerAttempt
        <3> QED
            BY <3>1, <3>2, <3>3 DEF EndedBy
    <2>3. \A x \in answers : \E l \in leases :
              /\ l.attempt = x.attempt /\ l.owner = x.owner /\ l.fence = x.fence
              /\ x.op # "claim" => l.lifecycle # "CLAIMED" /\ l.evidence = x.evidence
        BY <2>1 DEF EndedBy
    <2> QED
        BY <2>2, <2>3 DEF AnswersAgree
<1> QED
    BY <1>1, Inductive, PTL

\* A restarted attempt's lease is never touched again, by any operation of any
\* caller: its worker has lost the right to report anything.
THEOREM SupersededIsInert == Spec => SupersededWorkerCannotAct
<1>1. ASSUME IInv, Next, NEW l \in leases, NEW s \in attempts,
             IsSuccessor(s.id, l.attempt)
      PROVE  l \in leases'
    <2>1. PICK a \in attempts : a.id = l.attempt
        BY <1>1 DEF IInv, LineageInv, LeasesHaveAttempts
    <2>2. PICK n \in leases : n.attempt = a.id /\ n.lifecycle # "CLAIMED"
        BY <1>1, <2>1, PredecessorLeased
    <2>3. l.lifecycle # "CLAIMED"
        BY <1>1, <2>1, <2>2 DEF IInv, LeaseInv, OneLeasePerAttempt
    <2>4. ASSUME NEW m \in leases, m.lifecycle = "CLAIMED",
                 NEW lifecycle, NEW e, Finish(m, lifecycle, e)
          PROVE  l \in leases'
        BY <1>1, <2>3, <2>4 DEF Finish
    <2>5. CASE \/ ClockAdvance \/ ClockStepBack
               \/ \E i \in Items : AppendVersion(i) \/ UpstreamChange(i)
               \/ \E b \in Batch : RegisterBatch(b)
               \/ \E b \in batches, i \in Items, v \in Versions, r \in Requests :
                     RegisterAttempt(b, i, v, r)
        BY <1>1, <2>5 DEF ClockAdvance, ClockStepBack, AppendVersion, UpstreamChange,
                          RegisterBatch, RegisterAttempt
    <2>6. CASE \E w \in Workers, a1 \in attempts : Claim(w, a1)
        BY <1>1, <2>6 DEF Claim
    <2>7. CASE \/ \E w \in Workers, m \in leases : ClaimReplay(w, m)
               \/ \E w \in Workers, m \in leases, op \in {"complete", "release", "expire"},
                     e \in Evidence \cup {None} : TerminalReplay(w, m, op, e)
        BY <1>1, <2>7 DEF ClaimReplay, TerminalReplay
    <2>8. CASE \/ \E w \in Workers, m \in leases : Release(w, m)
               \/ \E w \in Workers, m \in leases, e \in Evidence : Complete(w, m, e)
               \/ \E m \in leases : Expire(m)
        BY <2>4, <2>8 DEF Release, Complete, Expire, Releasable, IsExpired
    <2>9. CASE \E a1 \in attempts, m \in leases, r \in Requests : Restart(a1, m, r)
        BY <1>1, <2>4, <2>9 DEF Restart, EndPredecessor
    <2> QED
        BY <1>1, <2>5, <2>6, <2>7, <2>8, <2>9 DEF Next
<1>2. IInv /\ [Next]_vars =>
        [\A l \in leases, a \in attempts : IsSuccessor(a.id, l.attempt) => l \in leases']_vars
    BY <1>1
<1> QED
    BY <1>2, Inductive, PTL DEF Spec, SupersededWorkerCannotAct

\* Nothing is registered, claimed, restarted or completed for a Work Item
\* Version that is not the usable head at that moment.
THEOREM StaleIsFrozen == Spec => StaleWorkIsFrozen
<1> DEFINE Moved == (AttemptIds' \ AttemptIds) \cup (LeasedIds' \ LeasedIds)
                       \cup {l.attempt : l \in Completed' \ Completed}
           Fresh(id) == usable[id.item] /\ head[id.item] = id.version
<1>1. ASSUME IInv, Next, NEW id \in Moved
      PROVE  Fresh(id)
    <2> USE DEF AttemptIds, LeasedIds, Completed
    <2>1. CASE UNCHANGED <<attempts, leases>>
        BY <1>1, <2>1
    <2>2. ASSUME NEW b \in batches, NEW i \in Items, NEW v \in Versions,
                 NEW r \in Requests, RegisterAttempt(b, i, v, r)
          PROVE  Fresh(id)
        BY <1>1, <2>2 DEF RegisterAttempt, UsableCurrent
    <2>3. ASSUME NEW w \in Workers, NEW a \in attempts, Claim(w, a)
          PROVE  Fresh(id)
        BY <1>1, <2>3 DEF Claim, UsableCurrent
    <2>4. ASSUME NEW m \in leases, NEW lifecycle, NEW e, Finish(m, lifecycle, e)
          PROVE  /\ LeasedIds' = LeasedIds
                 /\ \A l \in Completed' \ Completed : l.attempt = m.attempt /\ e # None
        <3>1. m \in Lease
            BY <1>1 DEF IInv, TypeOK
        <3>2. /\ [m EXCEPT !.lifecycle = lifecycle, !.evidence = e].attempt = m.attempt
              /\ [m EXCEPT !.lifecycle = lifecycle, !.evidence = e].evidence = e
            BY <3>1 DEF Lease
        <3> QED
            BY <2>4, <3>2 DEF Finish
    <2>5. ASSUME NEW w \in Workers, NEW m \in leases, NEW e \in Evidence, Complete(w, m, e)
          PROVE  Fresh(id)
        <3>1. id = m.attempt
            BY <1>1, <2>4, <2>5 DEF Complete
        <3> QED
            BY <2>5, <3>1 DEF Complete, UsableCurrent
    <2>6. ASSUME NEW w \in Workers, NEW m \in leases, Release(w, m)
          PROVE  Fresh(id)
        BY <1>1, <2>4, <2>6 DEF Release
    <2>7. ASSUME NEW m \in leases, Expire(m)
          PROVE  Fresh(id)
        BY <1>1, <2>4, <2>7 DEF Expire
    <2>8. ASSUME NEW a \in attempts, NEW m \in leases, NEW r \in Requests, Restart(a, m, r)
          PROVE  Fresh(id)
        <3>1. a.id \in AttemptId
            BY <1>1 DEF IInv, TypeOK, Attempt
        <3>2. LeasedIds' = LeasedIds /\ Completed' \ Completed = {}
            BY <1>1, <2>4, <2>8 DEF Restart, EndPredecessor
        <3>3. id = [a.id EXCEPT !.chain = Append(@, r)]
            BY <1>1, <2>8, <3>2 DEF Restart, EndPredecessor
        <3>4. id.item = a.id.item /\ id.version = a.id.version
            BY <3>1, <3>3 DEF AttemptId
        <3> QED
            BY <2>8, <3>4 DEF Restart, EndPredecessor, UsableCurrent
    <2>9. CASE \/ ClockAdvance \/ ClockStepBack
               \/ \E i \in Items : AppendVersion(i) \/ UpstreamChange(i)
               \/ \E b \in Batch : RegisterBatch(b)
               \/ \E w \in Workers, m \in leases : ClaimReplay(w, m)
               \/ \E w \in Workers, m \in leases, op \in {"complete", "release", "expire"},
                     e \in Evidence \cup {None} : TerminalReplay(w, m, op, e)
        BY <2>1, <2>9 DEF ClockAdvance, ClockStepBack, AppendVersion, UpstreamChange,
                          RegisterBatch, ClaimReplay, TerminalReplay
    <2> QED
        BY <1>1, <2>2, <2>3, <2>5, <2>6, <2>7, <2>8, <2>9 DEF Next
<1>2. IInv /\ [Next]_vars => [\A id \in Moved : Fresh(id)]_vars
    BY <1>1
<1> QED
    BY <1>2, Inductive, PTL DEF Spec, StaleWorkIsFrozen

=============================================================================
