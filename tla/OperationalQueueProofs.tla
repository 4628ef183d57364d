------------------------ MODULE OperationalQueueProofs ------------------------
(***************************************************************************)
(* Proofs about OperationalQueue: its type invariant and the safety        *)
(* properties TLC checks on its small instances, for every set of works,   *)
(* every profile and every order of the callers' instants.                 *)
(*                                                                         *)
(* No operation of the queue touches the rows of two works, so the         *)
(* inductive invariant is a predicate RowOK on the three rows of one work, *)
(* and each operation has a lemma on values: rows that satisfy RowOK and   *)
(* the guard of the operation are rewritten to rows that satisfy RowOK.    *)
(* The limits of the queue and of the host relate all works and are        *)
(* proved apart, by counting.                                              *)
(***************************************************************************)
EXTENDS OperationalQueue, FiniteSetTheorems, SequenceTheorems,
        WellFoundedInduction, TLAPS

-----------------------------------------------------------------------------
(* The inductive invariant, on the rows r, ls, fs of one work.              *)

WorkRows == [state : Open \cup Closed \cup {"ABSENT"},
             attempts : Nat, due : Nat, deadline : Nat]

Shaped(r, ls, fs) ==
    /\ r \in WorkRows
    /\ ls \in Seq(Leases)
    /\ fs \in Seq(Findings)
    /\ Len(ls) = r.attempts
    /\ Len(fs) \in {r.attempts - 1, r.attempts}
    /\ r.state \in {"ABSENT", "QUEUED"} => r.attempts = 0
    /\ r.state = "LEASED" => r.attempts >= 1

(* What a Finding keeps of the attempt it was built for.                    *)
FindingSound(ls, f, k) ==
    /\ f.first <= ls[1].acquired
    /\ f.next # None => /\ f.class = "RETRYABLE"
                        /\ k < MaximumAttempts
                        /\ f.next = f.failed + Backoff(k)

FindingsSound(ls, fs) == \A k \in DOMAIN fs : FindingSound(ls, fs[k], k)

IsCorrected(ls) == Len(ls) > 0 => ls[1].authority # None

(* Work left by the code before its correction never looks corrected: its   *)
(* first lease is never released, so it is never renewed either.            *)
LeakStays(r, ls) ==
    ~IsCorrected(ls) =>
       /\ ls[1].status # "RELEASED"
       /\ r.state = "LEASED" => r.attempts # 1
       /\ r.state = "LEASED" /\ r.attempts > 2 => ls[1].status = "ORPHANED"

RunsAlone(r, ls) ==
    \A k \in DOMAIN ls :
       ls[k].status = "ACTIVE" <=> r.state = "LEASED" /\ k = r.attempts

(* A lease within its bounds, of which `maximum' is the one renewals obey.  *)
LeaseBounded(r, ls, k) ==
    /\ k <= MaximumAttempts
    /\ ls[k].acquired <= ls[k].expires
    /\ ls[k].expires <= ls[k].maximum
    /\ ls[k].expires <= r.deadline
    /\ ls[k].maximum <= ls[k].acquired + MaximumLeaseSeconds

(* The attempt k follows the attempt j that failed.                         *)
RetryFollows(ls, fs, j, k) ==
    /\ ls[j].status = "RELEASED"
    /\ fs[j].class = "RETRYABLE"
    /\ ls[k].acquired >= fs[j].failed + Backoff(j)
    /\ ls[k].expires <= ls[1].acquired + MaximumElapsed

Disciplined(r, ls, fs) ==
    /\ \A k \in DOMAIN ls : LeaseBounded(r, ls, k)
    /\ \A k \in DOMAIN ls : k > 1 => RetryFollows(ls, fs, k - 1, k)
    /\ \A k \in DOMAIN fs : fs[k].failed >= ls[k].acquired

Concluded(r, ls, fs) ==
    r.attempts > 0 =>
       /\ r.state \in {"COMPLETED", "RETRY_PENDING"} =>
             /\ ls[r.attempts].status = "RELEASED"
             /\ ls[r.attempts].closed \in ls[r.attempts].acquired .. ls[r.attempts].expires
       /\ r.state = "RETRY_PENDING" =>
             /\ Len(fs) = r.attempts
             /\ fs[r.attempts].failed \in ls[r.attempts].acquired .. ls[r.attempts].closed
       /\ ls[r.attempts].status = "ORPHANED" => r.state = "QUARANTINED"

Sound(r, ls, fs) ==
    IsCorrected(ls) =>
       /\ RunsAlone(r, ls)
       /\ Disciplined(r, ls, fs)
       /\ Concluded(r, ls, fs)

RowOK(r, ls, fs) ==
    /\ Shaped(r, ls, fs)
    /\ FindingsSound(ls, fs)
    /\ LeakStays(r, ls)
    /\ Sound(r, ls, fs)

(* Every work's rows.                                                       *)
RowsOK ==
    /\ work \in [Works -> WorkRows]
    /\ lease \in [Works -> Seq(Leases)]
    /\ finding \in [Works -> Seq(Findings)]
    /\ \A w \in Works : RowOK(work[w], lease[w], finding[w])

Running == UNION {{w} \X ActiveLeases(w) : w \in Works}

(* The limits, and what makes their counts numbers.                         *)
Limits ==
    /\ IsFiniteSet(Running)
    /\ NoOversubscription

IInv == RowsOK /\ Limits

-----------------------------------------------------------------------------
(* The numbers of the profile, the minima and the maxima.                   *)

LEMMA ProfileNumbers ==
    /\ QueueCapacity \in Nat /\ UrgentReserve \in Nat /\ HostConcurrency \in Nat
    /\ LeaseSeconds \in Nat /\ RenewalSeconds \in Nat
    /\ MaximumLeaseSeconds \in Nat /\ MaximumAttempts \in Nat
    /\ MaximumElapsed \in Nat /\ BaseBackoff \in Nat /\ MaximumBackoff \in Nat
    /\ CatchUpItems \in Nat /\ StarvationLimit \in Nat
BY QueueAssumption

LEMMA NoneIsNoNumber == \A n \in Nat : n # None
BY QueueAssumption

LEMMA InstantsAreNat == Instants \subseteq Nat
BY QueueAssumption

LEMMA MinOfTwo ==
    ASSUME NEW a \in Nat, NEW b \in Nat
    PROVE  Min({a, b}) = IF a <= b THEN a ELSE b
BY DEF Min

LEMMA MaxOfTwo ==
    ASSUME NEW a \in Nat, NEW b \in Nat
    PROVE  Max({a, b}) = IF a >= b THEN a ELSE b
BY DEF Max

LEMMA MinOfThree ==
    ASSUME NEW a \in Nat, NEW b \in Nat, NEW c \in Nat
    PROVE  LET m == Min({a, b, c}) IN m \in Nat /\ m <= a /\ m <= b /\ m <= c
<1>1. \E x \in {a, b, c} : \A y \in {a, b, c} : x <= y
  OBVIOUS
<1> QED
  BY <1>1 DEF Min

(* The least element of a set of naturals exists, and Min chooses it.       *)
LEMMA MinOfSet ==
    ASSUME NEW S \in SUBSET Nat, NEW e \in S
    PROVE  Min(S) \in S /\ \A y \in S : Min(S) <= y
<1>1. PICK x \in S : \A y \in S : ~ (<<y, x>> \in OpToRel(<, Nat))
  <2>1. S \subseteq Nat /\ S # {}
    OBVIOUS
  <2> QED
    BY <2>1, NatLessThanWellFounded, WFMin, Zenon
<1>2. ASSUME NEW y \in S PROVE x <= y
  <2>1. x \in Nat /\ y \in Nat
    OBVIOUS
  <2>2. ~ (y < x)
    BY <1>1, <2>1 DEF OpToRel
  <2> QED
    BY <2>1, <2>2
<1>3. \E z \in S : \A y \in S : z <= y
  BY <1>2
<1> QED
  BY <1>3 DEF Min

(* Powers of two are numbers: they count the subsets of an interval.        *)
LEMMA PowerOfTwo ==
    ASSUME NEW k \in Nat
    PROVE  2 ^ k \in Nat
<1>1. IsFiniteSet(1 .. k) /\ Cardinality(1 .. k) = k
  BY FS_Interval
<1> QED
  BY <1>1, FS_SUBSET, FS_CardinalityType

LEMMA BackoffNat ==
    ASSUME NEW k \in Nat, k >= 1
    PROVE  Backoff(k) \in Nat
<1>1. 2 ^ (k - 1) \in Nat
  BY PowerOfTwo
<1>2. BaseBackoff * 2 ^ (k - 1) \in Nat
  BY <1>1, ProfileNumbers
<1> QED
  BY <1>2, ProfileNumbers, MinOfTwo DEF Backoff
-----------------------------------------------------------------------------
(* The records the builders make.                                           *)

LEMMA AcquiredLease ==
    ASSUME NEW t \in Nat, NEW a \in Nat, t <= a
    PROVE  LET l == acquire_lease(t, a)
           IN  /\ l \in Leases /\ l.status = "ACTIVE" /\ l.acquired = t
               /\ l.authority = a /\ l.authority # None
               /\ t <= l.expires /\ l.expires <= a /\ l.expires <= l.maximum
               /\ l.maximum <= t + MaximumLeaseSeconds
<1> DEFINE e == Min({a, t + LeaseSeconds})
           m == Min({a, t + MaximumLeaseSeconds})
<1>1. /\ e = IF a <= t + LeaseSeconds THEN a ELSE t + LeaseSeconds
      /\ m = IF a <= t + MaximumLeaseSeconds THEN a ELSE t + MaximumLeaseSeconds
  BY MinOfTwo, ProfileNumbers
<1>2. e \in Nat /\ m \in Nat /\ t <= e /\ e <= a /\ e <= m
      /\ m <= t + MaximumLeaseSeconds
  BY <1>1, ProfileNumbers, ProfileAssumption
<1>3. acquire_lease(t, a) = [status |-> "ACTIVE", acquired |-> t, expires |-> e,
                             maximum |-> m, authority |-> a, closed |-> None]
  BY DEF acquire_lease
<1> HIDE DEF e, m
<1> QED
  BY <1>2, <1>3, NoneIsNoNumber DEF Leases

(* Renewal keeps what identifies the lease, and the bounds it was under.    *)
IsRenewal(l, n, a) ==
    /\ n \in Leases /\ n.status = l.status /\ n.acquired = l.acquired
    /\ n.authority # None
    /\ n.expires <= a /\ n.maximum <= l.maximum
    /\ l.expires <= l.maximum => n.expires <= n.maximum
    /\ l.expires <= a => l.expires <= n.expires
    /\ l.expires > a => n.expires = a

LEMMA RenewedLease ==
    ASSUME NEW l \in Leases, NEW t \in Nat, NEW a \in Nat
    PROVE  IsRenewal(l, renew_lease(l, t, a), a)
<1> DEFINE n == renew_lease(l, t, a)
<1> DEFINE x == Min({l.expires, a})
           m == Min({l.maximum, a})
           y == Min({m, t + RenewalSeconds})
           e == Max({x, y})
<1>0. l.expires \in Nat /\ l.maximum \in Nat
  BY DEF Leases
<1>1. /\ x = IF l.expires <= a THEN l.expires ELSE a
      /\ m = IF l.maximum <= a THEN l.maximum ELSE a
  BY <1>0, MinOfTwo
<1>2. x \in Nat /\ m \in Nat
  BY <1>0, <1>1
<1>3. y = IF m <= t + RenewalSeconds THEN m ELSE t + RenewalSeconds
  <2> HIDE DEF m
  <2> QED
    BY <1>2, MinOfTwo, ProfileNumbers
<1>4. y \in Nat
  <2> HIDE DEF m, y
  <2> QED
    BY <1>2, <1>3, ProfileNumbers
<1>5. e = IF x >= y THEN x ELSE y
  <2> HIDE DEF x, y
  <2> QED
    BY <1>2, <1>4, MaxOfTwo
<1>6. n = [l EXCEPT !.expires = e, !.maximum = m, !.authority = a]
  BY DEF renew_lease
<1> HIDE DEF x, m, y, e
<1>7. /\ e \in Nat
      /\ e <= a /\ m <= l.maximum
      /\ l.expires <= l.maximum => e <= m
      /\ l.expires <= a => l.expires <= e
      /\ l.expires > a => e = a
  BY <1>0, <1>1, <1>2, <1>3, <1>4, <1>5, ProfileNumbers
<1>8. /\ n \in Leases /\ n.status = l.status /\ n.acquired = l.acquired
      /\ n.closed = l.closed /\ n.authority = a /\ n.expires = e /\ n.maximum = m
  <2> HIDE DEF n
  <2> QED
    BY <1>2, <1>6, <1>7 DEF Leases
<1> HIDE DEF n
<1>9. IsRenewal(l, n, a)
  BY <1>7, <1>8, NoneIsNoNumber DEF IsRenewal
<1> QED
  BY <1>9 DEF n

LEMMA ClosedLease ==
    ASSUME NEW l \in Leases, NEW s \in {"RELEASED", "ORPHANED"}, NEW t \in Nat
    PROVE  LET n == close_lease(l, s, t)
           IN  /\ n \in Leases /\ n.status = s /\ n.closed = t
               /\ n.acquired = l.acquired /\ n.expires = l.expires
               /\ n.maximum = l.maximum /\ n.authority = l.authority
BY DEF Leases, close_lease

(* What a Finding says of attempt k, and when it allows another.            *)
IsFinding(f, k, first, failed) ==
    /\ f \in Findings /\ f.first = first /\ f.failed = failed
    /\ f.next # None => /\ f.class = "RETRYABLE" /\ k < MaximumAttempts
                        /\ f.next = f.failed + Backoff(k)

LEMMA BuiltFinding ==
    ASSUME NEW c \in Classes \cup {"RETRYABLE"}, NEW k \in Nat, k >= 1,
           NEW first \in Nat, NEW failed \in Nat
    PROVE  IsFinding(build_retry_finding(c, k, first, failed), k, first, failed)
<1> DEFINE spent == k >= MaximumAttempts \/ failed - first >= MaximumElapsed
           due   == failed + Backoff(k)
           late  == due >= first + MaximumElapsed
           retry == c = "RETRYABLE" /\ ~spent
           nxt   == IF retry /\ ~late THEN due ELSE None
           exh   == spent \/ (retry /\ late)
<1>1. due \in Nat
  BY BackoffNat
<1>2. /\ nxt \in Nat \cup {None}
      /\ nxt # None => c = "RETRYABLE" /\ k < MaximumAttempts /\ nxt = due
  <2> HIDE DEF due, late
  <2> QED
    BY <1>1, ProfileNumbers
<1>3. exh \in BOOLEAN
  OBVIOUS
<1> DEFINE f == build_retry_finding(c, k, first, failed)
<1>4. f = [class |-> c, first |-> first, failed |-> failed, next |-> nxt,
           exhausted |-> exh]
  BY DEF build_retry_finding
<1> HIDE DEF nxt, exh, f
<1>5. /\ f \in Findings /\ f.class = c /\ f.first = first /\ f.failed = failed
      /\ f.next = nxt
  BY <1>2, <1>3, <1>4 DEF Findings
<1>6. IsFinding(f, k, first, failed)
  BY <1>2, <1>5 DEF IsFinding
<1> QED
  BY <1>6 DEF f

(* A row after transition_work.                                             *)
LEMMA Transitioned ==
    ASSUME NEW r \in WorkRows, NEW s \in Open \cup Closed
    PROVE  LET n == transition_work(r, s)
           IN  /\ n \in WorkRows /\ n.state = s
               /\ n.due = r.due /\ n.deadline = r.deadline
               /\ s = "LEASED" => n.attempts = r.attempts + 1
               /\ s # "LEASED" => n.attempts = r.attempts
<1> DEFINE a == r.attempts + (IF s = "LEASED" THEN 1 ELSE 0)
<1>1. /\ a \in Nat
      /\ s = "LEASED" => a = r.attempts + 1
      /\ s # "LEASED" => a = r.attempts
  BY DEF WorkRows
<1>2. transition_work(r, s) = [r EXCEPT !.state = s, !.attempts = a]
  BY DEF transition_work
<1> HIDE DEF a
<1> QED
  BY <1>1, <1>2 DEF WorkRows
-----------------------------------------------------------------------------
(* The operations, on the rows of their work.                               *)

LEMMA RowFacts ==
    ASSUME NEW r, NEW ls, NEW fs, RowOK(r, ls, fs)
    PROVE  /\ r \in WorkRows /\ r.attempts \in Nat /\ r.deadline \in Nat /\ r.due \in Nat
           /\ ls \in Seq(Leases) /\ fs \in Seq(Findings)
           /\ Len(ls) = r.attempts /\ Len(fs) \in {r.attempts - 1, r.attempts}
           /\ DOMAIN ls = 1 .. r.attempts /\ DOMAIN fs = 1 .. Len(fs) /\ Len(fs) \in Nat
           /\ \A k \in 1 .. r.attempts : ls[k] \in Leases
           /\ \A k \in 1 .. Len(fs) : fs[k] \in Findings
<1>1. Shaped(r, ls, fs)
  BY DEF RowOK
<1>2. r \in WorkRows /\ ls \in Seq(Leases) /\ fs \in Seq(Findings)
      /\ Len(ls) = r.attempts /\ Len(fs) \in {r.attempts - 1, r.attempts}
  BY <1>1 DEF Shaped
<1>3. r.attempts \in Nat /\ r.deadline \in Nat /\ r.due \in Nat
  BY <1>2 DEF WorkRows
<1> QED
  BY <1>2, <1>3

(* Rows without a lease satisfy everything that is about leases.            *)
LEMMA NoLeaseRow ==
    ASSUME NEW r \in WorkRows, r.attempts = 0, r.state \notin {"LEASED"}
    PROVE  RowOK(r, <<>>, <<>>)
<1>1. Shaped(r, <<>>, <<>>)
  BY DEF Shaped, WorkRows
<1>2. FindingsSound(<<>>, <<>>) /\ LeakStays(r, <<>>)
  BY DEF FindingsSound, LeakStays, IsCorrected
<1>3. RunsAlone(r, <<>>) /\ Disciplined(r, <<>>, <<>>) /\ Concluded(r, <<>>, <<>>)
  BY DEF RunsAlone, Disciplined, Concluded
<1> QED
  BY <1>1, <1>2, <1>3 DEF RowOK, Sound

LEMMA EnqueueRow ==
    ASSUME NEW r, NEW ls, NEW fs, RowOK(r, ls, fs), r.state = "ABSENT",
           NEW due \in Nat, NEW deadline \in Nat
    PROVE  RowOK(enqueue_due_work(due, deadline), ls, fs)
<1>1. r.attempts = 0
  BY DEF RowOK, Shaped
<1>2. ls = <<>> /\ fs = <<>>
  <2>1. /\ ls \in Seq(Leases) /\ Len(ls) = 0
        /\ fs \in Seq(Findings) /\ Len(fs) \in {0 - 1, 0}
    BY <1>1, RowFacts
  <2>2. Len(fs) = 0
    BY <2>1
  <2> QED
    BY <2>1, <2>2
<1> DEFINE n == enqueue_due_work(due, deadline)
<1>3. n \in WorkRows /\ n.attempts = 0 /\ n.state = "QUEUED"
  BY DEF enqueue_due_work, WorkRows, Open, Ready
<1> HIDE DEF n
<1>4. RowOK(n, ls, fs)
  BY <1>2, <1>3, NoLeaseRow
<1> QED
  BY <1>4 DEF n

(* A ready work is closed: its leases and Findings stay as they are.        *)
LEMMA CloseReadyRow ==
    ASSUME NEW r, NEW ls, NEW fs, RowOK(r, ls, fs), r.state \in Ready,
           NEW s \in {"EXPLICITLY_CLOSED", "QUARANTINED"}
    PROVE  RowOK(transition_work(r, s), ls, fs)
<1> DEFINE n == transition_work(r, s)
<1>0. /\ r \in WorkRows /\ r.attempts \in Nat /\ Len(ls) = r.attempts
      /\ DOMAIN ls = 1 .. r.attempts
  BY RowFacts
<1>1. n \in WorkRows /\ n.state = s /\ n.attempts = r.attempts
      /\ n.deadline = r.deadline
  BY <1>0, Transitioned DEF Closed
<1> HIDE DEF n
<1>2. Shaped(n, ls, fs)
  BY <1>1 DEF RowOK, Shaped
<1>3. FindingsSound(ls, fs) /\ LeakStays(n, ls)
  BY <1>1 DEF RowOK, LeakStays
<1>4. ASSUME IsCorrected(ls)
      PROVE  RunsAlone(n, ls) /\ Disciplined(n, ls, fs) /\ Concluded(n, ls, fs)
  <2>0. RunsAlone(r, ls) /\ Disciplined(r, ls, fs) /\ Concluded(r, ls, fs)
    BY <1>4 DEF RowOK, Sound
  <2>1. RunsAlone(n, ls)
    BY <1>1, <2>0 DEF RunsAlone, Ready
  <2>2. Disciplined(n, ls, fs)
    BY <1>1, <2>0 DEF Disciplined, LeaseBounded
  <2>3. Concluded(n, ls, fs)
    <3>1. r.state = "QUEUED" => r.attempts = 0
      BY DEF RowOK, Shaped
    <3> QED
      BY <1>0, <1>1, <2>0, <3>1 DEF Concluded, Ready
  <2> QED
    BY <2>1, <2>2, <2>3
<1>5. RowOK(n, ls, fs)
  BY <1>2, <1>3, <1>4 DEF RowOK, Sound
<1> QED
  BY <1>5 DEF n

(* A new attempt.  `a' is its authority deadline: that of the work for a    *)
(* first attempt, at most the horizon of the retries for a later one.       *)
LEMMA AcquireRow ==
    ASSUME NEW r, NEW ls, NEW fs, RowOK(r, ls, fs), NEW t \in Nat, NEW a \in Nat,
           t <= a, a <= r.deadline,
           r.state \in Ready,
           r.state = "RETRY_PENDING" =>
              /\ r.attempts >= 1 /\ r.attempts \in DOMAIN fs
              /\ \A k \in DOMAIN ls : ls[k].status # "ACTIVE"
              /\ ls[r.attempts].status = "RELEASED"
              /\ fs[r.attempts].class = "RETRYABLE"
              /\ fs[r.attempts].next # None
              /\ t >= fs[r.attempts].next
              /\ a <= fs[r.attempts].first + MaximumElapsed
    PROVE  RowOK(transition_work(r, "LEASED"), Append(ls, acquire_lease(t, a)), fs)
<1> DEFINE n == transition_work(r, "LEASED")
           l == acquire_lease(t, a)
           ns == Append(ls, l)
           A == r.attempts
<1>0. /\ r \in WorkRows /\ A \in Nat /\ ls \in Seq(Leases) /\ fs \in Seq(Findings)
      /\ r.deadline \in Nat
      /\ Len(ls) = A /\ Len(fs) \in {A - 1, A}
      /\ DOMAIN ls = 1 .. A /\ DOMAIN fs = 1 .. Len(fs) /\ Len(fs) \in Nat
      /\ \A k \in 1 .. A : ls[k] \in Leases
      /\ \A k \in 1 .. Len(fs) : fs[k] \in Findings
  BY RowFacts
<1>1. n \in WorkRows /\ n.state = "LEASED" /\ n.attempts = A + 1
      /\ n.deadline = r.deadline
  BY <1>0, Transitioned DEF Open
<1>2. /\ l \in Leases /\ l.status = "ACTIVE" /\ l.acquired = t /\ l.authority # None
      /\ l.acquired \in Nat /\ l.expires \in Nat /\ l.maximum \in Nat
      /\ t <= l.expires /\ l.expires <= a /\ l.expires <= l.maximum
      /\ l.maximum <= t + MaximumLeaseSeconds
  <2>1. acquire_lease(t, a) \in Leases
    BY AcquiredLease
  <2> QED
    BY <2>1, AcquiredLease DEF Leases
<1> HIDE DEF n, l
<1>3. /\ ns \in Seq(Leases) /\ Len(ns) = A + 1 /\ DOMAIN ns = 1 .. (A + 1)
      /\ ns[A + 1] = l /\ \A k \in 1 .. A : ns[k] = ls[k]
  BY <1>0, <1>2
<1> HIDE DEF ns
<1>4. /\ r.state = "QUEUED" => A = 0
      /\ r.state = "QUEUED" \/ r.state = "RETRY_PENDING"
  BY DEF RowOK, Shaped, Ready
<1>5. A >= 1 => Len(fs) = A /\ r.state = "RETRY_PENDING"
  BY <1>0, <1>4
<1>6. A = 0 => Len(fs) = 0
  BY <1>0
<1>7. Shaped(n, ns, fs)
  BY <1>0, <1>1, <1>3, <1>5, <1>6 DEF Shaped
<1>8. FindingsSound(ns, fs)
  <2>1. FindingsSound(ls, fs)
    BY DEF RowOK
  <2>2. ASSUME NEW k \in DOMAIN fs PROVE ns[1] = ls[1]
    BY <1>0, <1>3, <1>6
  <2> QED
    BY <2>1, <2>2 DEF FindingsSound, FindingSound
<1>9. LeakStays(n, ns)
  <2> SUFFICES ASSUME ~IsCorrected(ns)
               PROVE  /\ ns[1].status # "RELEASED" /\ n.attempts # 1
                      /\ n.attempts > 2 => ns[1].status = "ORPHANED"
    BY DEF LeakStays
  <2>1. A >= 1
    BY <1>0, <1>2, <1>3 DEF IsCorrected
  <2>2. ns[1] = ls[1] /\ ls[1] \in Leases
    BY <1>0, <1>3, <2>1
  <2>3. ~IsCorrected(ls)
    BY <1>0, <2>1, <2>2 DEF IsCorrected
  <2>4. ls[1].status # "RELEASED"
    BY <2>3 DEF RowOK, LeakStays
  <2>5. ls[1].status # "ACTIVE"
    BY <1>0, <1>5, <2>1
  <2>6. ls[1].status = "ORPHANED"
    BY <2>2, <2>4, <2>5 DEF Leases
  <2> QED
    BY <1>0, <1>1, <2>1, <2>2, <2>6
<1>10. ASSUME IsCorrected(ns)
       PROVE  RunsAlone(n, ns) /\ Disciplined(n, ns, fs) /\ Concluded(n, ns, fs)
  <2>1. IsCorrected(ls)
    <3>1. CASE A = 0
      BY <1>0, <3>1 DEF IsCorrected
    <3>2. CASE A >= 1
      BY <1>0, <1>3, <1>10, <3>2 DEF IsCorrected
    <3> QED
      BY <1>0, <3>1, <3>2
  <2>2. RunsAlone(r, ls) /\ Disciplined(r, ls, fs)
    BY <2>1 DEF RowOK, Sound
  <2>3. RunsAlone(n, ns)
    <3> SUFFICES ASSUME NEW k \in 1 .. (A + 1)
                 PROVE  ns[k].status = "ACTIVE" <=> k = A + 1
      BY <1>1, <1>3 DEF RunsAlone
    <3>1. CASE k = A + 1
      BY <1>2, <1>3, <3>1
    <3>2. CASE k \in 1 .. A
      <4>1. ls[k].status # "ACTIVE"
        BY <1>0, <1>4, <2>2, <3>2 DEF RunsAlone
      <4> QED
        BY <1>0, <1>3, <3>2, <4>1
    <3> QED
      BY <1>0, <3>1, <3>2
  <2>4. A >= 1 => /\ fs[A].failed \in Nat /\ fs[A].first \in Nat /\ Backoff(A) \in Nat
                  /\ A < MaximumAttempts /\ t >= fs[A].failed + Backoff(A)
                  /\ fs[A].first <= ls[1].acquired /\ ls[1].acquired \in Nat
    <3> SUFFICES ASSUME A >= 1
                 PROVE  /\ fs[A].failed \in Nat /\ fs[A].first \in Nat /\ Backoff(A) \in Nat
                        /\ A < MaximumAttempts /\ t >= fs[A].failed + Backoff(A)
                        /\ fs[A].first <= ls[1].acquired /\ ls[1].acquired \in Nat
      OBVIOUS
    <3>1. A \in 1 .. Len(fs) /\ 1 \in 1 .. A
      BY <1>0, <1>5
    <3>2. fs[A] \in Findings /\ ls[1] \in Leases
      BY <1>0, <3>1
    <3>3. FindingSound(ls, fs[A], A)
      BY <1>0, <3>1 DEF RowOK, FindingsSound
    <3>4. fs[A].next # None /\ t >= fs[A].next
      BY <1>5
    <3> QED
      BY <1>0, <3>2, <3>3, <3>4, BackoffNat DEF FindingSound, Findings, Leases
  <2>5. \A k \in DOMAIN ns : LeaseBounded(n, ns, k)
    <3> SUFFICES ASSUME NEW k \in 1 .. (A + 1)
                 PROVE  LeaseBounded(n, ns, k)
      BY <1>3
    <3>1. CASE k = A + 1
      <4>1. k <= MaximumAttempts
        BY <1>0, <2>4, <3>1, ProfileNumbers, ProfileAssumption
      <4> QED
        BY <1>0, <1>1, <1>2, <1>3, <3>1, <4>1 DEF LeaseBounded
    <3>2. CASE k \in 1 .. A
      BY <1>0, <1>1, <1>3, <2>2, <3>2 DEF Disciplined, LeaseBounded
    <3> QED
      BY <1>0, <3>1, <3>2
  <2>6. ASSUME NEW k \in DOMAIN ns, k > 1
        PROVE  RetryFollows(ns, fs, k - 1, k)
    <3>0. k \in 1 .. (A + 1) /\ A >= 1 /\ k - 1 \in 1 .. A /\ 1 \in 1 .. A
      BY <1>0, <1>3, <2>6
    <3>1. CASE k = A + 1
      <4>1. ns[k] = l /\ ns[k - 1] = ls[A] /\ ns[1] = ls[1] /\ k - 1 = A
        <5>1. k - 1 = A
          BY <1>0, <3>1
        <5> QED
          BY <1>3, <3>0, <3>1, <5>1
      <4>2. /\ ls[A].status = "RELEASED" /\ fs[A].class = "RETRYABLE"
            /\ a <= fs[A].first + MaximumElapsed
        BY <1>5, <3>0
      <4>3. l.expires <= ls[1].acquired + MaximumElapsed
        BY <1>2, <2>4, <3>0, <4>2, ProfileNumbers
      <4> QED
        BY <1>2, <2>4, <3>0, <4>1, <4>2, <4>3 DEF RetryFollows
    <3>2. CASE k \in 1 .. A
      <4>1. RetryFollows(ls, fs, k - 1, k)
        BY <1>0, <2>2, <2>6, <3>2 DEF Disciplined
      <4>2. ns[k] = ls[k] /\ ns[k - 1] = ls[k - 1] /\ ns[1] = ls[1]
        BY <1>3, <3>0, <3>2
      <4> QED
        BY <4>1, <4>2 DEF RetryFollows
    <3> QED
      BY <1>0, <3>0, <3>1, <3>2
  <2>7. \A k \in DOMAIN fs : fs[k].failed >= ns[k].acquired
    <3>1. \A k \in DOMAIN fs : k \in 1 .. A
      BY <1>0
    <3> QED
      BY <1>3, <2>2, <3>1 DEF Disciplined
  <2>8. Concluded(n, ns, fs)
    BY <1>1, <1>2, <1>3 DEF Concluded
  <2> QED
    BY <2>3, <2>5, <2>6, <2>7, <2>8 DEF Disciplined
<1>11. RowOK(n, ns, fs)
  BY <1>7, <1>8, <1>9, <1>10 DEF RowOK, Sound
<1> QED
  BY <1>11 DEF n, l, ns

(* One lease is rewritten and keeps its identity, its acquisition and, for  *)
(* the first, whether it carries an authority deadline.                     *)
LEMMA RewrittenLeases ==
    ASSUME NEW ls \in Seq(Leases), NEW k \in DOMAIN ls, NEW l \in Leases
    PROVE  LET ns == [ls EXCEPT ![k] = l]
           IN  /\ ns \in Seq(Leases) /\ Len(ns) = Len(ls) /\ DOMAIN ns = DOMAIN ls
               /\ ns[k] = l /\ \A j \in DOMAIN ls : j # k => ns[j] = ls[j]
OBVIOUS

(* A renewal.  `a' is the authority deadline derived from the rows.         *)
LEMMA RenewRow ==
    ASSUME NEW r, NEW ls, NEW fs, RowOK(r, ls, fs), NEW t \in Nat, NEW a \in Nat,
           NEW k \in DOMAIN ls, NEW l, IsRenewal(ls[k], l, a),
           r.state = "LEASED", ls[k].status = "ACTIVE",
           a <= r.deadline,
           t >= ls[k].acquired, t <= a,
           r.attempts > 1 =>
              /\ r.attempts - 1 \in DOMAIN fs
              /\ ls[r.attempts - 1].status = "RELEASED"
              /\ a <= fs[r.attempts - 1].first + MaximumElapsed
    PROVE  RowOK(r, [ls EXCEPT ![k] = l], fs)
<1> DEFINE A == r.attempts
           ns == [ls EXCEPT ![k] = l]
<1>0. /\ r \in WorkRows /\ A \in Nat /\ ls \in Seq(Leases) /\ fs \in Seq(Findings)
      /\ r.deadline \in Nat
      /\ Len(ls) = A /\ Len(fs) \in {A - 1, A}
      /\ DOMAIN ls = 1 .. A /\ DOMAIN fs = 1 .. Len(fs) /\ Len(fs) \in Nat
      /\ \A j \in 1 .. A : ls[j] \in Leases
      /\ \A j \in 1 .. Len(fs) : fs[j] \in Findings
  BY RowFacts
<1>1. /\ ls[k] \in Leases /\ ls[k].acquired \in Nat /\ ls[k].expires \in Nat
      /\ ls[k].maximum \in Nat
  BY <1>0 DEF Leases
<1>2. /\ l \in Leases /\ l.status = "ACTIVE" /\ l.acquired = ls[k].acquired
      /\ l.authority # None /\ l.maximum \in Nat /\ l.expires \in Nat
      /\ l.expires <= a /\ l.maximum <= ls[k].maximum
      /\ ls[k].expires <= ls[k].maximum => l.expires <= l.maximum
      /\ ls[k].expires <= a => ls[k].expires <= l.expires
      /\ ls[k].expires > a => l.expires = a
  <2>1. l \in Leases
    BY DEF IsRenewal
  <2>2. l.maximum \in Nat /\ l.expires \in Nat
    BY <2>1 DEF Leases
  <2> QED
    BY <2>1, <2>2 DEF IsRenewal
<1>3. /\ ns \in Seq(Leases) /\ Len(ns) = A /\ DOMAIN ns = 1 .. A
      /\ ns[k] = l /\ \A j \in 1 .. A : j # k => ns[j] = ls[j]
  BY <1>0, <1>2, RewrittenLeases
<1> HIDE DEF ns
<1>4. \A j \in 1 .. A : ns[j].status = ls[j].status /\ ns[j].acquired = ls[j].acquired
  BY <1>2, <1>3
<1>5. A >= 1 /\ 1 \in 1 .. A
  BY <1>0
<1>6. Shaped(r, ns, fs)
  BY <1>0, <1>3 DEF RowOK, Shaped
<1>7. FindingsSound(ns, fs)
  BY <1>4, <1>5 DEF RowOK, FindingsSound, FindingSound
(* Work with a leak is not renewed on its first lease.                      *)
<1>8. ~IsCorrected(ls) => k # 1
  <2> SUFFICES ASSUME ~IsCorrected(ls), k = 1
               PROVE  FALSE
    OBVIOUS
  <2>1. A # 1 /\ (A > 2 => ls[1].status = "ORPHANED") /\ ls[1].status # "RELEASED"
    BY DEF RowOK, LeakStays
  <2>2. A = 2
    BY <1>0, <1>5, <2>1
  <2> QED
    BY <2>1, <2>2
<1>9. IsCorrected(ns) <=> IsCorrected(ls)
  <2>1. CASE k = 1
    BY <1>0, <1>2, <1>3, <1>8, <2>1 DEF IsCorrected
  <2>2. CASE k # 1
    BY <1>0, <1>3, <1>5, <2>2 DEF IsCorrected
  <2> QED
    BY <2>1, <2>2
<1>10. LeakStays(r, ns)
  <2>1. LeakStays(r, ls)
    BY DEF RowOK
  <2> QED
    BY <1>4, <1>5, <1>9, <2>1 DEF LeakStays
<1>11. ASSUME IsCorrected(ns)
       PROVE  RunsAlone(r, ns) /\ Disciplined(r, ns, fs) /\ Concluded(r, ns, fs)
  <2>1. RunsAlone(r, ls) /\ Disciplined(r, ls, fs) /\ Concluded(r, ls, fs)
    BY <1>9, <1>11 DEF RowOK, Sound
  <2>2. k = A
    BY <1>0, <2>1 DEF RunsAlone
  <2>3. RunsAlone(r, ns)
    BY <1>0, <1>3, <1>4, <2>1 DEF RunsAlone
  <2>4. \A j \in DOMAIN ns : LeaseBounded(r, ns, j)
    <3> SUFFICES ASSUME NEW j \in 1 .. A
                 PROVE  LeaseBounded(r, ns, j)
      BY <1>3
    <3>0. LeaseBounded(r, ls, j)
      BY <1>0, <2>1 DEF Disciplined
    <3>1. CASE j = k
      <4>1. ls[k].expires <= ls[k].maximum /\ ls[k].acquired <= ls[k].expires
            /\ ls[k].maximum <= ls[k].acquired + MaximumLeaseSeconds
            /\ k <= MaximumAttempts
        BY <3>0, <3>1 DEF LeaseBounded
      <4>2. l.acquired <= l.expires
        <5>1. CASE ls[k].expires <= a
          BY <1>1, <1>2, <4>1, <5>1
        <5>2. CASE ls[k].expires > a
          BY <1>1, <1>2, <5>2
        <5> QED
          BY <1>1, <5>1, <5>2
      <4>3. /\ l.expires <= l.maximum /\ l.expires <= r.deadline
            /\ l.maximum <= l.acquired + MaximumLeaseSeconds
        <5>1. r.deadline \in Nat
          BY <1>0
        <5>2. l.expires <= l.maximum /\ l.expires <= r.deadline
          BY <1>2, <4>1, <5>1
        <5>3. l.maximum <= l.acquired + MaximumLeaseSeconds
          BY <1>1, <1>2, <4>1, ProfileNumbers
        <5> QED
          BY <5>2, <5>3
      <4> QED
        BY <1>3, <3>1, <4>1, <4>2, <4>3 DEF LeaseBounded
    <3>2. CASE j # k
      BY <1>3, <3>0, <3>2 DEF LeaseBounded
    <3> QED
      BY <3>1, <3>2
  <2>5. ASSUME NEW j \in DOMAIN ns, j > 1
        PROVE  RetryFollows(ns, fs, j - 1, j)
    <3>0. j \in 1 .. A /\ j - 1 \in 1 .. A /\ j - 1 # k
      BY <1>0, <1>3, <2>2, <2>5
    <3>1. RetryFollows(ls, fs, j - 1, j)
      BY <1>0, <2>1, <2>5, <3>0 DEF Disciplined
    <3>2. ns[j].expires <= ns[1].acquired + MaximumElapsed
      <4>1. CASE j = k
        <5>1. A - 1 \in DOMAIN fs /\ a <= fs[A - 1].first + MaximumElapsed
          BY <2>2, <2>5, <4>1
        <5>2. fs[A - 1].first <= ls[1].acquired
          BY <5>1 DEF RowOK, FindingsSound, FindingSound
        <5>3. fs[A - 1].first \in Nat /\ ls[1].acquired \in Nat
          BY <1>0, <1>5, <5>1 DEF Findings, Leases
        <5>4. l.expires <= ls[1].acquired + MaximumElapsed
          BY <1>2, <5>1, <5>2, <5>3, ProfileNumbers
        <5> QED
          BY <1>3, <1>4, <1>5, <4>1, <5>4
      <4>2. CASE j # k
        BY <1>3, <1>4, <1>5, <3>0, <3>1, <4>2 DEF RetryFollows
      <4> QED
        BY <4>1, <4>2
    <3> QED
      BY <1>4, <3>0, <3>1, <3>2 DEF RetryFollows
  <2>6. \A j \in DOMAIN fs : fs[j].failed >= ns[j].acquired
    <3>1. \A j \in DOMAIN fs : j \in 1 .. A
      BY <1>0
    <3> QED
      BY <1>4, <2>1, <3>1 DEF Disciplined
  <2>7. Concluded(r, ns, fs)
    BY <1>0, <1>2, <1>3, <2>2 DEF Concluded
  <2> QED
    BY <2>3, <2>4, <2>5, <2>6, <2>7 DEF Disciplined
<1>12. RowOK(r, ns, fs)
  BY <1>6, <1>7, <1>10, <1>11 DEF RowOK, Sound
<1> QED
  BY <1>12 DEF ns

(* A lease is closed, with its work or as a leak.                           *)
IsClosure(l, n, s, t) ==
    /\ n \in Leases /\ n.status = s /\ n.closed = t
    /\ n.acquired = l.acquired /\ n.expires = l.expires
    /\ n.maximum = l.maximum /\ n.authority = l.authority

LEMMA ClosureOfLease ==
    ASSUME NEW l \in Leases, NEW s \in {"RELEASED", "ORPHANED"}, NEW t \in Nat
    PROVE  IsClosure(l, close_lease(l, s, t), s, t)
BY ClosedLease DEF IsClosure

(* The current attempt ends in state v with status s at t.                  *)
LEMMA CloseRow ==
    ASSUME NEW r, NEW ls, NEW fs, RowOK(r, ls, fs), NEW t \in Nat, NEW l,
           NEW s \in {"RELEASED", "ORPHANED"},
           NEW v \in {"RETRY_PENDING", "COMPLETED", "QUARANTINED"},
           r.state = "LEASED", r.attempts \in DOMAIN ls,
           IsClosure(ls[r.attempts], l, s, t),
           r.attempts > 1 => ls[r.attempts - 1].status = "RELEASED",
           t >= ls[r.attempts].acquired,
           \/ s = "RELEASED" /\ t <= ls[r.attempts].expires
           \/ s = "ORPHANED" /\ v = "QUARANTINED",
           v = "RETRY_PENDING" => /\ r.attempts \in DOMAIN fs
                                  /\ fs[r.attempts].failed <= t
    PROVE  RowOK(transition_work(r, v), [ls EXCEPT ![r.attempts] = l], fs)
<1> DEFINE A == r.attempts
           n == transition_work(r, v)
           ns == [ls EXCEPT ![A] = l]
<1>0. /\ r \in WorkRows /\ A \in Nat /\ ls \in Seq(Leases) /\ fs \in Seq(Findings)
      /\ Len(ls) = A /\ Len(fs) \in {A - 1, A}
      /\ DOMAIN ls = 1 .. A /\ DOMAIN fs = 1 .. Len(fs) /\ Len(fs) \in Nat
      /\ \A j \in 1 .. A : ls[j] \in Leases
      /\ \A j \in 1 .. Len(fs) : fs[j] \in Findings
  BY RowFacts
<1>1. n \in WorkRows /\ n.state = v /\ n.attempts = A /\ n.deadline = r.deadline
  BY <1>0, Transitioned DEF Open, Ready, Closed
<1>2. /\ l \in Leases /\ l.status = s /\ l.closed = t
      /\ l.acquired = ls[A].acquired /\ l.expires = ls[A].expires
      /\ l.maximum = ls[A].maximum /\ l.authority = ls[A].authority
  BY DEF IsClosure
<1>3. /\ ns \in Seq(Leases) /\ Len(ns) = A /\ DOMAIN ns = 1 .. A
      /\ ns[A] = l /\ \A j \in 1 .. A : j # A => ns[j] = ls[j]
  BY <1>0, <1>2, RewrittenLeases
<1> HIDE DEF n, ns
<1>4. \A j \in 1 .. A : /\ ns[j].acquired = ls[j].acquired /\ ns[j].expires = ls[j].expires
                        /\ ns[j].maximum = ls[j].maximum
                        /\ ns[j].authority = ls[j].authority
  BY <1>2, <1>3
<1>5. A >= 1 /\ 1 \in 1 .. A /\ A \in 1 .. A
  BY <1>0
<1>6. Shaped(n, ns, fs)
  BY <1>0, <1>1, <1>3, <1>5 DEF Shaped
<1>7. FindingsSound(ns, fs)
  BY <1>4, <1>5 DEF RowOK, FindingsSound, FindingSound
<1>8. IsCorrected(ns) <=> IsCorrected(ls)
  BY <1>0, <1>3, <1>4, <1>5 DEF IsCorrected
<1>9. LeakStays(n, ns)
  <2> SUFFICES ASSUME ~IsCorrected(ns)
               PROVE  ns[1].status # "RELEASED"
    BY <1>1 DEF LeakStays
  <2>1. A # 1 /\ ls[1].status # "RELEASED"
    BY <1>8 DEF RowOK, LeakStays
  <2> QED
    BY <1>3, <1>5, <2>1
<1>10. ASSUME IsCorrected(ns)
       PROVE  RunsAlone(n, ns) /\ Disciplined(n, ns, fs) /\ Concluded(n, ns, fs)
  <2>1. RunsAlone(r, ls) /\ Disciplined(r, ls, fs)
    BY <1>8, <1>10 DEF RowOK, Sound
  <2>2. RunsAlone(n, ns)
    <3> SUFFICES ASSUME NEW k \in 1 .. A
                 PROVE  ns[k].status # "ACTIVE"
      BY <1>1, <1>3 DEF RunsAlone
    <3>1. CASE k = A
      BY <1>2, <1>3, <3>1
    <3>2. CASE k # A
      BY <1>0, <1>3, <2>1, <3>2 DEF RunsAlone
    <3> QED
      BY <3>1, <3>2
  <2>3. \A k \in DOMAIN ns : LeaseBounded(n, ns, k)
    BY <1>0, <1>1, <1>3, <1>4, <2>1 DEF Disciplined, LeaseBounded
  <2>4. ASSUME NEW k \in DOMAIN ns, k > 1
        PROVE  RetryFollows(ns, fs, k - 1, k)
    <3>0. k \in 1 .. A /\ k - 1 \in 1 .. A /\ k - 1 # A
      BY <1>0, <1>3, <2>4
    <3>1. RetryFollows(ls, fs, k - 1, k)
      BY <1>0, <2>1, <2>4, <3>0 DEF Disciplined
    <3>2. ns[k - 1].status = ls[k - 1].status
      BY <1>3, <3>0
    <3> QED
      BY <1>4, <1>5, <3>0, <3>1, <3>2 DEF RetryFollows
  <2>5. \A k \in DOMAIN fs : fs[k].failed >= ns[k].acquired
    <3>1. \A k \in DOMAIN fs : k \in 1 .. A
      BY <1>0
    <3> QED
      BY <1>4, <2>1, <3>1 DEF Disciplined
  <2>6. Concluded(n, ns, fs)
    <3>1. l.acquired \in Nat /\ l.expires \in Nat
      BY <1>2 DEF Leases
    <3>2. v \in {"COMPLETED", "RETRY_PENDING"} =>
             l.status = "RELEASED" /\ l.closed \in l.acquired .. l.expires
      BY <1>2, <3>1
    <3>3. v = "RETRY_PENDING" => Len(fs) = A /\ fs[A].failed \in l.acquired .. l.closed
      <4> SUFFICES ASSUME v = "RETRY_PENDING"
                   PROVE  Len(fs) = A /\ fs[A].failed \in l.acquired .. l.closed
        OBVIOUS
      <4>1. A \in 1 .. Len(fs)
        BY <1>0
      <4>2. Len(fs) = A
        BY <1>0, <4>1
      <4>3. fs[A].failed \in Nat
        BY <1>0, <4>1 DEF Findings
      <4>4. fs[A].failed >= ls[A].acquired
        BY <1>0, <2>1, <4>1 DEF Disciplined
      <4> QED
        BY <1>2, <3>1, <4>2, <4>3, <4>4
    <3>4. l.status = "ORPHANED" => v = "QUARANTINED"
      BY <1>2
    <3> QED
      BY <1>1, <1>3, <3>2, <3>3, <3>4 DEF Concluded
  <2> QED
    BY <2>2, <2>3, <2>4, <2>5, <2>6 DEF Disciplined
<1>11. RowOK(n, ns, fs)
  BY <1>6, <1>7, <1>9, <1>10 DEF RowOK, Sound
<1> QED
  BY <1>11 DEF n, ns

(* A leak is orphaned: only work left with one has any.                     *)
LEMMA OrphanRow ==
    ASSUME NEW r, NEW ls, NEW fs, RowOK(r, ls, fs), NEW t \in Nat, NEW l,
           NEW k \in DOMAIN ls, ls[k].status = "ACTIVE",
           ~ (r.state = "LEASED" /\ k = r.attempts),
           IsClosure(ls[k], l, "ORPHANED", t)
    PROVE  RowOK(r, [ls EXCEPT ![k] = l], fs)
<1> DEFINE A == r.attempts
           ns == [ls EXCEPT ![k] = l]
<1>0. /\ A \in Nat /\ ls \in Seq(Leases) /\ fs \in Seq(Findings)
      /\ Len(ls) = A /\ DOMAIN ls = 1 .. A
  BY RowFacts
<1>1. ~IsCorrected(ls)
  BY DEF RowOK, Sound, RunsAlone
<1>2. l \in Leases /\ l.status = "ORPHANED" /\ l.acquired = ls[k].acquired
      /\ l.authority = ls[k].authority
  BY DEF IsClosure
<1>3. /\ ns \in Seq(Leases) /\ Len(ns) = A /\ DOMAIN ns = 1 .. A
      /\ ns[k] = l /\ \A j \in 1 .. A : j # k => ns[j] = ls[j]
  BY <1>0, <1>2, RewrittenLeases
<1> HIDE DEF ns
<1>4. 1 \in 1 .. A
  BY <1>0
<1>5. /\ ns[1].acquired = ls[1].acquired /\ ns[1].authority = ls[1].authority
      /\ ns[1].status \in {ls[1].status, "ORPHANED"}
  BY <1>2, <1>3, <1>4
<1>6. ~IsCorrected(ns)
  BY <1>0, <1>1, <1>3, <1>4, <1>5 DEF IsCorrected
<1>7. Shaped(r, ns, fs)
  BY <1>0, <1>3 DEF RowOK, Shaped
<1>8. FindingsSound(ns, fs)
  BY <1>5 DEF RowOK, FindingsSound, FindingSound
<1>9. LeakStays(r, ns)
  BY <1>1, <1>5 DEF RowOK, LeakStays
<1>10. RowOK(r, ns, fs)
  BY <1>6, <1>7, <1>8, <1>9 DEF RowOK, Sound
<1> QED
  BY <1>10 DEF ns

(* A Finding for the current attempt, the first one, while the lease k runs.*)
LEMMA FindingRow ==
    ASSUME NEW r, NEW ls, NEW fs, RowOK(r, ls, fs),
           NEW k \in DOMAIN ls, ls[k].status = "ACTIVE",
           r.state = "LEASED", r.attempts \notin DOMAIN fs,
           NEW c \in Classes \cup {"RETRYABLE"}, NEW first \in Nat, NEW failed \in Nat,
           first <= ls[1].acquired, failed >= ls[k].acquired
    PROVE  RowOK(r, ls, Append(fs, build_retry_finding(c, r.attempts, first, failed)))
<1> DEFINE A == r.attempts
           f == build_retry_finding(c, A, first, failed)
           ns == Append(fs, f)
<1>0. /\ A \in Nat /\ ls \in Seq(Leases) /\ fs \in Seq(Findings)
      /\ Len(ls) = A /\ Len(fs) \in {A - 1, A}
      /\ DOMAIN ls = 1 .. A /\ DOMAIN fs = 1 .. Len(fs) /\ Len(fs) \in Nat
      /\ \A j \in 1 .. A : ls[j] \in Leases
  BY RowFacts
<1>1. A >= 1 /\ Len(fs) = A - 1
  <2>1. A >= 1
    BY <1>0
  <2> QED
    BY <1>0, <2>1
<1>2. /\ f \in Findings /\ f.first = first /\ f.failed = failed
      /\ f.next # None => /\ f.class = "RETRYABLE" /\ A < MaximumAttempts
                          /\ f.next = f.failed + Backoff(A)
  <2>1. IsFinding(f, A, first, failed)
    BY <1>0, <1>1, BuiltFinding
  <2> QED
    BY <2>1 DEF IsFinding
<1> HIDE DEF f
<1>3. /\ ns \in Seq(Findings) /\ Len(ns) = A /\ DOMAIN ns = 1 .. A
      /\ ns[A] = f /\ \A j \in 1 .. (A - 1) : ns[j] = fs[j]
  BY <1>0, <1>1, <1>2
<1> HIDE DEF ns
<1>4. Shaped(r, ls, ns)
  BY <1>0, <1>3 DEF RowOK, Shaped
<1>5. FindingsSound(ls, ns)
  <2> SUFFICES ASSUME NEW j \in 1 .. A
               PROVE  FindingSound(ls, ns[j], j)
    BY <1>3 DEF FindingsSound
  <2>1. CASE j = A
    BY <1>2, <1>3, <2>1 DEF FindingSound
  <2>2. CASE j \in 1 .. (A - 1)
    BY <1>0, <1>1, <1>3, <2>2 DEF RowOK, FindingsSound
  <2> QED
    BY <1>0, <2>1, <2>2
<1>6. LeakStays(r, ls)
  BY DEF RowOK
<1>7. ASSUME IsCorrected(ls)
      PROVE  RunsAlone(r, ls) /\ Disciplined(r, ls, ns) /\ Concluded(r, ls, ns)
  <2>1. RunsAlone(r, ls) /\ Disciplined(r, ls, fs) /\ Concluded(r, ls, fs)
    BY <1>7 DEF RowOK, Sound
  <2>2. k = A
    BY <2>1 DEF RunsAlone
  <2>3. ASSUME NEW j \in DOMAIN ls, j > 1
        PROVE  RetryFollows(ls, ns, j - 1, j)
    <3>1. j - 1 \in 1 .. (A - 1)
      BY <1>0, <2>3
    <3>2. RetryFollows(ls, fs, j - 1, j)
      BY <2>1, <2>3 DEF Disciplined
    <3> QED
      BY <1>3, <3>1, <3>2 DEF RetryFollows
  <2>4. ASSUME NEW j \in DOMAIN ns
        PROVE  ns[j].failed >= ls[j].acquired
    <3>1. CASE j = A
      BY <1>2, <1>3, <2>2, <3>1
    <3>2. CASE j \in 1 .. (A - 1)
      BY <1>0, <1>1, <1>3, <2>1, <3>2 DEF Disciplined
    <3> QED
      BY <1>0, <1>3, <3>1, <3>2
  <2>5. Disciplined(r, ls, ns)
    BY <2>1, <2>3, <2>4 DEF Disciplined
  <2>6. Concluded(r, ls, ns)
    BY <2>1 DEF Concluded
  <2> QED
    BY <2>1, <2>5, <2>6
<1>8. RowOK(r, ls, ns)
  BY <1>4, <1>5, <1>6, <1>7 DEF RowOK, Sound
<1> QED
  BY <1>8 DEF f, ns

-----------------------------------------------------------------------------
(* The initial rows.                                                        *)

LEMMA LegacyLeaseType ==
    ASSUME NEW k \in {1, 2}, NEW s \in {"ACTIVE", "RELEASED"}
    PROVE  LET l == LegacyLease((k - 1) * Backoff(1), s)
           IN  /\ l \in Leases /\ l.status = s /\ l.authority = None
               /\ k = 1 => l.acquired = 0
<1> DEFINE t == (k - 1) * Backoff(1)
<1>1. Backoff(1) \in Nat
  BY BackoffNat
<1>2. t \in Nat /\ (k = 1 => t = 0)
  BY <1>1
<1> HIDE DEF t
<1>3. t + LeaseSeconds \in Nat /\ t + MaximumLeaseSeconds \in Nat
  BY <1>2, ProfileNumbers
<1>4. LET l == LegacyLease(t, s)
      IN  l \in Leases /\ l.status = s /\ l.authority = None /\ l.acquired = t
  BY <1>2, <1>3 DEF LegacyLease, Leases
<1> QED
  BY <1>2, <1>4 DEF t

LEMMA LegacyFindingSound ==
    ASSUME NEW k \in {1, 2}
    PROVE  \E failed \in Nat : IsFinding(LegacyFinding(k), k, 0, failed)
<1> DEFINE failed == (k - 1) * Backoff(1)
<1>1. Backoff(1) \in Nat
  BY BackoffNat
<1>2. failed \in Nat
  BY <1>1
<1>3. LegacyFinding(k) = build_retry_finding("RETRYABLE", k, 0, failed)
  BY DEF LegacyFinding
<1> HIDE DEF failed
<1>4. IsFinding(build_retry_finding("RETRYABLE", k, 0, failed), k, 0, failed)
  BY <1>2, BuiltFinding
<1> QED
  BY <1>2, <1>3, <1>4

(* What Init writes for one work of a shape.                                *)
InitialRow(shape, deadline) ==
    [state |-> shape.state, attempts |-> Len(shape.leases), due |-> 0,
     deadline |-> IF shape = Absent THEN 0 ELSE deadline]

InitialLeases(shape) ==
    [k \in DOMAIN shape.leases |-> LegacyLease((k - 1) * Backoff(1), shape.leases[k])]

InitialFindings(shape) == [k \in 1 .. shape.findings |-> LegacyFinding(k)]

LEMMA InitialRows ==
    ASSUME NEW shape \in LegacyShapes \cup {Absent}, NEW deadline \in Nat
    PROVE  RowOK(InitialRow(shape, deadline), InitialLeases(shape), InitialFindings(shape))
<1> DEFINE r == InitialRow(shape, deadline)
           ls == InitialLeases(shape)
           fs == InitialFindings(shape)
<1>1. CASE shape = Absent
  <2>1. /\ shape.state = "ABSENT" /\ shape.leases = <<>> /\ shape.findings = 0
    BY <1>1 DEF Absent
  <2>2. /\ r.state = "ABSENT" /\ r.attempts = 0 /\ r \in WorkRows
    BY <2>1 DEF InitialRow, WorkRows
  <2>3. ls = <<>>
    BY <2>1 DEF InitialLeases
  <2>4. fs = <<>>
    BY <2>1 DEF InitialFindings
  <2> HIDE DEF r, ls, fs
  <2>5. RowOK(r, ls, fs)
    BY <2>2, <2>3, <2>4, NoLeaseRow
  <2> QED
    BY <2>5 DEF r, ls, fs
<1>2. CASE shape \in LegacyShapes
  <2>1. \/ /\ shape.state = "RETRY_PENDING" /\ shape.leases = <<"ACTIVE">>
           /\ shape.findings = 1
        \/ /\ shape.state = "LEASED" /\ shape.leases = <<"ACTIVE", "ACTIVE">>
           /\ shape.findings = 1
        \/ /\ shape.state = "RETRY_PENDING"
           /\ shape.leases = <<"ACTIVE", "RELEASED">> /\ shape.findings = 2
    BY <1>2 DEF LegacyShapes
  <2> DEFINE A == Len(shape.leases)
             F == shape.findings
  <2>2. /\ A \in {1, 2} /\ F \in {1, 2} /\ F \in {A - 1, A}
        /\ DOMAIN shape.leases = 1 .. A
        /\ shape.state \in {"RETRY_PENDING", "LEASED"}
        /\ shape.state = "LEASED" => A = 2
        /\ shape.leases[1] = "ACTIVE"
        /\ \A k \in 1 .. A : k \in {1, 2} /\ shape.leases[k] \in {"ACTIVE", "RELEASED"}
        /\ \A k \in 1 .. F : k \in {1, 2}
    <3>1. CASE shape.leases = <<"ACTIVE">> /\ shape.findings = 1
               /\ shape.state = "RETRY_PENDING"
      BY <3>1
    <3>2. CASE shape.leases = <<"ACTIVE", "ACTIVE">> /\ shape.findings = 1
               /\ shape.state = "LEASED"
      BY <3>2
    <3>3. CASE shape.leases = <<"ACTIVE", "RELEASED">> /\ shape.findings = 2
               /\ shape.state = "RETRY_PENDING"
      BY <3>3
    <3> QED
      BY <2>1, <3>1, <3>2, <3>3
  <2>3. /\ r \in WorkRows /\ r.state = shape.state /\ r.attempts = A
    <3>1. (IF shape = Absent THEN 0 ELSE deadline) \in Nat
      OBVIOUS
    <3> HIDE DEF A
    <3> QED
      BY <2>2, <3>1 DEF InitialRow, WorkRows, Open, Ready, A
  <2>4. /\ ls \in Seq(Leases) /\ Len(ls) = A
        /\ ls[1].status = "ACTIVE" /\ ls[1].authority = None /\ ls[1].acquired = 0
    <3>1. \A k \in 1 .. A : LegacyLease((k - 1) * Backoff(1), shape.leases[k]) \in Leases
      BY <2>2, LegacyLeaseType
    <3>2. ls = [k \in 1 .. A |-> LegacyLease((k - 1) * Backoff(1), shape.leases[k])]
      BY <2>2 DEF InitialLeases
    <3>3. LET l == LegacyLease((1 - 1) * Backoff(1), shape.leases[1])
          IN  l.status = "ACTIVE" /\ l.authority = None /\ l.acquired = 0
      BY <2>2, LegacyLeaseType
    <3> HIDE DEF A, ls
    <3>4. 1 \in 1 .. A /\ A \in Nat
      BY <2>2
    <3>5. ls \in Seq(Leases) /\ Len(ls) = A
      BY <3>1, <3>2, <3>4
    <3> QED
      BY <3>2, <3>3, <3>4, <3>5
  <2>5. /\ fs \in Seq(Findings) /\ Len(fs) = F /\ DOMAIN fs = 1 .. F
        /\ \A k \in 1 .. F : fs[k] = LegacyFinding(k)
    <3>1. \A k \in 1 .. F : LegacyFinding(k) \in Findings
      BY <2>2, LegacyFindingSound DEF IsFinding
    <3>2. fs = [k \in 1 .. F |-> LegacyFinding(k)]
      BY DEF InitialFindings
    <3> HIDE DEF F, fs
    <3> QED
      BY <2>2, <3>1, <3>2
  <2> HIDE DEF r, ls, fs, A, F
  <2>6. Shaped(r, ls, fs)
    BY <2>2, <2>3, <2>4, <2>5 DEF Shaped
  <2>7. FindingsSound(ls, fs)
    <3> SUFFICES ASSUME NEW k \in 1 .. F
                 PROVE  FindingSound(ls, fs[k], k)
      BY <2>5 DEF FindingsSound
    <3>1. k \in {1, 2} /\ fs[k] = LegacyFinding(k)
      BY <2>2, <2>5
    <3> QED
      BY <2>4, <3>1, LegacyFindingSound DEF FindingSound, IsFinding
  <2>8. ~IsCorrected(ls)
    BY <2>2, <2>4 DEF IsCorrected
  <2>9. LeakStays(r, ls)
    BY <2>2, <2>3, <2>4 DEF LeakStays
  <2>10. RowOK(r, ls, fs)
    BY <2>6, <2>7, <2>8, <2>9 DEF RowOK, Sound
  <2> QED
    BY <2>10 DEF r, ls, fs
<1> QED
  BY <1>1, <1>2

LEMMA InitRows == Init => RowsOK
<1> SUFFICES ASSUME Init PROVE RowsOK
  OBVIOUS
<1>1. PICK shape \in [Legacy -> LegacyShapes \cup {Absent}],
           deadline \in {d[2] : d \in Deadlines} :
        LET was == [w \in Works |-> IF w \in Legacy THEN shape[w] ELSE Absent]
        IN  /\ work = [w \in Works |->
                  [state |-> was[w].state, attempts |-> Len(was[w].leases), due |-> 0,
                   deadline |-> IF was[w] = Absent THEN 0 ELSE deadline]]
            /\ lease = [w \in Works |-> [k \in DOMAIN was[w].leases |->
                  LegacyLease((k - 1) * Backoff(1), was[w].leases[k])]]
            /\ finding = [w \in Works |->
                  [k \in 1..was[w].findings |-> LegacyFinding(k)]]
  BY DEF Init
<1> DEFINE was == [w \in Works |-> IF w \in Legacy THEN shape[w] ELSE Absent]
<1>2. deadline \in Nat
  BY QueueAssumption
<1>3. /\ work = [w \in Works |-> InitialRow(was[w], deadline)]
      /\ lease = [w \in Works |-> InitialLeases(was[w])]
      /\ finding = [w \in Works |-> InitialFindings(was[w])]
  BY <1>1 DEF InitialRow, InitialLeases, InitialFindings
<1>4. \A w \in Works : was[w] \in LegacyShapes \cup {Absent}
  OBVIOUS
<1> HIDE DEF was
<1>5. \A w \in Works : RowOK(work[w], lease[w], finding[w])
  BY <1>2, <1>3, <1>4, InitialRows
<1>6. \A w \in Works : /\ work[w] \in WorkRows /\ lease[w] \in Seq(Leases)
                       /\ finding[w] \in Seq(Findings)
  BY <1>5, RowFacts
<1> QED
  BY <1>3, <1>5, <1>6 DEF RowsOK

-----------------------------------------------------------------------------
(* The steps.                                                               *)

(* Only the rows of w change.                                               *)
OnlyRow(w) ==
    /\ work' = [v \in Works |-> work'[v]]
    /\ lease' = [v \in Works |-> lease'[v]]
    /\ finding' = [v \in Works |-> finding'[v]]
    /\ \A v \in Works \ {w} :
          work'[v] = work[v] /\ lease'[v] = lease[v] /\ finding'[v] = finding[v]

LEMMA RowsUpdated ==
    ASSUME RowsOK, NEW w \in Works, OnlyRow(w),
           RowOK(work'[w], lease'[w], finding'[w])
    PROVE  RowsOK'
<1>1. ASSUME NEW v \in Works
      PROVE  RowOK(work'[v], lease'[v], finding'[v])
  <2>1. CASE v = w
    BY <2>1
  <2>2. CASE v # w
    BY <2>2 DEF RowsOK, OnlyRow
  <2> QED
    BY <2>1, <2>2
<1>2. ASSUME NEW v \in Works
      PROVE  /\ work'[v] \in WorkRows /\ lease'[v] \in Seq(Leases)
             /\ finding'[v] \in Seq(Findings)
  BY <1>1, RowFacts
<1>3. /\ work' \in [Works -> WorkRows] /\ lease' \in [Works -> Seq(Leases)]
      /\ finding' \in [Works -> Seq(Findings)]
  BY <1>2 DEF OnlyRow
<1> QED
  BY <1>1, <1>3 DEF RowsOK

LEMMA RowOf ==
    ASSUME RowsOK, NEW w \in Works
    PROVE  /\ RowOK(work[w], lease[w], finding[w])
           /\ work[w] \in WorkRows /\ work[w].attempts \in Nat
           /\ work[w].deadline \in Nat
           /\ lease[w] \in Seq(Leases) /\ finding[w] \in Seq(Findings)
           /\ Len(lease[w]) = work[w].attempts
           /\ DOMAIN lease[w] = 1 .. work[w].attempts
           /\ \A k \in DOMAIN lease[w] :
                 /\ lease[w][k] \in Leases /\ lease[w][k].acquired \in Nat
                 /\ lease[w][k].expires \in Nat
           /\ \A k \in DOMAIN finding[w] :
                 finding[w][k] \in Findings /\ finding[w][k].first \in Nat
<1>1. RowOK(work[w], lease[w], finding[w])
  BY DEF RowsOK
<1>2. /\ work[w] \in WorkRows /\ work[w].attempts \in Nat
      /\ work[w].deadline \in Nat
      /\ lease[w] \in Seq(Leases) /\ finding[w] \in Seq(Findings)
      /\ Len(lease[w]) = work[w].attempts
      /\ DOMAIN lease[w] = 1 .. work[w].attempts
  BY <1>1, RowFacts
<1>3. /\ \A k \in DOMAIN lease[w] : lease[w][k] \in Leases
      /\ \A k \in DOMAIN finding[w] : finding[w][k] \in Findings
  BY <1>2
<1>4. /\ \A k \in DOMAIN lease[w] : lease[w][k].acquired \in Nat /\ lease[w][k].expires \in Nat
  BY <1>3 DEF Leases
<1>5. \A k \in DOMAIN finding[w] : finding[w][k].first \in Nat
  BY <1>3 DEF Findings
<1> QED
  BY <1>1, <1>2, <1>3, <1>4, <1>5

LEMMA EnqueueStep ==
    ASSUME RowsOK, NEW w \in Works, NEW d \in Deadlines, Enqueue(w, d[1], d[2])
    PROVE  RowsOK'
<1> DEFINE n == enqueue_due_work(d[1], d[2])
<1>1. d[1] \in Nat /\ d[2] \in Nat
  BY QueueAssumption
<1>2. /\ work[w].state = "ABSENT" /\ work' = [work EXCEPT ![w] = n]
      /\ lease' = lease /\ finding' = finding
  BY DEF Enqueue
<1>3. RowOK(n, lease[w], finding[w])
  BY <1>1, <1>2, RowOf, EnqueueRow
<1> HIDE DEF n
<1>4. OnlyRow(w) /\ work'[w] = n /\ lease'[w] = lease[w] /\ finding'[w] = finding[w]
  BY <1>2 DEF OnlyRow, RowsOK
<1> QED
  BY <1>3, <1>4, RowsUpdated

LEMMA CloseReadyStep ==
    ASSUME RowsOK, NEW w \in Works, NEW s \in Closed, CloseReady(w, s)
    PROVE  RowsOK'
<1> DEFINE n == transition_work(work[w], s)
<1>1. /\ work' = [work EXCEPT ![w] = n]
      /\ lease' = lease /\ finding' = finding
  BY DEF CloseReady
<1>2. work[w].state \in Ready /\ s \in {"EXPLICITLY_CLOSED", "QUARANTINED"}
  BY DEF CloseReady, Allowed
<1>3. RowOK(n, lease[w], finding[w])
  BY <1>2, RowOf, CloseReadyRow
<1> HIDE DEF n
<1>4. OnlyRow(w) /\ work'[w] = n /\ lease'[w] = lease[w] /\ finding'[w] = finding[w]
  BY <1>1 DEF OnlyRow, RowsOK
<1> QED
  BY <1>3, <1>4, RowsUpdated

LEMMA AcquireStep ==
    ASSUME RowsOK, NEW w \in Works, NEW t \in Instants, Acquire(w, t)
    PROVE  RowsOK'
<1> DEFINE A == work[w].attempts
           a == IF A = 0 THEN work[w].deadline
                ELSE Min({work[w].deadline, RetryHorizon(w, A)})
           n == transition_work(work[w], "LEASED")
           l == acquire_lease(t, a)
<1>0. t \in Nat
  BY InstantsAreNat
<1>1. /\ work' = [work EXCEPT ![w] = n]
      /\ lease' = [lease EXCEPT ![w] = Append(lease[w], l)]
      /\ finding' = finding
      /\ t <= work[w].deadline
      /\ \/ work[w].state = "QUEUED"
         \/ work[w].state = "RETRY_PENDING" /\ RetryIsDue(w, t)
  BY DEF Acquire, attempt
<1>2. work[w].state = "QUEUED" => A = 0
  BY DEF RowsOK, RowOK, Shaped
<1>3. A \in Nat /\ work[w].deadline \in Nat
  BY RowOf
<1>4. ASSUME work[w].state = "RETRY_PENDING"
      PROVE  /\ A >= 1 /\ A \in DOMAIN finding[w]
             /\ \A k \in DOMAIN lease[w] : lease[w][k].status # "ACTIVE"
             /\ lease[w][A].status = "RELEASED"
             /\ finding[w][A].class = "RETRYABLE"
             /\ finding[w][A].next # None
             /\ t >= finding[w][A].next
             /\ t < finding[w][A].first + MaximumElapsed
             /\ finding[w][A].first \in Nat
  <2>1. /\ ActiveLeases(w) = {} /\ PredecessorSound(w, A) /\ Retryable(finding[w][A])
        /\ t >= finding[w][A].next /\ t < RetryHorizon(w, A)
    BY <1>1, <1>4 DEF RetryIsDue, attempt
  <2>2. A \in DOMAIN finding[w] /\ lease[w][A].status = "RELEASED"
    BY <2>1 DEF PredecessorSound
  <2>3. A >= 1 /\ finding[w][A].first \in Nat
    BY <2>2, RowOf
  <2>4. \A k \in DOMAIN lease[w] : lease[w][k].status # "ACTIVE"
    BY <2>1 DEF ActiveLeases
  <2> QED
    BY <2>1, <2>2, <2>3, <2>4 DEF Retryable, RetryHorizon
<1>5. /\ a \in Nat /\ t <= a /\ a <= work[w].deadline
      /\ work[w].state = "RETRY_PENDING" => a <= finding[w][A].first + MaximumElapsed
  <2>1. CASE A = 0
    BY <1>1, <1>3, <1>4, <2>1
  <2>2. CASE A # 0
    <3>1. work[w].state = "RETRY_PENDING"
      BY <1>1, <1>2, <2>2
    <3> DEFINE h == finding[w][A].first + MaximumElapsed
    <3>2. h \in Nat /\ t < h
      BY <1>4, <3>1, ProfileNumbers
    <3>3. a = Min({work[w].deadline, h})
      BY <2>2 DEF RetryHorizon
    <3> HIDE DEF h, a
    <3>4. a = IF work[w].deadline <= h THEN work[w].deadline ELSE h
      BY <1>3, <3>2, <3>3, MinOfTwo
    <3> QED
      BY <1>0, <1>1, <1>3, <3>2, <3>4 DEF h
  <2> QED
    BY <2>1, <2>2
<1> HIDE DEF a
<1>6. RowOK(n, Append(lease[w], l), finding[w])
  <2>1. work[w].state \in Ready
    BY <1>1 DEF Ready
  <2>2. RowOK(work[w], lease[w], finding[w])
    BY RowOf
  <2> QED
    BY <1>0, <1>4, <1>5, <2>1, <2>2, AcquireRow
<1> HIDE DEF n, l
<1>7. /\ OnlyRow(w) /\ work'[w] = n /\ lease'[w] = Append(lease[w], l)
      /\ finding'[w] = finding[w]
  BY <1>1 DEF OnlyRow, RowsOK
<1> QED
  BY <1>6, <1>7, RowsUpdated

LEMMA AuthorityBound ==
    ASSUME RowsOK, NEW w \in Works, work[w].state = "LEASED", AuthorityKnown(w)
    PROVE  LET A == work[w].attempts
           IN  /\ A >= 1
               /\ AuthorityDeadline(w) \in Nat
               /\ AuthorityDeadline(w) <= work[w].deadline
               /\ A > 1 => /\ A - 1 \in DOMAIN finding[w]
                           /\ lease[w][A - 1].status = "RELEASED"
                           /\ AuthorityDeadline(w)
                                 <= finding[w][A - 1].first + MaximumElapsed
<1> DEFINE A == work[w].attempts
<1>1. A \in Nat /\ work[w].deadline \in Nat
  BY RowOf
<1>2. A >= 1
  BY DEF RowsOK, RowOK, Shaped
<1>3. CASE A = 1
  BY <1>1, <1>3 DEF AuthorityDeadline, attempt
<1>4. CASE A > 1
  <2>1. PredecessorSound(w, A - 1)
    BY <1>4 DEF AuthorityKnown, attempt
  <2>2. A - 1 \in DOMAIN finding[w] /\ lease[w][A - 1].status = "RELEASED"
    BY <2>1 DEF PredecessorSound
  <2> DEFINE h == finding[w][A - 1].first + MaximumElapsed
  <2>3. finding[w][A - 1].first \in Nat
    BY <2>2, RowOf
  <2>4. h \in Nat
    BY <2>3, ProfileNumbers
  <2>5. AuthorityDeadline(w) = Min({work[w].deadline, h})
    BY <1>1, <1>4 DEF AuthorityDeadline, RetryHorizon, attempt
  <2> HIDE DEF h
  <2>6. AuthorityDeadline(w) = IF work[w].deadline <= h THEN work[w].deadline ELSE h
    BY <1>1, <2>4, <2>5, MinOfTwo
  <2> QED
    BY <1>1, <1>2, <2>2, <2>4, <2>6 DEF h
<1> QED
  BY <1>1, <1>2, <1>3, <1>4

LEMMA RenewStep ==
    ASSUME RowsOK, NEW w \in Works, NEW t \in Instants, NEW k \in DOMAIN lease[w],
           Renew(w, k, t)
    PROVE  RowsOK'
<1> DEFINE A == work[w].attempts
           a == AuthorityDeadline(w)
           l == renew_lease(lease[w][k], t, a)
           ls == [lease[w] EXCEPT ![k] = l]
<1>0. t \in Nat
  BY InstantsAreNat
<1>1. /\ work[w].state = "LEASED" /\ lease[w][k].status = "ACTIVE" /\ AuthorityKnown(w)
      /\ t \in lease[w][k].acquired .. Min({lease[w][k].expires, a})
      /\ lease' = [lease EXCEPT ![w][k] = l]
      /\ work' = work /\ finding' = finding
  BY DEF Renew, ActiveLeases
<1>2. /\ lease[w][k] \in Leases /\ lease[w][k].acquired \in Nat
      /\ lease[w][k].expires \in Nat
  BY RowOf
<1>3. /\ a \in Nat /\ a <= work[w].deadline
      /\ A > 1 => /\ A - 1 \in DOMAIN finding[w] /\ lease[w][A - 1].status = "RELEASED"
                  /\ a <= finding[w][A - 1].first + MaximumElapsed
  BY <1>1, AuthorityBound
<1> HIDE DEF a
<1>4. t >= lease[w][k].acquired /\ t <= a
  <2>1. Min({lease[w][k].expires, a})
          = IF lease[w][k].expires <= a THEN lease[w][k].expires ELSE a
    BY <1>2, <1>3, MinOfTwo
  <2> QED
    BY <1>0, <1>1, <1>2, <1>3, <2>1
<1>5. IsRenewal(lease[w][k], l, a)
  BY <1>0, <1>2, <1>3, RenewedLease
<1> HIDE DEF l
<1>6. RowOK(work[w], ls, finding[w])
  BY <1>0, <1>1, <1>3, <1>4, <1>5, RowOf, RenewRow
<1>7. OnlyRow(w) /\ work'[w] = work[w] /\ lease'[w] = ls /\ finding'[w] = finding[w]
  BY <1>1 DEF OnlyRow, RowsOK
<1> HIDE DEF ls
<1> QED
  BY <1>6, <1>7, RowsUpdated

LEMMA CloseStep ==
    ASSUME RowsOK, NEW w \in Works, NEW t \in Instants,
           NEW s \in {"RELEASED", "ORPHANED"}, NEW v \in Open \cup Closed,
           Close(w, t, s, v)
    PROVE  RowsOK'
<1> DEFINE A == work[w].attempts
           l == close_lease(lease[w][A], s, t)
           ls == [lease[w] EXCEPT ![A] = l]
           n == transition_work(work[w], v)
<1>0. t \in Nat
  BY InstantsAreNat
<1>1. /\ work[w].state = "LEASED" /\ A \in ActiveLeases(w) /\ AuthorityKnown(w)
      /\ v \in Allowed("LEASED") /\ t >= lease[w][A].acquired
      /\ \/ s = "RELEASED" /\ MayRelease(w, t)
         \/ s = "ORPHANED" /\ v = "QUARANTINED"
      /\ v = "RETRY_PENDING" => /\ A \in DOMAIN finding[w]
                                /\ finding[w][A].failed <= t
      /\ lease' = [lease EXCEPT ![w][A] = l]
      /\ work' = [work EXCEPT ![w] = n]
      /\ finding' = finding
  BY DEF Close, Closable, HasFinding, attempt
<1>2. A \in DOMAIN lease[w]
  BY <1>1 DEF ActiveLeases
<1>3. /\ lease[w][A] \in Leases /\ lease[w][A].acquired \in Nat
      /\ lease[w][A].expires \in Nat /\ work[w].deadline \in Nat
  BY <1>2, RowOf
<1>4. v \in {"RETRY_PENDING", "COMPLETED", "QUARANTINED"}
  BY <1>1 DEF Allowed, Ready
<1>5. AuthorityDeadline(w) \in Nat /\ (A > 1 => lease[w][A - 1].status = "RELEASED")
  BY <1>1, AuthorityBound
<1>6. MayRelease(w, t) => t <= lease[w][A].expires
  <2> DEFINE m == Min({AuthorityDeadline(w), work[w].deadline, lease[w][A].expires})
  <2>1. m \in Nat /\ m <= lease[w][A].expires
    BY <1>3, <1>5, MinOfThree
  <2>2. MayRelease(w, t) => t <= m
    BY DEF MayRelease, attempt
  <2> HIDE DEF m
  <2> QED
    BY <1>0, <1>3, <2>1, <2>2
<1>7. IsClosure(lease[w][A], l, s, t)
  BY <1>0, <1>3, ClosureOfLease
<1> HIDE DEF l
<1>8. RowOK(n, ls, finding[w])
  <2>1. RowOK(work[w], lease[w], finding[w])
    BY RowOf
  <2>2. \/ s = "RELEASED" /\ t <= lease[w][A].expires
        \/ s = "ORPHANED" /\ v = "QUARANTINED"
    BY <1>1, <1>6
  <2> QED
    BY <1>0, <1>1, <1>2, <1>4, <1>5, <1>7, <2>1, <2>2, CloseRow
<1> HIDE DEF n
<1>9. OnlyRow(w) /\ work'[w] = n /\ lease'[w] = ls /\ finding'[w] = finding[w]
  BY <1>1 DEF OnlyRow, RowsOK
<1> HIDE DEF ls
<1> QED
  BY <1>8, <1>9, RowsUpdated

LEMMA OrphanLeakedStep ==
    ASSUME RowsOK, NEW w \in Works, NEW t \in Instants, NEW k \in DOMAIN lease[w],
           OrphanLeaked(w, k, t)
    PROVE  RowsOK'
<1> DEFINE l == close_lease(lease[w][k], "ORPHANED", t)
           ls == [lease[w] EXCEPT ![k] = l]
<1>0. t \in Nat
  BY InstantsAreNat
<1>1. /\ lease[w][k].status = "ACTIVE"
      /\ ~ (work[w].state = "LEASED" /\ k = work[w].attempts)
      /\ lease' = [lease EXCEPT ![w][k] = l]
      /\ work' = work /\ finding' = finding
  BY DEF OrphanLeaked, Leaked, ActiveLeases, attempt
<1>2. lease[w][k] \in Leases
  BY RowOf
<1>3. IsClosure(lease[w][k], l, "ORPHANED", t)
  BY <1>0, <1>2, ClosureOfLease
<1> HIDE DEF l
<1>4. RowOK(work[w], ls, finding[w])
  BY <1>0, <1>1, <1>3, RowOf, OrphanRow
<1>5. OnlyRow(w) /\ work'[w] = work[w] /\ lease'[w] = ls /\ finding'[w] = finding[w]
  BY <1>1 DEF OnlyRow, RowsOK
<1> HIDE DEF ls
<1> QED
  BY <1>4, <1>5, RowsUpdated

LEMMA AppendRetryFindingStep ==
    ASSUME RowsOK, NEW w \in Works, NEW t \in Instants, NEW c \in Classes,
           AppendRetryFinding(w, c, t)
    PROVE  RowsOK'
<1> DEFINE A == work[w].attempts
           acquisitions == {lease[w][k].acquired : k \in DOMAIN lease[w]}
           first == Min(acquisitions)
           f == build_retry_finding(c, A, first, t)
<1>0. t \in Nat
  BY InstantsAreNat
<1>1. /\ work[w].state = "LEASED" /\ A \notin DOMAIN finding[w]
      /\ finding' = [finding EXCEPT ![w] = Append(finding[w], f)]
      /\ work' = work /\ lease' = lease
  BY DEF AppendRetryFinding, FirstFinding, HasFinding, attempt
<1>2. PICK k \in LatestActive(w) : t \in lease[w][k].acquired .. lease[w][k].expires
  BY DEF AppendRetryFinding
<1>3. k \in DOMAIN lease[w] /\ lease[w][k].status = "ACTIVE"
  BY DEF LatestActive, ActiveLeases
<1>4. /\ DOMAIN lease[w] = 1 .. A /\ A \in Nat
      /\ \A j \in DOMAIN lease[w] : lease[w][j].acquired \in Nat /\ lease[w][j].expires \in Nat
  BY RowOf
<1>5. t >= lease[w][k].acquired
  BY <1>0, <1>2, <1>3, <1>4
<1>6. 1 \in DOMAIN lease[w]
  BY <1>3, <1>4
<1>7. first \in Nat /\ first <= lease[w][1].acquired
  <2>1. acquisitions \in SUBSET Nat /\ lease[w][1].acquired \in acquisitions
    BY <1>4, <1>6
  <2> HIDE DEF acquisitions
  <2> QED
    BY <2>1, MinOfSet
<1> HIDE DEF first
<1>8. RowOK(work[w], lease[w], Append(finding[w], f))
  BY <1>0, <1>1, <1>3, <1>5, <1>7, RowOf, FindingRow
<1> HIDE DEF f
<1>9. /\ OnlyRow(w) /\ work'[w] = work[w] /\ lease'[w] = lease[w]
      /\ finding'[w] = Append(finding[w], f)
  BY <1>1 DEF OnlyRow, RowsOK
<1> QED
  BY <1>8, <1>9, RowsUpdated
-----------------------------------------------------------------------------
(* The limits, by counting.                                                 *)

Ordinary == {w \in OpenWork : urgency[w] # "URGENT"}

LEMMA CountShrinks ==
    ASSUME NEW T, IsFiniteSet(T), NEW S \in SUBSET T
    PROVE  /\ IsFiniteSet(S) /\ Cardinality(S) \in Nat /\ Cardinality(T) \in Nat
           /\ Cardinality(S) <= Cardinality(T)
BY FS_Subset, FS_CardinalityType

LEMMA CountGrows ==
    ASSUME NEW T, IsFiniteSet(T), NEW x, x \notin T
    PROVE  /\ IsFiniteSet(T \cup {x}) /\ Cardinality(T) \in Nat
           /\ Cardinality(T \cup {x}) = Cardinality(T) + 1
BY FS_AddElement, FS_CardinalityType

(* The three limits, without the definitions of what they count.            *)
Within(open, ordinary, running) ==
    /\ IsFiniteSet(running)
    /\ Cardinality(open) <= QueueCapacity
    /\ Cardinality(ordinary) <= QueueCapacity - UrgentReserve
    /\ Cardinality(running) <= HostConcurrency

LEMMA LimitsWithin == Limits <=> Within(OpenWork, Ordinary, Running)
BY DEF Limits, NoOversubscription, Within, Ordinary, Running, active_lease_count

LEMMA OpenIsFinite == IsFiniteSet(OpenWork) /\ IsFiniteSet(Ordinary) /\ Ordinary \subseteq OpenWork
<1>1. OpenWork \subseteq Works /\ Ordinary \subseteq OpenWork
  BY DEF OpenWork, Ordinary
<1> QED
  BY <1>1, QueueAssumption, FS_Subset

(* Fewer of each keeps the limits.                                          *)
LEMMA WithinShrinks ==
    ASSUME NEW o, NEW q, NEW h, Within(o, q, h), IsFiniteSet(o), IsFiniteSet(q),
           NEW o1 \in SUBSET o, NEW q1 \in SUBSET q, NEW h1 \in SUBSET h
    PROVE  Within(o1, q1, h1)
<1>0. IsFiniteSet(h)
  BY DEF Within
<1>1. /\ Cardinality(o1) \in Nat /\ Cardinality(o) \in Nat
      /\ Cardinality(o1) <= Cardinality(o)
  BY CountShrinks
<1>2. /\ Cardinality(q1) \in Nat /\ Cardinality(q) \in Nat
      /\ Cardinality(q1) <= Cardinality(q)
  BY CountShrinks
<1>3. /\ IsFiniteSet(h1) /\ Cardinality(h1) \in Nat /\ Cardinality(h) \in Nat
      /\ Cardinality(h1) <= Cardinality(h)
  BY <1>0, CountShrinks
<1>4. Cardinality(o1) <= QueueCapacity
  BY <1>1, ProfileNumbers DEF Within
<1>5. Cardinality(q1) <= QueueCapacity - UrgentReserve
  BY <1>2, ProfileNumbers DEF Within
<1>6. Cardinality(h1) <= HostConcurrency
  BY <1>3, ProfileNumbers DEF Within
<1> QED
  BY <1>3, <1>4, <1>5, <1>6 DEF Within

LEMMA LimitsKept ==
    ASSUME Limits, OpenWork' \subseteq OpenWork, Running' \subseteq Running
    PROVE  Limits'
<1>1. Within(OpenWork, Ordinary, Running)
  BY LimitsWithin
<1>2. Ordinary' \subseteq Ordinary
  BY DEF Ordinary
<1>3. Within(OpenWork', Ordinary', Running')
  <2> DEFINE o == OpenWork  q == Ordinary  h == Running
             o1 == OpenWork'  q1 == Ordinary'  h1 == Running'
  <2>1. IsFiniteSet(o) /\ IsFiniteSet(q)
    BY OpenIsFinite
  <2>2. Within(o, q, h) /\ o1 \in SUBSET o /\ q1 \in SUBSET q /\ h1 \in SUBSET h
    BY <1>1, <1>2
  <2> HIDE DEF o, q, h, o1, q1, h1
  <2>3. Within(o1, q1, h1)
    BY <2>1, <2>2, WithinShrinks
  <2> QED
    BY <2>3 DEF o1, q1, h1
<1> QED
  BY <1>3 DEF Limits, NoOversubscription, Within, Ordinary, Running, active_lease_count

LEMMA RunningIs ==
    ASSUME RowsOK
    PROVE  \A p : p \in Running <=> \E w \in Works, k \in Nat :
                     p = <<w, k>> /\ k \in DOMAIN lease[w] /\ lease[w][k].status = "ACTIVE"
<1>1. \A w \in Works : DOMAIN lease[w] \subseteq Nat
  BY RowOf
<1> QED
  BY <1>1 DEF Running, ActiveLeases

LEMMA InitLimits == Init => Limits
<1> SUFFICES ASSUME Init PROVE Limits
  OBVIOUS
<1>0. RowsOK
  BY InitRows
<1>1. PICK shape \in [Legacy -> LegacyShapes \cup {Absent}],
           deadline \in {d[2] : d \in Deadlines} :
        LET was == [w \in Works |-> IF w \in Legacy THEN shape[w] ELSE Absent]
        IN  /\ work = [w \in Works |->
                  [state |-> was[w].state, attempts |-> Len(was[w].leases), due |-> 0,
                   deadline |-> IF was[w] = Absent THEN 0 ELSE deadline]]
            /\ lease = [w \in Works |-> [k \in DOMAIN was[w].leases |->
                  LegacyLease((k - 1) * Backoff(1), was[w].leases[k])]]
            /\ finding = [w \in Works |->
                  [k \in 1..was[w].findings |-> LegacyFinding(k)]]
  BY DEF Init
<1> DEFINE was == [w \in Works |-> IF w \in Legacy THEN shape[w] ELSE Absent]
<1>2. ASSUME NEW w \in Works
      PROVE  /\ work[w].state = was[w].state
             /\ DOMAIN lease[w] = DOMAIN was[w].leases
  BY <1>1
<1>3. ASSUME NEW w \in Works, w \notin Legacy
      PROVE  work[w].state = "ABSENT" /\ DOMAIN lease[w] = {}
  <2>1. was[w] = Absent
    BY <1>3
  <2>2. DOMAIN Absent.leases = {} /\ Absent.state = "ABSENT"
    BY DEF Absent
  <2> QED
    BY <1>2, <2>1, <2>2
<1>4. ASSUME NEW w \in Legacy
      PROVE  DOMAIN lease[w] \subseteq {1, 2}
  <2>0. w \in Works
    BY QueueAssumption
  <2>1. was[w] \in LegacyShapes \cup {Absent}
    BY <2>0
  <2>2. DOMAIN was[w].leases \in {{}, {1}, {1, 2}}
    <3> DEFINE x == was[w]
    <3> HIDE DEF was
    <3>1. x.leases \in {<<>>, <<"ACTIVE">>, <<"ACTIVE", "ACTIVE">>, <<"ACTIVE", "RELEASED">>}
      BY <2>1 DEF LegacyShapes, Absent
    <3> HIDE DEF x
    <3>2. DOMAIN x.leases \in {{}, {1}, {1, 2}}
      BY <3>1
    <3> QED
      BY <3>2 DEF x
  <2>3. DOMAIN lease[w] = DOMAIN was[w].leases
    BY <1>2, <2>0
  <2> HIDE DEF was
  <2> QED
    BY <2>2, <2>3
<1> HIDE DEF was
<1> DEFINE L == Legacy
           Q == {w \in Legacy : urgency[w] # "URGENT"}
           H == Legacy \X {1, 2}
<1>5. IsFiniteSet(L) /\ IsFiniteSet(Q)
  <2>1. IsFiniteSet(Legacy)
    BY QueueAssumption, FS_Subset
  <2> QED
    BY <2>1, FS_Subset
<1>6. IsFiniteSet(H) /\ Cardinality(H) = Cardinality(Legacy) * 2
  <2>1. IsFiniteSet({1, 2}) /\ Cardinality({1, 2}) = 2
    <3>1. {1, 2} = 1 .. 2
      OBVIOUS
    <3>2. ASSUME NEW n \in Nat
          PROVE  IsFiniteSet(1 .. n) /\ Cardinality(1 .. n) = n
      BY FS_Interval
    <3> QED
      BY <3>1, <3>2
  <2> QED
    BY <1>5, <2>1, FS_Product
<1>7. Within(L, Q, H)
  <2>1. Cardinality(Legacy) \in Nat
    BY <1>5, FS_CardinalityType
  <2>2. Cardinality(H) <= HostConcurrency
    BY <1>6, <2>1, LegacyAssumption
  <2>3. Cardinality(L) <= QueueCapacity /\ Cardinality(Q) <= QueueCapacity - UrgentReserve
    BY LegacyAssumption
  <2> HIDE DEF L, Q, H
  <2> QED
    BY <1>6, <2>2, <2>3 DEF Within
<1>8. OpenWork \subseteq L /\ Ordinary \subseteq Q
  <2>1. "ABSENT" \notin Open
    BY DEF Open, Ready
  <2>2. OpenWork \subseteq L
    BY <1>3, <2>1 DEF OpenWork
  <2> QED
    BY <2>2 DEF Ordinary
<1>9. Running \subseteq H
  <2> SUFFICES ASSUME NEW p \in Running PROVE p \in H
    OBVIOUS
  <2>1. PICK w \in Works, k \in Nat : p = <<w, k>> /\ k \in DOMAIN lease[w]
    BY <1>0, RunningIs
  <2>2. w \in Legacy
    BY <1>3, <2>1
  <2>3. k \in {1, 2}
    BY <1>4, <2>1, <2>2
  <2> QED
    BY <2>1, <2>2, <2>3
<1>10. Within(OpenWork, Ordinary, Running)
  <2> HIDE DEF L, Q, H
  <2> QED
    BY <1>5, <1>7, <1>8, <1>9, WithinShrinks
<1> QED
  BY <1>10, LimitsWithin

(* A step that changes no lease's status leaves the running leases alone.   *)
LEMMA RunningSame ==
    ASSUME UNCHANGED lease
    PROVE  Running' = Running
BY DEF Running, ActiveLeases

LEMMA EnqueueLimits ==
    ASSUME Limits, RowsOK, NEW w \in Works, NEW d \in Deadlines,
           Enqueue(w, d[1], d[2])
    PROVE  Limits'
<1> DEFINE o == OpenWork  q == Ordinary
<1>1. /\ work[w].state = "ABSENT" /\ UNCHANGED lease
      /\ Cardinality(o) < QueueCapacity
      /\ urgency[w] = "URGENT" \/ Cardinality(q) < QueueCapacity - UrgentReserve
  BY DEF Enqueue, Ordinary
<1>2. work'[w].state = "QUEUED" /\ \A v \in Works \ {w} : work'[v] = work[v]
  BY DEF Enqueue, RowsOK, enqueue_due_work
<1>3. w \notin o /\ o = OpenWork /\ OpenWork' = o \cup {w}
  BY <1>1, <1>2 DEF OpenWork, Open, Ready
<1>4. w \notin q /\ Ordinary' = IF urgency[w] = "URGENT" THEN q ELSE q \cup {w}
  BY <1>3 DEF Ordinary
<1>5. Running' = Running
  BY <1>1, RunningSame
<1>6. IsFiniteSet(o) /\ IsFiniteSet(q)
  BY OpenIsFinite
<1>7. Within(o, q, Running)
  BY LimitsWithin
<1> HIDE DEF o, q
<1>8. /\ Cardinality(o) \in Nat /\ Cardinality(o \cup {w}) = Cardinality(o) + 1
      /\ Cardinality(q) \in Nat /\ Cardinality(q \cup {w}) = Cardinality(q) + 1
  BY <1>3, <1>4, <1>6, CountGrows
<1>9. Cardinality(OpenWork') <= QueueCapacity
  BY <1>1, <1>3, <1>8, ProfileNumbers
<1>10. Cardinality(Ordinary') <= QueueCapacity - UrgentReserve
  <2>1. CASE urgency[w] = "URGENT"
    BY <1>4, <1>7, <2>1 DEF Within
  <2>2. CASE urgency[w] # "URGENT"
    BY <1>1, <1>4, <1>8, <2>2, ProfileNumbers
  <2> QED
    BY <2>1, <2>2
<1>11. IsFiniteSet(Running') /\ Cardinality(Running') <= HostConcurrency
  BY <1>5, <1>7 DEF Within
<1> QED
  BY <1>9, <1>10, <1>11 DEF Limits, NoOversubscription, Ordinary, Running, active_lease_count

LEMMA AcquireLimits ==
    ASSUME Limits, RowsOK, RowsOK', NEW w \in Works, NEW t \in Instants, Acquire(w, t)
    PROVE  Limits'
<1> DEFINE h == Running
           A == work[w].attempts
           x == <<w, A + 1>>
           a == IF A = 0 THEN work[w].deadline
                ELSE Min({work[w].deadline, RetryHorizon(w, A)})
           l == acquire_lease(t, a)
<1>1. /\ work[w].state \in Ready
      /\ work' = [work EXCEPT ![w] = transition_work(work[w], "LEASED")]
      /\ lease' = [lease EXCEPT ![w] = Append(lease[w], l)]
      /\ Cardinality(h) < HostConcurrency
  BY DEF Acquire, attempt, Ready, HostHasPlace, active_lease_count, Running
<1>2. l.status = "ACTIVE"
  BY DEF acquire_lease
<1> HIDE DEF l, a
<1>3. DOMAIN lease[w] = 1 .. A /\ A \in Nat /\ lease[w] \in Seq(Leases) /\ Len(lease[w]) = A
  BY RowOf
<1>4. /\ \A v \in Works \ {w} : lease'[v] = lease[v]
      /\ lease'[w] = Append(lease[w], l)
  BY <1>1 DEF RowsOK
<1>5. /\ DOMAIN lease'[w] = 1 .. (A + 1) /\ lease'[w][A + 1].status = "ACTIVE"
      /\ \A k \in 1 .. A : lease'[w][k] = lease[w][k]
  <2>1. DOMAIN Append(lease[w], l) = 1 .. (A + 1) /\ Append(lease[w], l)[A + 1] = l
        /\ \A k \in 1 .. A : Append(lease[w], l)[k] = lease[w][k]
    BY <1>3
  <2> QED
    BY <1>2, <1>4, <2>1
<1>6. x \notin h
  <2> SUFFICES ASSUME x \in h PROVE FALSE
    OBVIOUS
  <2>1. PICK v \in Works, k \in Nat : x = <<v, k>> /\ k \in DOMAIN lease[v]
    BY RunningIs
  <2>2. v = w /\ k = A + 1
    BY <2>1
  <2> QED
    BY <1>3, <2>1, <2>2
<1>7. Running' \subseteq h \cup {x}
  <2> SUFFICES ASSUME NEW p \in Running', p # x PROVE p \in Running
    OBVIOUS
  <2>1. PICK v \in Works, k \in Nat : /\ p = <<v, k>> /\ k \in DOMAIN lease'[v]
                                      /\ lease'[v][k].status = "ACTIVE"
    BY DEF Running, ActiveLeases, RowsOK
  <2>2. k \in DOMAIN lease[v] /\ lease[v][k].status = "ACTIVE"
    <3>1. CASE v = w
      <4>1. k # A + 1
        BY <2>1, <3>1
      <4>2. k \in 1 .. A
        BY <1>3, <1>5, <2>1, <3>1, <4>1
      <4> QED
        BY <1>3, <1>5, <2>1, <3>1, <4>2
    <3>2. CASE v # w
      BY <1>4, <2>1, <3>2
    <3> QED
      BY <3>1, <3>2
  <2> QED
    BY <2>1, <2>2, RunningIs
<1>8. IsFiniteSet(h)
  BY DEF Limits
<1> HIDE DEF h, x
<1>9. /\ IsFiniteSet(h \cup {x}) /\ Cardinality(h) \in Nat
      /\ Cardinality(h \cup {x}) = Cardinality(h) + 1
  BY <1>6, <1>8, CountGrows
<1>10. /\ IsFiniteSet(Running') /\ Cardinality(Running') \in Nat
       /\ Cardinality(Running') <= Cardinality(h \cup {x})
  BY <1>7, <1>9, CountShrinks
<1>11. Cardinality(Running') <= HostConcurrency
  BY <1>1, <1>9, <1>10, ProfileNumbers
<1>12. OpenWork' = OpenWork
  <2>1. work'[w].state = "LEASED" /\ \A v \in Works \ {w} : work'[v] = work[v]
    BY <1>1, RowOf, Transitioned DEF RowsOK, Open
  <2> QED
    BY <1>1, <2>1 DEF OpenWork, Open
<1> QED
  BY <1>10, <1>11, <1>12 DEF Limits, NoOversubscription, Running, active_lease_count

(* Any other step neither opens work nor starts a lease.                    *)
LEMMA OtherLimits ==
    ASSUME Limits, RowsOK, NEW w \in Works, OnlyRow(w),
           work'[w].state \in Open => work[w].state \in Open,
           \A k \in DOMAIN lease'[w] : lease'[w][k].status = "ACTIVE" =>
               k \in DOMAIN lease[w] /\ lease[w][k].status = "ACTIVE"
    PROVE  Limits'
<1>1. OpenWork' \subseteq OpenWork
  BY DEF OpenWork, OnlyRow
<1>2. Running' \subseteq Running
  <2>1. ASSUME NEW v \in Works
        PROVE  ActiveLeases(v)' \subseteq ActiveLeases(v)
    <3>1. CASE v = w
      BY <3>1 DEF ActiveLeases
    <3>2. CASE v # w
      BY <3>2 DEF ActiveLeases, OnlyRow
    <3> QED
      BY <3>1, <3>2
  <2> QED
    BY <2>1 DEF Running
<1> QED
  BY <1>1, <1>2, LimitsKept

LEMMA CloseReadyLimits ==
    ASSUME Limits, RowsOK, NEW w \in Works, NEW s \in Closed, CloseReady(w, s)
    PROVE  Limits'
<1> DEFINE n == transition_work(work[w], s)
<1>1. /\ work' = [work EXCEPT ![w] = n] /\ lease' = lease /\ finding' = finding
  BY DEF CloseReady
<1>2. n.state = s
  BY RowOf, Transitioned
<1> HIDE DEF n
<1>3. OnlyRow(w) /\ work'[w] = n
  BY <1>1 DEF OnlyRow, RowsOK
<1>4. s \notin Open
  BY DEF Open, Ready, Closed
<1> QED
  BY <1>1, <1>2, <1>3, <1>4, OtherLimits

LEMMA RenewLimits ==
    ASSUME Limits, RowsOK, NEW w \in Works, NEW t \in Instants, NEW k \in DOMAIN lease[w],
           Renew(w, k, t)
    PROVE  Limits'
<1> DEFINE l == renew_lease(lease[w][k], t, AuthorityDeadline(w))
<1>1. /\ lease' = [lease EXCEPT ![w][k] = l] /\ work' = work /\ finding' = finding
      /\ lease[w][k].status = "ACTIVE"
  BY DEF Renew, ActiveLeases
<1> HIDE DEF l
<1>2. OnlyRow(w)
  BY <1>1 DEF OnlyRow, RowsOK
<1>3. \A j \in DOMAIN lease'[w] : j \in DOMAIN lease[w] /\ (j # k => lease'[w][j] = lease[w][j])
  BY <1>1 DEF RowsOK
<1> QED
  BY <1>1, <1>2, <1>3, OtherLimits

LEMMA CloseLimits ==
    ASSUME Limits, RowsOK, NEW w \in Works, NEW t \in Instants,
           NEW s \in {"RELEASED", "ORPHANED"}, NEW v \in Open \cup Closed,
           Close(w, t, s, v)
    PROVE  Limits'
<1> DEFINE A == work[w].attempts
           l == close_lease(lease[w][A], s, t)
           n == transition_work(work[w], v)
<1>1. /\ work[w].state = "LEASED" /\ A \in ActiveLeases(w)
      /\ lease' = [lease EXCEPT ![w][A] = l]
      /\ work' = [work EXCEPT ![w] = n]
      /\ finding' = finding
  BY DEF Close, Closable, attempt
<1> HIDE DEF l, n
<1>2. OnlyRow(w)
  BY <1>1 DEF OnlyRow, RowsOK
<1>3. A \in DOMAIN lease[w] /\ lease[w][A].status = "ACTIVE"
  BY <1>1 DEF ActiveLeases
<1>4. \A j \in DOMAIN lease'[w] : j \in DOMAIN lease[w] /\ (j # A => lease'[w][j] = lease[w][j])
  BY <1>1, <1>3 DEF RowsOK
<1>5. work[w].state \in Open
  BY <1>1 DEF Open
<1> HIDE DEF A
<1> QED
  BY <1>2, <1>3, <1>4, <1>5, OtherLimits

LEMMA OrphanLeakedLimits ==
    ASSUME Limits, RowsOK, NEW w \in Works, NEW t \in Instants, NEW k \in DOMAIN lease[w],
           OrphanLeaked(w, k, t)
    PROVE  Limits'
<1> DEFINE l == close_lease(lease[w][k], "ORPHANED", t)
<1>1. /\ lease[w][k].status = "ACTIVE"
      /\ lease' = [lease EXCEPT ![w][k] = l]
      /\ work' = work /\ finding' = finding
  BY DEF OrphanLeaked, Leaked, ActiveLeases
<1> HIDE DEF l
<1>2. OnlyRow(w)
  BY <1>1 DEF OnlyRow, RowsOK
<1>3. \A j \in DOMAIN lease'[w] : j \in DOMAIN lease[w] /\ (j # k => lease'[w][j] = lease[w][j])
  BY <1>1 DEF RowsOK
<1> QED
  BY <1>1, <1>2, <1>3, OtherLimits

LEMMA UnchangedLimits ==
    ASSUME Limits, UNCHANGED <<work, lease>>
    PROVE  Limits'
<1>1. OpenWork' = OpenWork /\ Running' = Running
  BY DEF OpenWork, Running, ActiveLeases
<1> QED
  BY <1>1, LimitsKept

-----------------------------------------------------------------------------
(* The inductive step, and what the invariant gives.                        *)

LEMMA StepKeepsIInv == IInv /\ [Next]_vars => IInv'
<1> SUFFICES ASSUME IInv, [Next]_vars PROVE IInv'
  OBVIOUS
<1>0. RowsOK /\ Limits
  BY DEF IInv
<1>1. CASE UNCHANGED vars
  <2>1. UNCHANGED <<work, lease, finding>>
    BY <1>1 DEF vars
  <2>2. RowsOK'
    BY <1>0, <2>1 DEF RowsOK
  <2>3. Limits'
    BY <1>0, <2>1, UnchangedLimits
  <2> QED
    BY <2>2, <2>3 DEF IInv
<1>2. ASSUME NEW w \in Works, NEW d \in Deadlines, Enqueue(w, d[1], d[2])
      PROVE  IInv'
  BY <1>0, <1>2, EnqueueStep, EnqueueLimits DEF IInv
<1>3. ASSUME NEW w \in Works, NEW s \in Closed, CloseReady(w, s)
      PROVE  IInv'
  BY <1>0, <1>3, CloseReadyStep, CloseReadyLimits DEF IInv
<1>4. ASSUME NEW w \in Works, NEW t \in Instants, Acquire(w, t)
      PROVE  IInv'
  BY <1>0, <1>4, AcquireStep, AcquireLimits DEF IInv
<1>5. ASSUME NEW w \in Works, NEW t \in Instants, NEW k \in DOMAIN lease[w], Renew(w, k, t)
      PROVE  IInv'
  BY <1>0, <1>5, RenewStep, RenewLimits DEF IInv
<1>6. ASSUME NEW w \in Works, NEW t \in Instants, NEW k \in DOMAIN lease[w],
             OrphanLeaked(w, k, t)
      PROVE  IInv'
  BY <1>0, <1>6, OrphanLeakedStep, OrphanLeakedLimits DEF IInv
<1>7. ASSUME NEW w \in Works, NEW t \in Instants,
             NEW s \in {"RELEASED", "ORPHANED"}, NEW v \in Open \cup Closed,
             Close(w, t, s, v)
      PROVE  IInv'
  BY <1>0, <1>7, CloseStep, CloseLimits DEF IInv
<1>8. ASSUME NEW w \in Works, NEW t \in Instants, NEW c \in Classes,
             AppendRetryFinding(w, c, t)
      PROVE  IInv'
  <2>1. RowsOK'
    BY <1>0, <1>8, AppendRetryFindingStep
  <2>2. UNCHANGED <<work, lease>>
    BY <1>8 DEF AppendRetryFinding
  <2> QED
    BY <1>0, <2>1, <2>2, UnchangedLimits DEF IInv
<1> QED
  BY <1>1, <1>2, <1>3, <1>4, <1>5, <1>6, <1>7, <1>8 DEF Next

LEMMA AlwaysIInv == Spec => []IInv
<1>1. Init => IInv
  BY InitRows, InitLimits DEF IInv
<1> QED
  BY <1>1, StepKeepsIInv, PTL DEF Spec

(* The rows always have the shape of their tables, one lease for each       *)
(* attempt and a Finding for each but perhaps the last.                     *)
THEOREM TypeCorrect == Spec => []TypeOK
<1>1. IInv => TypeOK
  <2> SUFFICES ASSUME IInv PROVE TypeOK
    OBVIOUS
  <2>1. RowsOK
    BY DEF IInv
  <2>2. ASSUME NEW w \in Works
        PROVE  /\ Len(lease[w]) = attempt(w)
               /\ Len(finding[w]) \in {attempt(w) - 1, attempt(w)} \cap Nat
    BY <2>1, RowFacts DEF RowsOK, attempt
  <2> QED
    BY <2>1, <2>2 DEF TypeOK, RowsOK, WorkRows
<1> QED
  BY <1>1, AlwaysIInv, PTL

(* Whatever the callers do, in whatever order their calls commit, the queue *)
(* never holds more open work than its capacity, ordinary work leaves the   *)
(* reserve to urgent work and the host never runs more leases than its      *)
(* concurrency (append_work, commit_acquisition).                           *)
THEOREM NeverOversubscribed == Spec => []NoOversubscription
<1>1. IInv => NoOversubscription
  BY DEF IInv, Limits
<1> QED
  BY <1>1, AlwaysIInv, PTL

(* What the invariant says of one corrected work.                           *)
LEMMA CorrectedRow ==
    ASSUME IInv, NEW w \in Corrected
    PROVE  /\ w \in Works
           /\ RunsAlone(work[w], lease[w])
           /\ Disciplined(work[w], lease[w], finding[w])
           /\ Concluded(work[w], lease[w], finding[w])
<1>1. w \in Works /\ (lease[w] # <<>> => lease[w][1].authority # None)
  BY DEF Corrected
<1>2. RowOK(work[w], lease[w], finding[w]) /\ lease[w] \in Seq(Leases)
  BY <1>1, RowOf DEF IInv
<1>3. IsCorrected(lease[w])
  BY <1>1, <1>2 DEF IsCorrected
<1> QED
  BY <1>1, <1>2, <1>3 DEF RowOK, Sound

(* A lease runs exactly while its work is LEASED, and only the lease of the *)
(* current attempt: no closure or acquisition leaves half of itself behind. *)
THEOREM LeaseFollowsWork == Spec => []LeaseMatchesWork
<1>1. IInv => LeaseMatchesWork
  <2> SUFFICES ASSUME IInv, NEW w \in Corrected
               PROVE  ActiveLeases(w) = IF work[w].state = "LEASED"
                                        THEN {attempt(w)} ELSE {}
    BY DEF LeaseMatchesWork
  <2>1. w \in Works /\ RunsAlone(work[w], lease[w])
    BY CorrectedRow
  <2>2. DOMAIN lease[w] = 1 .. work[w].attempts /\ work[w].attempts \in Nat
    BY <2>1, RowOf DEF IInv
  <2>3. work[w].state = "LEASED" => work[w].attempts >= 1
    BY <2>1 DEF IInv, RowsOK, RowOK, Shaped
  <2> QED
    BY <2>1, <2>2, <2>3 DEF ActiveLeases, RunsAlone, attempt
<1> QED
  BY <1>1, AlwaysIInv, PTL

(* A retry follows a released, RETRYABLE attempt, after its backoff and     *)
(* within MaximumAttempts, and no renewal carries an attempt past its       *)
(* maximum, the deadline or the horizon of the retries.                     *)
THEOREM RetriesAreDisciplined == Spec => []RetryDiscipline
<1>1. IInv => RetryDiscipline
  <2> SUFFICES ASSUME IInv, NEW w \in Corrected, NEW k \in DOMAIN lease[w]
               PROVE  /\ k <= MaximumAttempts
                      /\ lease[w][k].acquired <= lease[w][k].expires
                      /\ lease[w][k].expires <= work[w].deadline
                      /\ lease[w][k].expires <= lease[w][k].acquired + MaximumLeaseSeconds
                      /\ k > 1 => RetryFollows(lease[w], finding[w], k - 1, k)
    BY DEF RetryDiscipline, RetryFollows
  <2>1. w \in Works /\ Disciplined(work[w], lease[w], finding[w])
    BY CorrectedRow
  <2>2. LeaseBounded(work[w], lease[w], k) /\ (k > 1 => RetryFollows(lease[w], finding[w], k - 1, k))
    BY <2>1 DEF Disciplined
  <2>3. lease[w][k] \in Leases
    BY <2>1, RowOf DEF IInv
  <2>4. /\ lease[w][k].acquired \in Nat /\ lease[w][k].expires \in Nat
        /\ lease[w][k].maximum \in Nat
    BY <2>3 DEF Leases
  <2> QED
    BY <2>2, <2>4, ProfileNumbers DEF LeaseBounded
<1> QED
  BY <1>1, AlwaysIInv, PTL

(* COMPLETED and RETRY_PENDING are the outcomes of attempts released while  *)
(* they held authority, and an orphaned attempt quarantines its work.       *)
THEOREM OutcomesHaveAuthority == Spec => []OutcomeHasAuthority
<1>1. IInv => OutcomeHasAuthority
  <2> SUFFICES ASSUME IInv, NEW w \in Corrected, attempt(w) > 0
               PROVE  LET l == lease[w][attempt(w)]
                      IN  /\ work[w].state \in {"COMPLETED", "RETRY_PENDING"} =>
                                /\ l.status = "RELEASED"
                                /\ l.closed \in l.acquired .. l.expires
                          /\ work[w].state = "RETRY_PENDING" =>
                                finding[w][attempt(w)].failed \in l.acquired .. l.closed
                          /\ l.status = "ORPHANED" => work[w].state = "QUARANTINED"
    BY DEF OutcomeHasAuthority
  <2>1. Concluded(work[w], lease[w], finding[w])
    BY CorrectedRow
  <2> QED
    BY <2>1 DEF Concluded, attempt
<1> QED
  BY <1>1, AlwaysIInv, PTL

-----------------------------------------------------------------------------
(* The batch.  An order is a set O of pairs; on a finite set it gives each  *)
(* member its place, by counting those before it, and so a sorted sequence. *)

StrictOrder(O, S) ==
    \A u, v, w \in S :
       /\ <<u, u>> \notin O
       /\ <<u, v>> \in O /\ <<v, w>> \in O => <<u, w>> \in O
       /\ u # v => <<u, v>> \in O \/ <<v, u>> \in O

Before(O, S, w) == {v \in S : <<v, w>> \in O}

InOrder(O, S, s) ==
    /\ s \in [1 .. Cardinality(S) -> S]
    /\ \A i, j \in 1 .. Cardinality(S) : i < j => <<s[i], s[j]>> \in O

LEMMA CountOfInterval ==
    ASSUME NEW i \in Nat, i > 0
    PROVE  IsFiniteSet(1 .. (i - 1)) /\ Cardinality(1 .. (i - 1)) = i - 1
<1> DEFINE k == i - 1
<1>1. k \in Nat /\ 1 \in Int /\ k \in Int
  OBVIOUS
<1> HIDE DEF k
<1>2. IsFiniteSet(1 .. k) /\ Cardinality(1 .. k) = k
  BY <1>1, FS_Interval
<1> QED
  BY <1>2 DEF k

LEMMA FewerBefore ==
    ASSUME NEW S, IsFiniteSet(S), NEW O, StrictOrder(O, S),
           NEW v \in S, NEW w \in S, <<v, w>> \in O
    PROVE  /\ Cardinality(Before(O, S, v)) \in Nat
           /\ Cardinality(Before(O, S, w)) \in Nat
           /\ Cardinality(Before(O, S, v)) < Cardinality(Before(O, S, w))
<1>1. Before(O, S, v) \subseteq Before(O, S, w) /\ v \in Before(O, S, w)
      /\ v \notin Before(O, S, v)
  BY DEF StrictOrder, Before
<1>2. IsFiniteSet(Before(O, S, w)) /\ IsFiniteSet(Before(O, S, v))
  <2>1. Before(O, S, w) \in SUBSET S /\ Before(O, S, v) \in SUBSET S
    BY DEF Before
  <2> QED
    BY <2>1, FS_Subset
<1>3. Cardinality(Before(O, S, v)) \in Nat /\ Cardinality(Before(O, S, w)) \in Nat
  BY <1>2, FS_CardinalityType
<1>4. Before(O, S, v) \in SUBSET Before(O, S, w)
  BY <1>1
<1>5. /\ Cardinality(Before(O, S, v)) <= Cardinality(Before(O, S, w))
      /\ Cardinality(Before(O, S, w)) # Cardinality(Before(O, S, v))
  BY <1>1, <1>2, <1>4, FS_Subset
<1> QED
  BY <1>3, <1>5

(* The places are 1 to Cardinality(S), each taken once.                     *)
LEMMA PlacesAreTaken ==
    ASSUME NEW S, IsFiniteSet(S), NEW O, StrictOrder(O, S)
    PROVE  LET place == [w \in S |-> Cardinality(Before(O, S, w)) + 1]
           IN  /\ place \in [S -> 1 .. Cardinality(S)]
               /\ \A i \in 1 .. Cardinality(S) : \E w \in S : place[w] = i
<1> DEFINE place == [w \in S |-> Cardinality(Before(O, S, w)) + 1]
           N == Cardinality(S)
<1>0. N \in Nat
  BY FS_CardinalityType
<1>1. ASSUME NEW w \in S PROVE place[w] \in 1 .. N
  <2>1. Before(O, S, w) \in SUBSET S /\ w \notin Before(O, S, w)
    BY DEF Before, StrictOrder
  <2>2. /\ IsFiniteSet(Before(O, S, w))
        /\ Cardinality(Before(O, S, w)) <= N
        /\ Cardinality(Before(O, S, w)) # N
    BY <2>1, FS_Subset
  <2>3. Cardinality(Before(O, S, w)) \in Nat
    BY <2>2, FS_CardinalityType
  <2> QED
    BY <1>0, <2>2, <2>3
<1>2. place \in [S -> 1 .. N]
  BY <1>1
<1>3. ASSUME NEW v \in S, NEW w \in S, place[v] = place[w] PROVE v = w
  <2>1. ASSUME NEW a \in S, NEW b \in S, <<a, b>> \in O PROVE place[a] # place[b]
    BY <2>1, FewerBefore
  <2> QED
    BY <1>3, <2>1 DEF StrictOrder
<1>4. place \in Injection(S, 1 .. N)
  BY <1>2, <1>3 DEF Injection, IsInjective
<1>5. IsFiniteSet(1 .. N) /\ Cardinality(1 .. N) = N
  BY <1>0, FS_Interval
<1>6. place \in Surjection(S, 1 .. N)
  BY <1>4, <1>5, FS_Injection
<1> QED
  BY <1>2, <1>6 DEF Surjection

LEMMA SortedExists ==
    ASSUME NEW S, IsFiniteSet(S), NEW O, StrictOrder(O, S)
    PROVE  \E s : InOrder(O, S, s)
<1> DEFINE N == Cardinality(S)
           place == [w \in S |-> Cardinality(Before(O, S, w)) + 1]
           s == [i \in 1 .. N |-> CHOOSE w \in S : place[w] = i]
<1>1. ASSUME NEW i \in 1 .. N PROVE s[i] \in S /\ place[s[i]] = i
  <2>1. \E w \in S : place[w] = i
    BY PlacesAreTaken
  <2> HIDE DEF place
  <2> QED
    BY <2>1
<1>2. ASSUME NEW i \in 1 .. N, NEW j \in 1 .. N, i < j PROVE <<s[i], s[j]>> \in O
  <2>1. s[i] \in S /\ s[j] \in S /\ place[s[i]] = i /\ place[s[j]] = j
    BY <1>1
  <2> HIDE DEF s
  <2>2. s[i] # s[j]
    BY <1>2, <2>1
  <2>3. CASE <<s[j], s[i]>> \in O
    <3>1. /\ Cardinality(Before(O, S, s[i])) \in Nat
          /\ Cardinality(Before(O, S, s[j])) \in Nat
          /\ Cardinality(Before(O, S, s[j])) < Cardinality(Before(O, S, s[i]))
      BY <2>1, <2>3, FewerBefore
    <3>2. Cardinality(Before(O, S, s[i])) + 1 = i /\ Cardinality(Before(O, S, s[j])) + 1 = j
      BY <2>1
    <3> QED
      BY <1>2, <3>1, <3>2
  <2> QED
    BY <2>1, <2>2, <2>3 DEF StrictOrder
<1>3. s \in [1 .. N -> S]
  BY <1>1
<1>4. InOrder(O, S, s)
  <2> HIDE DEF s
  <2> QED
    BY <1>2, <1>3 DEF InOrder
<1> QED
  BY <1>4

(* A sorted sequence has each member once, after those that precede it.     *)
LEMMA SortedPlaces ==
    ASSUME NEW S, IsFiniteSet(S), NEW O, StrictOrder(O, S), NEW s, InOrder(O, S, s)
    PROVE  /\ \A i, j \in 1 .. Cardinality(S) : s[i] = s[j] => i = j
           /\ \A w \in S : \E i \in 1 .. Cardinality(S) : s[i] = w
           /\ \A i \in 1 .. Cardinality(S) : Cardinality(Before(O, S, s[i])) = i - 1
<1> DEFINE N == Cardinality(S)
<1>0. N \in Nat
  BY FS_CardinalityType
<1>1. ASSUME NEW i \in 1 .. N, NEW j \in 1 .. N, s[i] = s[j] PROVE i = j
  <2>1. s[i] \in S /\ <<s[i], s[i]>> \notin O /\ <<s[j], s[j]>> \notin O
    BY <1>1 DEF InOrder, StrictOrder
  <2>2. ~ (i < j) /\ ~ (j < i)
    BY <1>1, <2>1 DEF InOrder
  <2> QED
    BY <1>0, <2>2
<1>2. s \in Surjection(1 .. N, S)
  <2>1. s \in Injection(1 .. N, S)
    BY <1>1 DEF InOrder, Injection, IsInjective
  <2>2. Cardinality(1 .. N) = N
    BY <1>0, FS_Interval
  <2> QED
    BY <2>1, <2>2, FS_Injection
<1>3. ASSUME NEW w \in S PROVE \E i \in 1 .. N : s[i] = w
  BY <1>2 DEF Surjection
<1>4. ASSUME NEW i \in 1 .. N PROVE Cardinality(Before(O, S, s[i])) = i - 1
  <2> DEFINE B == Before(O, S, s[i])
             J == 1 .. (i - 1)
             f == [j \in J |-> s[j]]
  <2>1. ASSUME NEW j \in J PROVE f[j] \in B
    <3>1. j \in 1 .. N /\ j < i
      BY <1>0
    <3> QED
      BY <3>1 DEF InOrder, Before
  <2>2. ASSUME NEW w \in B PROVE \E j \in J : f[j] = w
    <3>1. w \in S /\ <<w, s[i]>> \in O
      BY DEF Before
    <3>2. PICK j \in 1 .. N : s[j] = w
      BY <1>3, <3>1
    <3>3. ~ (i < j) /\ i # j
      BY <3>1, <3>2 DEF InOrder, StrictOrder
    <3>4. j \in J
      BY <1>0, <3>3
    <3> QED
      BY <3>2, <3>4
  <2>3. ASSUME NEW j \in J, NEW k \in J, f[j] = f[k] PROVE j = k
    BY <1>0, <1>1, <2>3
  <2>4. f \in [J -> B]
    BY <2>1
  <2>5. f \in Bijection(J, B)
    <3> HIDE DEF f, B
    <3> QED
      BY <2>2, <2>3, <2>4 DEF Bijection, Injection, Surjection, IsInjective
  <2>6. IsFiniteSet(J) /\ Cardinality(J) = i - 1
    BY <1>0, CountOfInterval
  <2> QED
    BY <2>5, <2>6, FS_Bijection DEF ExistsBijection
<1> QED
  BY <1>1, <1>3, <1>4

(* A sequence without repetition has as many members as places.             *)
LEMMA CountOfSequence ==
    ASSUME NEW n \in Nat, NEW s, DOMAIN s = 1 .. n,
           \A i, j \in 1 .. n : s[i] = s[j] => i = j
    PROVE  Cardinality(ToSet(s)) = n
<1>1. [i \in 1 .. n |-> s[i]] \in Bijection(1 .. n, ToSet(s))
  BY DEF ToSet, Bijection, Injection, Surjection, IsInjective
<1>2. IsFiniteSet(1 .. n) /\ Cardinality(1 .. n) = n
  BY FS_Interval
<1> QED
  BY <1>1, <1>2, FS_Bijection DEF ExistsBijection

(* A non-empty set of places has a last one.                                *)
LEMMA LastPlace ==
    ASSUME NEW n \in Nat, NEW P, P \subseteq 1 .. n, P # {}
    PROVE  Max(P) \in P
<1> DEFINE T == {n - i : i \in P}
<1>1. PICK e \in P : TRUE
  OBVIOUS
<1>2. T \in SUBSET Nat /\ n - e \in T
  OBVIOUS
<1>3. Min(T) \in T /\ \A y \in T : Min(T) <= y
  BY <1>2, MinOfSet
<1>4. PICK m \in P : Min(T) = n - m
  BY <1>3
<1>5. ASSUME NEW i \in P PROVE m >= i
  <2>1. n - i \in T
    OBVIOUS
  <2>2. n - m <= n - i
    BY <1>3, <1>4, <2>1
  <2> QED
    BY <2>2
<1> QED
  BY <1>4, <1>5 DEF Max

(* The two orders of due_work.                                              *)

LEMMA KeysAreOrdered ==
    ASSUME NEW a1 \in Nat, NEW a2 \in Nat, NEW a3 \in Nat,
           NEW b1 \in Nat, NEW b2 \in Nat, NEW b3 \in Nat
    PROVE  Precedes(<<a1, a2, a3>>, <<b1, b2, b3>>)
              <=> \/ a1 < b1
                  \/ a1 = b1 /\ a2 < b2
                  \/ a1 = b1 /\ a2 = b2 /\ a3 < b3
<1> DEFINE a == <<a1, a2, a3>>  b == <<b1, b2, b3>>
           P(i) == a[i] < b[i] /\ \A j \in 1 .. (i - 1) : a[j] = b[j]
<1>1. P(1) <=> a1 < b1
  OBVIOUS
<1>2. P(2) <=> a1 = b1 /\ a2 < b2
  <2>1. 1 .. (2 - 1) = {1}
    OBVIOUS
  <2> QED
    BY <2>1
<1>3. P(3) <=> a1 = b1 /\ a2 = b2 /\ a3 < b3
  <2>1. 1 .. (3 - 1) = {1, 2}
    OBVIOUS
  <2> QED
    BY <2>1
<1>4. Precedes(a, b) <=> P(1) \/ P(2) \/ P(3)
  <2>1. Precedes(a, b) <=> \E i \in 1 .. 3 : P(i)
    BY DEF Precedes
  <2>2. 1 .. 3 = {1, 2, 3}
    OBVIOUS
  <2> HIDE DEF P
  <2> QED
    BY <2>1, <2>2
<1> QED
  BY <1>1, <1>2, <1>3, <1>4

LEMMA KeysAreNotLess ==
    ASSUME NEW a1 \in Nat, NEW a2 \in Nat, NEW a3 \in Nat,
           NEW b1 \in Nat, NEW b2 \in Nat, NEW b3 \in Nat,
           Precedes(<<a1, a2, a3>>, <<b1, b2, b3>>)
    PROVE  a1 <= b1
<1>1. a1 < b1 \/ a1 = b1
  BY KeysAreOrdered
<1> QED
  BY <1>1

LEMMA PriorityIsNat == ASSUME NEW w \in Works PROVE Priority(w) \in Nat
<1>1. urgency[w] \in ToSet(Urgencies)
  BY QueueAssumption
<1>2. \E i \in DOMAIN Urgencies : Urgencies[i] = urgency[w]
  BY <1>1 DEF ToSet
<1>3. DOMAIN Urgencies \subseteq Nat
  BY DEF Urgencies
<1> QED
  BY <1>2, <1>3 DEF Priority

PriorityOrder(S) == {p \in S \X S : ByPriority(p[1], p[2])}
WaitingOrder(S)  == {p \in S \X S : ByWaiting(p[1], p[2])}

LEMMA RowNumbers ==
    ASSUME TypeOK, NEW w \in Works
    PROVE  work[w].due \in Nat /\ work[w].deadline \in Nat /\ w \in Nat
BY QueueAssumption DEF TypeOK

(* An order by two numbers and then by identity is strict and total.        *)
LEMMA KeysGiveOrder ==
    ASSUME NEW S \in SUBSET Nat, NEW f \in [S -> Nat], NEW g \in [S -> Nat], NEW O,
           \A u, v \in S : <<u, v>> \in O
                              <=> Precedes(<<f[u], g[u], u>>, <<f[v], g[v], v>>)
    PROVE  StrictOrder(O, S)
<1>1. \A u, v \in S : <<u, v>> \in O
                          <=> \/ f[u] < f[v]
                              \/ f[u] = f[v] /\ g[u] < g[v]
                              \/ f[u] = f[v] /\ g[u] = g[v] /\ u < v
  <2> TAKE u, v \in S
  <2>1. f[u] \in Nat /\ g[u] \in Nat /\ u \in Nat /\ f[v] \in Nat /\ g[v] \in Nat /\ v \in Nat
    OBVIOUS
  <2>2. Precedes(<<f[u], g[u], u>>, <<f[v], g[v], v>>)
           <=> \/ f[u] < f[v]
               \/ f[u] = f[v] /\ g[u] < g[v]
               \/ f[u] = f[v] /\ g[u] = g[v] /\ u < v
    BY <2>1, KeysAreOrdered
  <2> QED
    BY <2>2
<1>2. ASSUME NEW u \in S, NEW v \in S, NEW w \in S
      PROVE  /\ <<u, u>> \notin O
             /\ <<u, v>> \in O /\ <<v, w>> \in O => <<u, w>> \in O
             /\ u # v => <<u, v>> \in O \/ <<v, u>> \in O
  <2>1. \A x \in S : f[x] \in Nat /\ g[x] \in Nat /\ x \in Nat
    OBVIOUS
  <2> QED
    BY <1>1, <2>1
<1> QED
  BY <1>2 DEF StrictOrder

LEMMA OrdersAreStrict ==
    ASSUME TypeOK, NEW S \in SUBSET Works
    PROVE  /\ StrictOrder(PriorityOrder(S), S)
           /\ StrictOrder(WaitingOrder(S), S)
<1> DEFINE p == [w \in S |-> Priority(w)]
           d == [w \in S |-> work[w].deadline]
           q == [w \in S |-> work[w].due]
<1>1. S \in SUBSET Nat /\ p \in [S -> Nat] /\ d \in [S -> Nat] /\ q \in [S -> Nat]
  BY RowNumbers, PriorityIsNat
<1>2. \A u, v \in S : <<u, v>> \in PriorityOrder(S)
                          <=> Precedes(<<p[u], d[u], u>>, <<p[v], d[v], v>>)
  BY DEF PriorityOrder, ByPriority
<1>3. \A u, v \in S : <<u, v>> \in WaitingOrder(S)
                          <=> Precedes(<<q[u], d[u], u>>, <<q[v], d[v], v>>)
  BY DEF WaitingOrder, ByWaiting
<1> HIDE DEF p, d, q
<1> QED
  BY <1>1, <1>2, <1>3, KeysGiveOrder

(* ready.sort puts every ready work at its place.                           *)
LEMMA SortedIsInOrder ==
    ASSUME TypeOK, NEW S \in SUBSET Works
    PROVE  IsFiniteSet(S) /\ InOrder(PriorityOrder(S), S, Sorted(S))
<1>1. IsFiniteSet(S)
  BY QueueAssumption, FS_Subset
<1>2. PICK s : InOrder(PriorityOrder(S), S, s)
  BY <1>1, OrdersAreStrict, SortedExists
<1> DEFINE N == Cardinality(S)
           Sorting(t) == \A i, j \in DOMAIN t : i < j => ByPriority(t[i], t[j])
<1>3. ASSUME NEW t \in [1 .. N -> S]
      PROVE  Sorting(t) <=> InOrder(PriorityOrder(S), S, t)
  <2>1. DOMAIN t = 1 .. N /\ \A i \in 1 .. N : t[i] \in S
    OBVIOUS
  <2>2. \A i, j \in 1 .. N : <<t[i], t[j]>> \in PriorityOrder(S) <=> ByPriority(t[i], t[j])
    BY <2>1 DEF PriorityOrder
  <2> QED
    BY <2>1, <2>2 DEF InOrder
<1>4. s \in [1 .. N -> S] /\ Sorting(s)
  BY <1>2, <1>3 DEF InOrder
<1>5. Sorted(S) = CHOOSE t \in [1 .. N -> S] : Sorting(t)
  BY DEF Sorted
<1> HIDE DEF Sorting
<1>6. Sorted(S) \in [1 .. N -> S] /\ Sorting(Sorted(S))
  BY <1>4, <1>5
<1> QED
  BY <1>1, <1>3, <1>6

(* starved[0]: the order by waiting has a first.                            *)
LEMMA LongestStarvedIsFirst ==
    ASSUME TypeOK, NEW now, Starved(now) # {}
    PROVE  /\ LongestStarved(now) \in Starved(now)
           /\ \A v \in Starved(now) : work[LongestStarved(now)].due <= work[v].due
<1> DEFINE S == Starved(now)
           O == WaitingOrder(S)
<1>1. S \in SUBSET Works
  BY DEF Starved, ReadyAt
<1>2. IsFiniteSet(S)
  BY <1>1, QueueAssumption, FS_Subset
<1>3. StrictOrder(O, S)
  BY <1>1, OrdersAreStrict
<1>4. PICK s : InOrder(O, S, s)
  BY <1>2, <1>3, SortedExists
<1>5. PICK e \in S : TRUE
  OBVIOUS
<1>6. /\ Cardinality(S) \in Nat
      /\ \A w \in S : \E i \in 1 .. Cardinality(S) : s[i] = w
  BY <1>2, <1>3, <1>4, SortedPlaces, FS_CardinalityType
<1>7. 1 \in 1 .. Cardinality(S)
  BY <1>5, <1>6
<1>8. s[1] \in S /\ \A v \in S \ {s[1]} : ByWaiting(s[1], v)
  <2>1. s[1] \in S
    BY <1>4, <1>7 DEF InOrder
  <2>2. ASSUME NEW v \in S \ {s[1]} PROVE ByWaiting(s[1], v)
    <3>1. PICK i \in 1 .. Cardinality(S) : s[i] = v
      BY <1>6
    <3>2. 1 < i
      BY <1>6, <3>1
    <3>3. <<s[1], v>> \in O
      BY <1>4, <1>7, <3>1, <3>2 DEF InOrder
    <3> QED
      BY <3>3 DEF WaitingOrder
  <2> QED
    BY <2>1, <2>2
<1>9. /\ LongestStarved(now) \in S
      /\ \A v \in S \ {LongestStarved(now)} : ByWaiting(LongestStarved(now), v)
  BY <1>8 DEF LongestStarved
<1>10. ASSUME NEW v \in S PROVE work[LongestStarved(now)].due <= work[v].due
  <2>1. PICK l \in S : l = LongestStarved(now)
    BY <1>9
  <2>2. /\ work[l].due \in Nat /\ work[l].deadline \in Nat /\ l \in Nat
        /\ work[v].due \in Nat /\ work[v].deadline \in Nat /\ v \in Nat
    BY <1>1, RowNumbers
  <2>3. v # l => Precedes(<<work[l].due, work[l].deadline, l>>,
                          <<work[v].due, work[v].deadline, v>>)
    BY <1>9, <2>1 DEF ByWaiting
  <2>4. v # l => work[l].due <= work[v].due
    BY <2>2, <2>3, KeysAreNotLess
  <2> QED
    BY <2>1, <2>2, <2>4
<1> QED
  BY <1>9, <1>10

(* The plain order, before the fairness slot: the first n ready works.      *)
Offer(now) == Min({CatchUpItems, Cardinality(ReadyAt(now))})
Selected(now) == SubSeq(Sorted(ReadyAt(now)), 1, Offer(now))
Ahead(now, w) == {v \in ReadyAt(now) : ByPriority(v, w)}
First(now) == {w \in ReadyAt(now) : Cardinality(Ahead(now, w)) < Offer(now)}

LEMMA SelectedIsFirst ==
    ASSUME TypeOK, NEW now
    PROVE  /\ Offer(now) \in Nat
           /\ Selected(now) \in [1 .. Offer(now) -> ReadyAt(now)]
           /\ Len(Sorted(ReadyAt(now))) = Cardinality(ReadyAt(now))
           /\ \A i, j \in 1 .. Offer(now) : Selected(now)[i] = Selected(now)[j] => i = j
           /\ \A w \in First(now) : \E i \in 1 .. Offer(now) : Selected(now)[i] = w
<1> DEFINE S == ReadyAt(now)
           N == Cardinality(S)
           n == Offer(now)
           s == Sorted(S)
           O == PriorityOrder(S)
<1>1. S \in SUBSET Works
  BY DEF ReadyAt
<1>2. IsFiniteSet(S) /\ InOrder(O, S, s) /\ StrictOrder(O, S)
  BY <1>1, SortedIsInOrder, OrdersAreStrict
<1>3. N \in Nat
  BY <1>2, FS_CardinalityType
<1>4. n \in Nat /\ n <= N
  BY <1>3, ProfileNumbers, MinOfTwo DEF Offer
<1>5. /\ \A i, j \in 1 .. N : s[i] = s[j] => i = j
      /\ \A w \in S : \E i \in 1 .. N : s[i] = w
      /\ \A i \in 1 .. N : Cardinality(Before(O, S, s[i])) = i - 1
  BY <1>2, SortedPlaces
<1>6. s \in [1 .. N -> S]
  BY <1>2 DEF InOrder
<1>7. s \in Seq(S) /\ Len(s) = N
  <2> HIDE DEF s, S, N
  <2> QED
    BY <1>3, <1>6
<1>8. /\ Selected(now) \in [1 .. n -> S]
      /\ \A i \in 1 .. n : Selected(now)[i] = s[i]
  <2>1. /\ SubSeq(s, 1, n) = [i \in 1 .. n |-> s[i]]
        /\ \A i \in 1 .. n : s[i] \in S
    <3> HIDE DEF s, S, N, n
    <3> QED
      BY <1>3, <1>4, <1>6, <1>7
  <2> QED
    BY <2>1 DEF Selected
<1>9. ASSUME NEW w \in First(now) PROVE \E i \in 1 .. n : Selected(now)[i] = w
  <2>1. w \in S /\ Cardinality(Ahead(now, w)) < n
    BY DEF First
  <2>2. PICK i \in 1 .. N : s[i] = w
    BY <1>5, <2>1
  <2>3. Ahead(now, w) = Before(O, S, w)
    BY <2>1 DEF Ahead, Before, PriorityOrder
  <2>4. i - 1 < n
    BY <1>5, <2>1, <2>2, <2>3
  <2>5. i \in 1 .. n
    BY <1>3, <1>4, <2>4
  <2> QED
    BY <1>8, <2>2, <2>5
<1>10. ASSUME NEW i \in 1 .. n, NEW j \in 1 .. n, Selected(now)[i] = Selected(now)[j]
       PROVE  i = j
  <2>1. i \in 1 .. N /\ j \in 1 .. N
    BY <1>3, <1>4
  <2> QED
    BY <1>5, <1>8, <1>10, <2>1
<1> QED
  BY <1>4, <1>7, <1>8, <1>9, <1>10

(* What FairBatch asks of a batch b of n works.                             *)
Fair(now, n, b) ==
    /\ Len(b) = n /\ Cardinality(ToSet(b)) = n
    /\ ToSet(b) \subseteq ReadyAt(now)
    /\ {urgency[w] : w \in First(now)} \ {"ROUTINE"} \subseteq {urgency[w] : w \in ToSet(b)}
    /\ \A w \in Starved(now) \ ToSet(b) :
          \/ \E v \in Starved(now) \cap ToSet(b) : work[v].due <= work[w].due
          \/ /\ "ROUTINE" \notin {urgency[v] : v \in ToSet(b)}
             /\ Cardinality({urgency[v] : v \in ToSet(b)}) = n

(* The plain order is kept when nobody starves, the longest starved is in   *)
(* it, or every slot is the only one of a higher class.                     *)
LEMMA PlainBatchIsFair ==
    ASSUME TypeOK, NEW now,
           \/ Starved(now) = {}
           \/ LongestStarved(now) \in ToSet(Selected(now))
           \/ Replaceable(Selected(now)) = {}
    PROVE  Fair(now, Offer(now), Selected(now))
<1> DEFINE n == Offer(now)
           b == Selected(now)
<1>1. /\ n \in Nat
      /\ b \in [1 .. n -> ReadyAt(now)]
      /\ \A i, j \in 1 .. n : b[i] = b[j] => i = j
      /\ \A w \in First(now) : \E i \in 1 .. n : b[i] = w
  BY SelectedIsFirst
<1> HIDE DEF n, b
<1>2. DOMAIN b = 1 .. n /\ Len(b) = n
  BY <1>1
<1>3. Cardinality(ToSet(b)) = n
  BY <1>1, <1>2, CountOfSequence
<1>4. ToSet(b) \subseteq ReadyAt(now) /\ First(now) \subseteq ToSet(b)
  BY <1>1, <1>2 DEF ToSet
<1>5. ASSUME NEW w \in Starved(now) \ ToSet(b),
             LongestStarved(now) \in ToSet(b)
      PROVE  \E v \in Starved(now) \cap ToSet(b) : work[v].due <= work[w].due
  BY <1>5, LongestStarvedIsFirst
<1>6. ASSUME Replaceable(b) = {}
      PROVE  /\ "ROUTINE" \notin {urgency[v] : v \in ToSet(b)}
             /\ Cardinality({urgency[v] : v \in ToSet(b)}) = n
  <2> DEFINE c == [i \in 1 .. n |-> urgency[b[i]]]
  <2>1. \A i \in 1 .. n : /\ urgency[b[i]] # "ROUTINE"
                          /\ \A j \in 1 .. n : urgency[b[i]] = urgency[b[j]] => i = j
    BY <1>2, <1>6 DEF Replaceable
  <2>2. DOMAIN c = 1 .. n /\ \A i, j \in 1 .. n : c[i] = c[j] => i = j
    BY <2>1
  <2>3. Cardinality(ToSet(c)) = n
    <3> HIDE DEF c
    <3> QED
      BY <1>1, <2>2, CountOfSequence
  <2>4. ToSet(c) = {urgency[v] : v \in ToSet(b)}
    BY <1>2 DEF ToSet
  <2> QED
    BY <1>2, <2>1, <2>3, <2>4 DEF ToSet
<1>7. ASSUME NEW w \in Starved(now) \ ToSet(b)
      PROVE  \/ \E v \in Starved(now) \cap ToSet(b) : work[v].due <= work[w].due
             \/ /\ "ROUTINE" \notin {urgency[v] : v \in ToSet(b)}
                /\ Cardinality({urgency[v] : v \in ToSet(b)}) = n
  <2>1. LongestStarved(now) \in ToSet(b) \/ Replaceable(b) = {}
    BY DEF b
  <2> QED
    BY <1>5, <1>6, <2>1
<1>8. {urgency[w] : w \in First(now)} \ {"ROUTINE"} \subseteq {urgency[w] : w \in ToSet(b)}
  BY <1>4
<1>9. Fair(now, n, b)
  BY <1>2, <1>3, <1>4, <1>7, <1>8 DEF Fair
<1> QED
  BY <1>9 DEF n, b

(* The fairness slot takes the place of a routine work or of one of several *)
(* of a class.                                                              *)
LEMMA SlotIsFair ==
    ASSUME TypeOK, NEW now,
           Starved(now) # {},
           LongestStarved(now) \notin ToSet(Selected(now)),
           Replaceable(Selected(now)) # {}
    PROVE  Fair(now, Offer(now),
                [Selected(now) EXCEPT ![Max(Replaceable(Selected(now)))] = LongestStarved(now)])
<1> DEFINE n == Offer(now)
           s == Selected(now)
           m == Max(Replaceable(s))
           l == LongestStarved(now)
           b == [s EXCEPT ![m] = l]
<1>1. /\ n \in Nat
      /\ s \in [1 .. n -> ReadyAt(now)]
      /\ \A i, j \in 1 .. n : s[i] = s[j] => i = j
      /\ \A w \in First(now) : \E i \in 1 .. n : s[i] = w
  BY SelectedIsFirst
<1>2. l \in Starved(now) /\ \A v \in Starved(now) : work[l].due <= work[v].due
  BY LongestStarvedIsFirst
<1>3. l \in ReadyAt(now)
  BY <1>2 DEF Starved
<1>4. l \notin ToSet(s) /\ Replaceable(s) # {}
  OBVIOUS
<1> HIDE DEF n, s, l
<1>5. DOMAIN s = 1 .. n
  BY <1>1
<1>6. Replaceable(s) \subseteq 1 .. n
  BY <1>5 DEF Replaceable
<1>7. m \in Replaceable(s)
  BY <1>1, <1>4, <1>6, LastPlace
<1> HIDE DEF m
<1>8. m \in 1 .. n
  BY <1>6, <1>7
<1>9. /\ b \in [1 .. n -> ReadyAt(now)]
      /\ b[m] = l
      /\ \A i \in 1 .. n : i # m => b[i] = s[i]
  BY <1>1, <1>3, <1>8
<1> HIDE DEF b
<1>10. DOMAIN b = 1 .. n /\ Len(b) = n
  BY <1>1, <1>9
<1>11. \A i \in 1 .. n : s[i] # l
  BY <1>4, <1>5 DEF ToSet
<1>12. \A i, j \in 1 .. n : b[i] = b[j] => i = j
  BY <1>1, <1>9, <1>11
<1>13. Cardinality(ToSet(b)) = n
  BY <1>1, <1>10, <1>12, CountOfSequence
<1>14. ToSet(b) \subseteq ReadyAt(now) /\ l \in ToSet(b)
  BY <1>8, <1>9, <1>10 DEF ToSet
<1>15. ASSUME NEW w \in First(now), urgency[w] # "ROUTINE"
       PROVE  \E v \in ToSet(b) : urgency[v] = urgency[w]
  <2>1. PICK i \in 1 .. n : s[i] = w
    BY <1>1
  <2>2. \E j \in 1 .. n : j # m /\ urgency[s[j]] = urgency[w]
    <3>1. CASE i # m
      BY <2>1, <3>1
    <3>2. CASE i = m
      BY <1>5, <1>7, <1>15, <2>1, <3>2 DEF Replaceable
    <3> QED
      BY <3>1, <3>2
  <2> QED
    BY <1>9, <1>10, <2>2 DEF ToSet
<1>16. {urgency[w] : w \in First(now)} \ {"ROUTINE"} \subseteq {urgency[w] : w \in ToSet(b)}
  BY <1>15
<1>17. Fair(now, n, b)
  BY <1>2, <1>10, <1>13, <1>14, <1>16 DEF Fair
<1> QED
  BY <1>17 DEF n, s, m, l, b

(* Whatever the rows, the batch due_work offers is of ready work without    *)
(* repetition and as long as it may be; the fairness slot serves the        *)
(* longest starved routine work and drops no higher class.                  *)
THEOREM BatchIsFair == Spec => []FairBatch
<1>1. TypeOK => FairBatch
  <2> SUFFICES ASSUME TypeOK, NEW now \in Instants
               PROVE  Fair(now, Offer(now), due_work(now))
    BY DEF FairBatch, Fair, Offer, First, Ahead
  <2>1. Len(Sorted(ReadyAt(now))) = Cardinality(ReadyAt(now))
    BY SelectedIsFirst
  <2>2. due_work(now) =
           IF \/ Starved(now) = {}
              \/ LongestStarved(now) \in ToSet(Selected(now))
              \/ Replaceable(Selected(now)) = {}
           THEN Selected(now)
           ELSE [Selected(now) EXCEPT ![Max(Replaceable(Selected(now)))] = LongestStarved(now)]
    BY <2>1 DEF due_work, Selected, Offer
  <2> QED
    BY <2>2, PlainBatchIsFair, SlotIsFair
<1> QED
  BY <1>1, TypeCorrect, PTL
=============================================================================
