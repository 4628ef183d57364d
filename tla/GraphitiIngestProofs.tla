------------------------ MODULE GraphitiIngestProofs ------------------------
(***************************************************************************)
(* Proofs about GraphitiIngest, for any number of workers, units, attempts *)
(* and faults.                                                             *)
(*                                                                         *)
(* That the ledger counts what was charged is not inductive.  The argument *)
(* is about who may still write the row of an attempt: two workers that    *)
(* are past the claim of one attempt, or one that is and one that reserved *)
(* it, make the attempt a shared one (HoldersOK), so a worker that settles *)
(* an attempt which is not shared finds the row as its claim left it       *)
(* (ClaimsOK), and its result covers the charge (SettlesOK).  A result     *)
(* replayed from another attempt does so too, since charges stop at the    *)
(* attempt the journal names (JournalOK) and nothing behind a newer row is *)
(* open (RowsOK).                                                          *)
(*                                                                         *)
(* The ceiling is a statement about a total, and its proof needs what the  *)
(* fold that computes it returns; that comes last, from cardinalities.     *)
(***************************************************************************)
EXTENDS GraphitiIngest, FiniteSetTheorems, WellFoundedInduction, TLAPS

\* Places at which a worker holds an attempt; inside the fence; past the claim.
Busy == {"read", "reserved", "claimed", "calling", "called", "settle"}
Inside == {"claimed", "calling", "called"}
Past == Inside \cup {"settle"}

\* The attempt has a spend row; it is open; the unit's predecessor is ingested.
Spent(u, n) == spend[u][n].status # "NONE"
OpenAt(u, n) == spend[u][n].status = "RESERVED" /\ <<u, n>> \notin receipt
Ready(u) == Pred[u] = None \/ Pred[u] \in ingested

\* What a worker holds at each place; the fence is held exactly inside it.
PlacesOK ==
  \A w \in Workers :
    /\ pc[w] \in Busy <=> loc[w].u \in Units
    /\ pc[w] \in Busy => loc[w].n \in Attempts
    /\ loc[w].reserved => pc[w] \in Busy \ {"read"}
    /\ fence = w <=> pc[w] \in Inside

\* No charge and no receipt without a row; nothing behind a missing row or an
\* open one, so rows have no gap and only the last can be open.
RowsOK ==
  \A u \in Units, n \in Attempts :
    /\ ~Spent(u, n) => charged[u][n] = 0 /\ <<u, n>> \notin receipt
    /\ ~Spent(u, n) \/ OpenAt(u, n) => \A k \in Attempts : k > n => ~Spent(u, k)

\* From the reservation on, the attempt has a row.
WorkOK ==
  \A w \in Workers : pc[w] \in Busy \ {"read"} => Spent(loc[w].u, loc[w].n)

\* An attempt number that was read stays usable: every attempt below it has a
\* row, and none of them is open.
ReadOK ==
  \A w \in Workers : pc[w] = "read" =>
    \A k \in Attempts : k < loc[w].n => Spent(loc[w].u, k) /\ ~OpenAt(loc[w].u, k)

\* The journal names the last attempt that was charged for, and a reported
\* usage in it is what was charged.
JournalOK ==
  \A u \in Units :
    /\ journal[u].st = "NONE" <=> journal[u].att = 0
    /\ journal[u].att # 0 => Spent(u, journal[u].att)
    /\ \A n \in Attempts :
         charged[u][n] <= R /\ (n > journal[u].att => charged[u][n] = 0)
    /\ journal[u].att # 0 /\ journal[u].use.rep
         => charged[u][journal[u].att] = journal[u].use.cost

\* During a call the journal is pending at this attempt.
CallsOK ==
  \A w \in Workers : pc[w] \in {"calling", "called"} =>
    /\ journal[loc[w].u].st = "PENDING" /\ journal[loc[w].u].att = loc[w].n
    /\ pc[w] = "called" => journal[loc[w].u].use = loc[w].res.use
    /\ loc[w].res.use.rep => charged[loc[w].u][loc[w].n] = loc[w].res.use.cost

\* A terminal result is the sealed one of the journal.
TerminalOK ==
  \A w \in Workers : pc[w] = "settle" /\ loc[w].res.kind = "terminal" =>
    /\ journal[loc[w].u].st = "COMPLETE"
    /\ loc[w].res.at = journal[loc[w].u].att
    /\ loc[w].res.use = journal[loc[w].u].use

\* Two holders of one attempt, one of them past the claim, make it shared.
HoldersOK ==
  \A w, x \in Workers :
    /\ w # x /\ loc[w].u = loc[x].u /\ loc[w].n = loc[x].n
    /\ pc[w] \in Past /\ (loc[x].reserved \/ pc[x] \in Past)
    => <<loc[w].u, loc[w].n>> \in shared

\* An attempt that was claimed and is not shared is still reserved, unless it
\* was settled with the sealed success of its unit.
ClaimsOK ==
  \A w \in Workers : pc[w] \in Past =>
    \/ <<loc[w].u, loc[w].n>> \in shared
    \/ spend[loc[w].u][loc[w].n].status = "RESERVED"
    \/ <<loc[w].u, loc[w].n>> \in receipt /\ journal[loc[w].u].st = "COMPLETE"

\* A reservation its worker may still give back has not been charged.
UnusedOK ==
  \A w \in Workers : loc[w].reserved /\ pc[w] \in {"reserved", "claimed"} =>
    charged[loc[w].u][loc[w].n] = 0 \/ <<loc[w].u, loc[w].n>> \in shared

\* What a settlement will write covers the charge, or it preserves the row, or
\* it will be refused.
SettlesOK ==
  \A w \in Workers : pc[w] = "settle" =>
    \/ Preserves(w)
    \/ <<loc[w].u, loc[w].n>> \in shared \cup receipt
    \/ UsageOf(loc[w].res).rep
         => charged[loc[w].u][loc[w].n] <= UsageOf(loc[w].res).cost

\* Units are taken only after their predecessors.
QueuesOK ==
  \A w \in Workers : /\ \A u \in loc[w].todo : Ready(u)
                     /\ loc[w].u \in Units => Ready(loc[w].u)

\* The inductive invariant.
IInv == /\ TypeOK /\ PlacesOK /\ RowsOK /\ WorkOK /\ ReadOK /\ JournalOK /\ CallsOK
        /\ TerminalOK /\ HoldersOK /\ ClaimsOK /\ UnusedOK /\ SettlesOK /\ QueuesOK
        /\ ChargesAreCounted /\ IngestedMeansSealed /\ FailuresAreSettled

-----------------------------------------------------------------------------
\* What the proofs use of the assumption on the constants.
LEMMA Constants ==
  /\ R \in Nat /\ R > 0 /\ LastAttempt \in Nat /\ MaxFault \in Nat
  /\ Costs \subseteq 0 .. R
  /\ None \notin Workers /\ None \notin Units
BY IngestAssumption

\* A non-empty set of attempt numbers has a greatest one.
LEMMA LastExists ==
  ASSUME NEW S, S \subseteq Attempts, S # {}
  PROVE  Max(S) \in S /\ \A k \in S : k <= Max(S)
<1> DEFINE T == {j \in Nat : LastAttempt - j \in S}
<1>1. T \subseteq Nat /\ T # {}
  <2>1. PICK k \in S : TRUE
    OBVIOUS
  <2>2. LastAttempt - k \in Nat /\ LastAttempt - (LastAttempt - k) = k
    BY Constants DEF Attempts
  <2> QED
    BY <2>2
<1>2. PICK x \in T : \A y \in T : ~(<<y, x>> \in OpToRel(<, Nat))
  BY <1>1, NatLessThanWellFounded, WFMin, Zenon
<1> DEFINE m == LastAttempt - x
<1>3. m \in S /\ x \in Nat
  BY <1>2
<1>4. ASSUME NEW k \in S PROVE k <= m
  <2>0. k \in Nat /\ k <= LastAttempt /\ LastAttempt - k \in Nat
        /\ LastAttempt - (LastAttempt - k) = k
    BY Constants DEF Attempts
  <2>1. LastAttempt - k \in T
    BY <2>0
  <2>2. ~(LastAttempt - k < x)
    BY <1>2, <1>3, <2>0, <2>1 DEF OpToRel
  <2> QED
    BY <1>3, <2>0, <2>2, Constants
<1>5. \A k \in S : m >= k
  BY <1>4, Constants DEF Attempts
<1>6. \E z \in S : \A k \in S : z >= k
  BY <1>3, <1>5
<1>7. Max(S) \in S /\ \A k \in S : Max(S) >= k
  BY <1>6 DEF Max
<1> QED
  BY <1>7, Constants DEF Attempts

\* A write of one row.
LEMMA SetRowPointwise ==
  ASSUME spend \in [Units -> [Attempts -> Rows]],
         NEW u \in Units, NEW n \in Attempts, NEW row \in Rows, SetRow(u, n, row)
  PROVE  /\ spend' \in [Units -> [Attempts -> Rows]]
         /\ \A v \in Units, k \in Attempts :
              spend'[v][k] = IF v = u /\ k = n THEN row ELSE spend[v][k]
BY DEF SetRow

\* A reconciled row keeps the cost and says whether it was reported.
LEMMA ReconciledRow ==
  ASSUME NEW usage \in Usages
  PROVE  /\ Reconciled(usage) \in Rows
         /\ Reconciled(usage).status \in {"RECONCILED", "UNRECONCILED"}
         /\ Reconciled(usage).status = "RECONCILED" <=> usage.rep
         /\ Reconciled(usage).cost = usage.cost
BY Constants DEF Reconciled, Rows, Usages

\* No call is exact and free; an unreported usage is neither.
LEMMA NoCallUsage ==
  /\ NoCall \in Usages /\ NoCall.rep /\ NoCall.cost = 0
  /\ Unreported \in Usages /\ ~Unreported.rep
BY Constants DEF NoCall, Unreported, Usages

\* The empty locals are well-typed.
LEMMA NoLocalsType == NoLocals \in Locals /\ NoResult \in Results
BY Constants, NoCallUsage DEF NoLocals, Locals, NoResult, Results, Kinds

\* The invariant holds of an empty ledger.
LEMMA InitInv == Init => IInv
<1> SUFFICES ASSUME Init PROVE IInv
  OBVIOUS
<1>1. TypeOK
  BY Constants, NoLocalsType, NoCallUsage DEF Init, TypeOK, Rows, NoRow, Journals, NoJournal, Steps
<1>2. FailuresAreSettled
  <2> SUFFICES ASSUME NEW u \in Units
               PROVE  fails[u] <= Cardinality({n \in Attempts : <<u, n>> \in receipt})
    BY DEF FailuresAreSettled
  <2>1. {n \in Attempts : <<u, n>> \in receipt} = {}
    BY DEF Init
  <2>2. Cardinality({n \in Attempts : <<u, n>> \in receipt}) = 0
    BY <2>1, FS_EmptySet, Zenon
  <2>3. fails[u] = 0
    BY DEF Init
  <2> QED
    BY <2>2, <2>3
<1>3. PlacesOK /\ CallsOK /\ TerminalOK /\ HoldersOK /\ ClaimsOK /\ UnusedOK /\ SettlesOK
      /\ WorkOK /\ ReadOK /\ QueuesOK /\ IngestedMeansSealed
  BY Constants DEF Init, PlacesOK, CallsOK, TerminalOK, HoldersOK, ClaimsOK, UnusedOK,
     SettlesOK, WorkOK, ReadOK, QueuesOK, IngestedMeansSealed, Busy, Inside, Past, NoLocals
<1>4. RowsOK /\ JournalOK /\ ChargesAreCounted
  BY Constants DEF Init, RowsOK, JournalOK, ChargesAreCounted, Spent, OpenAt, NoRow, NoJournal,
     Unreported, Counted, Attempts
<1> QED
  BY <1>1, <1>2, <1>3, <1>4 DEF IInv

-----------------------------------------------------------------------------
(* Steps that move one worker and leave the tables, the journal and the     *)
(* history alone.                                                           *)

Tables == <<spend, receipt, ingested, fails, journal, charged, shared>>

\* What one worker's step does to the others.
Moves(w, p, l) ==
  /\ pc' = [pc EXCEPT ![w] = p]
  /\ loc' = [loc EXCEPT ![w] = l]

\* A move changes the place and the locals of its worker only.
LEMMA MovesPointwise ==
  ASSUME TypeOK, NEW w \in Workers, NEW p \in Steps, NEW l \in Locals, Moves(w, p, l)
  PROVE  /\ pc' \in [Workers -> Steps] /\ loc' \in [Workers -> Locals]
         /\ pc'[w] = p /\ loc'[w] = l
         /\ \A v \in Workers : v # w => pc'[v] = pc[v] /\ loc'[v] = loc[v]
BY DEF Moves, TypeOK

\* A worker that drops its attempt, whether it goes on or ends.
LEMMA Drops ==
  ASSUME IInv, NEW w \in Workers, NEW p \in {"idle", "pick"}, NEW l \in Locals,
         Moves(w, p, l), l.u = None, ~l.reserved, \A u \in l.todo : Ready(u),
         fence' = IF fence = w THEN None ELSE fence,
         faults' \in 0 .. MaxFault, UNCHANGED Tables
  PROVE  IInv'
<1>1. p \in Steps /\ p \notin Busy /\ p \notin Past /\ p \notin Inside /\ p \notin {"calling", "called"}
  BY DEF Steps, Busy, Past, Inside
<1>2. /\ pc' \in [Workers -> Steps] /\ loc' \in [Workers -> Locals]
      /\ pc'[w] = p /\ loc'[w] = l
      /\ \A v \in Workers : v # w => pc'[v] = pc[v] /\ loc'[v] = loc[v]
  BY <1>1, MovesPointwise DEF IInv
<1>3. TypeOK'
  BY <1>2, Constants DEF IInv, TypeOK, Tables
<1>4. PlacesOK'
  BY <1>1, <1>2, Constants DEF IInv, TypeOK, PlacesOK
<1>5. RowsOK' /\ JournalOK' /\ ChargesAreCounted' /\ IngestedMeansSealed' /\ FailuresAreSettled'
  BY DEF IInv, RowsOK, JournalOK, ChargesAreCounted, IngestedMeansSealed, FailuresAreSettled,
         Spent, OpenAt, Tables
<1>6. WorkOK' /\ ReadOK' /\ CallsOK' /\ TerminalOK'
  BY <1>1, <1>2 DEF IInv, WorkOK, ReadOK, CallsOK, TerminalOK, Spent, OpenAt, Tables
<1>7. HoldersOK' /\ ClaimsOK' /\ UnusedOK'
  BY <1>1, <1>2 DEF IInv, HoldersOK, ClaimsOK, UnusedOK, Tables
<1>8. SettlesOK'
  BY <1>1, <1>2 DEF IInv, SettlesOK, Preserves, Tables
<1>9. QueuesOK'
  BY <1>1, <1>2, Constants DEF IInv, QueuesOK, Ready, Tables
<1> QED
  BY <1>3, <1>4, <1>5, <1>6, <1>7, <1>8, <1>9 DEF IInv

\* What the worker that runs an action holds.
LEMMA BusyLocals ==
  ASSUME IInv, NEW w \in Workers, pc[w] \in Busy
  PROVE  /\ loc[w] \in Locals /\ loc[w].res \in Results /\ loc[w].res.use \in Usages
         /\ loc[w].u \in Units /\ loc[w].n \in Attempts
         /\ loc[w].todo \subseteq Units /\ loc[w].reserved \in BOOLEAN
         /\ \A u \in loc[w].todo : Ready(u)
         /\ Ready(loc[w].u)
<1>1. loc[w] \in Locals
  BY DEF IInv, TypeOK
<1>2. loc[w].u \in Units /\ loc[w].n \in Attempts
  BY DEF IInv, PlacesOK
<1> QED
  BY <1>1, <1>2 DEF IInv, QueuesOK, Locals, Results

\* The locals of the next turn of the loop.
LEMMA NextTurn ==
  ASSUME IInv, NEW w \in Workers, NEW todo \in SUBSET loc[w].todo
  PROVE  LET l == [NoLocals EXCEPT !.todo = todo]
         IN  l \in Locals /\ l.u = None /\ ~l.reserved /\ \A u \in l.todo : Ready(u)
<1>1. loc[w].todo \subseteq Units /\ \A u \in loc[w].todo : Ready(u)
  BY DEF IInv, TypeOK, QueuesOK, Locals
<1> QED
  BY <1>1, NoLocalsType DEF NoLocals, Locals

\* The empty locals hold nothing.
LEMMA NoTurn == NoLocals.u = None /\ ~NoLocals.reserved /\ NoLocals.todo = {}
BY DEF NoLocals

\* Going on with the loop drops the attempt.
LEMMA ResumeMoves ==
  ASSUME IInv, NEW w \in Workers, Resume(w)
  PROVE  \E p \in {"idle", "pick"}, l \in Locals :
           Moves(w, p, l) /\ l.u = None /\ ~l.reserved /\ \A u \in l.todo : Ready(u)
<1> DEFINE p == IF loc[w].todo = {} THEN "idle" ELSE "pick"
           l == [NoLocals EXCEPT !.todo = loc[w].todo]
<1>1. l \in Locals /\ l.u = None /\ ~l.reserved /\ \A u \in l.todo : Ready(u)
  BY NextTurn
<1>2. Moves(w, p, l) /\ p \in {"idle", "pick"}
  BY DEF Resume, Goto, Moves
<1> HIDE DEF p, l
<1> QED
  BY <1>1, <1>2

\* _queue preserves the invariant.
LEMMA BeginStep ==
  ASSUME IInv, NEW w \in Workers, Begin(w) PROVE IInv'
<1> DEFINE l == [NoLocals EXCEPT !.todo = Queue]
<1>1. l \in Locals /\ l.u = None /\ ~l.reserved /\ \A u \in l.todo : Ready(u)
  BY NoLocalsType DEF NoLocals, Locals, Queue, Ready
<1>2. Moves(w, "pick", l)
  BY DEF Begin, Goto, Moves
<1>3. fence' = IF fence = w THEN None ELSE fence
  <2>1. fence # w
    BY DEF Begin, IInv, PlacesOK, Inside
  <2> QED
    BY <2>1 DEF Begin
<1>4. faults' \in 0 .. MaxFault /\ UNCHANGED Tables
  BY DEF Begin, IInv, TypeOK, Tables, Ledger, History
<1> HIDE DEF l
<1> QED
  BY <1>1, <1>2, <1>3, <1>4, Drops

\* The end of the loop preserves the invariant.
LEMMA StopStep ==
  ASSUME IInv, NEW w \in Workers, Stop(w) PROVE IInv'
<1>1. Moves(w, "idle", NoLocals) /\ fence # w
  BY DEF Stop, Goto, Moves, IInv, PlacesOK, Inside
<1>2. UNCHANGED <<fence, faults, Tables>>
  BY DEF Stop, Tables, Ledger, History
<1>3. faults' \in 0 .. MaxFault
  BY <1>2 DEF IInv, TypeOK
<1> QED
  BY <1>1, <1>2, <1>3, NoTurn, NoLocalsType, Drops

\* A receipt conflict rolls the transaction back and preserves the invariant.
LEMMA AbortStep ==
  ASSUME IInv, NEW w \in Workers, Abort(w) PROVE IInv'
<1>1. Moves(w, "idle", NoLocals) /\ fence # w
  BY DEF Abort, Goto, Moves, IInv, PlacesOK, Inside
<1>2. UNCHANGED <<fence, faults, Tables>>
  BY DEF Abort, Tables, Ledger, History
<1>3. faults' \in 0 .. MaxFault
  BY <1>2 DEF IInv, TypeOK
<1> QED
  BY <1>1, <1>2, <1>3, NoTurn, NoLocalsType, Drops

\* A crash at any place preserves the invariant.
LEMMA CrashStep ==
  ASSUME IInv, NEW w \in Workers, Crash(w) PROVE IInv'
<1>1. Moves(w, "idle", NoLocals)
  BY DEF Crash, Goto, Moves
<1>2. UNCHANGED Tables /\ fence' = IF fence = w THEN None ELSE fence
  BY DEF Crash, Tables, Ledger, History
<1>3. faults' \in 0 .. MaxFault
  BY Constants DEF Crash, IInv, TypeOK
<1> QED
  BY <1>1, <1>2, <1>3, NoTurn, NoLocalsType, Drops

\* The attempt number that Pick reads leaves no gap and no open attempt below.
LEMMA NextNumber ==
  ASSUME IInv, NEW u \in Units
  PROVE  /\ NextAttemptNumber(u) \in Nat /\ NextAttemptNumber(u) >= 1
         /\ \A k \in Attempts : k < NextAttemptNumber(u) => Spent(u, k) /\ ~OpenAt(u, k)
<1>1. CASE Reserved(u) = {}
  BY <1>1 DEF NextAttemptNumber, Attempts
<1>2. CASE Reserved(u) # {}
  <2> DEFINE last == Max(Reserved(u))
  <2>1. last \in Reserved(u) /\ \A k \in Reserved(u) : k <= last
    BY <1>2, LastExists DEF Reserved
  <2>2. last \in Attempts /\ Spent(u, last)
    BY <2>1 DEF Reserved, Spent
  <2>3. NextAttemptNumber(u) = IF OpenAt(u, last) THEN last ELSE last + 1
    BY <1>2 DEF NextAttemptNumber, OpenAt
  <2> HIDE DEF last
  <2>4. ASSUME NEW k \in Attempts, k < last PROVE Spent(u, k) /\ ~OpenAt(u, k)
    BY <2>2, <2>4 DEF IInv, RowsOK
  <2> QED
    BY <2>2, <2>3, <2>4, Constants DEF Attempts
<1> QED
  BY <1>1, <1>2

\* Rows are never taken back, so what the journal says of them stays.
LEMMA JournalKept ==
  ASSUME IInv, UNCHANGED <<journal, charged>>,
         \A u \in Units, n \in Attempts :
           spend[u][n].status # "NONE" => spend'[u][n].status # "NONE"
  PROVE  JournalOK'
<1> SUFFICES ASSUME NEW u \in Units
             PROVE  /\ journal[u].st = "NONE" <=> journal[u].att = 0
                    /\ journal[u].att # 0 => spend'[u][journal[u].att].status # "NONE"
                    /\ \A n \in Attempts :
                         charged[u][n] <= R /\ (n > journal[u].att => charged[u][n] = 0)
                    /\ journal[u].att # 0 /\ journal[u].use.rep
                         => charged[u][journal[u].att] = journal[u].use.cost
  BY DEF JournalOK, Spent
<1>1. journal[u].att \in Attempts \cup {0}
  BY DEF IInv, TypeOK, Journals
<1> QED
  BY <1>1 DEF IInv, JournalOK, Spent

\* No row is new and none is opened again.
LEMMA RowsKept ==
  ASSUME IInv, charged' = charged,
         \A u \in Units, n \in Attempts :
           /\ spend'[u][n].status = "NONE" <=> spend[u][n].status = "NONE"
           /\ <<u, n>> \in receipt' => spend'[u][n].status # "NONE"
           /\ spend'[u][n].status = "RESERVED" /\ <<u, n>> \notin receipt'
                => spend[u][n].status = "RESERVED" /\ <<u, n>> \notin receipt
  PROVE  /\ RowsOK'
         /\ \A w \in Workers : pc[w] = "read" =>
              \A k \in Attempts : k < loc[w].n =>
                /\ spend'[loc[w].u][k].status # "NONE"
                /\ ~(spend'[loc[w].u][k].status = "RESERVED" /\ <<loc[w].u, k>> \notin receipt')
<1>1. ASSUME NEW u \in Units, NEW n \in Attempts
      PROVE  /\ spend'[u][n].status = "NONE" => charged'[u][n] = 0 /\ <<u, n>> \notin receipt'
             /\ \/ spend'[u][n].status = "NONE"
                \/ spend'[u][n].status = "RESERVED" /\ <<u, n>> \notin receipt'
                => \A k \in Attempts : k > n => spend'[u][k].status = "NONE"
  BY DEF IInv, RowsOK, Spent, OpenAt
<1>2. ASSUME NEW w \in Workers, pc[w] = "read", NEW k \in Attempts, k < loc[w].n
      PROVE  /\ spend'[loc[w].u][k].status # "NONE"
             /\ ~(spend'[loc[w].u][k].status = "RESERVED" /\ <<loc[w].u, k>> \notin receipt')
  <2>1. loc[w].u \in Units
    BY <1>2, BusyLocals DEF Busy
  <2>2. Spent(loc[w].u, k) /\ ~OpenAt(loc[w].u, k)
    BY <1>2 DEF IInv, ReadOK
  <2> QED
    BY <2>1, <2>2 DEF Spent, OpenAt
<1> QED
  BY <1>1, <1>2 DEF RowsOK, Spent, OpenAt

\* Reading the next attempt number preserves the invariant.
LEMMA PickStep ==
  ASSUME IInv, NEW w \in Workers, Pick(w) PROVE IInv'
<1>1. PICK u \in loc[w].todo :
        /\ NextAttemptNumber(u) <= MaxAttempt[u]
        /\ loc' = [loc EXCEPT ![w] = [NoLocals EXCEPT
                     !.todo = loc[w].todo \ {u}, !.u = u, !.n = NextAttemptNumber(u)]]
  BY DEF Pick
<1> DEFINE n == NextAttemptNumber(u)
           l == [NoLocals EXCEPT !.todo = loc[w].todo \ {u}, !.u = u, !.n = n]
<1>2. u \in Units /\ loc[w].todo \subseteq Units /\ \A v \in loc[w].todo : Ready(v)
  BY DEF IInv, TypeOK, QueuesOK, Locals
<1>3. n \in Attempts /\ \A k \in Attempts : k < n => Spent(u, k) /\ ~OpenAt(u, k)
  BY <1>1, <1>2, NextNumber, IngestAssumption DEF Attempts
<1> HIDE DEF n
<1>4. /\ l \in Locals /\ l.u = u /\ l.n = n /\ ~l.reserved
      /\ \A v \in l.todo : Ready(v)
  BY <1>2, <1>3, NoLocalsType DEF NoLocals, Locals
<1>5. Moves(w, "read", l)
  BY <1>1 DEF Pick, Goto, Moves, n
<1> HIDE DEF l
<1>6. "read" \in Steps /\ "read" \in Busy /\ "read" \notin Past /\ "read" \notin Inside
  BY DEF Steps, Busy, Past, Inside
<1>7. /\ pc' \in [Workers -> Steps] /\ loc' \in [Workers -> Locals]
      /\ pc'[w] = "read" /\ loc'[w] = l
      /\ \A v \in Workers : v # w => pc'[v] = pc[v] /\ loc'[v] = loc[v]
  BY <1>4, <1>5, <1>6, MovesPointwise DEF IInv
<1>8. UNCHANGED <<Tables, fence, faults>> /\ fence # w
  BY DEF Pick, Tables, Ledger, History, IInv, PlacesOK, Inside
<1>9. TypeOK'
  BY <1>7, <1>8 DEF IInv, TypeOK, Tables
<1>10. PlacesOK'
  BY <1>2, <1>3, <1>4, <1>6, <1>7, <1>8 DEF IInv, PlacesOK
<1>11. RowsOK' /\ JournalOK' /\ ChargesAreCounted' /\ IngestedMeansSealed' /\ FailuresAreSettled'
  BY <1>8 DEF IInv, RowsOK, JournalOK, ChargesAreCounted, IngestedMeansSealed, FailuresAreSettled,
         Spent, OpenAt, Tables
<1>12. WorkOK' /\ ReadOK' /\ CallsOK' /\ TerminalOK'
  BY <1>3, <1>4, <1>7, <1>8 DEF IInv, WorkOK, ReadOK, CallsOK, TerminalOK, Spent, OpenAt, Tables
<1>13. HoldersOK' /\ ClaimsOK' /\ UnusedOK'
  BY <1>4, <1>6, <1>7, <1>8 DEF IInv, HoldersOK, ClaimsOK, UnusedOK, Tables
<1>14. SettlesOK'
  BY <1>7, <1>8 DEF IInv, SettlesOK, Preserves, Tables
<1>15. QueuesOK'
  BY <1>2, <1>4, <1>7, <1>8 DEF IInv, QueuesOK, Ready, Tables
<1> QED
  BY <1>9, <1>10, <1>11, <1>12, <1>13, <1>14, <1>15 DEF IInv

\* reserve_graphiti_spend of a row that exists.
LEMMA ReentersStep ==
  ASSUME IInv, NEW w \in Workers, pc[w] = "read", Spent(loc[w].u, loc[w].n),
         Goto(w, "reserved"), UNCHANGED <<Tables, loc, fence, faults>>
  PROVE  IInv'
<1>1. loc[w] \in Locals /\ loc[w].u \in Units /\ loc[w].n \in Attempts /\ ~loc[w].reserved
  BY BusyLocals DEF Busy, IInv, PlacesOK
<1>2. "reserved" \in Steps /\ "reserved" \in Busy /\ "reserved" \notin Past
      /\ "reserved" \notin Inside /\ "read" \notin Inside
  BY DEF Steps, Busy, Past, Inside
<1>3. /\ pc' \in [Workers -> Steps] /\ pc'[w] = "reserved"
      /\ \A v \in Workers : v # w => pc'[v] = pc[v]
  BY <1>2 DEF Goto, IInv, TypeOK
<1>4. TypeOK'
  BY <1>3 DEF IInv, TypeOK, Tables
<1>5. PlacesOK'
  BY <1>1, <1>2, <1>3 DEF IInv, PlacesOK
<1>6. RowsOK' /\ JournalOK' /\ ChargesAreCounted' /\ IngestedMeansSealed' /\ FailuresAreSettled'
      /\ QueuesOK'
  BY DEF IInv, RowsOK, JournalOK, ChargesAreCounted, IngestedMeansSealed, FailuresAreSettled,
         QueuesOK, Ready, Spent, OpenAt, Tables
<1>7. WorkOK' /\ ReadOK' /\ CallsOK' /\ TerminalOK'
  BY <1>1, <1>3 DEF IInv, WorkOK, ReadOK, CallsOK, TerminalOK, Spent, OpenAt, Tables
<1>8. HoldersOK' /\ ClaimsOK' /\ UnusedOK'
  BY <1>1, <1>2, <1>3 DEF IInv, HoldersOK, ClaimsOK, UnusedOK, Tables
<1>9. SettlesOK'
  BY <1>3 DEF IInv, SettlesOK, Preserves, Tables
<1> QED
  BY <1>4, <1>5, <1>6, <1>7, <1>8, <1>9 DEF IInv

\* reserve_graphiti_spend of a new row.
LEMMA ReservesStep ==
  ASSUME IInv, NEW w \in Workers, pc[w] = "read", ~Spent(loc[w].u, loc[w].n),
         SetRow(loc[w].u, loc[w].n, NewRow),
         loc' = [loc EXCEPT ![w] = [@ EXCEPT !.reserved = TRUE]],
         Goto(w, "reserved"),
         UNCHANGED <<receipt, ingested, fails, fence, journal, charged, shared, faults>>
  PROVE  IInv'
<1> DEFINE u == loc[w].u
           n == loc[w].n
           l == [loc[w] EXCEPT !.reserved = TRUE]
<1>1. loc[w] \in Locals /\ u \in Units /\ n \in Attempts
  BY BusyLocals DEF Busy
<1>2. NewRow \in Rows /\ NewRow.status = "RESERVED"
  BY Constants DEF Rows, NewRow
<1>3. /\ l \in Locals /\ l.u = u /\ l.n = n /\ l.reserved /\ l.todo = loc[w].todo
      /\ l.res = loc[w].res
  BY <1>1 DEF Locals
<1>4. "reserved" \in Steps /\ "reserved" \in Busy /\ "reserved" \notin Past
      /\ "reserved" \notin Inside /\ "read" \notin Inside /\ "read" \in Busy
  BY DEF Steps, Busy, Past, Inside
<1>5. Moves(w, "reserved", l)
  BY DEF Moves, Goto
<1> HIDE DEF l
<1>6. /\ pc' \in [Workers -> Steps] /\ loc' \in [Workers -> Locals]
      /\ pc'[w] = "reserved" /\ loc'[w] = l
      /\ \A v \in Workers : v # w => pc'[v] = pc[v] /\ loc'[v] = loc[v]
  BY <1>3, <1>4, <1>5, MovesPointwise DEF IInv
<1>7. /\ spend' \in [Units -> [Attempts -> Rows]]
      /\ \A v \in Units, k \in Attempts :
           spend'[v][k] = IF v = u /\ k = n THEN NewRow ELSE spend[v][k]
  BY <1>1, <1>2, SetRowPointwise DEF IInv, TypeOK
<1>8. \A v \in Units, k \in Attempts : (v = u /\ k = n) \/ (Spent(v, k)' = Spent(v, k))
  BY <1>7 DEF Spent
<1>9. \A v \in Units, k \in Attempts : (v = u /\ k = n) \/ (OpenAt(v, k)' = OpenAt(v, k))
  BY <1>7 DEF OpenAt
<1>10. Spent(u, n)'
  BY <1>1, <1>2, <1>7 DEF Spent
<1>11. charged[u][n] = 0 /\ <<u, n>> \notin receipt /\ \A k \in Attempts : k > n => ~Spent(u, k)
  BY <1>1 DEF IInv, RowsOK
<1>12. \A k \in Attempts : k < n => Spent(u, k) /\ ~OpenAt(u, k)
  BY DEF IInv, ReadOK
<1>13. \A v \in Workers : v # w /\ loc[v].u = u /\ loc[v].n = n
          => pc[v] = "read"
  BY <1>1 DEF IInv, PlacesOK, WorkOK, Busy
<1>14. TypeOK'
  BY <1>6, <1>7 DEF IInv, TypeOK
<1>15. PlacesOK'
  BY <1>1, <1>3, <1>4, <1>6 DEF IInv, PlacesOK
<1>16. RowsOK'
  <2> SUFFICES ASSUME NEW v \in Units, NEW k \in Attempts
               PROVE /\ ~Spent(v, k)' => charged[v][k] = 0 /\ <<v, k>> \notin receipt
                     /\ ~Spent(v, k)' \/ OpenAt(v, k)'
                          => \A j \in Attempts : j > k => ~Spent(v, j)'
    BY DEF RowsOK
  <2>1. CASE v # u
    BY <2>1, <1>8, <1>9 DEF IInv, RowsOK
  <2>2. CASE v = u /\ k = n
    BY <2>2, <1>7, <1>10, <1>11, Constants DEF Spent, Attempts
  <2>3. CASE v = u /\ k > n
    BY <2>3, <1>1, <1>8, <1>9, <1>11, Constants DEF IInv, RowsOK, Attempts
  <2>4. CASE v = u /\ k < n
    BY <2>4, <1>1, <1>8, <1>9, <1>12, Constants DEF IInv, RowsOK, Attempts
  <2> QED
    BY <2>1, <2>2, <2>3, <2>4, <1>1, Constants DEF Attempts
<1>17. WorkOK'
  BY <1>1, <1>3, <1>6, <1>8, <1>10 DEF IInv, WorkOK, PlacesOK, Busy
<1>18. ReadOK'
  <2> SUFFICES ASSUME NEW v \in Workers, pc'[v] = "read", NEW k \in Attempts, k < loc'[v].n
               PROVE  Spent(loc[v].u, k)' /\ ~OpenAt(loc[v].u, k)'
    BY DEF ReadOK
  <2>1. v # w /\ pc[v] = "read" /\ loc'[v] = loc[v]
    BY <1>6
  <2>2. loc[v].u \in Units /\ loc[v].n \in Attempts
    BY <2>1, BusyLocals DEF Busy
  <2>3. Spent(loc[v].u, k) /\ ~OpenAt(loc[v].u, k)
    BY <2>1 DEF IInv, ReadOK
  <2> QED
    BY <2>1, <2>2, <2>3, <1>1, <1>7, <1>12 DEF Spent, OpenAt
<1>19. JournalOK'
  BY <1>2, <1>7, JournalKept
<1>20. CallsOK' /\ TerminalOK' /\ SettlesOK'
  BY <1>6 DEF IInv, CallsOK, TerminalOK, SettlesOK, Preserves
<1>21. HoldersOK'
  BY <1>3, <1>4, <1>6, <1>13, <1>1 DEF IInv, HoldersOK, Past, Inside
<1>22. ClaimsOK'
  BY <1>2, <1>4, <1>6, <1>7 DEF IInv, ClaimsOK, PlacesOK, Past, Inside, Busy
<1>23. UnusedOK'
  BY <1>3, <1>6, <1>11 DEF IInv, UnusedOK
<1>24. QueuesOK'
  BY <1>1, <1>3, <1>6 DEF IInv, QueuesOK, Ready
<1>25. IngestedMeansSealed' /\ FailuresAreSettled'
  BY DEF IInv, IngestedMeansSealed, FailuresAreSettled
<1>26. ChargesAreCounted'
  <2> SUFFICES ASSUME NEW v \in Units, NEW k \in Attempts
               PROVE  charged[v][k] <= Counted(spend'[v][k]) \/ <<v, k>> \in shared
    BY DEF ChargesAreCounted
  <2>1. CASE v = u /\ k = n
    BY <2>1, <1>2, <1>7, <1>11, Constants DEF Counted
  <2>2. CASE ~(v = u /\ k = n)
    BY <2>2, <1>7 DEF IInv, ChargesAreCounted
  <2> QED
    BY <2>1, <2>2
<1> QED
  BY <1>26, <1>14, <1>15, <1>16, <1>17, <1>18, <1>19, <1>20, <1>21, <1>22, <1>23, <1>24, <1>25 DEF IInv

\* reserve_graphiti_spend preserves the invariant.
LEMMA ReserveStep ==
  ASSUME IInv, NEW w \in Workers, Reserve(w) PROVE IInv'
<1> DEFINE u == loc[w].u
           n == loc[w].n
<1>1. CASE /\ spend[u][n].status # "NONE"
           /\ Goto(w, "reserved") /\ UNCHANGED <<spend, loc>>
  BY <1>1, ReentersStep DEF Reserve, Spent, Tables, History
<1>2. CASE /\ spend[u][n].status = "NONE"
           /\ SetRow(u, n, NewRow)
           /\ loc' = [loc EXCEPT ![w] = [@ EXCEPT !.reserved = TRUE]]
           /\ Goto(w, "reserved")
  BY <1>2, ReservesStep DEF Reserve, Spent, History
<1>3. CASE /\ loc' = [loc EXCEPT ![w] = NoLocals]
           /\ Goto(w, "idle") /\ UNCHANGED spend
  <2>1. Moves(w, "idle", NoLocals) /\ fence # w
    BY <1>3 DEF Reserve, Goto, Moves, IInv, PlacesOK, Inside
  <2>2. UNCHANGED <<fence, faults, Tables>>
    BY <1>3 DEF Reserve, Tables, History
  <2>3. faults' \in 0 .. MaxFault
    BY <2>2 DEF IInv, TypeOK
  <2> QED
    BY <2>1, <2>2, <2>3, NoTurn, NoLocalsType, Drops
<1> QED
  BY <1>1, <1>2, <1>3 DEF Reserve

\* A worker drops its attempt and closes rows on the way: its own, and such as
\* a sealed result has made final.
LEMMA ClosesRows ==
  ASSUME IInv, NEW w \in Workers, NEW p \in {"idle", "pick"}, NEW l \in Locals,
         Moves(w, p, l), l.u = None, ~l.reserved,
         pc[w] = "settle" \/ (pc[w] = "reserved" /\ loc[w].reserved),
         \A u \in Units, n \in Attempts :
           /\ spend'[u][n].status = "NONE" <=> spend[u][n].status = "NONE"
           /\ spend'[u][n].status = "RESERVED" => spend[u][n].status = "RESERVED"
           /\ \/ u = loc[w].u /\ n = loc[w].n
              \/ spend'[u][n].status = spend[u][n].status
              \/ <<u, n>> \in receipt /\ journal[u].st = "COMPLETE",
         UNCHANGED <<journal, charged, shared, fence>>,
         receipt \subseteq receipt', receipt' \subseteq receipt \cup {<<loc[w].u, loc[w].n>>}
  PROVE  /\ PlacesOK' /\ RowsOK' /\ WorkOK' /\ ReadOK' /\ JournalOK' /\ CallsOK' /\ TerminalOK'
         /\ HoldersOK' /\ ClaimsOK' /\ UnusedOK' /\ SettlesOK'
<1> DEFINE u == loc[w].u
           n == loc[w].n
<1>1. u \in Units /\ n \in Attempts /\ fence # w /\ Spent(u, n)
  BY BusyLocals DEF Busy, Inside, IInv, PlacesOK, WorkOK
<1>2. p \in Steps /\ p \notin Busy /\ p \notin Past /\ p \notin Inside
      /\ p \notin {"calling", "called", "read", "reserved", "claimed", "settle"}
  BY DEF Steps, Busy, Past, Inside
<1>3. /\ pc'[w] = p /\ loc'[w] = l
      /\ \A v \in Workers : v # w => pc'[v] = pc[v] /\ loc'[v] = loc[v]
  BY <1>2, MovesPointwise DEF IInv
<1>4. \A v \in Units, k \in Attempts : <<v, k>> \in receipt' => spend'[v][k].status # "NONE"
  <2> SUFFICES ASSUME NEW v \in Units, NEW k \in Attempts, <<v, k>> \in receipt'
               PROVE  spend'[v][k].status # "NONE"
    OBVIOUS
  <2>1. CASE v = u /\ k = n
    BY <2>1, <1>1 DEF Spent
  <2>2. CASE ~(v = u /\ k = n)
    BY <2>2 DEF IInv, RowsOK, Spent
  <2> QED
    BY <2>1, <2>2
<1>5. /\ RowsOK'
      /\ \A v \in Workers : pc[v] = "read" =>
              \A k \in Attempts : k < loc[v].n =>
                /\ spend'[loc[v].u][k].status # "NONE"
                /\ ~(spend'[loc[v].u][k].status = "RESERVED" /\ <<loc[v].u, k>> \notin receipt')
  BY <1>4, RowsKept
<1>6. PlacesOK'
  BY <1>1, <1>2, <1>3, Constants DEF IInv, PlacesOK
<1>7. WorkOK'
  <2> SUFFICES ASSUME NEW v \in Workers, pc'[v] \in Busy \ {"read"}
               PROVE  spend'[loc'[v].u][loc'[v].n].status # "NONE"
    BY DEF WorkOK, Spent
  <2>1. v # w /\ pc[v] \in Busy \ {"read"} /\ loc'[v] = loc[v]
    BY <1>2, <1>3
  <2>2. loc[v].u \in Units /\ loc[v].n \in Attempts
    BY <2>1, BusyLocals
  <2>3. spend[loc[v].u][loc[v].n].status # "NONE"
    BY <2>1 DEF IInv, WorkOK, Spent
  <2> QED
    BY <2>1, <2>2, <2>3
<1>8. ReadOK'
  BY <1>2, <1>3, <1>5 DEF ReadOK, Spent, OpenAt
<1>9. JournalOK'
  BY JournalKept
<1>10. CallsOK' /\ TerminalOK'
  BY <1>2, <1>3 DEF IInv, CallsOK, TerminalOK
<1>11. HoldersOK' /\ UnusedOK'
  BY <1>2, <1>3 DEF IInv, HoldersOK, UnusedOK
<1>12. ClaimsOK'
  <2> SUFFICES ASSUME NEW v \in Workers, pc'[v] \in Past
               PROVE  \/ <<loc'[v].u, loc'[v].n>> \in shared
                      \/ spend'[loc'[v].u][loc'[v].n].status = "RESERVED"
                      \/ /\ <<loc'[v].u, loc'[v].n>> \in receipt'
                         /\ journal[loc'[v].u].st = "COMPLETE"
    BY DEF ClaimsOK
  <2>1. v # w /\ pc[v] \in Past /\ loc'[v] = loc[v]
    BY <1>2, <1>3
  <2>2. loc[v].u \in Units /\ loc[v].n \in Attempts
    BY <2>1, BusyLocals DEF Busy, Past, Inside
  <2>3. CASE loc[v].u = u /\ loc[v].n = n
    <3>1. <<loc[v].u, loc[v].n>> \in shared
      BY <2>1, <2>3 DEF IInv, HoldersOK, Past
    <3> QED
      BY <2>1, <3>1
  <2>4. CASE ~(loc[v].u = u /\ loc[v].n = n)
    <3>1. \/ <<loc[v].u, loc[v].n>> \in shared
          \/ spend[loc[v].u][loc[v].n].status = "RESERVED"
          \/ <<loc[v].u, loc[v].n>> \in receipt /\ journal[loc[v].u].st = "COMPLETE"
      BY <2>1 DEF IInv, ClaimsOK
    <3>2. \/ spend'[loc[v].u][loc[v].n].status = spend[loc[v].u][loc[v].n].status
          \/ <<loc[v].u, loc[v].n>> \in receipt /\ journal[loc[v].u].st = "COMPLETE"
      BY <2>2, <2>4
    <3> QED
      BY <2>1, <3>1, <3>2
  <2> QED
    BY <2>3, <2>4
<1>13. SettlesOK'
  BY <1>2, <1>3 DEF IInv, SettlesOK, Preserves
<1> QED
  BY <1>5, <1>6, <1>7, <1>8, <1>9, <1>10, <1>11, <1>12, <1>13

\* The new contents of a row cover its charge.
Covers(row, u, n) == charged[u][n] <= Counted(row) \/ <<u, n>> \in shared

\* A reconciled row covers the charge when a reported usage does.
LEMMA ReconciledCovers ==
  ASSUME IInv, NEW u \in Units, NEW n \in Attempts, NEW usage \in Usages,
         <<u, n>> \in shared \/ (usage.rep => charged[u][n] <= usage.cost)
  PROVE  Covers(Reconciled(usage), u, n)
<1>1. charged[u][n] <= R /\ charged[u][n] \in Nat
  BY DEF IInv, JournalOK, TypeOK
<1> QED
  BY <1>1, ReconciledRow DEF Covers, Counted

\* The give-back of a reservation.
LEMMA GivesBack ==
  ASSUME IInv, NEW w \in Workers, pc[w] = "reserved", GiveBack(w),
         NEW p \in {"idle", "pick"}, NEW l \in Locals,
         Moves(w, p, l), l.u = None, ~l.reserved, \A u \in l.todo : Ready(u),
         UNCHANGED <<receipt, ingested, fails, fence, journal, charged, shared, faults>>
  PROVE  IInv'
<1> DEFINE u == loc[w].u
           n == loc[w].n
<1>1. u \in Units /\ n \in Attempts /\ fence # w /\ Spent(u, n)
  BY BusyLocals DEF Busy, Inside, IInv, PlacesOK, WorkOK
<1>2. CASE ~loc[w].reserved
  <2>1. spend' = spend
    BY <1>2 DEF GiveBack
  <2>2. faults' \in 0 .. MaxFault
    BY DEF IInv, TypeOK
  <2>3. UNCHANGED Tables
    BY <2>1 DEF Tables
  <2> QED
    BY <1>1, <2>2, <2>3, Drops
<1>3. CASE loc[w].reserved
  <2>1. SetRow(u, n, Reconciled(NoCall))
    BY <1>3 DEF GiveBack
  <2>2. Reconciled(NoCall) \in Rows /\ Reconciled(NoCall).status = "RECONCILED"
    BY ReconciledRow, NoCallUsage
  <2>3. /\ spend' \in [Units -> [Attempts -> Rows]]
        /\ \A v \in Units, k \in Attempts :
             spend'[v][k] = IF v = u /\ k = n THEN Reconciled(NoCall) ELSE spend[v][k]
    BY <1>1, <2>1, <2>2, SetRowPointwise DEF IInv, TypeOK
  <2>4. Covers(Reconciled(NoCall), u, n)
    <3>1. charged[u][n] = 0 \/ <<u, n>> \in shared
      BY <1>3 DEF IInv, UnusedOK
    <3>2. <<u, n>> \in shared \/ (NoCall.rep => charged[u][n] <= NoCall.cost)
      BY <3>1, NoCallUsage
    <3> QED
      BY <1>1, <3>2, NoCallUsage, ReconciledCovers
  <2>5. ChargesAreCounted'
    BY <2>3, <2>4 DEF Covers, IInv, ChargesAreCounted
  <2>6. /\ PlacesOK' /\ RowsOK' /\ WorkOK' /\ ReadOK' /\ JournalOK' /\ CallsOK' /\ TerminalOK'
        /\ HoldersOK' /\ ClaimsOK' /\ UnusedOK' /\ SettlesOK'
    BY <1>1, <1>3, <2>2, <2>3, ClosesRows DEF Spent
  <2>7. /\ pc' \in [Workers -> Steps] /\ loc' \in [Workers -> Locals]
        /\ loc'[w] = l /\ \A v \in Workers : v # w => loc'[v] = loc[v]
    BY MovesPointwise DEF IInv, Steps
  <2>8. TypeOK' /\ QueuesOK'
    BY <2>3, <2>7, Constants DEF IInv, TypeOK, QueuesOK, Ready
  <2>9. IngestedMeansSealed' /\ FailuresAreSettled'
    BY DEF IInv, IngestedMeansSealed, FailuresAreSettled
  <2> QED
    BY <2>5, <2>6, <2>8, <2>9 DEF IInv
<1> QED
  BY <1>2, <1>3

\* A fence that stays locked preserves the invariant.
LEMMA FenceUnavailableStep ==
  ASSUME IInv, NEW w \in Workers, FenceUnavailable(w) PROVE IInv'
<1>1. Moves(w, "idle", NoLocals)
  BY DEF FenceUnavailable, Goto, Moves
<1> QED
  BY <1>1, NoTurn, NoLocalsType, GivesBack DEF FenceUnavailable, History

\* Rights found revoked preserve the invariant.
LEMMA RightsRevokedStep ==
  ASSUME IInv, NEW w \in Workers, RightsRevoked(w) PROVE IInv'
<1>1. PICK p \in {"idle", "pick"}, l \in Locals :
           Moves(w, p, l) /\ l.u = None /\ ~l.reserved /\ \A u \in l.todo : Ready(u)
  BY ResumeMoves DEF RightsRevoked
<1> QED
  BY <1>1, GivesBack DEF RightsRevoked, History

-----------------------------------------------------------------------------
(* Claiming, and leases that run out: rows keep their status and cost.      *)

SameRows ==
  \A u \in Units, n \in Attempts :
    spend'[u][n].status = spend[u][n].status /\ spend'[u][n].cost = spend[u][n].cost

\* What depends on the status and the cost of rows alone stays.
LEMMA RowsSame ==
  ASSUME IInv, SameRows, UNCHANGED <<receipt, journal, charged>>, shared \subseteq shared'
  PROVE  RowsOK' /\ JournalOK' /\ ChargesAreCounted'
<1>1. RowsOK'
  <2>1. \A u \in Units, n \in Attempts : <<u, n>> \in receipt => spend[u][n].status # "NONE"
    BY DEF IInv, RowsOK, Spent
  <2>2. \A u \in Units, n \in Attempts :
          /\ spend'[u][n].status = "NONE" <=> spend[u][n].status = "NONE"
          /\ <<u, n>> \in receipt' => spend'[u][n].status # "NONE"
          /\ spend'[u][n].status = "RESERVED" /\ <<u, n>> \notin receipt'
               => spend[u][n].status = "RESERVED" /\ <<u, n>> \notin receipt
    BY <2>1 DEF SameRows
  <2> QED
    BY <2>2, RowsKept
<1>2. JournalOK'
  BY JournalKept DEF SameRows
<1>3. ChargesAreCounted'
  <2> SUFFICES ASSUME NEW u \in Units, NEW n \in Attempts
               PROVE  charged[u][n] <= Counted(spend'[u][n]) \/ <<u, n>> \in shared'
    BY DEF ChargesAreCounted
  <2>1. Counted(spend'[u][n]) = Counted(spend[u][n])
    BY DEF SameRows, Counted
  <2>2. charged[u][n] <= Counted(spend[u][n]) \/ <<u, n>> \in shared
    BY DEF IInv, ChargesAreCounted
  <2> QED
    BY <2>1, <2>2
<1> QED
  BY <1>1, <1>2, <1>3

\* A claim that runs out preserves the invariant.
LEMMA LapseStep ==
  ASSUME IInv, NEW u \in Units, NEW n \in Attempts, Lapse(u, n) PROVE IInv'
<1> DEFINE row == [spend[u][n] EXCEPT !.lapsed = TRUE]
<1>1. spend[u][n] \in Rows
  BY DEF IInv, TypeOK
<1>2. row \in Rows /\ row.status = spend[u][n].status /\ row.cost = spend[u][n].cost
  BY <1>1 DEF Rows
<1>3. SetRow(u, n, row)
  BY DEF Lapse
<1> HIDE DEF row
<1>4. /\ spend' \in [Units -> [Attempts -> Rows]]
      /\ \A v \in Units, k \in Attempts :
           spend'[v][k] = IF v = u /\ k = n THEN row ELSE spend[v][k]
  BY <1>2, <1>3, SetRowPointwise DEF IInv, TypeOK
<1>5. SameRows
  BY <1>2, <1>4 DEF SameRows
<1>6. UNCHANGED <<receipt, ingested, fails, fence, journal, pc, loc, charged, shared>>
      /\ faults' \in 0 .. MaxFault
  BY Constants DEF Lapse, History, IInv, TypeOK
<1>7. RowsOK' /\ JournalOK' /\ ChargesAreCounted'
  BY <1>5, <1>6, RowsSame
<1>8. TypeOK'
  BY <1>4, <1>6 DEF IInv, TypeOK
<1>9. PlacesOK' /\ CallsOK' /\ TerminalOK' /\ HoldersOK' /\ UnusedOK' /\ QueuesOK'
  BY <1>6 DEF IInv, PlacesOK, CallsOK, TerminalOK, HoldersOK, UnusedOK, QueuesOK, Ready
<1>10. SettlesOK' /\ IngestedMeansSealed' /\ FailuresAreSettled'
  BY <1>6 DEF IInv, SettlesOK, Preserves, IngestedMeansSealed, FailuresAreSettled
<1>11. ASSUME NEW w \in Workers, pc[w] \in Busy
       PROVE  loc[w].u \in Units /\ loc[w].n \in Attempts
  BY <1>11, BusyLocals
<1>12. WorkOK' /\ ReadOK'
  BY <1>5, <1>6, <1>11 DEF IInv, WorkOK, ReadOK, Spent, OpenAt, SameRows, Busy
<1>13. ClaimsOK'
  BY <1>5, <1>6, <1>11 DEF IInv, ClaimsOK, SameRows, Busy, Past, Inside
<1> QED
  BY <1>7, <1>8, <1>9, <1>10, <1>12, <1>13 DEF IInv

\* claim_graphiti_attempt, when it succeeds.
LEMMA ClaimsStep ==
  ASSUME IInv, NEW w \in Workers, Claim(w), Claimable(loc[w].u, loc[w].n) PROVE IInv'
<1> DEFINE u == loc[w].u
           n == loc[w].n
           row == [spend[u][n] EXCEPT !.owner = w, !.lapsed = FALSE]
           holders == {v \in Workers \ {w} : /\ loc[v].u = u /\ loc[v].n = n
                                             /\ loc[v].reserved \/ pc[v] = "settle"}
<1>1. /\ pc[w] = "reserved" /\ fence = None
      /\ SetRow(u, n, row) /\ fence' = w /\ Goto(w, "claimed")
      /\ shared' = IF holders = {} THEN shared ELSE shared \cup {<<u, n>>}
      /\ UNCHANGED <<loc, receipt, ingested, fails, journal, charged, faults>>
  BY DEF Claim
<1>2. u \in Units /\ n \in Attempts /\ Spent(u, n) /\ spend[u][n].status = "RESERVED"
  BY <1>1, BusyLocals DEF Busy, IInv, WorkOK, Claimable
<1>3. spend[u][n] \in Rows
  BY <1>2 DEF IInv, TypeOK
<1>4. row \in Rows /\ row.status = spend[u][n].status /\ row.cost = spend[u][n].cost
  BY <1>3 DEF Rows
<1> HIDE DEF row
<1>5. /\ spend' \in [Units -> [Attempts -> Rows]]
      /\ \A v \in Units, k \in Attempts :
           spend'[v][k] = IF v = u /\ k = n THEN row ELSE spend[v][k]
  BY <1>1, <1>2, <1>4, SetRowPointwise DEF IInv, TypeOK
<1>6. SameRows
  BY <1>4, <1>5 DEF SameRows
<1>7. shared \subseteq shared' /\ shared' \subseteq Units \X Attempts
  BY <1>1, <1>2 DEF IInv, TypeOK
<1>8. /\ pc' \in [Workers -> Steps] /\ pc'[w] = "claimed"
      /\ \A v \in Workers : v # w => pc'[v] = pc[v]
  BY <1>1 DEF Goto, IInv, TypeOK, Steps
<1>9. \A v \in Workers : pc[v] \notin Inside
  BY <1>1, Constants DEF IInv, PlacesOK
<1>10. \A v \in Workers : v # w /\ loc[v].u = u /\ loc[v].n = n
            /\ (loc[v].reserved \/ pc[v] = "settle") => <<u, n>> \in shared'
  BY <1>1
<1> HIDE DEF holders
<1>11. ASSUME NEW v \in Workers, pc[v] \in Busy
       PROVE  loc[v].u \in Units /\ loc[v].n \in Attempts
  BY <1>11, BusyLocals
<1>12. RowsOK' /\ JournalOK' /\ ChargesAreCounted'
  BY <1>1, <1>6, <1>7, RowsSame
<1>13. TypeOK'
  BY <1>1, <1>5, <1>7, <1>8 DEF IInv, TypeOK
<1>14. PlacesOK'
  BY <1>1, <1>8, <1>9, Constants DEF IInv, PlacesOK, Busy, Inside
<1>15. WorkOK' /\ ReadOK'
  BY <1>1, <1>2, <1>6, <1>8, <1>11 DEF IInv, WorkOK, ReadOK, Spent, OpenAt, SameRows, Busy
<1>16. CallsOK' /\ TerminalOK' /\ QueuesOK'
  BY <1>1, <1>8 DEF IInv, CallsOK, TerminalOK, QueuesOK, Ready
<1>17. HoldersOK'
  <2> SUFFICES ASSUME NEW x \in Workers, NEW y \in Workers, x # y,
                      loc[x].u = loc[y].u, loc[x].n = loc[y].n,
                      pc'[x] \in Past, loc[y].reserved \/ pc'[y] \in Past
               PROVE  <<loc[x].u, loc[x].n>> \in shared'
    BY <1>1 DEF HoldersOK
  <2>1. CASE x = w
    BY <2>1, <1>8, <1>9, <1>10 DEF Past
  <2>2. CASE y = w
    BY <2>2, <1>8, <1>9, <1>10 DEF Past
  <2>3. CASE x # w /\ y # w
    BY <2>3, <1>7, <1>8 DEF IInv, HoldersOK
  <2> QED
    BY <2>1, <2>2, <2>3
<1>18. ClaimsOK'
  <2> SUFFICES ASSUME NEW v \in Workers, pc'[v] \in Past
               PROVE  \/ <<loc[v].u, loc[v].n>> \in shared'
                      \/ spend'[loc[v].u][loc[v].n].status = "RESERVED"
                      \/ <<loc[v].u, loc[v].n>> \in receipt /\ journal[loc[v].u].st = "COMPLETE"
    BY <1>1 DEF ClaimsOK
  <2>1. CASE v = w
    BY <2>1, <1>2, <1>6 DEF SameRows
  <2>2. CASE v # w
    <3>1. pc[v] \in Past /\ loc[v].u \in Units /\ loc[v].n \in Attempts
      BY <2>2, <1>8, <1>11 DEF Busy, Past, Inside
    <3>2. spend'[loc[v].u][loc[v].n].status = spend[loc[v].u][loc[v].n].status
      BY <3>1, <1>6 DEF SameRows
    <3> QED
      BY <3>1, <3>2, <1>7 DEF IInv, ClaimsOK
  <2> QED
    BY <2>1, <2>2
<1>19. UnusedOK'
  BY <1>1, <1>7, <1>8 DEF IInv, UnusedOK
<1>20. SettlesOK'
  BY <1>1, <1>7, <1>8 DEF IInv, SettlesOK, Preserves
<1>21. IngestedMeansSealed' /\ FailuresAreSettled'
  BY <1>1 DEF IInv, IngestedMeansSealed, FailuresAreSettled
<1> QED
  BY <1>12, <1>13, <1>14, <1>15, <1>16, <1>17, <1>18, <1>19, <1>20, <1>21 DEF IInv

\* claim_graphiti_attempt preserves the invariant.
LEMMA ClaimStep ==
  ASSUME IInv, NEW w \in Workers, Claim(w) PROVE IInv'
<1>1. CASE Claimable(loc[w].u, loc[w].n)
  BY <1>1, ClaimsStep
<1>2. CASE ~Claimable(loc[w].u, loc[w].n)
  <2>1. Moves(w, "idle", NoLocals) /\ fence # w
    BY <1>2, Constants DEF Claim, Goto, Moves
  <2>2. UNCHANGED <<fence, faults, Tables>>
    BY <1>2 DEF Claim, Tables
  <2>3. faults' \in 0 .. MaxFault
    BY <2>2 DEF IInv, TypeOK
  <2> QED
    BY <2>1, <2>2, <2>3, NoTurn, NoLocalsType, Drops
<1> QED
  BY <1>1, <1>2

-----------------------------------------------------------------------------
(* The dispatch.  At most one worker is inside the fence.                    *)

\* At most one worker is inside the fence.
LEMMA Alone ==
  ASSUME IInv, NEW w \in Workers, pc[w] \in Inside
  PROVE  fence = w /\ \A v \in Workers : v # w => pc[v] \notin Inside
BY DEF IInv, PlacesOK

\* The worker leaves the fence with a result.
LeavesWith(w, res) ==
  Moves(w, "settle", [loc[w] EXCEPT !.res = res]) /\ fence' = None

\* Leaving the fence with a result that covers the charge preserves the invariant.
LEMMA Answers ==
  ASSUME IInv, NEW w \in Workers, pc[w] \in Inside, NEW res \in Results,
         LeavesWith(w, res),
         UNCHANGED <<spend, receipt, ingested, fails, charged, shared, faults>>,
         journal' \in [Units -> Journals],
         \A u \in Units :
           /\ journal'[u].att = journal[u].att /\ journal'[u].use = journal[u].use
           /\ journal'[u].st = "NONE" <=> journal[u].st = "NONE"
           /\ journal[u].st = "COMPLETE" => journal'[u].st = "COMPLETE",
         \A u \in Units : u # loc[w].u => journal'[u] = journal[u],
         res.kind = "terminal" =>
           /\ journal'[loc[w].u].st = "COMPLETE"
           /\ res.at = journal[loc[w].u].att /\ res.use = journal[loc[w].u].use,
         \/ ~loc[w].reserved /\ res.kind # "terminal"
              /\ (res.kind \in {"refused", "raised"} \/ res.use = NoCall)
         \/ <<loc[w].u, loc[w].n>> \in shared \cup receipt
         \/ UsageOf(res).rep => charged[loc[w].u][loc[w].n] <= UsageOf(res).cost
  PROVE  IInv'
<1> DEFINE u == loc[w].u
           n == loc[w].n
           l == [loc[w] EXCEPT !.res = res]
<1>1. pc[w] \in Busy /\ pc[w] \in Past /\ pc[w] # "read"
  BY DEF Busy, Past, Inside
<1>2. loc[w] \in Locals /\ u \in Units /\ n \in Attempts
  BY <1>1, BusyLocals
<1>3. /\ l \in Locals /\ l.u = u /\ l.n = n /\ l.res = res
      /\ l.todo = loc[w].todo /\ l.reserved = loc[w].reserved
  BY <1>2 DEF Locals
<1> HIDE DEF l
<1>4. "settle" \in Steps /\ "settle" \in Busy /\ "settle" \in Past /\ "settle" \notin Inside
  BY DEF Steps, Busy, Past, Inside
<1>5. /\ pc' \in [Workers -> Steps] /\ loc' \in [Workers -> Locals]
      /\ pc'[w] = "settle" /\ loc'[w] = l
      /\ \A v \in Workers : v # w => pc'[v] = pc[v] /\ loc'[v] = loc[v]
  BY <1>3, <1>4, MovesPointwise DEF IInv, LeavesWith, l
<1>6. fence = w /\ \A v \in Workers : v # w => pc[v] \notin Inside
  BY Alone
<1>7. ASSUME NEW v \in Workers, pc[v] \in Busy
      PROVE  loc[v].u \in Units /\ loc[v].n \in Attempts
  BY <1>7, BusyLocals
<1>8. TypeOK'
  BY <1>5, Constants DEF IInv, TypeOK, LeavesWith
<1>9. PlacesOK'
  BY <1>1, <1>2, <1>3, <1>4, <1>5, <1>6, Constants DEF IInv, PlacesOK, LeavesWith
<1>10. RowsOK' /\ ChargesAreCounted' /\ FailuresAreSettled'
  BY DEF IInv, RowsOK, ChargesAreCounted, FailuresAreSettled, Spent, OpenAt
<1>11. WorkOK' /\ ReadOK'
  BY <1>1, <1>3, <1>5 DEF IInv, WorkOK, ReadOK, Spent, OpenAt
<1>12. JournalOK'
  BY DEF IInv, JournalOK, Spent
<1>13. CallsOK'
  BY <1>5, <1>6 DEF CallsOK, Inside
<1>14. TerminalOK'
  <2> SUFFICES ASSUME NEW v \in Workers, pc'[v] = "settle", loc'[v].res.kind = "terminal"
               PROVE  /\ journal'[loc'[v].u].st = "COMPLETE"
                      /\ loc'[v].res.at = journal'[loc'[v].u].att
                      /\ loc'[v].res.use = journal'[loc'[v].u].use
    BY DEF TerminalOK
  <2>1. CASE v = w
    BY <2>1, <1>2, <1>3, <1>5
  <2>2. CASE v # w
    <3>1. pc[v] = "settle" /\ loc'[v] = loc[v] /\ loc[v].u \in Units
      BY <2>2, <1>5, <1>7 DEF Busy
    <3> QED
      BY <3>1 DEF IInv, TerminalOK
  <2> QED
    BY <2>1, <2>2
<1>15. HoldersOK'
  BY <1>1, <1>3, <1>4, <1>5 DEF IInv, HoldersOK
<1>16. ClaimsOK'
  <2> SUFFICES ASSUME NEW v \in Workers, pc'[v] \in Past
               PROVE  \/ <<loc'[v].u, loc'[v].n>> \in shared
                      \/ spend[loc'[v].u][loc'[v].n].status = "RESERVED"
                      \/ /\ <<loc'[v].u, loc'[v].n>> \in receipt
                         /\ journal'[loc'[v].u].st = "COMPLETE"
    BY DEF ClaimsOK
  <2>1. pc[v] \in Past /\ loc'[v].u = loc[v].u /\ loc'[v].n = loc[v].n
    BY <1>1, <1>3, <1>5
  <2>2. loc[v].u \in Units
    BY <2>1, <1>7 DEF Past, Inside, Busy
  <2>3. \/ <<loc[v].u, loc[v].n>> \in shared
        \/ spend[loc[v].u][loc[v].n].status = "RESERVED"
        \/ <<loc[v].u, loc[v].n>> \in receipt /\ journal[loc[v].u].st = "COMPLETE"
    BY <2>1 DEF IInv, ClaimsOK
  <2>4. journal[loc[v].u].st = "COMPLETE" => journal'[loc[v].u].st = "COMPLETE"
    BY <2>2
  <2> QED
    BY <2>1, <2>3, <2>4
<1>17. UnusedOK'
  BY <1>5 DEF IInv, UnusedOK
<1>18. SettlesOK'
  <2> SUFFICES ASSUME NEW v \in Workers, pc'[v] = "settle"
               PROVE  \/ Preserves(v)'
                      \/ <<loc'[v].u, loc'[v].n>> \in shared \cup receipt
                      \/ UsageOf(loc'[v].res).rep
                           => charged[loc'[v].u][loc'[v].n] <= UsageOf(loc'[v].res).cost
    BY DEF SettlesOK
  <2>1. CASE v = w
    BY <2>1, <1>3, <1>5 DEF Preserves
  <2>2. CASE v # w
    BY <2>2, <1>5 DEF IInv, SettlesOK, Preserves
  <2> QED
    BY <2>1, <2>2
<1>19. QueuesOK'
  BY <1>2, <1>3, <1>5 DEF IInv, QueuesOK, Ready
<1>20. IngestedMeansSealed'
  BY DEF IInv, TypeOK, IngestedMeansSealed
<1> QED
  BY <1>8, <1>9, <1>10, <1>11, <1>12, <1>13, <1>14, <1>15, <1>16, <1>17, <1>18, <1>19, <1>20 DEF IInv

\* The result that Answer puts into the worker's locals.
ResultOf(kind, usage, at, closed) ==
  IF kind \in {"refused", "raised"} THEN [NoResult EXCEPT !.kind = kind]
  ELSE IF kind = "rejected" THEN [NoResult EXCEPT !.kind = kind, !.use = usage]
  ELSE [kind |-> kind, use |-> usage, at |-> at, closed |-> closed]

\* An answer is a well-typed result.
LEMMA ResultOfType ==
  ASSUME NEW kind \in Kinds, NEW usage \in Usages, NEW at \in Attempts \cup {0},
         NEW closed \in BOOLEAN
  PROVE  LET res == ResultOf(kind, usage, at, closed)
         IN  /\ res \in Results /\ res.kind = kind
             /\ kind \in {"terminal", "failed"} => res.use = usage /\ res.at = at
BY NoCallUsage DEF ResultOf, Results, NoResult, Kinds

\* A dispatch refused before the provider preserves the invariant.
LEMMA RefuseStep ==
  ASSUME IInv, NEW w \in Workers, Refuse(w) PROVE IInv'
<1>1. PICK kind \in {"failed", "refused", "raised"} : Answer(w, kind, NoCall, loc[w].n, FALSE)
  BY DEF Refuse
<1>2. pc[w] = "claimed" /\ UNCHANGED <<Ledger, journal, History, faults>>
  BY DEF Refuse
<1>3. loc[w].u \in Units /\ loc[w].n \in Attempts /\ loc[w].reserved \in BOOLEAN
  BY <1>2, BusyLocals DEF Busy
<1>4. PICK res \in Results :
        /\ LeavesWith(w, res)
        /\ res.kind = kind
        /\ kind \in {"terminal", "failed"} => res.use = NoCall /\ res.at = loc[w].n
  <2>1. kind \in Kinds /\ NoCall \in Usages /\ loc[w].n \in Attempts \cup {0} /\ FALSE \in BOOLEAN
    BY <1>3, NoCallUsage DEF Kinds
  <2> DEFINE r == ResultOf(kind, NoCall, loc[w].n, FALSE)
  <2>2. LeavesWith(w, r)
    BY <1>1 DEF Answer, Goto, Moves, LeavesWith, ResultOf
  <2>3. /\ r \in Results /\ r.kind = kind
        /\ kind \in {"terminal", "failed"} => r.use = NoCall /\ r.at = loc[w].n
    BY <2>1, ResultOfType
  <2> HIDE DEF r
  <2> QED
    BY <2>2, <2>3
<1>5. charged[loc[w].u][loc[w].n] \in Nat
  BY <1>3 DEF IInv, TypeOK
<1>6. \/ ~loc[w].reserved /\ res.kind # "terminal"
           /\ (res.kind \in {"refused", "raised"} \/ res.use = NoCall)
      \/ <<loc[w].u, loc[w].n>> \in shared \cup receipt
      \/ UsageOf(res).rep => charged[loc[w].u][loc[w].n] <= UsageOf(res).cost
  <2>1. CASE ~loc[w].reserved
    BY <2>1, <1>4
  <2>2. CASE loc[w].reserved
    <3>1. charged[loc[w].u][loc[w].n] = 0 \/ <<loc[w].u, loc[w].n>> \in shared
      BY <1>2, <2>2 DEF IInv, UnusedOK
    <3>2. UsageOf(res).rep => UsageOf(res).cost = 0
      BY <1>4, NoCallUsage DEF UsageOf
    <3> QED
      BY <3>1, <3>2
  <2> QED
    BY <2>1, <2>2
<1>7. journal' \in [Units -> Journals] /\ journal' = journal
  BY <1>2 DEF IInv, TypeOK
<1> QED
  BY <1>2, <1>4, <1>6, <1>7, Answers DEF Ledger, History, Inside

\* A journalled result of whatever attempt covers the charge of this one,
\* unless this one is settled or shared.
LEMMA JournalCovers ==
  ASSUME IInv, NEW w \in Workers, pc[w] \in Past
  PROVE  LET u == loc[w].u
             n == loc[w].n
         IN \/ <<u, n>> \in shared \cup receipt
            \/ /\ journal[u].att = n /\ (journal[u].use.rep => charged[u][n] = journal[u].use.cost)
            \/ charged[u][n] = 0
<1> DEFINE u == loc[w].u
           n == loc[w].n
           a == journal[u].att
<1>1. u \in Units /\ n \in Attempts
  BY BusyLocals DEF Busy, Past, Inside
<1>2. a \in Attempts \cup {0}
  BY <1>1 DEF IInv, TypeOK, Journals
<1>3. CASE a = n
  BY <1>1, <1>3, Constants DEF IInv, JournalOK, Attempts
<1>4. CASE a < n
  BY <1>1, <1>2, <1>4, Constants DEF IInv, JournalOK, Attempts
<1>5. CASE a > n
  <2>1. a \in Attempts /\ Spent(u, a)
    BY <1>1, <1>2, <1>5, Constants DEF IInv, JournalOK, Attempts
  <2>2. ~OpenAt(u, n)
    BY <1>1, <1>5, <2>1 DEF IInv, RowsOK
  <2>3. \/ <<u, n>> \in shared \/ spend[u][n].status = "RESERVED" \/ <<u, n>> \in receipt
    BY DEF IInv, ClaimsOK
  <2> QED
    BY <2>2, <2>3 DEF OpenAt
<1>6. a = n \/ a < n \/ a > n
  BY <1>1, <1>2, Constants DEF Attempts
<1> QED
  BY <1>3, <1>4, <1>5, <1>6

\* A replay from the journal preserves the invariant.
LEMMA RecoverStep ==
  ASSUME IInv, NEW w \in Workers, Recover(w) PROVE IInv'
<1> DEFINE u == loc[w].u
           n == loc[w].n
           j == journal[u]
           sealed == j.st \in {"COMPLETE", "FAILED"}
<1>1. PICK kind \in {"terminal", "failed", "rejected", "raised"} :
        /\ kind = "terminal" => j.st = "COMPLETE"
        /\ Answer(w, kind, j.use, j.att, kind = "failed" /\ ~sealed)
  BY DEF Recover
<1>2. /\ pc[w] = "claimed" /\ j.st # "NONE"
      /\ UNCHANGED <<Ledger, History, faults>>
      /\ journal' = IF j.st = "PENDING" THEN [journal EXCEPT ![u] = [@ EXCEPT !.st = "ROLLED_BACK"]]
                    ELSE journal
  BY DEF Recover
<1>3. u \in Units /\ n \in Attempts
  BY <1>2, BusyLocals DEF Busy
<1>4. journal \in [Units -> Journals] /\ j \in Journals /\ j.use \in Usages
      /\ j.att \in Attempts \cup {0}
  BY <1>3 DEF IInv, TypeOK, Journals
<1>5. PICK res \in Results :
        /\ LeavesWith(w, res)
        /\ res.kind = kind
        /\ kind \in {"terminal", "failed"} => res.use = j.use /\ res.at = j.att
  <2> DEFINE c == kind = "failed" /\ ~sealed
  <2>1. kind \in Kinds /\ j.use \in Usages /\ j.att \in Attempts \cup {0} /\ c \in BOOLEAN
    BY <1>4 DEF Kinds
  <2> DEFINE r == ResultOf(kind, j.use, j.att, c)
  <2>2. LeavesWith(w, r)
    BY <1>1 DEF Answer, Goto, Moves, LeavesWith, ResultOf
  <2> HIDE DEF c
  <2>3. /\ r \in Results /\ r.kind = kind
        /\ kind \in {"terminal", "failed"} => r.use = j.use /\ r.at = j.att
    BY <2>1, ResultOfType
  <2> HIDE DEF r
  <2> QED
    BY <2>2, <2>3
<1>6. /\ journal' \in [Units -> Journals]
      /\ \A v \in Units : v # u => journal'[v] = journal[v]
      /\ journal'[u].att = j.att /\ journal'[u].use = j.use
      /\ journal'[u].st = IF j.st = "PENDING" THEN "ROLLED_BACK" ELSE j.st
  <2>1. CASE j.st = "PENDING"
    <3> DEFINE k == [j EXCEPT !.st = "ROLLED_BACK"]
    <3>1. journal' = [journal EXCEPT ![u] = k]
      BY <1>2, <2>1
    <3>2. k \in Journals /\ k.att = j.att /\ k.use = j.use /\ k.st = "ROLLED_BACK"
      BY <1>4 DEF Journals, JournalStates
    <3> HIDE DEF k
    <3> QED
      BY <1>3, <1>4, <2>1, <3>1, <3>2
  <2>2. CASE j.st # "PENDING"
    BY <1>2, <1>4, <2>2
  <2> QED
    BY <2>1, <2>2
<1>7. \/ <<u, n>> \in shared \cup receipt
      \/ UsageOf(res).rep => charged[u][n] <= UsageOf(res).cost
  <2>1. CASE kind \in {"rejected", "raised"}
    BY <2>1, <1>5, NoCallUsage DEF UsageOf
  <2>2. CASE kind \in {"terminal", "failed"}
    <3>1. UsageOf(res) = j.use
      BY <2>2, <1>5 DEF UsageOf
    <3>2. \/ <<u, n>> \in shared \cup receipt
          \/ (j.use.rep => charged[u][n] = j.use.cost)
          \/ charged[u][n] = 0
      BY <1>2, JournalCovers DEF Past, Inside
    <3>3. charged[u][n] \in Nat /\ j.use.cost \in Nat
      BY <1>3, <1>4, Constants DEF IInv, TypeOK, Usages
    <3> QED
      BY <3>1, <3>2, <3>3
  <2> QED
    BY <1>1, <2>1, <2>2
<1>8. res.kind = "terminal" => /\ journal'[u].st = "COMPLETE"
                               /\ res.at = journal[u].att /\ res.use = journal[u].use
  BY <1>1, <1>5, <1>6
<1>9. \A v \in Units :
        /\ journal'[v].att = journal[v].att /\ journal'[v].use = journal[v].use
        /\ journal'[v].st = "NONE" <=> journal[v].st = "NONE"
        /\ journal[v].st = "COMPLETE" => journal'[v].st = "COMPLETE"
  <2> SUFFICES ASSUME NEW v \in Units
               PROVE /\ journal'[v].att = journal[v].att /\ journal'[v].use = journal[v].use
                     /\ journal'[v].st = "NONE" <=> journal[v].st = "NONE"
                     /\ journal[v].st = "COMPLETE" => journal'[v].st = "COMPLETE"
    OBVIOUS
  <2>1. CASE v = u
    BY <2>1, <1>2, <1>6
  <2>2. CASE v # u
    BY <2>2, <1>6
  <2> QED
    BY <2>1, <2>2
<1>10. UNCHANGED <<spend, receipt, ingested, fails, charged, shared, faults>> /\ pc[w] \in Inside
  BY <1>2 DEF Ledger, History, Inside
<1> QED
  BY <1>5, <1>6, <1>7, <1>8, <1>9, <1>10, Answers

\* The end of a call preserves the invariant.
LEMMA ReturnStep ==
  ASSUME IInv, NEW w \in Workers, Return(w) PROVE IInv'
<1> DEFINE u == loc[w].u
           n == loc[w].n
           j == journal[u]
<1>1. PICK st \in JournalStates, kind \in {"terminal", "failed", "rejected", "raised"} :
        /\ kind = "terminal" => st = "COMPLETE"
        /\ journal' = [journal EXCEPT ![u] = [@ EXCEPT !.st = st]]
        /\ Answer(w, kind, loc[w].res.use, loc[w].n, FALSE)
  BY DEF Return
<1>2. pc[w] = "called" /\ UNCHANGED <<Ledger, History, faults>>
  BY DEF Return
<1>3. u \in Units /\ n \in Attempts /\ loc[w].res.use \in Usages
  BY <1>2, BusyLocals DEF Busy
<1>4. journal \in [Units -> Journals] /\ j \in Journals
  BY <1>3 DEF IInv, TypeOK
<1>5. /\ j.st = "PENDING" /\ j.att = n /\ j.use = loc[w].res.use
      /\ loc[w].res.use.rep => charged[u][n] = loc[w].res.use.cost
  BY <1>2 DEF IInv, CallsOK
<1>6. PICK res \in Results :
        /\ LeavesWith(w, res)
        /\ res.kind = kind
        /\ kind \in {"terminal", "failed"} => res.use = loc[w].res.use /\ res.at = n
  <2>1. kind \in Kinds /\ loc[w].res.use \in Usages /\ n \in Attempts \cup {0} /\ FALSE \in BOOLEAN
    BY <1>3 DEF Kinds
  <2> DEFINE r == ResultOf(kind, loc[w].res.use, loc[w].n, FALSE)
  <2>2. LeavesWith(w, r)
    BY <1>1 DEF Answer, Goto, Moves, LeavesWith, ResultOf
  <2>3. /\ r \in Results /\ r.kind = kind
        /\ kind \in {"terminal", "failed"} => r.use = loc[w].res.use /\ r.at = n
    BY <2>1, ResultOfType
  <2> HIDE DEF r
  <2> QED
    BY <2>2, <2>3
<1> DEFINE k == [j EXCEPT !.st = st]
<1>7. journal' = [journal EXCEPT ![u] = k]
  BY <1>1
<1>8. k \in Journals /\ k.att = j.att /\ k.use = j.use /\ k.st = st /\ st # "NONE"
  BY <1>4 DEF Journals, JournalStates
<1> HIDE DEF k
<1>9. /\ journal' \in [Units -> Journals] /\ journal'[u] = k
      /\ \A v \in Units : v # u => journal'[v] = journal[v]
  BY <1>3, <1>4, <1>7, <1>8
<1>10. UsageOf(res).rep => charged[u][n] <= UsageOf(res).cost
  <2>1. CASE kind \in {"rejected", "raised"}
    BY <2>1, <1>6, NoCallUsage DEF UsageOf
  <2>2. CASE kind \in {"terminal", "failed"}
    <3>1. UsageOf(res) = loc[w].res.use
      BY <2>2, <1>5, <1>6 DEF UsageOf
    <3>2. charged[u][n] \in Nat
      BY <1>3 DEF IInv, TypeOK
    <3> QED
      BY <3>1, <3>2, <1>5
  <2> QED
    BY <1>1, <2>1, <2>2
<1>11. \A v \in Units :
        /\ journal'[v].att = journal[v].att /\ journal'[v].use = journal[v].use
        /\ journal'[v].st = "NONE" <=> journal[v].st = "NONE"
        /\ journal[v].st = "COMPLETE" => journal'[v].st = "COMPLETE"
  <2> SUFFICES ASSUME NEW v \in Units
               PROVE /\ journal'[v].att = journal[v].att /\ journal'[v].use = journal[v].use
                     /\ journal'[v].st = "NONE" <=> journal[v].st = "NONE"
                     /\ journal[v].st = "COMPLETE" => journal'[v].st = "COMPLETE"
    OBVIOUS
  <2>1. CASE v = u
    BY <2>1, <1>5, <1>8, <1>9
  <2>2. CASE v # u
    BY <2>2, <1>9
  <2> QED
    BY <2>1, <2>2
<1>12. UNCHANGED <<spend, receipt, ingested, fails, charged, shared, faults>> /\ pc[w] \in Inside
  BY <1>2 DEF Ledger, History, Inside
<1>13. res.kind = "terminal" => /\ journal'[u].st = "COMPLETE"
                                /\ res.at = journal[u].att /\ res.use = journal[u].use
  BY <1>1, <1>5, <1>6, <1>8, <1>9
<1> QED
  BY <1>6, <1>9, <1>10, <1>11, <1>12, <1>13, Answers

\* A provider call preserves the invariant: the charge is under a full reservation.
LEMMA CallStep ==
  ASSUME IInv, NEW w \in Workers, Call(w) PROVE IInv'
<1> DEFINE u == loc[w].u
           n == loc[w].n
           j == [st |-> "PENDING", att |-> n, use |-> Unreported]
<1>1. /\ pc[w] = "claimed" /\ MayCall(journal[u], n) /\ Goto(w, "calling")
      /\ journal' = [journal EXCEPT ![u] = j]
      /\ UNCHANGED <<spend, receipt, ingested, fails, fence, shared, faults>>
  BY DEF Call, Ledger
<1>2. PICK c \in Costs, rep \in BOOLEAN :
        /\ charged' = [charged EXCEPT ![u] = [@ EXCEPT ![n] = charged[u][n] + c]]
        /\ loc' = [loc EXCEPT ![w] = [@ EXCEPT !.res = [NoResult EXCEPT
                     !.use = IF rep THEN [rep |-> TRUE, cost |-> c] ELSE Unreported]]]
  BY DEF Call
<1> DEFINE use == IF rep THEN [rep |-> TRUE, cost |-> c] ELSE Unreported
           res == [NoResult EXCEPT !.use = use]
           l == [loc[w] EXCEPT !.res = res]
<1>3. /\ loc[w] \in Locals /\ u \in Units /\ n \in Attempts /\ Spent(u, n) /\ c \in 0 .. R
  BY <1>1, BusyLocals, Constants DEF Busy, IInv, WorkOK
<1>4. use \in Usages /\ (use.rep => use.cost = c)
  BY <1>3, NoCallUsage DEF Usages
<1>5. Moves(w, "calling", l)
  BY <1>1, <1>2 DEF Goto, Moves
<1> HIDE DEF use
<1>6. res \in Results /\ res.use = use
  BY <1>4, NoLocalsType DEF Results, NoResult
<1> HIDE DEF res
<1>7. /\ l \in Locals /\ l.u = u /\ l.n = n /\ l.res.use = use
      /\ l.todo = loc[w].todo /\ l.reserved = loc[w].reserved
  BY <1>3, <1>6 DEF Locals
<1> HIDE DEF l
<1>8. "calling" \in Steps /\ "calling" \in Busy /\ "calling" \in Past /\ "calling" \in Inside
      /\ "claimed" \in Past /\ "claimed" \in Inside /\ "claimed" \in Busy
  BY DEF Steps, Busy, Past, Inside
<1>9. /\ pc' \in [Workers -> Steps] /\ loc' \in [Workers -> Locals]
      /\ pc'[w] = "calling" /\ loc'[w] = l
      /\ \A v \in Workers : v # w => pc'[v] = pc[v] /\ loc'[v] = loc[v]
  BY <1>5, <1>7, <1>8, MovesPointwise DEF IInv
<1>10. fence = w /\ \A v \in Workers : v # w => pc[v] \notin Inside
  BY <1>1, <1>8, Alone
<1>11. j \in Journals /\ j.st = "PENDING" /\ j.att = n /\ ~j.use.rep
  BY <1>3, NoCallUsage DEF Journals, JournalStates
<1> HIDE DEF j
<1>12. /\ journal' \in [Units -> Journals] /\ journal'[u] = j
       /\ \A v \in Units : v # u => journal'[v] = journal[v]
  BY <1>1, <1>3, <1>11 DEF IInv, TypeOK
<1>13. journal[u].st # "COMPLETE" /\ journal[u].att < n /\ journal[u].att \in Attempts \cup {0}
  <2>1. journal[u].att \in Attempts \cup {0} /\ (journal[u].st = "NONE" => journal[u].att = 0)
    BY <1>3 DEF IInv, TypeOK, Journals, JournalOK
  <2> QED
    BY <1>1, <1>3, <2>1, Constants DEF MayCall, Attempts
<1>14. \A k \in Attempts : k >= n => charged[u][k] = 0
  BY <1>3, <1>13, Constants DEF IInv, JournalOK, Attempts
<1>15. charged \in [Units -> [Attempts -> Nat]]
  BY DEF IInv, TypeOK
<1>16. /\ charged' \in [Units -> [Attempts -> Nat]]
       /\ \A v \in Units, k \in Attempts :
            charged'[v][k] = IF v = u /\ k = n THEN c ELSE charged[v][k]
  <2>1. charged[u] \in [Attempts -> Nat] /\ charged[u][n] = 0 /\ c \in Nat
    BY <1>3, <1>14, <1>15, Constants DEF Attempts
  <2> QED
    BY <1>2, <1>3, <1>15, <2>1
<1>17. ASSUME NEW v \in Workers, v # w, loc[v].u = u, loc[v].n = n,
              loc[v].reserved \/ pc[v] \in Past
       PROVE  <<u, n>> \in shared
  BY <1>1, <1>8, <1>17 DEF IInv, HoldersOK
<1>18. spend[u][n].status = "RESERVED" \/ <<u, n>> \in shared
  BY <1>1, <1>8, <1>13 DEF IInv, ClaimsOK
<1>19. ASSUME NEW v \in Workers, pc[v] \in Busy
       PROVE  loc[v].u \in Units /\ loc[v].n \in Attempts
  BY <1>19, BusyLocals
<1>20. TypeOK'
  BY <1>1, <1>9, <1>12, <1>16 DEF IInv, TypeOK
<1>21. PlacesOK'
  BY <1>1, <1>3, <1>7, <1>8, <1>9, <1>10 DEF IInv, PlacesOK
<1>22. RowsOK'
  <2> SUFFICES ASSUME NEW v \in Units, NEW k \in Attempts
               PROVE  /\ ~Spent(v, k) => charged'[v][k] = 0 /\ <<v, k>> \notin receipt
                      /\ ~Spent(v, k) \/ OpenAt(v, k)
                           => \A i \in Attempts : i > k => ~Spent(v, i)
    BY <1>1 DEF RowsOK, Spent, OpenAt
  <2> QED
    BY <1>3, <1>16 DEF IInv, RowsOK
<1>23. WorkOK' /\ ReadOK'
  BY <1>1, <1>3, <1>7, <1>8, <1>9 DEF IInv, WorkOK, ReadOK, Spent, OpenAt
<1>24. JournalOK'
  <2> SUFFICES ASSUME NEW v \in Units
               PROVE  /\ journal'[v].st = "NONE" <=> journal'[v].att = 0
                      /\ journal'[v].att # 0 => Spent(v, journal[v].att)'
                      /\ \A k \in Attempts :
                           charged'[v][k] <= R /\ (k > journal'[v].att => charged'[v][k] = 0)
                      /\ journal'[v].att # 0 /\ journal'[v].use.rep
                           => charged'[v][journal'[v].att] = journal'[v].use.cost
    BY DEF JournalOK
  <2>1. CASE v = u
    <3>1. journal'[v] = j /\ Spent(v, j.att)
      BY <2>1, <1>3, <1>11, <1>12
    <3>2. \A k \in Attempts : charged'[v][k] <= R /\ (k > n => charged'[v][k] = 0)
      <4>1. \A k \in Attempts : charged[u][k] <= R
        BY <1>3 DEF IInv, JournalOK
      <4>2. \A k \in Attempts : k > n => k >= n /\ k # n
        BY <1>3, Constants DEF Attempts
      <4> QED
        BY <2>1, <1>3, <1>14, <1>16, <4>1, <4>2, Constants
    <3> QED
      BY <1>1, <1>3, <1>11, <3>1, <3>2, Constants DEF Spent, Attempts
  <2>2. CASE v # u
    <3>1. journal'[v] = journal[v] /\ journal[v].att \in Attempts \cup {0}
      BY <2>2, <1>12 DEF IInv, TypeOK, Journals
    <3>2. \A k \in Attempts : charged'[v][k] = charged[v][k]
      BY <2>2, <1>16
    <3>3. /\ journal[v].st = "NONE" <=> journal[v].att = 0
          /\ journal[v].att # 0 => spend[v][journal[v].att].status # "NONE"
          /\ \A k \in Attempts :
               charged[v][k] <= R /\ (k > journal[v].att => charged[v][k] = 0)
          /\ journal[v].att # 0 /\ journal[v].use.rep
               => charged[v][journal[v].att] = journal[v].use.cost
      BY DEF IInv, JournalOK, Spent
    <3>4. Spent(v, journal[v].att)' <=> spend[v][journal[v].att].status # "NONE"
      BY <1>1, <3>1 DEF Spent
    <3> QED
      BY <3>1, <3>2, <3>3, <3>4
  <2> QED
    BY <2>1, <2>2
<1>25. CallsOK'
  <2> SUFFICES ASSUME NEW v \in Workers, pc'[v] \in {"calling", "called"}
               PROVE  /\ journal'[loc'[v].u].st = "PENDING" /\ journal'[loc'[v].u].att = loc'[v].n
                      /\ pc'[v] = "called" => journal'[loc'[v].u].use = loc'[v].res.use
                      /\ loc'[v].res.use.rep
                           => charged'[loc'[v].u][loc'[v].n] = loc'[v].res.use.cost
    BY DEF CallsOK
  <2>1. v = w
    BY <1>9, <1>10 DEF Inside
  <2> QED
    BY <2>1, <1>3, <1>4, <1>7, <1>9, <1>11, <1>12, <1>16
<1>26. TerminalOK'
  <2> SUFFICES ASSUME NEW v \in Workers, pc'[v] = "settle", loc'[v].res.kind = "terminal"
               PROVE  /\ journal'[loc'[v].u].st = "COMPLETE"
                      /\ loc'[v].res.at = journal'[loc'[v].u].att
                      /\ loc'[v].res.use = journal'[loc'[v].u].use
    BY DEF TerminalOK
  <2>1. v # w /\ pc[v] = "settle" /\ loc'[v] = loc[v]
    BY <1>9
  <2>2. loc[v].u \in Units /\ loc[v].u # u
    BY <2>1, <1>13, <1>19 DEF Busy, IInv, TerminalOK
  <2> QED
    BY <2>1, <2>2, <1>12 DEF IInv, TerminalOK
<1>27. HoldersOK'
  BY <1>1, <1>7, <1>8, <1>9 DEF IInv, HoldersOK
<1>28. ClaimsOK'
  <2> SUFFICES ASSUME NEW v \in Workers, pc'[v] \in Past
               PROVE  \/ <<loc'[v].u, loc'[v].n>> \in shared
                      \/ spend[loc'[v].u][loc'[v].n].status = "RESERVED"
                      \/ /\ <<loc'[v].u, loc'[v].n>> \in receipt
                         /\ journal'[loc'[v].u].st = "COMPLETE"
    BY <1>1 DEF ClaimsOK
  <2>1. pc[v] \in Past /\ loc'[v].u = loc[v].u /\ loc'[v].n = loc[v].n
    BY <1>1, <1>7, <1>8, <1>9
  <2>2. loc[v].u \in Units
    BY <2>1, <1>19 DEF Past, Inside, Busy
  <2>3. \/ <<loc[v].u, loc[v].n>> \in shared
        \/ spend[loc[v].u][loc[v].n].status = "RESERVED"
        \/ <<loc[v].u, loc[v].n>> \in receipt /\ journal[loc[v].u].st = "COMPLETE"
    BY <2>1 DEF IInv, ClaimsOK
  <2>4. journal[loc[v].u].st = "COMPLETE" => journal'[loc[v].u].st = "COMPLETE"
    BY <2>2, <1>12, <1>13
  <2> QED
    BY <2>1, <2>3, <2>4
<1>29. UnusedOK'
  <2> SUFFICES ASSUME NEW v \in Workers, loc'[v].reserved, pc'[v] \in {"reserved", "claimed"}
               PROVE  charged'[loc'[v].u][loc'[v].n] = 0 \/ <<loc'[v].u, loc'[v].n>> \in shared
    BY <1>1 DEF UnusedOK
  <2>1. v # w /\ pc[v] \in {"reserved", "claimed"} /\ loc'[v] = loc[v]
    BY <1>9
  <2>2. loc[v].u \in Units /\ loc[v].n \in Attempts
    BY <2>1, <1>19 DEF Busy
  <2>3. charged[loc[v].u][loc[v].n] = 0 \/ <<loc[v].u, loc[v].n>> \in shared
    BY <2>1 DEF IInv, UnusedOK
  <2>4. CASE loc[v].u = u /\ loc[v].n = n
    BY <2>1, <2>4, <1>17
  <2>5. CASE ~(loc[v].u = u /\ loc[v].n = n)
    BY <2>1, <2>2, <2>3, <2>5, <1>16
  <2> QED
    BY <2>4, <2>5
<1>30. SettlesOK'
  <2> SUFFICES ASSUME NEW v \in Workers, pc'[v] = "settle"
               PROVE  \/ Preserves(v)'
                      \/ <<loc'[v].u, loc'[v].n>> \in shared \cup receipt
                      \/ UsageOf(loc'[v].res).rep
                           => charged'[loc'[v].u][loc'[v].n] <= UsageOf(loc'[v].res).cost
    BY <1>1 DEF SettlesOK
  <2>1. v # w /\ pc[v] = "settle" /\ loc'[v] = loc[v]
    BY <1>9
  <2>2. loc[v].u \in Units /\ loc[v].n \in Attempts /\ pc[v] \in Past
    BY <2>1, <1>19 DEF Busy, Past
  <2>3. CASE loc[v].u = u /\ loc[v].n = n
    BY <2>1, <2>2, <2>3, <1>17
  <2>4. CASE ~(loc[v].u = u /\ loc[v].n = n)
    <3>1. charged'[loc[v].u][loc[v].n] = charged[loc[v].u][loc[v].n]
      BY <2>2, <2>4, <1>16
    <3> QED
      BY <2>1, <3>1 DEF IInv, SettlesOK, Preserves
  <2> QED
    BY <2>3, <2>4
<1>31. QueuesOK'
  BY <1>1, <1>3, <1>7, <1>9 DEF IInv, QueuesOK, Ready
<1>32. ChargesAreCounted'
  <2> SUFFICES ASSUME NEW v \in Units, NEW k \in Attempts
               PROVE  charged'[v][k] <= Counted(spend[v][k]) \/ <<v, k>> \in shared
    BY <1>1 DEF ChargesAreCounted
  <2>1. CASE v = u /\ k = n
    BY <2>1, <1>3, <1>16, <1>18, Constants DEF Counted
  <2>2. CASE ~(v = u /\ k = n)
    BY <2>2, <1>16 DEF IInv, ChargesAreCounted
  <2> QED
    BY <2>1, <2>2
<1>33. IngestedMeansSealed'
  BY <1>1, <1>12, <1>13 DEF IInv, TypeOK, IngestedMeansSealed
<1>34. FailuresAreSettled'
  BY <1>1 DEF IInv, FailuresAreSettled
<1> QED
  BY <1>20, <1>21, <1>22, <1>23, <1>24, <1>25, <1>26, <1>27, <1>28, <1>29, <1>30, <1>31,
     <1>32, <1>33, <1>34 DEF IInv

\* record_pending_telemetry preserves the invariant.
LEMMA RecordStep ==
  ASSUME IInv, NEW w \in Workers, Record(w) PROVE IInv'
<1> DEFINE u == loc[w].u
           n == loc[w].n
           j == [journal[u] EXCEPT !.use = loc[w].res.use]
<1>1. /\ pc[w] = "calling" /\ Goto(w, "called") /\ journal' = [journal EXCEPT ![u] = j]
      /\ UNCHANGED <<spend, receipt, ingested, fails, fence, loc, charged, shared, faults>>
  BY DEF Record, Ledger, History
<1>2. u \in Units /\ n \in Attempts /\ loc[w].res.use \in Usages
  BY <1>1, BusyLocals DEF Busy
<1>3. /\ journal[u].st = "PENDING" /\ journal[u].att = n
      /\ loc[w].res.use.rep => charged[u][n] = loc[w].res.use.cost
  BY <1>1 DEF IInv, CallsOK
<1>4. journal[u] \in Journals
  BY <1>2 DEF IInv, TypeOK
<1>5. j \in Journals /\ j.st = "PENDING" /\ j.att = n /\ j.use = loc[w].res.use
  BY <1>2, <1>3, <1>4 DEF Journals
<1> HIDE DEF j
<1>6. /\ journal' \in [Units -> Journals] /\ journal'[u] = j
      /\ \A v \in Units : v # u => journal'[v] = journal[v]
  BY <1>1, <1>2, <1>5 DEF IInv, TypeOK
<1>7. /\ pc' \in [Workers -> Steps] /\ pc'[w] = "called"
      /\ \A v \in Workers : v # w => pc'[v] = pc[v]
  BY <1>1 DEF Goto, IInv, TypeOK, Steps
<1>8. \A v \in Workers : v # w => pc[v] \notin Inside
  BY <1>1, Alone DEF Inside
<1>9. ASSUME NEW v \in Workers, pc[v] \in Busy
      PROVE  loc[v].u \in Units /\ loc[v].n \in Attempts
  BY <1>9, BusyLocals
<1>10. \A v \in Units : journal[v].st = "COMPLETE" => journal'[v] = journal[v]
  BY <1>3, <1>6
<1>11. TypeOK'
  BY <1>1, <1>6, <1>7 DEF IInv, TypeOK
<1>12. PlacesOK'
  BY <1>1, <1>7 DEF IInv, PlacesOK, Busy, Inside
<1>13. RowsOK' /\ ChargesAreCounted' /\ FailuresAreSettled' /\ QueuesOK'
  BY <1>1 DEF IInv, RowsOK, ChargesAreCounted, FailuresAreSettled, QueuesOK, Ready, Spent, OpenAt
<1>14. WorkOK' /\ ReadOK'
  BY <1>1, <1>7 DEF IInv, WorkOK, ReadOK, Spent, OpenAt, Busy
<1>15. JournalOK'
  <2> SUFFICES ASSUME NEW v \in Units
               PROVE  /\ journal'[v].st = "NONE" <=> journal'[v].att = 0
                      /\ journal'[v].att # 0 => Spent(v, journal[v].att)'
                      /\ \A k \in Attempts :
                           charged[v][k] <= R /\ (k > journal'[v].att => charged[v][k] = 0)
                      /\ journal'[v].att # 0 /\ journal'[v].use.rep
                           => charged[v][journal'[v].att] = journal'[v].use.cost
    BY <1>1 DEF JournalOK
  <2>1. CASE v = u
    <3>1. journal'[v].st = journal[v].st /\ journal'[v].att = journal[v].att
      BY <2>1, <1>3, <1>5, <1>6
    <3>2. Spent(v, journal[v].att)' = Spent(v, journal'[v].att)
      BY <1>1 DEF Spent
    <3>3. journal'[v].use.rep => charged[v][journal'[v].att] = journal'[v].use.cost
      BY <2>1, <1>3, <1>5, <1>6
    <3> QED
      BY <3>1, <3>2, <3>3 DEF IInv, JournalOK
  <2>2. CASE v # u
    BY <2>2, <1>1, <1>6 DEF IInv, JournalOK, Spent
  <2> QED
    BY <2>1, <2>2
<1>16. CallsOK'
  <2> SUFFICES ASSUME NEW v \in Workers, pc'[v] \in {"calling", "called"}
               PROVE  /\ journal'[loc[v].u].st = "PENDING" /\ journal'[loc[v].u].att = loc[v].n
                      /\ pc'[v] = "called" => journal'[loc[v].u].use = loc[v].res.use
                      /\ loc[v].res.use.rep => charged[loc[v].u][loc[v].n] = loc[v].res.use.cost
    BY <1>1 DEF CallsOK
  <2>1. v = w
    BY <1>7, <1>8 DEF Inside
  <2> QED
    BY <2>1, <1>3, <1>5, <1>6
<1>17. TerminalOK'
  <2> SUFFICES ASSUME NEW v \in Workers, pc'[v] = "settle", loc[v].res.kind = "terminal"
               PROVE  /\ journal'[loc[v].u].st = "COMPLETE"
                      /\ loc[v].res.at = journal'[loc[v].u].att
                      /\ loc[v].res.use = journal'[loc[v].u].use
    BY <1>1 DEF TerminalOK
  <2>1. v # w /\ pc[v] = "settle"
    BY <1>7
  <2>2. loc[v].u \in Units
    BY <2>1, <1>9 DEF Busy
  <2> QED
    BY <2>1, <2>2, <1>10 DEF IInv, TerminalOK
<1>18. HoldersOK' /\ UnusedOK'
  BY <1>1, <1>7 DEF IInv, HoldersOK, UnusedOK, Past, Inside
<1>19. ClaimsOK'
  <2> SUFFICES ASSUME NEW v \in Workers, pc'[v] \in Past
               PROVE  \/ <<loc[v].u, loc[v].n>> \in shared
                      \/ spend[loc[v].u][loc[v].n].status = "RESERVED"
                      \/ /\ <<loc[v].u, loc[v].n>> \in receipt
                         /\ journal'[loc[v].u].st = "COMPLETE"
    BY <1>1 DEF ClaimsOK
  <2>1. pc[v] \in Past
    BY <1>1, <1>7 DEF Past, Inside
  <2>2. loc[v].u \in Units
    BY <2>1, <1>9 DEF Past, Inside, Busy
  <2>3. \/ <<loc[v].u, loc[v].n>> \in shared
        \/ spend[loc[v].u][loc[v].n].status = "RESERVED"
        \/ <<loc[v].u, loc[v].n>> \in receipt /\ journal[loc[v].u].st = "COMPLETE"
    BY <2>1 DEF IInv, ClaimsOK
  <2> QED
    BY <2>2, <2>3, <1>10
<1>20. SettlesOK'
  BY <1>1, <1>7 DEF IInv, SettlesOK, Preserves
<1>21. IngestedMeansSealed'
  BY <1>1, <1>10 DEF IInv, TypeOK, IngestedMeansSealed
<1> QED
  BY <1>11, <1>12, <1>13, <1>14, <1>15, <1>16, <1>17, <1>18, <1>19, <1>20, <1>21 DEF IInv

-----------------------------------------------------------------------------
(* Settlement.                                                               *)

\* At most one failure is counted with a receipt that is new.
LEMMA OneMoreFailure ==
  ASSUME IInv, NEW u \in Units, NEW n \in Attempts, <<u, n>> \notin receipt,
         receipt' = receipt \cup {<<u, n>>}, fails' \in [Units -> Nat],
         \A v \in Units : fails'[v] <= fails[v] \/ (v = u /\ fails'[v] = fails[v] + 1)
  PROVE  FailuresAreSettled'
<1> SUFFICES ASSUME NEW v \in Units
             PROVE  fails'[v] <= Cardinality({k \in Attempts : <<v, k>> \in receipt'})
  BY DEF FailuresAreSettled
<1> DEFINE S == {k \in Attempts : <<v, k>> \in receipt}
           T == {k \in Attempts : <<v, k>> \in receipt'}
<1>1. IsFiniteSet(Attempts)
  BY FS_Interval, Constants DEF Attempts
<1>2. IsFiniteSet(S)
  BY <1>1, FS_Subset
<1>3. Cardinality(S) \in Nat
  BY <1>2, FS_CardinalityType
<1>4. fails[v] <= Cardinality(S) /\ fails[v] \in Nat /\ fails'[v] \in Nat
  BY DEF IInv, FailuresAreSettled, TypeOK
<1>5. CASE v # u
  <2>1. T = S
    BY <1>5
  <2>2. fails'[v] <= fails[v]
    BY <1>5
  <2> HIDE DEF S, T
  <2>3. fails'[v] <= Cardinality(T)
    BY <2>1, <2>2, <1>3, <1>4
  <2> QED
    BY <2>3 DEF T
<1>6. CASE v = u
  <2>1. T = S \cup {n} /\ n \notin S
    BY <1>6
  <2>2. Cardinality(T) = Cardinality(S) + 1
    BY <2>1, <1>2, FS_AddElement
  <2>3. fails'[v] <= fails[v] + 1
    BY <1>4
  <2> HIDE DEF S, T
  <2>4. fails'[v] <= Cardinality(T)
    BY <2>2, <2>3, <1>3, <1>4
  <2> QED
    BY <2>4 DEF T
<1> QED
  BY <1>5, <1>6

\* A failure is counted once, and for its unit only.
LEMMA FailureCounted ==
  ASSUME IInv, NEW u \in Units, CountFailure(u)
  PROVE  /\ fails' \in [Units -> Nat]
         /\ \A v \in Units : fails'[v] <= fails[v] \/ (v = u /\ fails'[v] = fails[v] + 1)
<1>1. fails \in [Units -> Nat]
  BY DEF IInv, TypeOK
<1>2. CASE fails' = [fails EXCEPT ![u] = @ + 1]
  BY <1>1, <1>2
<1>3. CASE fails' = fails
  BY <1>1, <1>3
<1> QED
  BY <1>2, <1>3 DEF CountFailure

\* What is left to show of a settlement: the rows it writes, the receipts, the
\* units it ingests and the failures it counts.
LEMMA Settles ==
  ASSUME IInv, NEW w \in Workers, pc[w] = "settle", Resume(w),
         spend' \in [Units -> [Attempts -> Rows]],
         \A u \in Units, n \in Attempts :
           /\ spend'[u][n].status = "NONE" <=> spend[u][n].status = "NONE"
           /\ spend'[u][n].status = "RESERVED" => spend[u][n].status = "RESERVED"
           /\ \/ u = loc[w].u /\ n = loc[w].n
              \/ spend'[u][n].status = spend[u][n].status
              \/ <<u, n>> \in receipt /\ journal[u].st = "COMPLETE"
           /\ Covers(spend'[u][n], u, n),
         receipt \subseteq receipt', receipt' \subseteq receipt \cup {<<loc[w].u, loc[w].n>>},
         ingested \subseteq ingested', ingested' \subseteq Units,
         fails' \in [Units -> Nat],
         UNCHANGED <<journal, charged, shared, fence, faults>>,
         IngestedMeansSealed', FailuresAreSettled'
  PROVE  IInv'
<1>1. PICK p \in {"idle", "pick"}, l \in Locals :
        Moves(w, p, l) /\ l.u = None /\ ~l.reserved /\ \A u \in l.todo : Ready(u)
  BY ResumeMoves
<1>2. loc[w].u \in Units /\ loc[w].n \in Attempts
  BY BusyLocals DEF Busy
<1>3. /\ PlacesOK' /\ RowsOK' /\ WorkOK' /\ ReadOK' /\ JournalOK' /\ CallsOK' /\ TerminalOK'
      /\ HoldersOK' /\ ClaimsOK' /\ UnusedOK' /\ SettlesOK'
  BY <1>1, ClosesRows
<1>4. /\ pc' \in [Workers -> Steps] /\ loc' \in [Workers -> Locals]
      /\ loc'[w] = l /\ \A v \in Workers : v # w => loc'[v] = loc[v]
  BY <1>1, MovesPointwise DEF IInv, Steps
<1>5. TypeOK'
  <2>1. receipt' \subseteq Units \X Attempts
    BY <1>2 DEF IInv, TypeOK
  <2> QED
    BY <1>4, <2>1 DEF IInv, TypeOK
<1>6. QueuesOK'
  BY <1>1, <1>4, Constants DEF IInv, QueuesOK, Ready
<1>7. ChargesAreCounted'
  BY DEF ChargesAreCounted, Covers
<1> QED
  BY <1>3, <1>5, <1>6, <1>7 DEF IInv

\* _preserve_reused_unresolved_spend preserves the invariant.
LEMMA PreserveStep ==
  ASSUME IInv, NEW w \in Workers, Preserve(w) PROVE IInv'
<1> DEFINE u == loc[w].u
           n == loc[w].n
           row == spend[u][n]
           new == IF row.status = "RESERVED" /\ row.owner = w
                  THEN [row EXCEPT !.owner = None, !.lapsed = FALSE] ELSE row
<1>1. /\ pc[w] = "settle" /\ SetRow(u, n, new) /\ Resume(w)
      /\ UNCHANGED <<ingested, fence, journal, charged, shared, faults>>
  BY DEF Preserve, History
<1>2. \/ /\ <<u, n>> \notin receipt /\ receipt' = receipt \cup {<<u, n>>} /\ CountFailure(u)
      \/ UNCHANGED <<receipt, fails>>
  BY DEF Preserve, Conflict, Retain
<1>3. u \in Units /\ n \in Attempts
  BY <1>1, BusyLocals DEF Busy
<1>4. row \in Rows /\ spend \in [Units -> [Attempts -> Rows]]
  BY <1>3 DEF IInv, TypeOK
<1>5. new \in Rows /\ new.status = row.status /\ new.cost = row.cost
  BY <1>4 DEF Rows
<1> HIDE DEF new
<1>6. /\ spend' \in [Units -> [Attempts -> Rows]]
      /\ \A v \in Units, k \in Attempts :
           spend'[v][k] = IF v = u /\ k = n THEN new ELSE spend[v][k]
  BY <1>1, <1>3, <1>4, <1>5, SetRowPointwise
<1>7. SameRows
  BY <1>5, <1>6 DEF SameRows
<1>8. \A v \in Units, k \in Attempts : Covers(spend'[v][k], v, k)
  <2> SUFFICES ASSUME NEW v \in Units, NEW k \in Attempts
               PROVE  charged[v][k] <= Counted(spend'[v][k]) \/ <<v, k>> \in shared
    BY DEF Covers
  <2>1. Counted(spend'[v][k]) = Counted(spend[v][k])
    BY <1>7 DEF SameRows, Counted
  <2> QED
    BY <2>1 DEF IInv, ChargesAreCounted
<1>9. FailuresAreSettled' /\ fails' \in [Units -> Nat]
  <2>1. CASE UNCHANGED <<receipt, fails>>
    BY <2>1 DEF IInv, FailuresAreSettled, TypeOK
  <2>2. CASE <<u, n>> \notin receipt /\ receipt' = receipt \cup {<<u, n>>} /\ CountFailure(u)
    BY <2>2, <1>3, FailureCounted, OneMoreFailure
  <2> QED
    BY <1>2, <2>1, <2>2
<1>10. receipt \subseteq receipt' /\ receipt' \subseteq receipt \cup {<<u, n>>}
  BY <1>2
<1>11. IngestedMeansSealed'
  BY <1>1, <1>10 DEF IInv, IngestedMeansSealed
<1>12. ingested \subseteq ingested' /\ ingested' \subseteq Units
  BY <1>1 DEF IInv, TypeOK
<1> QED
  BY <1>1, <1>6, <1>7, <1>8, <1>9, <1>10, <1>11, <1>12, Settles DEF SameRows

\* A reconciled result counts what was charged for the attempt, and for the
\* earlier attempt whose sealed success it carries.
LEMMA ResultReconciled ==
  ASSUME IInv, NEW w \in Workers, pc[w] = "settle", ~Preserves(w), ~Conflict(w),
         ReconcileResult(w)
  PROVE  /\ spend' \in [Units -> [Attempts -> Rows]]
         /\ \A u \in Units, n \in Attempts :
           /\ spend'[u][n].status = "NONE" <=> spend[u][n].status = "NONE"
           /\ spend'[u][n].status = "RESERVED" => spend[u][n].status = "RESERVED"
           /\ \/ u = loc[w].u /\ n = loc[w].n
              \/ spend'[u][n].status = spend[u][n].status
              \/ <<u, n>> \in receipt /\ journal[u].st = "COMPLETE"
           /\ Covers(spend'[u][n], u, n)
<1> DEFINE u == loc[w].u
           n == loc[w].n
           res == loc[w].res
           a == res.at
           own == Reconciled(UsageOf(res))
           earlier == IF spend[u][a].status = "RECONCILED" THEN spend[u][a]
                      ELSE Reconciled(res.use)
<1>1. /\ u \in Units /\ n \in Attempts /\ res.use \in Usages
      /\ spend[u][n].status # "NONE" /\ <<u, n>> \notin receipt
  BY BusyLocals DEF Busy, IInv, WorkOK, Spent, Conflict
<1>2. spend \in [Units -> [Attempts -> Rows]]
  BY DEF IInv, TypeOK
<1>3. \A v \in Units, k \in Attempts : Covers(spend[v][k], v, k)
  BY DEF IInv, ChargesAreCounted, Covers
<1>4. CASE SetRow(u, n, own)
  <2>1. UsageOf(res) \in Usages
    BY <1>1, NoCallUsage DEF UsageOf
  <2>2. /\ own \in Rows /\ own.status \in {"RECONCILED", "UNRECONCILED"}
    BY <2>1, ReconciledRow
  <2>3. <<u, n>> \in shared \/ (UsageOf(res).rep => charged[u][n] <= UsageOf(res).cost)
    BY <1>1 DEF IInv, SettlesOK
  <2>4. Covers(own, u, n)
    BY <1>1, <2>1, <2>3, ReconciledCovers
  <2> HIDE DEF own
  <2>5. /\ spend' \in [Units -> [Attempts -> Rows]]
        /\ \A v \in Units, k \in Attempts :
             spend'[v][k] = IF v = u /\ k = n THEN own ELSE spend[v][k]
    BY <1>1, <1>2, <1>4, <2>2, SetRowPointwise
  <2> QED
    BY <1>1, <1>3, <2>2, <2>4, <2>5
<1>5. CASE /\ Attributable(w)
           /\ spend' = [spend EXCEPT ![u] = [@ EXCEPT ![a] = earlier, ![n] = Reconciled(NoCall)]]
  <2>1. a # n /\ <<u, a>> \in receipt /\ a \in Attempts /\ res.kind = "terminal"
    BY <1>5, <1>1 DEF Attributable, IInv, TypeOK
  <2>2. journal[u].st = "COMPLETE" /\ journal[u].att = a /\ journal[u].use = res.use
    BY <2>1 DEF IInv, TerminalOK
  <2>3. spend[u][a].status # "NONE"
    BY <1>1, <2>1 DEF IInv, RowsOK, Spent
  <2>4. /\ earlier \in Rows /\ earlier.status \in {"RECONCILED", "UNRECONCILED"}
        /\ Covers(earlier, u, a)
    <3>1. CASE spend[u][a].status = "RECONCILED"
      BY <3>1, <1>1, <1>2, <1>3, <2>1
    <3>2. CASE spend[u][a].status # "RECONCILED"
      <4>1. res.use.rep => charged[u][a] = res.use.cost
        BY <1>1, <2>1, <2>2, Constants DEF IInv, JournalOK, Attempts
      <4>2. charged[u][a] \in Nat /\ res.use.cost \in Nat
        BY <1>1, <2>1, Constants DEF IInv, TypeOK, Usages
      <4>3. Covers(Reconciled(res.use), u, a)
        BY <1>1, <2>1, <4>1, <4>2, ReconciledCovers
      <4> QED
        BY <3>2, <1>1, <4>3, ReconciledRow
    <3> QED
      BY <3>1, <3>2
  <2>5. /\ Reconciled(NoCall) \in Rows /\ Reconciled(NoCall).status = "RECONCILED"
    BY ReconciledRow, NoCallUsage
  <2>6. Covers(Reconciled(NoCall), u, n)
    <3>1. charged[u][n] = 0 \/ <<u, n>> \in shared
      BY <1>1, <2>1, <2>2, JournalCovers DEF Past
    <3>2. <<u, n>> \in shared \/ (NoCall.rep => charged[u][n] <= NoCall.cost)
      BY <3>1, NoCallUsage
    <3> QED
      BY <1>1, <3>2, NoCallUsage, ReconciledCovers
  <2> DEFINE free == Reconciled(NoCall)
             f == [spend[u] EXCEPT ![a] = earlier, ![n] = free]
  <2>7. spend' = [spend EXCEPT ![u] = f]
    BY <1>5
  <2> HIDE DEF earlier, free
  <2>8. /\ f \in [Attempts -> Rows] /\ f[a] = earlier /\ f[n] = free
        /\ \A k \in Attempts : k # a /\ k # n => f[k] = spend[u][k]
    BY <1>1, <1>2, <2>1, <2>4, <2>5 DEF free
  <2> HIDE DEF f
  <2>9. /\ spend' \in [Units -> [Attempts -> Rows]] /\ spend'[u] = f
        /\ \A v \in Units : v # u => spend'[v] = spend[v]
    BY <1>1, <1>2, <2>7, <2>8
  <2>10. SUFFICES ASSUME NEW v \in Units, NEW k \in Attempts
                  PROVE  /\ spend'[v][k].status = "NONE" <=> spend[v][k].status = "NONE"
                         /\ spend'[v][k].status = "RESERVED" => spend[v][k].status = "RESERVED"
                         /\ \/ v = u /\ k = n
                            \/ spend'[v][k].status = spend[v][k].status
                            \/ <<v, k>> \in receipt /\ journal[v].st = "COMPLETE"
                         /\ Covers(spend'[v][k], v, k)
    BY <2>9
  <2>11. CASE v # u \/ (k # a /\ k # n)
    BY <2>11, <1>3, <2>8, <2>9
  <2>12. CASE v = u /\ k = a
    BY <2>12, <2>1, <2>2, <2>3, <2>4, <2>8, <2>9
  <2>13. CASE v = u /\ k = n
    BY <2>13, <1>1, <2>5, <2>6, <2>8, <2>9 DEF free
  <2> QED
    BY <2>11, <2>12, <2>13
<1> QED
  BY <1>4, <1>5 DEF ReconcileResult

\* The settlement of a failed attempt preserves the invariant.
LEMMA SettleFailedStep ==
  ASSUME IInv, NEW w \in Workers, SettleFailed(w) PROVE IInv'
<1> DEFINE u == loc[w].u
           n == loc[w].n
<1>1. /\ pc[w] = "settle" /\ ~Preserves(w) /\ ~Conflict(w) /\ ReconcileResult(w) /\ Resume(w)
      /\ receipt' = receipt \cup {<<u, n>>} /\ CountFailure(u)
      /\ UNCHANGED <<ingested, fence, journal, charged, shared, faults>>
  BY DEF SettleFailed, Retain, History
<1>2. u \in Units /\ n \in Attempts /\ <<u, n>> \notin receipt
  BY <1>1, BusyLocals DEF Busy, Conflict
<1>3. FailuresAreSettled' /\ fails' \in [Units -> Nat]
  BY <1>1, <1>2, FailureCounted, OneMoreFailure
<1>4. IngestedMeansSealed' /\ ingested \subseteq ingested' /\ ingested' \subseteq Units
  BY <1>1 DEF IInv, TypeOK, IngestedMeansSealed
<1>5. receipt \subseteq receipt' /\ receipt' \subseteq receipt \cup {<<u, n>>}
  BY <1>1
<1> QED
  BY <1>1, <1>3, <1>4, <1>5, ResultReconciled, Settles

\* The settlement of a terminal result preserves the invariant.
LEMMA SettleTerminalStep ==
  ASSUME IInv, NEW w \in Workers, SettleTerminal(w) PROVE IInv'
<1> DEFINE u == loc[w].u
           n == loc[w].n
<1>1. /\ pc[w] = "settle" /\ ~Conflict(w) /\ ReconcileResult(w) /\ Resume(w)
      /\ loc[w].res.kind = "terminal"
      /\ receipt' = receipt \cup {<<u, n>>}
      /\ ingested' = ingested \cup {u} /\ fails' = [fails EXCEPT ![u] = 0]
      /\ UNCHANGED <<fence, journal, charged, shared, faults>>
  BY DEF SettleTerminal, Retain, History
<1>2. ~Preserves(w)
  BY <1>1 DEF Preserves
<1>3. u \in Units /\ n \in Attempts /\ <<u, n>> \notin receipt /\ Ready(u)
  BY <1>1, BusyLocals DEF Busy, Conflict
<1>4. /\ fails' \in [Units -> Nat] /\ \A v \in Units : fails'[v] <= fails[v]
  BY <1>1, <1>3 DEF IInv, TypeOK
<1>5. FailuresAreSettled'
  BY <1>1, <1>3, <1>4, OneMoreFailure
<1>6. ingested \subseteq ingested' /\ ingested' \subseteq Units
  BY <1>1, <1>3 DEF IInv, TypeOK
<1>7. IngestedMeansSealed'
  <2>1. journal[u].st = "COMPLETE"
    BY <1>1 DEF IInv, TerminalOK
  <2> QED
    BY <2>1, <1>1, <1>3 DEF IInv, IngestedMeansSealed, Ready
<1>8. receipt \subseteq receipt' /\ receipt' \subseteq receipt \cup {<<u, n>>}
  BY <1>1
<1> QED
  BY <1>1, <1>2, <1>4, <1>5, <1>6, <1>7, <1>8, ResultReconciled, Settles

-----------------------------------------------------------------------------
(* The invariant holds, and what follows from it.                            *)

\* Every step preserves the invariant.
LEMMA StepInv == IInv /\ [Next]_vars => IInv'
<1> SUFFICES ASSUME IInv, [Next]_vars PROVE IInv'
  OBVIOUS
<1>1. CASE UNCHANGED vars
  <2>1. UNCHANGED <<Tables, fence, pc, loc, faults>>
    BY <1>1 DEF vars, Tables
  <2>2. TypeOK' /\ PlacesOK' /\ CallsOK' /\ TerminalOK'
    BY <2>1 DEF IInv, TypeOK, PlacesOK, CallsOK, TerminalOK, Tables
  <2>3. RowsOK' /\ WorkOK' /\ ReadOK' /\ JournalOK'
    BY <2>1 DEF IInv, RowsOK, WorkOK, ReadOK, JournalOK, Spent, OpenAt, Tables
  <2>4. HoldersOK' /\ ClaimsOK' /\ UnusedOK' /\ QueuesOK'
    BY <2>1 DEF IInv, HoldersOK, ClaimsOK, UnusedOK, QueuesOK, Ready, Tables
  <2>5. SettlesOK'
    BY <2>1 DEF IInv, SettlesOK, Preserves, Tables
  <2>6. ChargesAreCounted' /\ IngestedMeansSealed' /\ FailuresAreSettled'
    BY <2>1 DEF IInv, ChargesAreCounted, IngestedMeansSealed, FailuresAreSettled, Tables
  <2> QED
    BY <2>2, <2>3, <2>4, <2>5, <2>6 DEF IInv
<1>2. ASSUME NEW w \in Workers, Begin(w) \/ Stop(w) \/ Pick(w) \/ Reserve(w) PROVE IInv'
  BY <1>2, BeginStep, StopStep, PickStep, ReserveStep
<1>3. ASSUME NEW w \in Workers, FenceUnavailable(w) \/ RightsRevoked(w) \/ Claim(w) PROVE IInv'
  BY <1>3, FenceUnavailableStep, RightsRevokedStep, ClaimStep
<1>4. ASSUME NEW w \in Workers, Refuse(w) \/ Recover(w) \/ Call(w) \/ Record(w) \/ Return(w)
      PROVE  IInv'
  BY <1>4, RefuseStep, RecoverStep, CallStep, RecordStep, ReturnStep
<1>5. ASSUME NEW w \in Workers,
             Preserve(w) \/ SettleFailed(w) \/ SettleTerminal(w) \/ Abort(w) \/ Crash(w)
      PROVE  IInv'
  BY <1>5, PreserveStep, SettleFailedStep, SettleTerminalStep, AbortStep, CrashStep
<1>6. ASSUME NEW u \in Units, NEW n \in Attempts, Lapse(u, n) PROVE IInv'
  BY <1>6, LapseStep
<1> QED
  BY <1>1, <1>2, <1>3, <1>4, <1>5, <1>6 DEF Next

\* The inductive invariant holds in every reachable state.
THEOREM Invariance == Spec => []IInv
BY InitInv, StepInv, PTL DEF Spec

\* The ledger, the journal and every worker's locals stay well-typed through
\* every step of _ingest, crashes and lapsed claims included.
THEOREM TypeCorrect == Spec => []TypeOK
<1>1. IInv => TypeOK
  BY DEF IInv
<1> QED
  BY <1>1, Invariance, PTL

\* reconcile_graphiti_spend and its replays never lose a charge: the ledger
\* counts at least what the provider charged for an attempt, unless it was
\* re-entered under a living worker that had reserved or claimed it.
THEOREM ChargesCounted == Spec => []ChargesAreCounted
<1>1. IInv => ChargesAreCounted
  BY DEF IInv
<1> QED
  BY <1>1, Invariance, PTL

\* next_graphiti_attempt_number never starts an attempt beside an open one: the
\* unresolved attempt of a unit is its last.
THEOREM OpenAttemptIsLast == Spec => []OneOpenAttempt
<1>1. IInv => OneOpenAttempt
  <2> SUFFICES ASSUME IInv, NEW u \in Units, NEW n \in Attempts, OpenAt(u, n), NEW k \in Reserved(u)
               PROVE  k <= n
    BY DEF OneOpenAttempt, OpenAt
  <2>1. k \in Attempts /\ Spent(u, k)
    BY DEF Reserved, Spent
  <2>2. ~(k > n)
    BY <2>1 DEF IInv, RowsOK
  <2> QED
    BY <2>1, <2>2, Constants DEF Attempts
<1> QED
  BY <1>1, Invariance, PTL

\* insert_graphiti_ingest happens only on a sealed result with a receipt, after
\* the predecessor was ingested.
THEOREM IngestedSealed == Spec => []IngestedMeansSealed
<1>1. IInv => IngestedMeansSealed
  BY DEF IInv
<1> QED
  BY <1>1, Invariance, PTL

\* _fail counts at most one failure for each attempt that has a receipt.
THEOREM FailuresSettled == Spec => []FailuresAreSettled
<1>1. IInv => FailuresAreSettled
  BY DEF IInv
<1> QED
  BY <1>1, Invariance, PTL

\* Once the adapter has sealed a success, no worker calls or charges for the
\* unit again, whatever crashes, lapses or is replayed.
THEOREM SealedIsFree == Spec => SealedNeverCharged
<1> DEFINE Frozen == \A u \in Units : journal[u].st = "COMPLETE"
                       => charged'[u] = charged[u] /\ journal'[u] = journal[u]
<1>1. IInv /\ [Next]_vars => [Frozen]_vars
  <2> SUFFICES ASSUME IInv, Next, NEW u \in Units, journal[u].st = "COMPLETE"
               PROVE  charged'[u] = charged[u] /\ journal'[u] = journal[u]
    BY DEF Frozen
  <2>1. journal \in [Units -> Journals] /\ charged \in [Units -> [Attempts -> Nat]]
    BY DEF IInv, TypeOK
  <2>2. ASSUME NEW w \in Workers, Recover(w)
        PROVE  charged'[u] = charged[u] /\ journal'[u] = journal[u]
    <3>1. journal' = journal \/ (journal[loc[w].u].st = "PENDING"
            /\ journal' = [journal EXCEPT ![loc[w].u] = [@ EXCEPT !.st = "ROLLED_BACK"]])
      BY <2>2 DEF Recover
    <3>2. charged' = charged
      BY <2>2 DEF Recover, History
    <3> QED
      BY <2>1, <3>1, <3>2
  <2>3. ASSUME NEW w \in Workers, Call(w)
        PROVE  charged'[u] = charged[u] /\ journal'[u] = journal[u]
    <3>1. loc[w].u # u
      BY <2>3 DEF Call, MayCall
    <3> QED
      BY <2>1, <2>3, <3>1 DEF Call
  <2>4. ASSUME NEW w \in Workers, Record(w) \/ Return(w)
        PROVE  charged'[u] = charged[u] /\ journal'[u] = journal[u]
    <3>1. loc[w].u # u
      BY <2>4 DEF Record, Return, IInv, CallsOK
    <3>2. charged' = charged
      BY <2>4 DEF Record, Return, History
    <3>3. CASE Record(w)
      BY <2>1, <3>1, <3>2, <3>3 DEF Record
    <3>4. CASE Return(w)
      BY <2>1, <3>1, <3>2, <3>4 DEF Return
    <3> QED
      BY <2>4, <3>3, <3>4
  <2>5. ASSUME NEW w \in Workers,
               \/ Begin(w) \/ Stop(w) \/ Pick(w) \/ Reserve(w)
               \/ FenceUnavailable(w) \/ RightsRevoked(w) \/ Claim(w) \/ Refuse(w)
               \/ Preserve(w) \/ SettleFailed(w) \/ SettleTerminal(w) \/ Abort(w) \/ Crash(w)
        PROVE  charged' = charged /\ journal' = journal
    BY <2>5 DEF Begin, Stop, Pick, Reserve, FenceUnavailable, RightsRevoked, Claim, Refuse,
       Preserve, SettleFailed, SettleTerminal, Abort, Crash, History
  <2>6. ASSUME NEW v \in Units, NEW n \in Attempts, Lapse(v, n)
        PROVE  charged' = charged /\ journal' = journal
    BY <2>6 DEF Lapse, History
  <2> QED
    BY <2>2, <2>3, <2>4, <2>5, <2>6 DEF Next
<1> QED
  BY <1>1, Invariance, PTL DEF Spec, SealedNeverCharged

-----------------------------------------------------------------------------
(* The committed total.  What the fold computes is shown without an          *)
(* induction theorem: the number of the cells (an attempt, and one of the    *)
(* units of money counted for it) satisfies the fold's recursion, and two    *)
(* functions that do agree, because a smallest set on which they differ      *)
(* cannot exist.                                                             *)

Keys == Units \X Attempts
Worth(sp, k) == Counted(sp[k[1]][k[2]])

IsTotal(sp, f) ==
  f = [s \in SUBSET Keys |->
         IF s = {} THEN 0
         ELSE LET x == CHOOSE x \in s : TRUE IN Worth(sp, x) + f[s \ {x}]]

\* One cell for each unit of money that attempt k counts for.
Cells(sp, s) == {c \in s \X (1 .. R) : c[2] <= Worth(sp, c[1])}
Total(sp) == Cardinality(Cells(sp, Keys))

Ledgers == [Units -> [Attempts -> Rows]]

LEMMA KeysFinite == IsFiniteSet(Keys)
<1>1. IsFiniteSet(Attempts)
  BY Constants, FS_Interval DEF Attempts
<1> QED
  BY <1>1, CorpusAssumption, FS_Product DEF Keys

LEMMA WorthBound ==
  ASSUME NEW sp \in Ledgers, NEW k \in Keys
  PROVE  Worth(sp, k) \in Nat /\ Worth(sp, k) <= R
<1>1. sp[k[1]][k[2]] \in Rows
  BY DEF Ledgers, Keys
<1> QED
  BY <1>1, Constants DEF Worth, Counted, Rows

LEMMA CellsFinite ==
  ASSUME NEW sp, NEW s \in SUBSET Keys
  PROVE  IsFiniteSet(Cells(sp, s)) /\ Cardinality(Cells(sp, s)) \in Nat
<1>1. IsFiniteSet(s) /\ IsFiniteSet(1 .. R)
  BY KeysFinite, FS_Subset, FS_Interval, Constants
<1>2. IsFiniteSet(s \X (1 .. R))
  BY <1>1, FS_Product
<1>3. Cells(sp, s) \in SUBSET (s \X (1 .. R))
  BY DEF Cells
<1> QED
  BY <1>2, <1>3, FS_Subset, FS_CardinalityType

\* The column of cells of one attempt.
LEMMA ColumnSize ==
  ASSUME NEW x, NEW v \in Nat
  PROVE  IsFiniteSet({x} \X (1 .. v)) /\ Cardinality({x} \X (1 .. v)) = v
<1>1. IsFiniteSet({x}) /\ Cardinality({x}) = 1
  BY FS_Singleton
<1>2. IsFiniteSet(1 .. v) /\ Cardinality(1 .. v) = v
  BY FS_Interval
<1>3. /\ IsFiniteSet({x} \X (1 .. v))
      /\ Cardinality({x} \X (1 .. v)) = Cardinality({x}) * Cardinality(1 .. v)
  BY <1>1, <1>2, FS_Product
<1> QED
  BY <1>1, <1>2, <1>3

LEMMA CellsSplit ==
  ASSUME NEW sp \in Ledgers, NEW s \in SUBSET Keys, NEW x \in s
  PROVE  Cardinality(Cells(sp, s)) = Worth(sp, x) + Cardinality(Cells(sp, s \ {x}))
<1> DEFINE A == {x} \X (1 .. Worth(sp, x))
           B == Cells(sp, s \ {x})
<1>1. Worth(sp, x) \in Nat /\ Worth(sp, x) <= R /\ R \in Nat
  BY WorthBound, Constants
<1>2. Cells(sp, s) = A \cup B
  BY <1>1 DEF Cells
<1>3. A \cap B = {}
  BY DEF Cells
<1>4. IsFiniteSet(A) /\ Cardinality(A) = Worth(sp, x)
  BY <1>1, ColumnSize
<1>5. IsFiniteSet(B) /\ Cardinality(B) \in Nat
  BY CellsFinite
<1> HIDE DEF A, B
<1>6. Cardinality(A \cup B) = Cardinality(A) + Cardinality(B) - Cardinality(A \cap B)
  BY <1>4, <1>5, FS_Union
<1>7. Cardinality(A \cap B) = 0
  BY <1>3, FS_EmptySet
<1>8. Cardinality(A \cup B) = Worth(sp, x) + Cardinality(B)
  BY <1>1, <1>4, <1>5, <1>6, <1>7
<1> QED
  BY <1>2, <1>8 DEF B

LEMMA CellsAreTotal ==
  ASSUME NEW sp \in Ledgers
  PROVE  IsTotal(sp, [s \in SUBSET Keys |-> Cardinality(Cells(sp, s))])
<1> DEFINE g == [s \in SUBSET Keys |-> Cardinality(Cells(sp, s))]
<1>1. ASSUME NEW s \in SUBSET Keys
      PROVE  g[s] = IF s = {} THEN 0
                    ELSE LET x == CHOOSE x \in s : TRUE IN Worth(sp, x) + g[s \ {x}]
  <2>1. CASE s = {}
    <3>1. Cells(sp, s) = {}
      BY <2>1 DEF Cells
    <3> QED
      BY <2>1, <3>1, FS_EmptySet
  <2>2. CASE s # {}
    <3> DEFINE x == CHOOSE x \in s : TRUE
    <3>1. x \in s
      BY <2>2
    <3> HIDE DEF x
    <3>2. g[s] = Worth(sp, x) + g[s \ {x}]
      BY <3>1, CellsSplit
    <3> QED
      BY <2>2, <3>2 DEF x
  <2> QED
    BY <2>1, <2>2
<1> QED
  BY <1>1 DEF IsTotal

LEMMA TotalUnique ==
  ASSUME NEW sp, NEW f, NEW g, IsTotal(sp, f), IsTotal(sp, g)
  PROVE  f[Keys] = g[Keys]
<1> DEFINE Differ == {s \in SUBSET Keys : f[s] # g[s]}
           Sizes == {n \in Nat : \E s \in Differ : Cardinality(s) = n}
<1> SUFFICES ASSUME Differ # {} PROVE FALSE
  OBVIOUS
<1>1. \A s \in SUBSET Keys : IsFiniteSet(s) /\ Cardinality(s) \in Nat
  BY KeysFinite, FS_Subset, FS_CardinalityType
<1>2. Sizes \subseteq Nat /\ Sizes # {}
  BY <1>1
<1>3. PICK n \in Sizes : \A m \in Sizes : ~(<<m, n>> \in OpToRel(<, Nat))
  BY <1>2, NatLessThanWellFounded, WFMin, Zenon
<1>4. PICK s \in Differ : Cardinality(s) = n
  BY <1>3
<1>5. f[s] = (IF s = {} THEN 0
              ELSE LET x == CHOOSE x \in s : TRUE IN Worth(sp, x) + f[s \ {x}])
  BY <1>4 DEF IsTotal
<1>6. g[s] = (IF s = {} THEN 0
              ELSE LET x == CHOOSE x \in s : TRUE IN Worth(sp, x) + g[s \ {x}])
  BY <1>4 DEF IsTotal
<1> DEFINE x == CHOOSE x \in s : TRUE
<1>7. s # {} /\ f[s] = Worth(sp, x) + f[s \ {x}] /\ g[s] = Worth(sp, x) + g[s \ {x}]
  BY <1>4, <1>5, <1>6, Zenon
<1>8. x \in s
  BY <1>7
<1> HIDE DEF x
<1>9. s \ {x} \in Differ /\ Cardinality(s \ {x}) = n - 1 /\ n - 1 \in Nat
  <2>1. f[s \ {x}] # g[s \ {x}]
    BY <1>4, <1>7
  <2>2. s \in SUBSET Keys /\ s \ {x} \in SUBSET Keys
    BY <1>4
  <2>3. Cardinality(s \ {x}) = n - 1
    BY <1>1, <1>4, <1>8, <2>2, FS_RemoveElement
  <2>4. Cardinality(s \ {x}) \in Nat
    BY <1>1, <2>2
  <2> QED
    BY <2>1, <2>2, <2>3, <2>4
<1>10. n \in Nat
  OBVIOUS
<1>11. n - 1 \in Sizes /\ n - 1 < n
  BY <1>9, <1>10
<1> QED
  BY <1>3, <1>10, <1>11 DEF OpToRel

LEMMA CommittedIsTotal ==
  ASSUME spend \in Ledgers
  PROVE  Committed = Total(spend)
<1> DEFINE c == CHOOSE f : IsTotal(spend, f)
           g == [s \in SUBSET Keys |-> Cardinality(Cells(spend, s))]
<1>1. Committed = c[Keys]
  BY DEF Committed, MapThenSumSet, MapThenFoldSet, IsTotal, Worth, Keys
<1>2. IsTotal(spend, g)
  BY CellsAreTotal
<1>3. IsTotal(spend, c)
  BY <1>2
<1>4. c[Keys] = g[Keys]
  BY <1>2, <1>3, TotalUnique
<1> QED
  BY <1>1, <1>4 DEF Total

LEMMA CommittedIsTotalNext ==
  ASSUME spend' \in Ledgers
  PROVE  Committed' = Total(spend')
<1> DEFINE c == CHOOSE f : IsTotal(spend', f)
           g == [s \in SUBSET Keys |-> Cardinality(Cells(spend', s))]
<1>1. Committed' = c[Keys]
  BY DEF Committed, MapThenSumSet, MapThenFoldSet, IsTotal, Worth, Keys
<1>2. IsTotal(spend', g)
  BY CellsAreTotal
<1>3. IsTotal(spend', c)
  BY <1>2
<1>4. c[Keys] = g[Keys]
  BY <1>2, <1>3, TotalUnique
<1> QED
  BY <1>1, <1>4 DEF Total

\* A ledger in which no attempt counts for more has no larger total.
LEMMA TotalFalls ==
  ASSUME NEW sp \in Ledgers, NEW sq \in Ledgers,
         \A k \in Keys : Worth(sq, k) <= Worth(sp, k)
  PROVE  Total(sq) <= Total(sp)
<1>1. IsFiniteSet(Cells(sp, Keys))
  BY CellsFinite
<1>2. Cells(sq, Keys) \in SUBSET Cells(sp, Keys)
  <2> SUFFICES ASSUME NEW c \in Keys \X (1 .. R), c[2] <= Worth(sq, c[1])
               PROVE  c[2] <= Worth(sp, c[1])
    BY DEF Cells
  <2>1. c[1] \in Keys /\ c[2] \in Nat
    BY Constants
  <2>2. Worth(sq, c[1]) \in Nat /\ Worth(sp, c[1]) \in Nat /\ Worth(sq, c[1]) <= Worth(sp, c[1])
    BY <2>1, WorthBound
  <2> QED
    BY <2>1, <2>2
<1> QED
  BY <1>1, <1>2, FS_Subset DEF Total

\* One more reservation adds R at most.
LEMMA TotalRises ==
  ASSUME NEW sp \in Ledgers, NEW sq \in Ledgers, NEW x \in Keys,
         \A k \in Keys : k # x => Worth(sq, k) = Worth(sp, k)
  PROVE  Total(sq) <= Total(sp) + R
<1> DEFINE A == {x} \X (1 .. R)
           B == Cells(sp, Keys)
<1>1. IsFiniteSet(A) /\ Cardinality(A) = R /\ R \in Nat
  BY ColumnSize, Constants
<1>2. IsFiniteSet(B) /\ Cardinality(B) \in Nat
  BY CellsFinite
<1>3. Cells(sq, Keys) \in SUBSET (A \cup B)
  BY DEF Cells
<1> HIDE DEF A, B
<1>4. /\ IsFiniteSet(A \cup B)
      /\ Cardinality(A \cup B) = Cardinality(A) + Cardinality(B) - Cardinality(A \cap B)
  BY <1>1, <1>2, FS_Union
<1>5. Cardinality(A \cap B) \in Nat
  BY <1>1, FS_Intersection, FS_CardinalityType
<1>6. Cardinality(Cells(sq, Keys)) <= Cardinality(A \cup B) /\ Cardinality(Cells(sq, Keys)) \in Nat
  BY <1>3, <1>4, FS_Subset, CellsFinite
<1>7. Cardinality(Cells(sq, Keys)) <= Cardinality(B) + R
  BY <1>1, <1>2, <1>4, <1>5, <1>6
<1> QED
  BY <1>7 DEF Total, B

LEMMA TotalEmpty ==
  ASSUME NEW sp \in Ledgers, \A k \in Keys : Worth(sp, k) = 0
  PROVE  Total(sp) = 0
<1>1. Cells(sp, Keys) = {}
  BY Constants DEF Cells
<1> QED
  BY <1>1, FS_EmptySet DEF Total

\* No attempt counts for more than it did.
NoDearer == \A u \in Units, n \in Attempts : Counted(spend'[u][n]) <= Counted(spend[u][n])

LEMMA CountedNat ==
  ASSUME NEW row \in Rows
  PROVE  Counted(row) \in Nat /\ Counted(row) <= R
BY Constants DEF Counted, Rows

LEMMA RowNoDearer ==
  ASSUME IInv, NEW u \in Units, NEW n \in Attempts, NEW row \in Rows, SetRow(u, n, row),
         Counted(row) <= Counted(spend[u][n])
  PROVE  NoDearer
<1>1. spend \in [Units -> [Attempts -> Rows]]
  BY DEF IInv, TypeOK
<1>2. \A v \in Units, k \in Attempts :
        spend'[v][k] = IF v = u /\ k = n THEN row ELSE spend[v][k]
  BY <1>1, SetRowPointwise
<1>3. \A v \in Units, k \in Attempts : Counted(spend[v][k]) <= Counted(spend[v][k])
  BY <1>1, CountedNat
<1> QED
  BY <1>2, <1>3 DEF NoDearer

LEMMA SameNoDearer ==
  ASSUME IInv, SameRows
  PROVE  NoDearer
<1>1. \A u \in Units, n \in Attempts : Counted(spend'[u][n]) = Counted(spend[u][n])
  BY DEF SameRows, Counted
<1>2. \A u \in Units, n \in Attempts : Counted(spend[u][n]) \in Nat
  BY CountedNat DEF IInv, TypeOK
<1> QED
  BY <1>1, <1>2 DEF NoDearer

LEMMA GiveBackNoDearer ==
  ASSUME IInv, NEW w \in Workers, pc[w] = "reserved", GiveBack(w)
  PROVE  NoDearer
<1> DEFINE u == loc[w].u
           n == loc[w].n
           free == Reconciled(NoCall)
<1>1. u \in Units /\ n \in Attempts /\ spend[u][n] \in Rows
  BY BusyLocals DEF Busy, IInv, TypeOK
<1>2. CASE ~loc[w].reserved
  BY <1>2, SameNoDearer DEF GiveBack, SameRows
<1>3. CASE loc[w].reserved
  <2>1. SetRow(u, n, free)
    BY <1>3 DEF GiveBack
  <2>2. free \in Rows
    BY ReconciledRow, NoCallUsage
  <2>3. Counted(free) = 0
    BY DEF Counted, Reconciled, NoCall
  <2> HIDE DEF free
  <2>4. Counted(free) <= Counted(spend[u][n])
    BY <1>1, <2>3, CountedNat
  <2> QED
    BY <1>1, <2>1, <2>2, <2>4, RowNoDearer
<1> QED
  BY <1>2, <1>3

LEMMA ClaimNoDearer ==
  ASSUME IInv, NEW w \in Workers, Claim(w)
  PROVE  NoDearer
<1> DEFINE u == loc[w].u
           n == loc[w].n
           row == [spend[u][n] EXCEPT !.owner = w, !.lapsed = FALSE]
<1>1. u \in Units /\ n \in Attempts /\ spend[u][n] \in Rows
  BY BusyLocals DEF Claim, Busy, IInv, TypeOK
<1>2. CASE UNCHANGED spend
  BY <1>2, SameNoDearer DEF SameRows
<1>3. CASE SetRow(u, n, row)
  <2>1. row \in Rows /\ row.status = spend[u][n].status /\ row.cost = spend[u][n].cost
    BY <1>1 DEF Rows
  <2> HIDE DEF row
  <2>2. Counted(row) = Counted(spend[u][n]) /\ Counted(row) \in Nat
    BY <2>1, CountedNat DEF Counted
  <2> QED
    BY <1>1, <1>3, <2>1, <2>2, RowNoDearer
<1> QED
  BY <1>2, <1>3 DEF Claim

LEMMA PreserveNoDearer ==
  ASSUME IInv, NEW w \in Workers, Preserve(w)
  PROVE  NoDearer
<1> DEFINE u == loc[w].u
           n == loc[w].n
           new == IF spend[u][n].status = "RESERVED" /\ spend[u][n].owner = w
                  THEN [spend[u][n] EXCEPT !.owner = None, !.lapsed = FALSE] ELSE spend[u][n]
<1>1. u \in Units /\ n \in Attempts /\ spend[u][n] \in Rows
  BY BusyLocals DEF Preserve, Busy, IInv, TypeOK
<1>2. SetRow(u, n, new)
  BY DEF Preserve
<1>3. new \in Rows /\ new.status = spend[u][n].status /\ new.cost = spend[u][n].cost
  BY <1>1 DEF Rows
<1> HIDE DEF new
<1>4. Counted(new) = Counted(spend[u][n]) /\ Counted(new) \in Nat
  BY <1>3, CountedNat DEF Counted
<1> QED
  BY <1>1, <1>2, <1>3, <1>4, RowNoDearer

LEMMA LapseNoDearer ==
  ASSUME IInv, NEW u \in Units, NEW n \in Attempts, Lapse(u, n)
  PROVE  NoDearer
<1> DEFINE row == [spend[u][n] EXCEPT !.lapsed = TRUE]
<1>1. spend[u][n] \in Rows
  BY DEF IInv, TypeOK
<1>2. row \in Rows /\ row.status = spend[u][n].status /\ row.cost = spend[u][n].cost
  BY <1>1 DEF Rows
<1>3. SetRow(u, n, row)
  BY DEF Lapse
<1> HIDE DEF row
<1>4. Counted(row) = Counted(spend[u][n]) /\ Counted(row) \in Nat
  BY <1>2, CountedNat DEF Counted
<1> QED
  BY <1>2, <1>3, <1>4, RowNoDearer

\* Without sharing, a settlement finds the reservation its claim left, and a
\* result attributed to an earlier attempt a row that was spent.
LEMMA SettleNoDearer ==
  ASSUME IInv, shared = {}, NEW w \in Workers, pc[w] = "settle", ~Conflict(w),
         ReconcileResult(w)
  PROVE  NoDearer
<1> DEFINE u == loc[w].u
           n == loc[w].n
           res == loc[w].res
           a == res.at
           own == Reconciled(UsageOf(res))
           free == Reconciled(NoCall)
           earlier == IF spend[u][a].status = "RECONCILED" THEN spend[u][a]
                      ELSE Reconciled(res.use)
<1>1. /\ u \in Units /\ n \in Attempts /\ res.use \in Usages /\ <<u, n>> \notin receipt
      /\ spend \in [Units -> [Attempts -> Rows]]
  BY BusyLocals DEF Busy, IInv, TypeOK, Conflict
<1>2. spend[u][n].status = "RESERVED" /\ Counted(spend[u][n]) = R
  <2>1. spend[u][n].status = "RESERVED"
    BY <1>1 DEF IInv, ClaimsOK, Past
  <2> QED
    BY <2>1 DEF Counted
<1>3. CASE SetRow(u, n, own)
  <2>1. own \in Rows
    BY <1>1, NoCallUsage, ReconciledRow DEF UsageOf
  <2> HIDE DEF own
  <2>2. Counted(own) <= Counted(spend[u][n])
    BY <1>2, <2>1, CountedNat
  <2> QED
    BY <1>1, <1>3, <2>1, <2>2, RowNoDearer
<1>4. CASE /\ Attributable(w)
           /\ spend' = [spend EXCEPT ![u] = [@ EXCEPT ![a] = earlier, ![n] = free]]
  <2>1. a # n /\ <<u, a>> \in receipt /\ a \in Attempts
    BY <1>1, <1>4 DEF Attributable, IInv, TypeOK
  <2>2. spend[u][a].status # "NONE" /\ spend[u][a] \in Rows
    BY <1>1, <2>1 DEF IInv, RowsOK, Spent
  <2>3. free \in Rows
    BY ReconciledRow, NoCallUsage
  <2>4. earlier \in Rows /\ Counted(earlier) <= Counted(spend[u][a])
    <3>1. CASE spend[u][a].status = "RECONCILED"
      BY <2>2, <3>1, CountedNat
    <3>2. CASE spend[u][a].status # "RECONCILED"
      <4>1. Counted(spend[u][a]) = R
        BY <2>2, <3>2 DEF Counted
      <4>2. Reconciled(res.use) \in Rows
        BY <1>1, ReconciledRow
      <4>3. Counted(Reconciled(res.use)) <= R
        BY <4>2, CountedNat
      <4> QED
        BY <3>2, <4>1, <4>2, <4>3
    <3> QED
      BY <3>1, <3>2
  <2>5. Counted(free) <= Counted(spend[u][n])
    BY <1>2, <2>3, CountedNat
  <2> DEFINE f == [spend[u] EXCEPT ![a] = earlier, ![n] = free]
  <2>6. spend' = [spend EXCEPT ![u] = f]
    BY <1>4
  <2> HIDE DEF earlier, free
  <2>7. /\ f[a] = earlier /\ f[n] = free
        /\ \A k \in Attempts : k # a /\ k # n => f[k] = spend[u][k]
    BY <1>1, <2>1
  <2> HIDE DEF f
  <2>8. spend'[u] = f /\ \A v \in Units : v # u => spend'[v] = spend[v]
    BY <1>1, <2>6
  <2> SUFFICES ASSUME NEW v \in Units, NEW k \in Attempts
               PROVE  Counted(spend'[v][k]) <= Counted(spend[v][k])
    BY DEF NoDearer
  <2>9. CASE v # u \/ (k # a /\ k # n)
    <3>1. spend'[v][k] = spend[v][k] /\ Counted(spend[v][k]) \in Nat
      BY <1>1, <2>7, <2>8, <2>9, CountedNat
    <3> QED
      BY <3>1
  <2>10. CASE v = u /\ k = a
    BY <2>4, <2>7, <2>8, <2>10
  <2>11. CASE v = u /\ k = n
    BY <2>5, <2>7, <2>8, <2>11
  <2> QED
    BY <2>9, <2>10, <2>11
<1> QED
  BY <1>3, <1>4 DEF ReconcileResult

\* Every step makes no attempt dearer, or is a reservation that fits.
LEMMA NextNoDearer ==
  ASSUME IInv, [Next]_vars, shared' = {}
  PROVE  /\ shared = {}
         /\ \/ NoDearer
            \/ \E u \in Units, n \in Attempts : Fits /\ SetRow(u, n, NewRow)
<1> DEFINE Goal == shared = {} /\ (NoDearer \/ \E u \in Units, n \in Attempts :
                                                 Fits /\ SetRow(u, n, NewRow))
<1>0. ASSUME UNCHANGED <<spend, shared>> PROVE Goal
  BY <1>0, SameNoDearer DEF SameRows
<1>1. ASSUME NEW w \in Workers,
             \/ Begin(w) \/ Stop(w) \/ Pick(w) \/ Refuse(w) \/ Recover(w) \/ Call(w)
             \/ Record(w) \/ Return(w) \/ Abort(w) \/ Crash(w)
      PROVE  Goal
  <2>1. UNCHANGED <<spend, shared>>
    BY <1>1 DEF Begin, Stop, Pick, Refuse, Recover, Call, Record, Return, Abort, Crash,
       Ledger, History
  <2> QED
    BY <1>0, <2>1
<1>2. ASSUME NEW w \in Workers, Reserve(w) PROVE Goal
  <2>1. shared = {} /\ pc[w] = "read" /\ loc[w].u \in Units /\ loc[w].n \in Attempts
    BY <1>2, BusyLocals DEF Reserve, History, Busy
  <2>2. CASE UNCHANGED spend
    BY <2>1, <2>2, SameNoDearer DEF SameRows
  <2>3. CASE Fits /\ SetRow(loc[w].u, loc[w].n, NewRow)
    BY <2>1, <2>3
  <2> QED
    BY <1>2, <2>2, <2>3 DEF Reserve
<1>3. ASSUME NEW w \in Workers, FenceUnavailable(w) \/ RightsRevoked(w) PROVE Goal
  <2>1. shared = {} /\ pc[w] = "reserved" /\ GiveBack(w)
    BY <1>3 DEF FenceUnavailable, RightsRevoked, History
  <2> QED
    BY <2>1, GiveBackNoDearer
<1>4. ASSUME NEW w \in Workers, Claim(w) PROVE Goal
  <2>1. shared = {}
    BY <1>4 DEF Claim
  <2> QED
    BY <1>4, <2>1, ClaimNoDearer
<1>5. ASSUME NEW w \in Workers, Preserve(w) PROVE Goal
  <2>1. shared = {}
    BY <1>5 DEF Preserve, History
  <2> QED
    BY <1>5, <2>1, PreserveNoDearer
<1>6. ASSUME NEW w \in Workers, SettleFailed(w) \/ SettleTerminal(w) PROVE Goal
  <2>1. shared = {} /\ pc[w] = "settle" /\ ~Conflict(w) /\ ReconcileResult(w)
    BY <1>6 DEF SettleFailed, SettleTerminal, History
  <2> QED
    BY <2>1, SettleNoDearer
<1>7. ASSUME NEW u \in Units, NEW n \in Attempts, Lapse(u, n) PROVE Goal
  <2>1. shared = {}
    BY <1>7 DEF Lapse, History
  <2> QED
    BY <1>7, <2>1, LapseNoDearer
<1>8. ASSUME UNCHANGED vars PROVE Goal
  BY <1>0, <1>8 DEF vars
<1> HIDE DEF Goal
<1>9. Goal
  BY <1>1, <1>2, <1>3, <1>4, <1>5, <1>6, <1>7, <1>8 DEF Next
<1> QED
  BY <1>9 DEF Goal

LEMMA CeilingInit == Init => CommittedWithinCeiling
<1> SUFFICES ASSUME Init PROVE Committed <= Ceiling
  BY DEF CommittedWithinCeiling
<1>1. spend \in Ledgers
  BY InitInv DEF IInv, TypeOK, Ledgers
<1>2. \A k \in Keys : Worth(spend, k) = 0
  BY DEF Init, Keys, Worth, Counted, NoRow
<1>3. Committed = 0
  BY <1>1, <1>2, CommittedIsTotal, TotalEmpty
<1> QED
  BY <1>3, IngestAssumption

LEMMA CeilingStep ==
  ASSUME IInv, IInv', CommittedWithinCeiling, [Next]_vars
  PROVE  CommittedWithinCeiling'
<1> SUFFICES ASSUME shared' = {} PROVE Committed' <= Ceiling
  BY DEF CommittedWithinCeiling
<1>1. shared = {} /\ (NoDearer \/ \E u \in Units, n \in Attempts : Fits /\ SetRow(u, n, NewRow))
  BY NextNoDearer
<1>2. spend \in Ledgers /\ spend' \in Ledgers
  BY DEF IInv, TypeOK, Ledgers
<1>3. Committed = Total(spend) /\ Total(spend) \in Nat /\ Total(spend) <= Ceiling
  BY <1>1, <1>2, CommittedIsTotal, CellsFinite DEF CommittedWithinCeiling, Total
<1>4. Committed' = Total(spend') /\ Total(spend') \in Nat
  BY <1>2, CommittedIsTotalNext, CellsFinite DEF Total
<1>5. Ceiling \in Nat /\ R \in Nat
  BY IngestAssumption
<1>6. CASE NoDearer
  <2>1. \A k \in Keys : Worth(spend', k) <= Worth(spend, k)
    BY <1>6 DEF NoDearer, Keys, Worth
  <2>2. Total(spend') <= Total(spend)
    BY <1>2, <2>1, TotalFalls
  <2> QED
    BY <1>3, <1>4, <1>5, <2>2
<1>7. CASE \E u \in Units, n \in Attempts : Fits /\ SetRow(u, n, NewRow)
  <2>1. PICK u \in Units, n \in Attempts : Fits /\ SetRow(u, n, NewRow)
    BY <1>7
  <2>2. <<u, n>> \in Keys /\ NewRow \in Rows
    BY Constants DEF Keys, Rows, NewRow
  <2>3. \A v \in Units, k \in Attempts :
          spend'[v][k] = IF v = u /\ k = n THEN NewRow ELSE spend[v][k]
    BY <1>2, <2>1, <2>2, SetRowPointwise DEF Ledgers
  <2>4. \A k \in Keys : k # <<u, n>> => Worth(spend', k) = Worth(spend, k)
    BY <2>3 DEF Keys, Worth
  <2>5. Total(spend') <= Total(spend) + R
    BY <1>2, <2>2, <2>4, TotalRises
  <2>6. Total(spend) + R <= Ceiling
    BY <1>3, <2>1 DEF Fits
  <2> QED
    BY <1>3, <1>4, <1>5, <2>5, <2>6
<1> QED
  BY <1>1, <1>6, <1>7

\* reserve_graphiti_spend and every settlement after it keep the committed total
\* under the cash ceiling, for any corpus, however many processes die or replay
\* attempts, unless an attempt was re-entered under a living worker.
THEOREM WithinCeiling == Spec => []CommittedWithinCeiling
<1>1. Init => CommittedWithinCeiling
  BY CeilingInit
<1>2. IInv /\ IInv' /\ CommittedWithinCeiling /\ [Next]_vars => CommittedWithinCeiling'
  BY CeilingStep
<1> QED
  BY <1>1, <1>2, Invariance, PTL DEF Spec
=============================================================================
