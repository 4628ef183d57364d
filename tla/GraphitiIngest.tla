--------------------------- MODULE GraphitiIngest ---------------------------
(***************************************************************************)
(* Dispatching corpus units to Graphiti under the embedding cash ceiling   *)
(* (control_plane/cycle.py `_ingest', control_plane/store.py).             *)
(*                                                                         *)
(* Several processes - the evaluation cycle and the event workers - run    *)
(* the loop over one SQLite ledger.  An attempt of a unit is reserved in a *)
(* spend row before its call, claimed under the proving store's writer     *)
(* fence, dispatched, and settled in one transaction after the fence has   *)
(* been left: the row is reconciled with what the provider reported, a     *)
(* receipt is retained and the unit is ingested or its failure counted.  A *)
(* process may die between any two transactions; the attempt it leaves     *)
(* RESERVED without a receipt is re-entered by whoever comes next.         *)
(*                                                                         *)
(* The adapter is seen as MutationGuard leaves it: a journal that says, by *)
(* unit, how the last attempt that reached the provider ended.  Amounts    *)
(* are in units small enough to count.  The uncapped dispatch of native    *)
(* sources, with its credits for dead-lettered units, is not modelled.     *)
(***************************************************************************)
EXTENDS Naturals, FiniteSets, FiniteSetsExt

CONSTANTS Workers,
          Units,         \* ingest ids: the chunks of source revisions
          Pred,          \* predecessor_ingest_id, or None
          R,             \* GRAPHITI_UNIT_RESERVATION_GBP_MICROUNITS
          Ceiling,       \* OD_011_CASH_CEILING_GBP
          Costs,         \* what the embeddings of one call may cost
          MaxFailures,   \* GRAPHITI_MAX_FAILURES
          MaxAttempt,    \* bound: attempts of each unit
          LastAttempt,   \* bound: attempts of any unit
          MaxFault,      \* bound: crashes and lapsed leases
          None

ASSUME IngestAssumption ==
  /\ R \in Nat \ {0} /\ Ceiling \in Nat /\ Costs \subseteq 0 .. R
  /\ MaxFailures \in Nat \ {0} /\ MaxFault \in Nat
  /\ LastAttempt \in Nat /\ MaxAttempt \in [Units -> 0 .. LastAttempt]
  /\ Pred \in [Units -> Units \cup {None}]
  /\ None \notin Workers \cup Units

\* A corpus is finite, so the total over its attempts means something.
ASSUME CorpusAssumption == IsFiniteSet(Units)

VARIABLES spend,      \* unpublished_graphiti_spend by unit and attempt
          receipt,    \* unpublished_graphiti_attempt_receipts
          ingested,   \* unpublished_graphiti_ingest
          fails,      \* unpublished_graphiti_failures: retry_count
          fence,      \* the worker inside rights_fence
          journal,    \* the adapter's marker of each unit
          pc, loc,    \* each worker's place and local variables
          charged,    \* history: what the provider charged for each attempt
          shared,     \* history: attempts re-entered under another worker
          faults

vars == <<spend, receipt, ingested, fails, fence, journal, pc, loc, charged,
          shared, faults>>

Attempts == 1 .. LastAttempt

\* embedding_usage: exact figures, or unreported.  No call is exact and free.
Usages == [rep : BOOLEAN, cost : 0 .. R]
NoCall == [rep |-> TRUE, cost |-> 0]
Unreported == [rep |-> FALSE, cost |-> 0]

Rows == [status : {"NONE", "RESERVED", "RECONCILED", "UNRECONCILED"}, cost : 0 .. R,
         owner : Workers \cup {None}, lapsed : BOOLEAN]
NoRow == [status |-> "NONE", cost |-> 0, owner |-> None, lapsed |-> FALSE]
NewRow == [status |-> "RESERVED", cost |-> 0, owner |-> None, lapsed |-> FALSE]

JournalStates == {"PENDING", "COMPLETE", "FAILED", "ROLLED_BACK"}
Journals == [st : JournalStates \cup {"NONE"}, att : Attempts \cup {0}, use : Usages]
NoJournal == [st |-> "NONE", att |-> 0, use |-> Unreported]

\* What a dispatch comes back with: a result that is terminal, failed or does
\* not bind, or an exception, raised before the provider ("refused") or not.
Kinds == {"terminal", "failed", "rejected", "refused", "raised"}
Results == [kind : Kinds, use : Usages, at : Attempts \cup {0}, closed : BOOLEAN]
NoResult == [kind |-> "raised", use |-> Unreported, at |-> 0, closed |-> FALSE]

Steps == {"idle", "pick", "read", "reserved", "claimed", "calling", "called", "settle"}
Locals == [todo : SUBSET Units, u : Units \cup {None}, n : Attempts \cup {0},
           reserved : BOOLEAN, res : Results]
NoLocals == [todo |-> {}, u |-> None, n |-> 0, reserved |-> FALSE, res |-> NoResult]

Init == /\ spend = [u \in Units |-> [n \in Attempts |-> NoRow]]
        /\ receipt = {}
        /\ ingested = {}
        /\ fails = [u \in Units |-> 0]
        /\ fence = None
        /\ journal = [u \in Units |-> NoJournal]
        /\ pc = [w \in Workers |-> "idle"]
        /\ loc = [w \in Workers |-> NoLocals]
        /\ charged = [u \in Units |-> [n \in Attempts |-> 0]]
        /\ shared = {}
        /\ faults = 0
----------------------------------------------------------------------------
(* The ledger (store.py) *)

\* What a row counts for: its actual cost once that is known, else all of it.
Counted(row) == IF row.status = "RECONCILED" THEN row.cost
                ELSE IF row.status = "NONE" THEN 0 ELSE R

Committed == MapThenSumSet(LAMBDA k : Counted(spend[k[1]][k[2]]), Units \X Attempts)

\* The seeded fault: the new reservation itself is left out of the sum.
Fits_WithoutItself == Committed <= Ceiling

\* One more reservation fits under the ceiling.
Fits == Committed + R <= Ceiling

Reserved(u) == {n \in Attempts : spend[u][n].status # "NONE"}

\* The seeded fault: an unresolved attempt is not re-entered.
NextAttemptNumber_AlwaysNew(u) == IF Reserved(u) = {} THEN 1 ELSE Max(Reserved(u)) + 1

\* next_graphiti_attempt_number: re-enter the last attempt while it is reserved
\* and has no receipt.
NextAttemptNumber(u) ==
  IF Reserved(u) = {} THEN 1
  ELSE LET last == Max(Reserved(u))
       IN IF spend[u][last].status = "RESERVED" /\ <<u, last>> \notin receipt
          THEN last ELSE last + 1

\* claim_graphiti_attempt: the row is reserved and free, and no other row of
\* the generation is under a live lease.
Claimable(u, n) ==
  /\ spend[u][n].status = "RESERVED"
  /\ spend[u][n].owner = None \/ spend[u][n].lapsed
  /\ \A v \in Units, k \in Attempts :
       <<v, k>> # <<u, n>> => spend[v][k].owner = None \/ spend[v][k].lapsed

\* The seeded fault: the actual cost is added to the reservation, not put in its place.
Reconciled_Added(usage) ==
  [status |-> IF usage.rep THEN "RECONCILED" ELSE "UNRECONCILED",
   cost |-> R + usage.cost, owner |-> None, lapsed |-> FALSE]

\* reconcile_graphiti_spend, whatever the row's status is.
Reconciled(usage) ==
  [status |-> IF usage.rep THEN "RECONCILED" ELSE "UNRECONCILED",
   cost |-> usage.cost, owner |-> None, lapsed |-> FALSE]

SetRow(u, n, row) == spend' = [spend EXCEPT ![u] = [@ EXCEPT ![n] = row]]

dead_lettered(u) == fails[u] >= MaxFailures

Goto(w, step) == pc' = [pc EXCEPT ![w] = step]
Ledger == <<spend, receipt, ingested, fails>>
History == <<charged, shared>>
----------------------------------------------------------------------------
(* The loop up to the dispatch (_queue, _ingest) *)

\* The seeded fault: a chunk does not wait for its predecessor.
Queue_AnyChunk == {u \in Units : u \notin ingested /\ ~dead_lettered(u)}

\* _queue: a snapshot of the units that are neither ingested nor dead and whose
\* predecessor is ingested.  The order they are sorted in is left open.
Queue == {u \in Units : /\ u \notin ingested /\ ~dead_lettered(u)
                        /\ Pred[u] = None \/ Pred[u] \in ingested}

Begin(w) ==
  /\ pc[w] = "idle" /\ Queue # {}
  /\ loc' = [loc EXCEPT ![w] = [NoLocals EXCEPT !.todo = Queue]]
  /\ Goto(w, "pick")
  /\ UNCHANGED <<Ledger, fence, journal, History, faults>>

\* The next turn of the loop, if there is one.
Resume(w) ==
  /\ loc' = [loc EXCEPT ![w] = [NoLocals EXCEPT !.todo = loc[w].todo]]
  /\ Goto(w, IF loc[w].todo = {} THEN "idle" ELSE "pick")

\* The loop is drained by the operator, at its cap, or held.
Stop(w) ==
  /\ pc[w] = "pick"
  /\ loc' = [loc EXCEPT ![w] = NoLocals]
  /\ Goto(w, "idle")
  /\ UNCHANGED <<Ledger, fence, journal, History, faults>>

\* The next unit that has rights (those without are passed over): its attempt
\* number is read before the transaction that reserves it.
Pick(w) ==
  /\ pc[w] = "pick"
  /\ \E u \in loc[w].todo :
       /\ NextAttemptNumber(u) <= MaxAttempt[u]
       /\ loc' = [loc EXCEPT ![w] = [NoLocals EXCEPT
                    !.todo = loc[w].todo \ {u}, !.u = u, !.n = NextAttemptNumber(u)]]
  /\ Goto(w, "read")
  /\ UNCHANGED <<Ledger, fence, journal, History, faults>>

\* reserve_graphiti_spend: a row that exists is re-entered, a new one has to
\* fit under the ceiling, which otherwise ends the loop.
Reserve(w) ==
  LET u == loc[w].u
      n == loc[w].n
  IN /\ pc[w] = "read"
     /\ \/ /\ spend[u][n].status # "NONE"
           /\ Goto(w, "reserved")
           /\ UNCHANGED <<spend, loc>>
        \/ /\ spend[u][n].status = "NONE" /\ Fits
           /\ SetRow(u, n, NewRow)
           /\ loc' = [loc EXCEPT ![w] = [@ EXCEPT !.reserved = TRUE]]
           /\ Goto(w, "reserved")
        \/ /\ spend[u][n].status = "NONE" /\ ~Fits
           /\ loc' = [loc EXCEPT ![w] = NoLocals]
           /\ Goto(w, "idle")
           /\ UNCHANGED spend
     /\ UNCHANGED <<receipt, ingested, fails, fence, journal, History, faults>>

\* No call was made under this reservation as far as this worker knows, so it
\* is given back; a re-entered row is left alone.
GiveBack(w) ==
  LET u == loc[w].u
      n == loc[w].n
  IN IF loc[w].reserved
     THEN SetRow(u, n, Reconciled(NoCall))
     ELSE UNCHANGED spend

\* _ProvingFenceUnavailable: the proving store stayed locked for five seconds.
FenceUnavailable(w) ==
  /\ pc[w] = "reserved"
  /\ GiveBack(w)
  /\ loc' = [loc EXCEPT ![w] = NoLocals]
  /\ Goto(w, "idle")
  /\ UNCHANGED <<receipt, ingested, fails, fence, journal, History, faults>>

\* Inside the fence the rights turn out to be gone.
RightsRevoked(w) ==
  /\ pc[w] = "reserved" /\ fence = None
  /\ GiveBack(w)
  /\ Resume(w)
  /\ UNCHANGED <<receipt, ingested, fails, fence, journal, History, faults>>

\* The re-entry of an attempt cannot tell whether the worker that reserved it,
\* or claimed it and has not settled it yet, is dead; `shared' keeps the
\* attempts for which it was not.
Claim(w) ==
  LET u == loc[w].u
      n == loc[w].n
      holders == {v \in Workers \ {w} : /\ loc[v].u = u /\ loc[v].n = n
                                        /\ loc[v].reserved \/ pc[v] = "settle"}
  IN /\ pc[w] = "reserved" /\ fence = None
     /\ \/ /\ Claimable(u, n)
           /\ SetRow(u, n, [spend[u][n] EXCEPT !.owner = w, !.lapsed = FALSE])
           /\ fence' = w
           /\ shared' = IF holders = {} THEN shared ELSE shared \cup {<<u, n>>}
           /\ Goto(w, "claimed")
           /\ UNCHANGED loc
        \/ /\ ~Claimable(u, n)
           /\ loc' = [loc EXCEPT ![w] = NoLocals]
           /\ Goto(w, "idle")
           /\ UNCHANGED <<spend, fence, shared>>
     /\ UNCHANGED <<receipt, ingested, fails, journal, charged, faults>>
----------------------------------------------------------------------------
(* The dispatch, behind the fence (the governed port and its adapter) *)

\* The port returns or raises, and the fence is left.  An exception tells
\* nothing, and a result that does not bind only what usage it reports.
Answer(w, kind, usage, at, closed) ==
  /\ loc' = [loc EXCEPT ![w] = [@ EXCEPT !.res =
       IF kind \in {"refused", "raised"} THEN [NoResult EXCEPT !.kind = kind]
       ELSE IF kind = "rejected" THEN [NoResult EXCEPT !.kind = kind, !.use = usage]
       ELSE [kind |-> kind, use |-> usage, at |-> at, closed |-> closed]]]
  /\ fence' = None
  /\ Goto(w, "settle")

\* Refused before any provider call: no authority, another session's marker,
\* or an error of the set-up.
Refuse(w) ==
  /\ pc[w] = "claimed"
  /\ \E kind \in {"failed", "refused", "raised"} :
       Answer(w, kind, NoCall, loc[w].n, FALSE)
  /\ UNCHANGED <<Ledger, journal, History, faults>>

\* The journal's last attempt stands in the way of another call and is
\* answered: a sealed result, an attempt left pending (rolled back now), or a
\* rolled-back one of this number.
Recover(w) ==
  LET u == loc[w].u
      j == journal[u]
      pending == j.st = "PENDING"
      sealed == j.st \in {"COMPLETE", "FAILED"}
  IN /\ pc[w] = "claimed"
     /\ pending \/ sealed \/ (j.st = "ROLLED_BACK" /\ j.att >= loc[w].n)
     /\ \E kind \in {"terminal", "failed", "rejected", "raised"} :
          /\ kind = "terminal" => j.st = "COMPLETE"
          /\ Answer(w, kind, j.use, j.att, kind = "failed" /\ ~sealed)
     /\ journal' = IF pending THEN [journal EXCEPT ![u] = [@ EXCEPT !.st = "ROLLED_BACK"]] ELSE journal
     /\ UNCHANGED <<Ledger, History, faults>>

\* The seeded fault: a sealed success of an earlier attempt does not stop the call.
MayCall_AfterSuccess(j, n) == j.st # "PENDING" /\ j.att < n

\* A fresh call is open when nothing was journalled, or a settled earlier
\* attempt that is not a success.
MayCall(j, n) == j.st = "NONE" \/ (j.st \in {"FAILED", "ROLLED_BACK"} /\ j.att < n)

\* The provider charges for the embeddings it is asked for.
Call(w) ==
  LET u == loc[w].u
      n == loc[w].n
  IN /\ pc[w] = "claimed"
     /\ MayCall(journal[u], n)
     /\ journal' = [journal EXCEPT ![u] = [st |-> "PENDING", att |-> n, use |-> Unreported]]
     /\ \E c \in Costs, rep \in BOOLEAN :
          /\ c = 0 => rep
          /\ charged' = [charged EXCEPT ![u] = [@ EXCEPT ![n] = charged[u][n] + c]]
          /\ loc' = [loc EXCEPT ![w] = [@ EXCEPT !.res = [NoResult EXCEPT
                       !.use = IF rep THEN [rep |-> TRUE, cost |-> c] ELSE Unreported]]]
     /\ Goto(w, "calling")
     /\ UNCHANGED <<Ledger, fence, shared, faults>>

\* record_pending_telemetry.
Record(w) ==
  /\ pc[w] = "calling"
  /\ journal' = [journal EXCEPT ![loc[w].u] = [@ EXCEPT !.use = loc[w].res.use]]
  /\ Goto(w, "called")
  /\ UNCHANGED <<Ledger, fence, loc, History, faults>>

\* The call ends: sealed, rolled back, or left pending when even that failed;
\* only a sealed success is returned as terminal.
Return(w) ==
  LET u == loc[w].u IN
  /\ pc[w] = "called"
  /\ \E st \in JournalStates, kind \in {"terminal", "failed", "rejected", "raised"} :
       /\ kind = "terminal" => st = "COMPLETE"
       /\ journal' = [journal EXCEPT ![u] = [@ EXCEPT !.st = st]]
       /\ Answer(w, kind, loc[w].res.use, loc[w].n, FALSE)
  /\ UNCHANGED <<Ledger, History, faults>>
----------------------------------------------------------------------------
(* Settlement, one transaction (_ingest after the fence) *)

\* The seeded fault: a re-entered attempt is settled like any other.
Preserves_Never(w) == FALSE

\* A re-entered attempt that reports no embedding call of its own says nothing
\* about the calls made before it: its reservation stays.
Preserves(w) ==
  LET res == loc[w].res IN
  /\ ~loc[w].reserved /\ res.kind # "terminal"
  /\ res.kind \in {"refused", "raised"} \/ res.use = NoCall

\* The seeded fault: a second receipt replaces the first.
Conflict_Never(w) == FALSE

\* The receipt's primary key: a second one aborts the transaction, and the
\* error ends the process.
Conflict(w) == <<loc[w].u, loc[w].n>> \in receipt

Retain(w) == receipt' = receipt \cup {<<loc[w].u, loc[w].n>>}

\* _fail, unless the failure is a systemic one, which is reported instead.
CountFailure(u) == \/ fails' = [fails EXCEPT ![u] = @ + 1]
                   \/ UNCHANGED fails

\* _preserve_reused_unresolved_spend, and a receipt when a marker was closed.
Preserve(w) ==
  LET u == loc[w].u
      n == loc[w].n
      row == spend[u][n]
  IN /\ pc[w] = "settle" /\ Preserves(w)
     /\ SetRow(u, n, IF row.status = "RESERVED" /\ row.owner = w
                     THEN [row EXCEPT !.owner = None, !.lapsed = FALSE] ELSE row)
     /\ \/ /\ loc[w].res.closed /\ ~Conflict(w)
           /\ Retain(w)
           /\ CountFailure(u)
        \/ /\ ~loc[w].res.closed
           /\ UNCHANGED <<receipt, fails>>
     /\ Resume(w)
     /\ UNCHANGED <<ingested, fence, journal, History, faults>>

\* The row after a result: its own usage; an exception leaves it unreconciled
\* unless it is known that no call was made; nor is a rejected result believed.
UsageOf(res) == IF res.kind = "refused" THEN NoCall
                ELSE IF res.kind \in {"raised", "rejected"} THEN Unreported
                ELSE res.use

\* validated_no_dispatch_recovery: a sealed success of an earlier attempt whose
\* retained receipt carries the same digest (it need not).
Attributable(w) ==
  LET res == loc[w].res IN
  /\ res.kind = "terminal" /\ res.at # loc[w].n
  /\ <<loc[w].u, res.at>> \in receipt

\* _reconcile_result_spend.
ReconcileResult(w) ==
  LET u == loc[w].u
      n == loc[w].n
      res == loc[w].res
      earlier == spend[u][res.at]
  IN \/ SetRow(u, n, Reconciled(UsageOf(res)))
     \/ /\ Attributable(w)
        /\ spend' = [spend EXCEPT ![u] = [@ EXCEPT
             ![res.at] = IF earlier.status = "RECONCILED" THEN earlier
                         ELSE Reconciled(res.use),
             ![n] = Reconciled(NoCall)]]

SettleFailed(w) ==
  /\ pc[w] = "settle" /\ ~Preserves(w) /\ ~Conflict(w)
  /\ loc[w].res.kind # "terminal"
  /\ ReconcileResult(w)
  /\ Retain(w)
  /\ CountFailure(loc[w].u)
  /\ Resume(w)
  /\ UNCHANGED <<ingested, fence, journal, History, faults>>

\* insert_graphiti_ingest and clear_graphiti_failure.
SettleTerminal(w) ==
  /\ pc[w] = "settle" /\ ~Conflict(w)
  /\ loc[w].res.kind = "terminal"
  /\ ReconcileResult(w)
  /\ Retain(w)
  /\ ingested' = ingested \cup {loc[w].u}
  /\ fails' = [fails EXCEPT ![loc[w].u] = 0]
  /\ Resume(w)
  /\ UNCHANGED <<fence, journal, History, faults>>

Abort(w) ==
  /\ pc[w] = "settle" /\ Conflict(w)
  /\ ~Preserves(w) \/ loc[w].res.closed
  /\ loc' = [loc EXCEPT ![w] = NoLocals]
  /\ Goto(w, "idle")
  /\ UNCHANGED <<Ledger, fence, journal, History, faults>>
----------------------------------------------------------------------------
(* The environment *)

\* The process dies, or an owner's stop (VetoError) ends it where it stands; its
\* transactions are rolled back and its fence is gone.
Crash(w) ==
  /\ pc[w] # "idle" /\ faults < MaxFault
  /\ faults' = faults + 1
  /\ fence' = IF fence = w THEN None ELSE fence
  /\ loc' = [loc EXCEPT ![w] = NoLocals]
  /\ Goto(w, "idle")
  /\ UNCHANGED <<Ledger, journal, History>>

\* Fifteen minutes pass over a claim.  A dispatch ends within three and the
\* wait for the fence within seconds: its worker has left the fence, and one
\* that is still at work on the attempt has stalled.
Lapse(u, n) ==
  LET row == spend[u][n]
      stalled == \E w \in Workers : loc[w].u = u /\ loc[w].n = n
  IN /\ row.owner # None /\ ~row.lapsed /\ fence # row.owner
     /\ stalled => faults < MaxFault
     /\ faults' = IF stalled THEN faults + 1 ELSE faults
     /\ SetRow(u, n, [row EXCEPT !.lapsed = TRUE])
     /\ UNCHANGED <<receipt, ingested, fails, fence, journal, pc, loc, History>>

Next ==
  \/ \E w \in Workers :
       \/ Begin(w) \/ Stop(w) \/ Pick(w) \/ Reserve(w)
       \/ FenceUnavailable(w) \/ RightsRevoked(w) \/ Claim(w)
       \/ Refuse(w) \/ Recover(w) \/ Call(w) \/ Record(w) \/ Return(w)
       \/ Preserve(w) \/ SettleFailed(w) \/ SettleTerminal(w) \/ Abort(w)
       \/ Crash(w)
  \/ \E u \in Units, n \in Attempts : Lapse(u, n)

Spec == Init /\ [][Next]_vars
----------------------------------------------------------------------------
(* Properties *)

TypeOK ==
  /\ spend \in [Units -> [Attempts -> Rows]]
  /\ receipt \subseteq Units \X Attempts
  /\ ingested \subseteq Units
  /\ fails \in [Units -> Nat]
  /\ fence \in Workers \cup {None}
  /\ journal \in [Units -> Journals]
  /\ pc \in [Workers -> Steps]
  /\ loc \in [Workers -> Locals]
  /\ charged \in [Units -> [Attempts -> Nat]]
  /\ shared \subseteq Units \X Attempts
  /\ faults \in 0 .. MaxFault

\* Whatever died, lapsed, was replayed or went unreported, the ledger counts at
\* least what the provider charged for an attempt, unless the attempt was
\* re-entered while a worker that had reserved or claimed it was alive.
ChargesAreCounted ==
  \A u \in Units, n \in Attempts :
    charged[u][n] <= Counted(spend[u][n]) \/ <<u, n>> \in shared

\* The committed total never passes the cash ceiling (same exception).
CommittedWithinCeiling == shared = {} => Committed <= Ceiling

\* At most one attempt of a unit is open, the last one: re-entry never leaves
\* an unresolved attempt behind a newer one.
OneOpenAttempt ==
  \A u \in Units, n \in Attempts :
    spend[u][n].status = "RESERVED" /\ <<u, n>> \notin receipt
      => \A k \in Reserved(u) : k <= n

\* An ingested unit is backed by a sealed result of the adapter and a receipt,
\* and by an ingested predecessor.
IngestedMeansSealed ==
  \A u \in ingested :
    /\ journal[u].st = "COMPLETE"
    /\ \E n \in Attempts : <<u, n>> \in receipt
    /\ Pred[u] = None \/ Pred[u] \in ingested

\* A sealed success is paid for once: no later attempt calls the provider.
SealedNeverCharged ==
  [][\A u \in Units : journal[u].st = "COMPLETE"
        => charged'[u] = charged[u] /\ journal'[u] = journal[u]]_vars

\* Failures are counted at most once for each attempt that has a receipt, so a
\* unit is dead-lettered by that many settled attempts and not by replays.
FailuresAreSettled ==
  \A u \in Units : fails[u] <= Cardinality({n \in Attempts : <<u, n>> \in receipt})

\* docs/decisions/2026-08-20-graphiti.md:282: the worst case is reserved, the
\* calls are made, and only then is an unused reservation released.  (Refuted.)
EveryCallIsLedgered ==
  \A u \in Units, n \in Attempts : charged[u][n] <= Counted(spend[u][n])
=============================================================================
