---------------------------- MODULE MutationGuard ----------------------------
(***************************************************************************)
(* The durable mutation journal that guards one Graphiti generation in     *)
(* Neo4j (graphiti_adapter/neo4j_guard.py) and the sessions that drive it  *)
(* (real.py `_add_episode', combined_temporal_pipeline.py).                *)
(*                                                                         *)
(* A session claims a marker and, with it, the generation; copies the      *)
(* generation into a snapshot; lets the provider's result be written; and  *)
(* seals the marker COMPLETE, or rolls the generation back to the snapshot *)
(* and leaves the marker RECOVERED_AMBIGUOUS.  Neo4j runs every query in a *)
(* transaction of its own.  A "fence" is an open transaction that holds    *)
(* the write lock of the generation node while pages of properties are     *)
(* committed independently beside it, so a session that dies leaves its    *)
(* pages behind.  Claims carry a fresh token and a 15-minute lease, and an *)
(* expired one is taken over by comparing what was read with what is there.*)
(*                                                                         *)
(* Properties are abstracted to what tells the outcomes apart: an object   *)
(* of the generation is "absent", "clean" or has been changed by an        *)
(* attempt that does not own it ("drift").  An episode contributes one     *)
(* object, named by the episode.                                           *)
(***************************************************************************)
EXTENDS Naturals, FiniteSets

CONSTANTS Workers,      \* processes that run guard sessions
          Episodes,     \* source units, each with a deterministic episode uuid
          Existing,     \* objects in the generation before any of them
          Tokens,       \* claim tokens (uuid4 values)
          MaxAttempt,   \* bound: attempts of one episode
          Retried,      \* bound: the episodes that get more than one attempt
          MaxFault,     \* bound: sessions that die or outlive their lease
          None

ASSUME GuardAssumption ==
  /\ MaxAttempt \in Nat \ {0} /\ MaxFault \in Nat
  /\ Episodes \cap Existing = {}
  /\ None \notin Workers \cup Tokens

VARIABLES marker,    \* NewsroomIngestMarker nodes by marker_episode_uuid
          owner,     \* what the generation node names: a marker and a token
          graph,     \* the business objects of the generation
          snap,      \* NewsroomSnapshot* nodes by snapshot id
          fence,     \* the worker whose transaction holds the generation lock
          pc,        \* where each worker's session stands
          sess,      \* its guard object: marker, attempt, snapshot, token
          attempt,   \* the attempt number the control plane dispatches next
          faults

vars == <<marker, owner, graph, snap, fence, pc, sess, attempt, faults>>

Objects == Episodes \cup Existing
Props == {"absent", "clean", "drift"}
Attempts == 1 .. MaxAttempt

\* <<e, 0>> is the episode's own marker, <<e, k>> that of a fresh retry k.
MarkerIds == Episodes \X ({0} \cup 2 .. MaxAttempt)
SnapIds == Episodes \X Attempts

\* uuid4 values do not run out: there are more than can be stored at a time, one
\* in each marker and two with each session.
ASSUME TokenAssumption ==
  /\ None \notin MarkerIds
  /\ IsFiniteSet(Workers) /\ IsFiniteSet(Episodes)
  /\ IsFiniteSet(Tokens) => Cardinality(Tokens) > Cardinality(MarkerIds) + 2 * Cardinality(Workers)

Unresolved == {"SNAPSHOTTING", "PENDING", "ROLLING_BACK", "RECOVERING"}
States == Unresolved \cup {"NONE", "COMPLETE", "RECOVERED_AMBIGUOUS"}
Markers == [state : States, att : 0 .. MaxAttempt, tok : Tokens \cup {None},
            expired : BOOLEAN, ok : BOOLEAN]
NoMarker == [state |-> "NONE", att |-> 0, tok |-> None, expired |-> FALSE, ok |-> FALSE]
NoOwner == [m |-> None, tok |-> None]
NoSession == [m |-> None, att |-> 0, sid |-> None, tok |-> None, seen |-> NoMarker]

Steps == {"idle", "begin", "takeTerminal", "claim", "takeRecovering", "takeOwned",
          "discard", "discarding", "snapshot", "snapshotting", "open", "preparing",
          "prepared", "mutating", "repairing", "written", "rollback", "rollbackRead",
          "rolling", "deleting", "restoring", "cleanup"}

Init == /\ marker = [m \in MarkerIds |-> NoMarker]
        /\ owner = NoOwner
        /\ graph = [o \in Objects |-> IF o \in Existing THEN "clean" ELSE "absent"]
        /\ snap = [s \in SnapIds |-> {}]
        /\ fence = None
        /\ pc = [w \in Workers |-> "idle"]
        /\ sess = [w \in Workers |-> NoSession]
        /\ attempt = [e \in Episodes |-> 1]
        /\ faults = 0
----------------------------------------------------------------------------
(* Helpers *)

Episode(w) == sess[w].m[1]
Present == {o \in Objects : graph[o] # "absent"}
SnapshotOf(m) == <<m[1], marker[m].att>>
LiveSession(e) == \E w \in Workers : pc[w] # "idle" /\ sess[w].m[1] = e

\* uuid4(): a token stored nowhere.
InUse == {marker[m].tok : m \in MarkerIds} \cup {sess[w].tok : w \in Workers}
           \cup {sess[w].seen.tok : w \in Workers}
FreshToken == CHOOSE t \in Tokens : t \notin InUse

\* Queries that take the generation lock wait for another session's fence.
LockFree == fence = None

\* _owned_match: this session's token is the generation's and the marker's.  The
\* seeded fault compares no token.
Owned_AnyToken(w, states) ==
  LET m == sess[w].m IN
  owner.m = m /\ SnapshotOf(m) = sess[w].sid /\ marker[m].state \in states

Owned(w, states) ==
  LET m == sess[w].m IN
  /\ owner = [m |-> m, tok |-> sess[w].tok]
  /\ marker[m].tok = sess[w].tok
  /\ SnapshotOf(m) = sess[w].sid
  /\ marker[m].state \in states

Goto(w, step) == pc' = [pc EXCEPT ![w] = step]

\* The session ends: the guard object is dropped and its transaction closed.
End(w) == /\ Goto(w, "idle")
          /\ sess' = [sess EXCEPT ![w] = NoSession]
          /\ fence' = IF fence = w THEN None ELSE fence

Database == <<marker, owner, graph, snap>>
Outside == <<attempt, faults>>
----------------------------------------------------------------------------
(* Choosing the guard and beginning (real.py, Neo4jMutationGuard.begin) *)

\* The last marker of the episode before attempt n: the newest retry marker
\* that exists, else the episode's own.
PriorMarker(e, n) ==
  LET retries == {k \in 2 .. (n - 1) : marker[<<e, k>>].state # "NONE"}
  IN IF retries = {} THEN <<e, 0>>
     ELSE <<e, CHOOSE k \in retries : \A j \in retries : j <= k>>

\* A fresh retry marker needs a prior attempt that is settled: sealed as
\* failed, or rolled back (the usage proofs may still refuse it).
MayRetryFresh(e, n) ==
  LET p == marker[PriorMarker(e, n)] IN
  /\ p.att < n
  /\ p.state = "RECOVERED_AMBIGUOUS" \/ (p.state = "COMPLETE" /\ ~p.ok)

\* The guards `_add_episode' may construct for attempt n, with the attempt
\* number each is bound to: on the episode's own marker the new attempt's, on a
\* retry marker its own.  The seeded fault always takes the marker's.
GuardsFor_MarkerNumber(e, n) ==
  {[m |-> PriorMarker(e, n), att |-> IF n = 1 THEN 1 ELSE PriorMarker(e, n)[2]]}

GuardsFor(e, n) ==
  IF n = 1 THEN {[m |-> <<e, 0>>, att |-> 1]}
  ELSE IF marker[<<e, n>>].state # "NONE" THEN {[m |-> <<e, n>>, att |-> n]}
  ELSE LET p == PriorMarker(e, n)
       IN {[m |-> p, att |-> IF p[2] = 0 THEN n ELSE p[2]]}
            \cup {r \in {[m |-> <<e, n>>, att |-> n]} : MayRetryFresh(e, n)}

\* Sessions of one episode never use two of its markers at a time: the control
\* plane claims an attempt before it dispatches it (claim_graphiti_attempt, the
\* proving fence), and a later attempt follows the settlement of this one.
Start(w, e) ==
  /\ pc[w] = "idle"
  /\ \E g \in GuardsFor(e, attempt[e]) :
       /\ \A v \in Workers : pc[v] # "idle" /\ sess[v].m[1] = e => sess[v].m = g.m
       /\ sess' = [sess EXCEPT ![w] = [NoSession EXCEPT !.m = g.m, !.att = g.att,
                                                        !.sid = <<e, g.att>>]]
  /\ Goto(w, "begin")
  /\ UNCHANGED <<Database, fence, Outside>>

\* begin: a terminal marker is answered, or taken over by a later attempt.
ReadTerminal(w) ==
  LET m == sess[w].m
      raw == marker[m]
      answered == raw.state = "COMPLETE"
                  \/ (raw.state = "RECOVERED_AMBIGUOUS" /\ sess[w].att <= raw.att)
      terminal == raw.state \in {"COMPLETE", "RECOVERED_AMBIGUOUS"}
  IN /\ pc[w] = "begin"
     /\ Goto(w, IF answered THEN "cleanup"
                ELSE IF terminal THEN "takeTerminal" ELSE "claim")
     /\ sess' = IF answered THEN [sess EXCEPT ![w].sid = SnapshotOf(m)]
                ELSE IF terminal
                THEN [sess EXCEPT ![w].sid = SnapshotOf(m), ![w].seen = raw]
                ELSE sess
     /\ UNCHANGED <<Database, fence, Outside>>

\* _claim_marker: create the marker and own the generation, or read the marker
\* that already owns it.
CanCreate(w) ==
  /\ owner = NoOwner /\ marker[sess[w].m].state = "NONE"
  /\ \A u \in MarkerIds : marker[u].state \in Unresolved => SnapshotOf(u) # sess[w].sid

CanAdopt(w) ==
  LET raw == marker[sess[w].m] IN
  /\ owner = [m |-> sess[w].m, tok |-> raw.tok]
  /\ raw.expired /\ raw.state \in Unresolved

ClaimFresh(w) ==
  LET m == sess[w].m IN
  /\ pc[w] = "claim" /\ LockFree /\ CanCreate(w)
  /\ marker' = [marker EXCEPT ![m] = [state |-> "SNAPSHOTTING", att |-> sess[w].att,
                                      tok |-> FreshToken, expired |-> FALSE, ok |-> FALSE]]
  /\ owner' = [m |-> m, tok |-> FreshToken]
  /\ sess' = [sess EXCEPT ![w].tok = FreshToken]
  /\ Goto(w, "snapshot")
  /\ UNCHANGED <<graph, snap, fence, Outside>>

ClaimRetained(w) ==
  LET m == sess[w].m
      raw == marker[m]
  IN /\ pc[w] = "claim" /\ LockFree /\ CanAdopt(w)
     /\ sess' = [sess EXCEPT ![w].sid = SnapshotOf(m), ![w].seen = raw]
     /\ Goto(w, IF raw.state \in {"SNAPSHOTTING", "RECOVERING"}
                THEN "takeRecovering" ELSE "takeOwned")
     /\ UNCHANGED <<Database, fence, Outside>>

\* GuardWorkspaceBusy or GuardError: the generation or the marker is someone's.
ClaimRefused(w) ==
  /\ pc[w] = "claim" /\ LockFree
  /\ ~CanCreate(w) /\ ~CanAdopt(w)
  /\ End(w)
  /\ UNCHANGED <<Database, Outside>>
----------------------------------------------------------------------------
(* Taking a marker over (_take_over) *)

\* The marker still is what this session read of it, and may be taken.
Takeable(w) ==
  LET m == sess[w].m
      seen == sess[w].seen
  IN /\ marker[m].state = seen.state /\ marker[m].tok = seen.tok
     /\ SnapshotOf(m) = sess[w].sid
     /\ IF pc[w] = "takeTerminal"
        THEN \/ owner = [m |-> m, tok |-> marker[m].tok]
             \/ /\ marker[m].state = "RECOVERED_AMBIGUOUS" /\ owner = NoOwner
                /\ \A u \in MarkerIds : marker[u].state \in Unresolved
                                          => SnapshotOf(u) # sess[w].sid
        ELSE owner = [m |-> m, tok |-> marker[m].tok] /\ marker[m].expired

TakeOver(w) ==
  LET m == sess[w].m IN
  /\ pc[w] \in {"takeTerminal", "takeRecovering", "takeOwned"}
  /\ LockFree
  /\ \/ /\ Takeable(w)
        /\ marker' = [marker EXCEPT
             ![m].state = IF pc[w] = "takeOwned" THEN @ ELSE "RECOVERING",
             ![m].tok = FreshToken, ![m].expired = FALSE]
        /\ owner' = [m |-> m, tok |-> FreshToken]
        /\ sess' = [sess EXCEPT ![w].tok = FreshToken, ![w].seen = NoMarker]
        /\ Goto(w, IF pc[w] = "takeOwned" THEN "rollback" ELSE "discard")
        /\ UNCHANGED fence
     \/ /\ ~Takeable(w)
        /\ End(w)
        /\ UNCHANGED <<marker, owner>>
  /\ UNCHANGED <<graph, snap, Outside>>

\* owned_pending_identity: only an expired owner with a graph effect.  The
\* seeded fault forgets a rollback that was interrupted.
Recoverable_Pending(m) ==
  /\ owner = [m |-> m, tok |-> marker[m].tok]
  /\ marker[m].state = "PENDING" /\ marker[m].expired

Recoverable(m) ==
  /\ owner = [m |-> m, tok |-> marker[m].tok]
  /\ marker[m].state \in {"PENDING", "ROLLING_BACK"} /\ marker[m].expired

\* recover_owned_pending: compensate the exact expired owner, whatever episode
\* it belongs to, without a new attempt.  The step is never sure to be taken: a
\* native tick calls it only if it has pending units, and it gives up, having
\* changed nothing, unless authenticated_input finds the attempt's record in
\* the authority store (committed when the session has returned, so missing
\* after a death), its landed native unit, current rights and time left.
OwnedRecovery(w) ==
  /\ pc[w] = "idle"
  /\ \E m \in MarkerIds :
       /\ Recoverable(m)
       /\ sess' = [sess EXCEPT ![w] = [NoSession EXCEPT
                     !.m = m, !.att = marker[m].att, !.sid = SnapshotOf(m),
                     !.seen = marker[m]]]
  /\ Goto(w, "takeOwned")
  /\ UNCHANGED <<Database, fence, Outside>>
----------------------------------------------------------------------------
(* Fences (_generation_fence) *)

\* The step a session enters behind its fence, and the states it demands.
Fenced == [discard |-> "discarding", snapshot |-> "snapshotting",
           open |-> "preparing", prepared |-> "mutating", rolling |-> "deleting"]
FenceStates == [discard |-> {"RECOVERING"}, snapshot |-> {"SNAPSHOTTING"},
                open |-> {"PENDING", "ROLLING_BACK"},
                prepared |-> {"PENDING", "ROLLING_BACK"},
                rolling |-> {"PENDING", "ROLLING_BACK"}]

EnterFence(w) ==
  /\ pc[w] \in DOMAIN Fenced
  /\ LockFree
  /\ Owned(w, FenceStates[pc[w]])
  /\ fence' = w
  /\ Goto(w, Fenced[pc[w]])
  /\ UNCHANGED <<Database, sess, Outside>>

\* The claim is lost: the pipeline tries a rollback, the rest give up.
FenceRefused(w) ==
  /\ pc[w] \in DOMAIN Fenced
  /\ LockFree
  /\ ~Owned(w, FenceStates[pc[w]])
  /\ IF pc[w] \in {"open", "prepared"}
     THEN Goto(w, "rollback") /\ UNCHANGED <<sess, fence>>
     ELSE End(w)
  /\ UNCHANGED <<Database, Outside>>

\* Delete the snapshot of the abandoned claim, page by page, then the marker.
DiscardPage(w) ==
  /\ pc[w] = "discarding"
  /\ \E x \in snap[sess[w].sid] :
       snap' = [snap EXCEPT ![sess[w].sid] = @ \ {x}]
  /\ UNCHANGED <<marker, owner, graph, fence, pc, sess, Outside>>

DiscardMarker(w) ==
  /\ pc[w] = "discarding"
  /\ snap[sess[w].sid] = {}
  /\ marker' = [marker EXCEPT ![sess[w].m] = NoMarker]
  /\ owner' = NoOwner
  /\ fence' = None
  /\ sess' = [sess EXCEPT ![w] = [NoSession EXCEPT
                !.m = sess[w].m, !.att = sess[w].att,
                !.sid = <<Episode(w), sess[w].att>>]]
  /\ Goto(w, "begin")
  /\ UNCHANGED <<graph, snap, Outside>>

\* _snapshot: copy every object of the generation, page by page.
SnapshotPage(w) ==
  /\ pc[w] = "snapshotting"
  /\ \E o \in Present :
       /\ <<o, graph[o]>> \notin snap[sess[w].sid]
       /\ snap' = [snap EXCEPT ![sess[w].sid] = @ \cup {<<o, graph[o]>>}]
  /\ UNCHANGED <<marker, owner, graph, fence, pc, sess, Outside>>

SnapshotDone(w) ==
  /\ pc[w] = "snapshotting"
  /\ \A o \in Present : <<o, graph[o]>> \in snap[sess[w].sid]
  /\ marker' = [marker EXCEPT ![sess[w].m].state = "PENDING"]
  /\ fence' = None
  /\ Goto(w, "open")
  /\ UNCHANGED <<owner, graph, snap, sess, Outside>>
----------------------------------------------------------------------------
(* The attempt: provider work, graph writes, seal *)

\* prepare_execution: create the episode node.
Prepare(w) ==
  /\ pc[w] = "preparing"
  /\ graph' = [graph EXCEPT ![Episode(w)] = "clean"]
  /\ fence' = None
  /\ Goto(w, "prepared")
  /\ UNCHANGED <<marker, owner, snap, sess, Outside>>

\* persist_graph: the writes may touch objects that were there before.
Persist(w) ==
  /\ pc[w] = "mutating"
  /\ \E touched \in SUBSET (Present \ {Episode(w)}) :
       graph' = [o \in Objects |-> IF o \in touched THEN "drift" ELSE graph[o]]
  /\ Goto(w, "repairing")
  /\ UNCHANGED <<marker, owner, snap, fence, sess, Outside>>

\* restore_preexisting, one page: an object gets its snapshot's properties back.
RestorePage(w) ==
  /\ pc[w] \in {"repairing", "restoring"}
  /\ \E x \in snap[sess[w].sid] :
       /\ graph[x[1]] \notin {"absent", x[2]}
       /\ graph' = [graph EXCEPT ![x[1]] = x[2]]
  /\ UNCHANGED <<marker, owner, snap, fence, pc, sess, Outside>>

\* assert_preexisting_unchanged: every snapshotted object is as it was.  The
\* seeded fault trusts the restore.
PreexistingUnchanged_Trusted(w) == TRUE

PreexistingUnchanged(w) == \A x \in snap[sess[w].sid] : graph[x[1]] = x[2]

PersistDone(w) ==
  /\ pc[w] = "repairing"
  /\ PreexistingUnchanged(w)
  /\ fence' = None
  /\ Goto(w, "written")
  /\ UNCHANGED <<Database, sess, Outside>>

\* The leaf or the pipeline fails: whatever was written is rolled back.
Fail(w) ==
  /\ pc[w] \in {"open", "preparing", "prepared", "mutating", "repairing", "written"}
  /\ fence' = IF fence = w THEN None ELSE fence
  /\ Goto(w, "rollback")
  /\ UNCHANGED <<Database, sess, Outside>>

\* complete: seal the marker and release the generation in one transaction.
\* Nothing reads the token of a sealed marker again, so none is kept.
\* From "open" the leaf failed and is sealed as such; from "prepared" its result
\* is an accepted empty one.  When the claim is gone, or the answer to the
\* commit is lost, the pipeline goes on to roll back and a failed leaf gives up.
Complete(w) ==
  LET m == sess[w].m
      abandon == IF pc[w] = "open" THEN End(w)
                 ELSE Goto(w, "rollback") /\ UNCHANGED <<sess, fence>>
  IN /\ pc[w] \in {"open", "prepared", "written"}
     /\ LockFree
     /\ \/ /\ Owned(w, {"PENDING"})
           /\ marker' = [marker EXCEPT ![m].state = "COMPLETE", ![m].ok = pc[w] # "open",
                                       ![m].tok = None, ![m].expired = FALSE]
           /\ owner' = NoOwner
           /\ \/ Goto(w, "cleanup") /\ UNCHANGED <<sess, fence>>
              \/ abandon
        \/ /\ ~Owned(w, {"PENDING"})
           /\ abandon
           /\ UNCHANGED <<marker, owner>>
     /\ UNCHANGED <<graph, snap, Outside>>
----------------------------------------------------------------------------
(* rollback_pending *)

RollbackClaim(w) ==
  /\ pc[w] = "rollback"
  /\ LockFree
  /\ \/ /\ Owned(w, {"PENDING"})
        /\ marker' = [marker EXCEPT ![sess[w].m].state = "ROLLING_BACK"]
        /\ Goto(w, "rolling")
     \/ /\ ~Owned(w, {"PENDING"})
        /\ Goto(w, "rollbackRead")
        /\ UNCHANGED marker
  /\ UNCHANGED <<owner, graph, snap, fence, sess, Outside>>

RollbackRead(w) ==
  LET m == sess[w].m
      raw == marker[m]
  IN /\ pc[w] = "rollbackRead"
     /\ \/ /\ raw.state = "COMPLETE"
           /\ sess' = [sess EXCEPT ![w].sid = SnapshotOf(m)]
           /\ Goto(w, "cleanup")
           /\ UNCHANGED fence
        \/ /\ raw.state = "ROLLING_BACK" /\ raw.tok = sess[w].tok
           /\ Goto(w, "rolling")
           /\ UNCHANGED <<sess, fence>>
        \/ /\ raw.state # "COMPLETE"
           /\ raw.state # "ROLLING_BACK" \/ raw.tok # sess[w].tok
           /\ End(w)
     /\ UNCHANGED <<Database, Outside>>

\* The inventories are read first: a snapshotted object that is gone stops the
\* rollback before it deletes anything.
InventoryComplete(w) == \A x \in snap[sess[w].sid] : graph[x[1]] # "absent"

\* The objects the snapshot does not name.  The seeded fault finds none.
NewObjects_None(w) == {}

NewObjects(w) == {o \in Objects : \A p \in Props : <<o, p>> \notin snap[sess[w].sid]}

DeleteNew(w) ==
  /\ pc[w] = "deleting"
  /\ InventoryComplete(w)
  /\ graph' = [o \in Objects |->
                 IF o \in NewObjects(w) THEN "absent" ELSE graph[o]]
  /\ Goto(w, "restoring")
  /\ UNCHANGED <<marker, owner, snap, fence, sess, Outside>>

\* FULL_VERIFY, then the terminal transition commits with the fence.
RollbackDone(w) ==
  /\ pc[w] = "restoring"
  /\ PreexistingUnchanged(w)
  /\ marker' = [marker EXCEPT ![sess[w].m].state = "RECOVERED_AMBIGUOUS",
                              ![sess[w].m].expired = FALSE]
  /\ owner' = NoOwner
  /\ fence' = None
  /\ Goto(w, "cleanup")
  /\ UNCHANGED <<graph, snap, sess, Outside>>

\* _delete_snapshot after the fence, or when a terminal marker is read.
CleanupPage(w) ==
  /\ pc[w] = "cleanup"
  /\ \E x \in snap[sess[w].sid] :
       snap' = [snap EXCEPT ![sess[w].sid] = @ \ {x}]
  /\ UNCHANGED <<marker, owner, graph, fence, pc, sess, Outside>>

CleanupDone(w) ==
  /\ pc[w] = "cleanup"
  /\ snap[sess[w].sid] = {}
  /\ End(w)
  /\ UNCHANGED <<Database, Outside>>
----------------------------------------------------------------------------
(* The environment *)

\* The process dies, or an error ends the session where it stands; Neo4j rolls
\* its open transaction back.
Crash(w) ==
  /\ pc[w] # "idle" /\ faults < MaxFault
  /\ faults' = faults + 1
  /\ End(w)
  /\ UNCHANGED <<Database, attempt>>

\* Fifteen minutes pass.  A dispatch has to end within three, so a session that
\* is still there when its lease runs out has stalled.
Expire(m) ==
  LET stalled == \E w \in Workers : pc[w] # "idle" /\ sess[w].tok = marker[m].tok
  IN /\ marker[m].state \in Unresolved /\ ~marker[m].expired
     /\ stalled => faults < MaxFault
     /\ faults' = IF stalled THEN faults + 1 ELSE faults
     /\ marker' = [marker EXCEPT ![m].expired = TRUE]
     /\ UNCHANGED <<owner, graph, snap, fence, pc, sess, attempt>>

\* The control plane settles an attempt and moves on to the next; attempts of
\* one episode are dispatched one after another.
NextAttempt(e) ==
  /\ e \in Retried /\ attempt[e] < MaxAttempt
  /\ ~LiveSession(e)
  /\ attempt' = [attempt EXCEPT ![e] = @ + 1]
  /\ UNCHANGED <<Database, fence, pc, sess, faults>>

\* What a session does next by itself.
Step(w) ==
  \/ ReadTerminal(w) \/ ClaimFresh(w) \/ ClaimRetained(w) \/ ClaimRefused(w)
  \/ TakeOver(w) \/ EnterFence(w) \/ FenceRefused(w)
  \/ DiscardPage(w) \/ DiscardMarker(w) \/ SnapshotPage(w) \/ SnapshotDone(w)
  \/ Prepare(w) \/ Persist(w) \/ RestorePage(w) \/ PersistDone(w) \/ Complete(w)
  \/ RollbackClaim(w) \/ RollbackRead(w) \/ DeleteNew(w)
  \/ RollbackDone(w) \/ CleanupPage(w) \/ CleanupDone(w)

Next ==
  \/ \E w \in Workers :
       \/ \E e \in Episodes : Start(w, e)
       \/ Step(w) \/ OwnedRecovery(w) \/ Fail(w) \/ Crash(w)
  \/ \E m \in MarkerIds : Expire(m)
  \/ \E e \in Episodes : NextAttempt(e)

Spec == Init /\ [][Next]_vars

\* A session that runs keeps going, and time passes.
FairSpec ==
  /\ Spec
  /\ \A w \in Workers : WF_vars(Step(w))
  /\ WF_vars(\E m \in MarkerIds : Expire(m))
----------------------------------------------------------------------------
(* Properties *)

TypeOK ==
  /\ marker \in [MarkerIds -> Markers]
  /\ owner \in [m : MarkerIds, tok : Tokens] \cup {NoOwner}
  /\ graph \in [Objects -> Props]
  /\ snap \in [SnapIds -> SUBSET (Objects \X {"clean", "drift"})]
  /\ fence \in Workers \cup {None}
  /\ pc \in [Workers -> Steps]
  /\ sess \in [Workers -> [m : MarkerIds, att : Attempts, sid : SnapIds,
                           tok : Tokens \cup {None}, seen : Markers] \cup {NoSession}]
  /\ attempt \in [Episodes -> Attempts]
  /\ faults \in 0 .. MaxFault

\* At most one attempt is unresolved in the whole generation, it is the one the
\* generation node names, and only the holder of its current token is behind
\* the fence: a session whose claim was taken over writes nothing more
\* (neo4j_guard.py _owned_match, _claim_marker, _take_over).
OneOwner ==
  /\ \A m \in MarkerIds : marker[m].state \in Unresolved
                             <=> owner = [m |-> m, tok |-> marker[m].tok] /\ owner # NoOwner
  /\ fence # None => owner = [m |-> sess[fence].m, tok |-> sess[fence].tok]

\* As long as an attempt may still be rolled back, its snapshot is one copy of
\* each object, nothing it names has gone, and what it would restore carries
\* nobody's stray writes: rollback_pending can always finish exactly.
Revertible(m) == owner.m = m /\ marker[m].state \in {"PENDING", "ROLLING_BACK"}
RollbackPossible ==
  \A m \in MarkerIds : Revertible(m) =>
    LET s == snap[SnapshotOf(m)] IN
    /\ \A x \in s : graph[x[1]] # "absent" /\ x[2] = "clean"
    /\ \A o \in Existing : <<o, "clean">> \in s

\* The generation a reader may rely on: the snapshot while an attempt can still
\* be rolled back, the graph otherwise.
Reliable ==
  IF \E m \in MarkerIds : Revertible(m)
  THEN [o \in Objects |->
          LET kept == {p \in Props : <<o, p>> \in snap[SnapshotOf(owner.m)]}
          IN IF kept = {} THEN "absent" ELSE CHOOSE p \in kept : TRUE]
  ELSE graph

Sealed == {e \in Episodes : \E m \in MarkerIds :
             m[1] = e /\ marker[m].state = "COMPLETE" /\ marker[m].ok}

Atomic == INSTANCE AtomicEpisodes WITH content <- Reliable, sealed <- Sealed

\* The journal implements indivisible episodes: through faults, takeovers, lost
\* answers and partial pages, the generation is exactly the sealed episodes on
\* top of what was there, and a sealed result is never undone or redone.
EpisodesAreAtomic == Atomic!Spec

\* Every expired owner passes authenticated_input at some later tick.  Nothing
\* in the repository makes this so: see OwnedRecovery.
CompensationIsGranted == SF_vars(\E w \in Workers : OwnedRecovery(w))

\* Wherever an attempt was interrupted, in the middle of its writes or of a
\* rollback, granted compensations end with it resolved: no marker, snapshot or
\* half-restored page makes each of them fail in turn and hold the generation.
GrantedCompensationResolves ==
  CompensationIsGranted =>
    ((\E m \in MarkerIds : Revertible(m)) ~> ~ (\E m \in MarkerIds : Revertible(m)))
=============================================================================
