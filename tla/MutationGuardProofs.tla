------------------------- MODULE MutationGuardProofs -------------------------
(***************************************************************************)
(* The mutation journal of MutationGuard, proved for any number of         *)
(* processes, episodes, attempts, objects and faults: the generation has   *)
(* one owner, a rollback is always possible, and the journal implements    *)
(* the indivisible episodes of AtomicEpisodes.                             *)
(*                                                                         *)
(* The inductive invariant speaks of four things.  A session is described  *)
(* by predicates on the values it holds (SessionOK), so that a step of     *)
(* another session, which changes none of them, keeps them at once.  The   *)
(* markers of one episode form a chain (ChainOK): once a retry marker is   *)
(* reached, the ones before it are settled and nobody works on them.  A    *)
(* snapshot belongs to a marker (SnapOwned).  And the graph is the sealed  *)
(* episodes on what was there, except for what the owner may still roll    *)
(* back to its snapshot (GraphOK).                                         *)
(***************************************************************************)
EXTENDS MutationGuard, FiniteSetTheorems, FunctionTheorems, WellFoundedInduction, TLAPS

Sessions == [m : MarkerIds, att : Attempts, sid : SnapIds,
             tok : Tokens \cup {None}, seen : Markers]

\* The steps a session takes behind its fence, those of an attempt that has or
\* may have a graph effect, and those before it holds a claim.
InFence == {"discarding", "snapshotting", "preparing", "mutating", "repairing",
            "deleting", "restoring"}
Owning == {"open", "preparing", "prepared", "mutating", "repairing", "written",
           "rollback", "rollbackRead", "rolling", "deleting", "restoring"}
Unclaimed == {"begin", "claim", "takeTerminal", "takeRecovering", "takeOwned"}

\* The states of a marker whose attempt can be rolled back, and the final ones.
Effect == {"PENDING", "ROLLING_BACK"}
Terminal == {"COMPLETE", "RECOVERED_AMBIGUOUS"}

SidOf(mk, m) == <<m[1], mk[m].att>>

\* The session's token is the one the generation node names.
Holds(s, ow) == s.tok # None /\ ow.tok = s.tok

\* The attempt number a session on marker m has to carry.
Number(m, at) == IF m[2] = 0 THEN at[m[1]] ELSE m[2]

\* The episodes sealed in the markers mk, the generation that stands for, and
\* the snapshot that copies it.
SealedIn(mk) == {e \in Episodes : \E m \in MarkerIds :
                   m[1] = e /\ mk[m].state = "COMPLETE" /\ mk[m].ok}
Kept(mk) == Existing \cup SealedIn(mk)
Base(mk) == [o \in Objects |-> IF o \in Kept(mk) THEN "clean" ELSE "absent"]
BaseSnap(mk) == Kept(mk) \X {"clean"}
----------------------------------------------------------------------------
(* The inductive invariant *)

\* What a session at step p remembers.
ShapeOK(p, s, at) ==
  /\ p = "idle" <=> s = NoSession
  /\ p # "idle" => s \in Sessions /\ s.sid[1] = s.m[1]
  /\ p \in Unclaimed => s.tok = None
  /\ p \in {"begin", "claim", "takeTerminal", "takeRecovering", "discard", "discarding"}
       => s.att = Number(s.m, at)
  /\ p \in {"begin", "claim"} => s.sid = <<s.m[1], s.att>>
  /\ p = "takeTerminal" => s.seen.state = "RECOVERED_AMBIGUOUS" /\ s.sid[2] < s.att
  /\ p = "takeRecovering" => s.seen.state \in {"SNAPSHOTTING", "RECOVERING"}
  /\ p = "takeOwned" => s.seen.state \in Effect

\* Snapshot k of marker m, whose content is r, is of no use to any attempt: it
\* is that of the settled attempt, or of one that a later attempt superseded.
Stale(r, m, k, at) ==
  \/ r.state \in Terminal /\ r.att = k
  \/ /\ m[2] = 0 /\ k < at[m[1]]
     /\ r.state \in Effect \cup {"SNAPSHOTTING"} => r.att # k

\* A session deletes only a stale snapshot, however late it comes to do it.
CleanupOK(p, s, mk, at) == p = "cleanup" => Stale(mk[s.m], s.m, s.sid[2], at)

\* The holder of the current token stands where the marker's state says.
HolderOK(p, s, mk, ow) ==
  Holds(s, ow) =>
    /\ s.m = ow.m /\ SidOf(mk, s.m) = s.sid
    /\ \/ p \in {"snapshot", "snapshotting"} /\ mk[s.m].state = "SNAPSHOTTING"
       \/ p \in {"discard", "discarding"} /\ mk[s.m].state = "RECOVERING"
       \/ p \in Owning /\ mk[s.m].state \in Effect

\* What the holder has done to the graph so far.
PhaseOK(p, s, ow, gr, base) ==
  Holds(s, ow) =>
    /\ p \in {"open", "preparing"} => gr = base
    /\ p \in {"prepared", "mutating", "written"} =>
         \A o \in Objects : gr[o] = IF o = s.m[1] THEN "clean" ELSE base[o]
    /\ p = "repairing" => gr[s.m[1]] = "clean"
    /\ p = "restoring" => gr[s.m[1]] = "absent"

SessionOK(p, s, mk, ow, gr, at) ==
  /\ ShapeOK(p, s, at)
  /\ CleanupOK(p, s, mk, at)
  /\ HolderOK(p, s, mk, ow)
  /\ PhaseOK(p, s, ow, gr, Base(mk))

\* A marker that is settled without a result, or was never made.
Spent(r) == r.state \in {"NONE", "RECOVERED_AMBIGUOUS"} \/ (r.state = "COMPLETE" /\ ~r.ok)

\* What a marker that exists says of its attempt.
RowOK(r, m, at) ==
  /\ r.state = "NONE" => r = NoMarker
  /\ r.state # "NONE" => r.att \in 1 .. at[m[1]] /\ (m[2] # 0 => r.att = m[2])

\* The markers of one episode are reached one after the other; occ holds the
\* markers some session works on.
Reached(m, mk, occ) == mk[m].state # "NONE" \/ m \in occ
ChainOK(mk, occ, at) ==
  \A m \in MarkerIds :
    /\ RowOK(mk[m], m, at)
    /\ m \in occ => m[2] <= at[m[1]]
    /\ Reached(m, mk, occ) =>
         \A u \in MarkerIds : u[1] = m[1] /\ u[2] < m[2] =>
            Spent(mk[u]) /\ u \notin occ /\ mk[u].att < m[2]

SnapOwned(mk, sn) ==
  \A s \in SnapIds : sn[s] # {} =>
    \E u \in MarkerIds : u[1] = s[1] /\ mk[u].state # "NONE" /\ mk[u].att = s[2]

\* What the graph and the snapshot of an owner m may hold.
Reverts(m, mk, gr, sn) ==
  /\ sn[SidOf(mk, m)] = BaseSnap(mk)
  /\ gr[m[1]] \in {"absent", "clean"}
  /\ \A o \in Objects \ {m[1]} : gr[o] # "absent" <=> o \in Kept(mk)
GraphOK(mk, ow, gr, sn) ==
  /\ ow = NoOwner => gr = Base(mk)
  /\ \A m \in MarkerIds : ow.m = m =>
       /\ mk[m].state \notin Effect => gr = Base(mk)
       /\ mk[m].state = "SNAPSHOTTING" => sn[SidOf(mk, m)] \subseteq BaseSnap(mk)
       /\ mk[m].state \in Effect => Reverts(m, mk, gr, sn)

Occupied == {m \in MarkerIds : \E w \in Workers : pc[w] # "idle" /\ sess[w].m = m}
FenceOK == \A w \in Workers : pc[w] \in InFence <=> fence = w
TokensDiffer == \A v, w \in Workers : v # w /\ sess[v].tok = sess[w].tok => sess[v].tok = None
SessionsOK == \A w \in Workers : SessionOK(pc[w], sess[w], marker, owner, graph, attempt)

\* The generation node names no marker but an unresolved one, with its token.
OwnerOK == owner # NoOwner => /\ marker[owner.m].state \in Unresolved
                              /\ marker[owner.m].tok = owner.tok

IInv == /\ TypeOK /\ OneOwner /\ OwnerOK /\ FenceOK /\ TokensDiffer /\ SessionsOK
        /\ ChainOK(marker, Occupied, attempt)
        /\ SnapOwned(marker, snap)
        /\ GraphOK(marker, owner, graph, snap)
----------------------------------------------------------------------------
(* Facts about values *)

LEMMA Ids ==
  /\ \A m \in MarkerIds : /\ m = <<m[1], m[2]>> /\ m[1] \in Episodes /\ m[2] \in Nat
                          /\ m[2] = 0 \/ m[2] \in 2 .. MaxAttempt
                          /\ m # None
  /\ \A s \in SnapIds : s = <<s[1], s[2]>> /\ s[1] \in Episodes /\ s[2] \in Attempts
BY GuardAssumption, TokenAssumption DEF MarkerIds, SnapIds, Attempts

\* A set of values read from a finite number of places is no larger than it.
LEMMA ImageBound ==
  ASSUME NEW S, IsFiniteSet(S), NEW f, f = [x \in S |-> f[x]]
  PROVE  LET T == {f[x] : x \in S}
         IN  IsFiniteSet(T) /\ Cardinality(T) \in Nat /\ Cardinality(T) <= Cardinality(S)
<1> DEFINE T == {f[x] : x \in S}
<1>1. f \in Surjection(S, T)
  BY DEF Surjection
<1>2. IsFiniteSet(T) /\ Cardinality(T) <= Cardinality(S)
  BY <1>1, FS_Surjection
<1>3. Cardinality(T) \in Nat
  BY <1>2, FS_CardinalityType
<1> QED  BY <1>2, <1>3

\* uuid4() never returns a token that is stored.
LEMMA FreshTokenOK ==
  ASSUME TypeOK
  PROVE  FreshToken \in Tokens /\ FreshToken \notin InUse
<1> DEFINE A == {marker[m].tok : m \in MarkerIds}
           B == {sess[w].tok : w \in Workers}
           C == {sess[w].seen.tok : w \in Workers}
<1>1. IsFiniteSet(MarkerIds)
  <2>1. IsFiniteSet(2 .. MaxAttempt)
    BY GuardAssumption, FS_Interval
  <2>2. IsFiniteSet({0} \cup 2 .. MaxAttempt)
    BY <2>1, FS_Singleton, FS_Union
  <2> QED  BY <2>2, TokenAssumption, FS_Product DEF MarkerIds
<1>2. IsFiniteSet(A) /\ Cardinality(A) \in Nat /\ Cardinality(A) <= Cardinality(MarkerIds)
  <2> DEFINE f == [m \in MarkerIds |-> marker[m].tok]
  <2>1. A = {f[m] : m \in MarkerIds}
    OBVIOUS
  <2>2. f = [m \in MarkerIds |-> f[m]]
    OBVIOUS
  <2> HIDE DEF f, A
  <2> QED  BY <1>1, <2>1, <2>2, ImageBound
<1>3. IsFiniteSet(B) /\ Cardinality(B) \in Nat /\ Cardinality(B) <= Cardinality(Workers)
  <2> DEFINE f == [w \in Workers |-> sess[w].tok]
  <2>1. B = {f[w] : w \in Workers}
    OBVIOUS
  <2>2. f = [w \in Workers |-> f[w]]
    OBVIOUS
  <2> HIDE DEF f, B
  <2> QED  BY TokenAssumption, <2>1, <2>2, ImageBound
<1>4. IsFiniteSet(C) /\ Cardinality(C) \in Nat /\ Cardinality(C) <= Cardinality(Workers)
  <2> DEFINE f == [w \in Workers |-> sess[w].seen.tok]
  <2>1. C = {f[w] : w \in Workers}
    OBVIOUS
  <2>2. f = [w \in Workers |-> f[w]]
    OBVIOUS
  <2> HIDE DEF f, C
  <2> QED  BY TokenAssumption, <2>1, <2>2, ImageBound
<1>5. InUse = (A \cup B) \cup C
  BY DEF InUse
<1> HIDE DEF A, B, C
<1>6. IsFiniteSet(A \cup B) /\ Cardinality(A \cup B) <= Cardinality(A) + Cardinality(B)
      /\ Cardinality(A \cup B) \in Nat
  <2>1. Cardinality(A \cap B) \in Nat
    BY <1>2, FS_Intersection, FS_CardinalityType
  <2>2. IsFiniteSet(A \cup B)
        /\ Cardinality(A \cup B) = Cardinality(A) + Cardinality(B) - Cardinality(A \cap B)
    BY <1>2, <1>3, FS_Union
  <2> QED  BY <1>2, <1>3, <2>1, <2>2, FS_CardinalityType
<1>7. IsFiniteSet(InUse) /\ Cardinality(InUse) <= Cardinality(A \cup B) + Cardinality(C)
      /\ Cardinality(InUse) \in Nat
  <2>1. Cardinality((A \cup B) \cap C) \in Nat
    BY <1>6, FS_Intersection, FS_CardinalityType
  <2>2. IsFiniteSet(InUse)
        /\ Cardinality(InUse) = Cardinality(A \cup B) + Cardinality(C)
                                  - Cardinality((A \cup B) \cap C)
    BY <1>4, <1>5, <1>6, FS_Union
  <2> QED  BY <1>4, <1>6, <2>1, <2>2, FS_CardinalityType
<1>8. \E t \in Tokens : t \notin InUse
  <2> SUFFICES ASSUME Tokens \subseteq InUse
               PROVE  FALSE
    OBVIOUS
  <2>1. IsFiniteSet(Tokens) /\ Cardinality(Tokens) <= Cardinality(InUse)
    BY <1>7, FS_Subset
  <2>2. Cardinality(Tokens) \in Nat /\ Cardinality(MarkerIds) \in Nat /\ Cardinality(Workers) \in Nat
    BY <2>1, <1>1, TokenAssumption, FS_CardinalityType
  <2> QED  BY <1>2, <1>3, <1>4, <1>6, <1>7, <2>1, <2>2, TokenAssumption
<1> QED  BY <1>8 DEF FreshToken

\* A step that seals nothing and unseals nothing leaves the promised generation
\* alone.
LEMMA SameBase ==
  ASSUME NEW mk, NEW nk, NEW m \in MarkerIds,
         \A u \in MarkerIds \ {m} : nk[u] = mk[u],
         ~ (mk[m].state = "COMPLETE" /\ mk[m].ok),
         ~ (nk[m].state = "COMPLETE" /\ nk[m].ok)
  PROVE  SealedIn(nk) = SealedIn(mk) /\ Kept(nk) = Kept(mk)
         /\ Base(nk) = Base(mk) /\ BaseSnap(nk) = BaseSnap(mk)
<1>1. SealedIn(nk) = SealedIn(mk)
  BY DEF SealedIn
<1> QED  BY <1>1 DEF Kept, Base, BaseSnap

\* The token of an owner is a token, and its marker is the one unresolved.
LEMMA OwnerMarker ==
  ASSUME TypeOK, OneOwner, OwnerOK
  PROVE  /\ owner # NoOwner => /\ owner.m \in MarkerIds /\ owner.tok \in Tokens
                               /\ marker[owner.m].state \in Unresolved
                               /\ marker[owner.m].tok = owner.tok
         /\ \A m \in MarkerIds : owner.m = m => owner # NoOwner
         /\ \A m \in MarkerIds : marker[m].state \in Unresolved => owner.m = m
         /\ owner.tok # None => owner # NoOwner
BY Ids DEF NoOwner, TypeOK, OwnerOK, OneOwner

----------------------------------------------------------------------------
(* What the steps of a session have in common *)

\* Only session w moves.
Moves(w) ==
  /\ pc' = [v \in Workers |-> IF v = w THEN pc'[w] ELSE pc[v]]
  /\ sess' = [v \in Workers |-> IF v = w THEN sess'[w] ELSE sess[v]]
  /\ pc'[w] \in Steps
  /\ sess'[w] \in Sessions \cup {NoSession}

\* It may enter or leave its own fence.
FenceMove(w) ==
  /\ fence' \in {fence, None, w}
  /\ \A v \in Workers \ {w} : fence' = v <=> fence = v
  /\ fence' = w <=> pc'[w] \in InFence

\* It goes on working on the same marker, or ends.
SameMarker(w) == pc'[w] # "idle" => pc[w] # "idle" /\ sess'[w].m = sess[w].m

\* The state of a database row as a record of its parts.
LEMMA Typed ==
  ASSUME TypeOK
  PROVE  /\ marker \in [MarkerIds -> Markers]
         /\ owner \in [m : MarkerIds, tok : Tokens] \cup {NoOwner}
         /\ graph \in [Objects -> Props]
         /\ snap \in [SnapIds -> SUBSET (Objects \X {"clean", "drift"})]
         /\ fence \in Workers \cup {None}
         /\ pc \in [Workers -> Steps]
         /\ sess \in [Workers -> Sessions \cup {NoSession}]
         /\ attempt \in [Episodes -> Attempts]
         /\ faults \in 0 .. MaxFault
BY DEF TypeOK, Sessions

LEMMA OccupiedSame ==
  ASSUME NEW w \in Workers, Moves(w), SameMarker(w)
  PROVE  Occupied' \subseteq Occupied
BY DEF Moves, SameMarker, Occupied

LEMMA TokensKept ==
  ASSUME TypeOK, TokensDiffer, NEW w \in Workers, Moves(w),
         sess'[w].tok \in {None, sess[w].tok}
  PROVE  TokensDiffer'
BY DEF TokensDiffer, Moves

LEMMA TokensFresh ==
  ASSUME TypeOK, TokensDiffer, NEW w \in Workers, Moves(w), sess'[w].tok = FreshToken
  PROVE  TokensDiffer'
<1>1. \A v \in Workers : sess[v].tok # FreshToken
  BY FreshTokenOK DEF InUse
<1> QED  BY <1>1 DEF TokensDiffer, Moves

LEMMA FenceKept ==
  ASSUME FenceOK, NEW w \in Workers, Moves(w), FenceMove(w)
  PROVE  FenceOK'
BY DEF FenceOK, Moves, FenceMove

LEMMA FenceTyped ==
  ASSUME TypeOK, NEW w \in Workers, FenceMove(w)
  PROVE  fence' \in Workers \cup {None}
BY DEF TypeOK, FenceMove

\* A session that ends releases its own fence and no other.
LEMMA EndMoves ==
  ASSUME TypeOK, FenceOK, NEW w \in Workers, End(w)
  PROVE  Moves(w) /\ FenceMove(w) /\ SameMarker(w)
         /\ pc'[w] = "idle" /\ sess'[w] = NoSession
<1>1. pc'[w] = "idle" /\ sess'[w] = NoSession
  BY DEF End, Goto, TypeOK
<1>2. Moves(w)
  BY <1>1 DEF End, Goto, TypeOK, Moves, Steps
<1>3. FenceMove(w)
  BY <1>1, GuardAssumption DEF End, FenceMove, InFence
<1> QED  BY <1>1, <1>2, <1>3 DEF SameMarker

LEMMA IdleOK ==
  ASSUME NEW mk, NEW ow, NEW gr, NEW at
  PROVE  SessionOK("idle", NoSession, mk, ow, gr, at)
BY DEF SessionOK, ShapeOK, CleanupOK, HolderOK, PhaseOK, Holds, NoSession, Unclaimed

LEMMA ChainShrinks ==
  ASSUME NEW mk, NEW at, NEW occ, NEW occ2 \in SUBSET occ, ChainOK(mk, occ, at)
  PROVE  ChainOK(mk, occ2, at)
BY DEF ChainOK, Reached

\* The holder of the current token is one session.
LEMMA OneHolder ==
  ASSUME TokensDiffer, NEW v \in Workers, NEW w \in Workers, v # w, Holds(sess[w], owner)
  PROVE  ~ Holds(sess[v], owner)
BY DEF TokensDiffer, Holds

\* A session moves, and perhaps writes pages of the graph or of a snapshot, while
\* every marker stays as it is.
LEMMA SessionStep ==
  ASSUME IInv, NEW w \in Workers, Moves(w), FenceMove(w),
         UNCHANGED <<marker, owner, attempt>>,
         faults' \in 0 .. MaxFault,
         graph' \in [Objects -> Props],
         snap' \in [SnapIds -> SUBSET (Objects \X {"clean", "drift"})],
         sess'[w].tok \in {None, sess[w].tok},
         fence' = w => owner = [m |-> sess'[w].m, tok |-> sess'[w].tok],
         ChainOK(marker, Occupied', attempt),
         SessionOK(pc'[w], sess'[w], marker, owner, graph', attempt),
         graph' = graph \/ Holds(sess[w], owner),
         SnapOwned(marker, snap'),
         GraphOK(marker, owner, graph', snap')
  PROVE  IInv'
<1> USE DEF IInv
<1>1. TypeOK'
  BY FenceTyped, Typed DEF TypeOK, Moves, Sessions
<1>2. OneOwner'
  <2>1. fence' # None /\ fence' # w => fence' = fence /\ sess'[fence] = sess[fence] /\ fence # None
    BY FenceTyped, GuardAssumption DEF FenceMove, Moves
  <2> QED  BY <2>1 DEF OneOwner
<1>3. OwnerOK'
  BY DEF OwnerOK
<1>4. FenceOK' /\ TokensDiffer'
  BY FenceKept, TokensKept
<1>5. SessionsOK'
  <2> SUFFICES ASSUME NEW v \in Workers
               PROVE  SessionOK(pc'[v], sess'[v], marker, owner, graph', attempt)
    BY DEF SessionsOK
  <2>1. CASE v = w
    BY <2>1
  <2>2. CASE v # w
    <3>1. pc'[v] = pc[v] /\ sess'[v] = sess[v]
      BY <2>2 DEF Moves
    <3>2. SessionOK(pc[v], sess[v], marker, owner, graph, attempt)
      BY DEF SessionsOK
    <3>3. CASE graph' = graph
      BY <3>1, <3>2, <3>3
    <3>4. CASE Holds(sess[w], owner)
      <4>1. ~ Holds(sess[v], owner)
        BY <2>2, <3>4, OneHolder
      <4> QED  BY <3>1, <3>2, <4>1 DEF SessionOK, PhaseOK
    <3> QED  BY <3>3, <3>4
  <2> QED  BY <2>1, <2>2
<1> QED  BY <1>1, <1>2, <1>3, <1>4, <1>5

\* A session moves and nothing in the database changes.
LEMMA QuietStep ==
  ASSUME IInv, NEW w \in Workers, Moves(w), FenceMove(w),
         UNCHANGED <<Database, attempt>>,
         faults' \in 0 .. MaxFault,
         sess'[w].tok \in {None, sess[w].tok},
         fence' = w => owner = [m |-> sess'[w].m, tok |-> sess'[w].tok],
         ChainOK(marker, Occupied', attempt),
         SessionOK(pc'[w], sess'[w], marker, owner, graph, attempt)
  PROVE  IInv'
<1>1. graph' \in [Objects -> Props] /\ snap' \in [SnapIds -> SUBSET (Objects \X {"clean", "drift"})]
  BY Typed DEF IInv, Database
<1>2. SnapOwned(marker, snap') /\ GraphOK(marker, owner, graph', snap')
  BY DEF IInv, Database
<1>3. SessionOK(pc'[w], sess'[w], marker, owner, graph', attempt)
  BY DEF Database
<1> QED  BY <1>1, <1>2, <1>3, SessionStep DEF Database

\* A session that gives up, or dies, leaves everything where it is.
LEMMA EndStep ==
  ASSUME IInv, NEW w \in Workers, End(w), UNCHANGED <<Database, attempt>>,
         faults' \in 0 .. MaxFault
  PROVE  IInv'
<1>1. /\ Moves(w) /\ FenceMove(w) /\ SameMarker(w)
      /\ pc'[w] = "idle" /\ sess'[w] = NoSession
  BY EndMoves DEF IInv
<1>2. sess'[w].tok = None /\ fence' # w
  BY <1>1 DEF NoSession, FenceMove, InFence
<1>3. ChainOK(marker, Occupied', attempt)
  BY <1>1, OccupiedSame, ChainShrinks DEF IInv
<1>4. SessionOK(pc'[w], sess'[w], marker, owner, graph, attempt)
  BY <1>1, IdleOK
<1> QED  BY <1>1, <1>2, <1>3, <1>4, QuietStep

----------------------------------------------------------------------------
(* What the changes of a marker have in common *)

Rewrites(m) == marker' = [u \in MarkerIds |-> IF u = m THEN marker'[m] ELSE marker[u]]

\* The generation node names the marker exactly while it is unresolved.
OwnerFollows(m) ==
  /\ owner = NoOwner \/ owner.m = m
  /\ owner' = IF marker'[m].state \in Unresolved
              THEN [m |-> m, tok |-> marker'[m].tok] ELSE NoOwner
  /\ marker'[m].state \in Unresolved => marker'[m].tok \in Tokens

\* What was stale stays stale, and no snapshot loses its marker.
SnapshotsKept(m) ==
  /\ \A k \in Attempts : Stale(marker[m], m, k, attempt) => Stale(marker'[m], m, k, attempt)
  /\ IF marker'[m].state = "NONE" THEN snap[SidOf(marker, m)] = {}
     ELSE marker[m].state = "NONE" \/ marker'[m].att = marker[m].att

LEMMA OwnerMoves ==
  ASSUME TypeOK, OneOwner, OwnerOK, NEW m \in MarkerIds, Rewrites(m), marker'[m] \in Markers,
         OwnerFollows(m), fence' = None
  PROVE  OneOwner' /\ OwnerOK' /\ owner' \in [m : MarkerIds, tok : Tokens] \cup {NoOwner}
<1>0. m # None
  BY Ids
<1>1. \A u \in MarkerIds : marker'[u] = IF u = m THEN marker'[m] ELSE marker[u]
  BY DEF Rewrites
<1>2. \A u \in MarkerIds \ {m} : marker[u].state \notin Unresolved
  BY OwnerMarker DEF OwnerFollows, OneOwner
<1>3. owner' # NoOwner <=> marker'[m].state \in Unresolved
  BY <1>0 DEF OwnerFollows, NoOwner
<1>4. OneOwner'
  <2> SUFFICES ASSUME NEW u \in MarkerIds
               PROVE  marker'[u].state \in Unresolved
                        <=> owner' = [m |-> u, tok |-> marker'[u].tok] /\ owner' # NoOwner
    BY DEF OneOwner
  <2>1. CASE u = m
    BY <1>3, <2>1 DEF OwnerFollows
  <2>2. CASE u # m
    BY <1>1, <1>2, <1>3, <2>2 DEF OwnerFollows
  <2> QED  BY <2>1, <2>2
<1>5. OwnerOK'
  BY <1>3 DEF OwnerFollows, OwnerOK
<1> QED  BY <1>4, <1>5 DEF OwnerFollows

LEMMA ChainMoves ==
  ASSUME TypeOK, NEW m \in MarkerIds, m \in Occupied, Occupied' \subseteq Occupied,
         Rewrites(m), RowOK(marker'[m], m, attempt), ChainOK(marker, Occupied, attempt)
  PROVE  ChainOK(marker', Occupied', attempt)
<1> SUFFICES ASSUME NEW u \in MarkerIds
             PROVE  /\ RowOK(marker'[u], u, attempt)
                    /\ u \in Occupied' => u[2] <= attempt[u[1]]
                    /\ Reached(u, marker', Occupied') =>
                         \A x \in MarkerIds : x[1] = u[1] /\ x[2] < u[2] =>
                            Spent(marker'[x]) /\ x \notin Occupied' /\ marker'[x].att < u[2]
  BY DEF ChainOK
<1>1. \A x \in MarkerIds : marker'[x] = IF x = m THEN marker'[m] ELSE marker[x]
  BY DEF Rewrites
<1>2. RowOK(marker'[u], u, attempt) /\ (u \in Occupied' => u[2] <= attempt[u[1]])
  BY <1>1 DEF ChainOK
<1>3. ASSUME Reached(u, marker', Occupied'), NEW x \in MarkerIds, x[1] = u[1], x[2] < u[2]
      PROVE  Spent(marker'[x]) /\ x \notin Occupied' /\ marker'[x].att < u[2]
  <2>1. Reached(u, marker, Occupied)
    BY <1>1, <1>3 DEF Reached
  <2>2. Spent(marker[x]) /\ x \notin Occupied /\ marker[x].att < u[2]
    BY <1>3, <2>1 DEF ChainOK
  <2> QED  BY <1>1, <2>2
<1> QED  BY <1>2, <1>3

LEMMA SnapMoves ==
  ASSUME TypeOK, NEW m \in MarkerIds, Rewrites(m), SnapshotsKept(m), SnapOwned(marker, snap),
         RowOK(marker[m], m, attempt)
  PROVE  SnapOwned(marker', snap)
<1> SUFFICES ASSUME NEW s \in SnapIds, snap[s] # {}
             PROVE  \E u \in MarkerIds : u[1] = s[1] /\ marker'[u].state # "NONE" /\ marker'[u].att = s[2]
  BY DEF SnapOwned
<1>1. PICK u \in MarkerIds : u[1] = s[1] /\ marker[u].state # "NONE" /\ marker[u].att = s[2]
  BY DEF SnapOwned
<1>2. CASE u # m
  BY <1>1, <1>2 DEF Rewrites
<1>3. CASE u = m
  <2>1. s = SidOf(marker, m)
    BY <1>1, <1>3, Ids DEF SidOf
  <2> QED  BY <1>1, <1>3, <2>1 DEF SnapshotsKept
<1> QED  BY <1>2, <1>3

LEMMA MarkerStep ==
  ASSUME IInv, NEW w \in Workers, pc[w] # "idle", NEW m \in MarkerIds, m = sess[w].m,
         Moves(w), FenceMove(w), SameMarker(w), fence' = None,
         Rewrites(m), marker'[m] \in Markers, OwnerFollows(m), SnapshotsKept(m),
         RowOK(marker'[m], m, attempt),
         UNCHANGED <<graph, snap, attempt, faults>>,
         \A v \in Workers \ {w} : ~ Holds(sess[v], owner'),
         TokensDiffer',
         SessionOK(pc'[w], sess'[w], marker', owner', graph, attempt),
         GraphOK(marker', owner', graph, snap)
  PROVE  IInv'
<1> USE DEF IInv
<1>1. OneOwner' /\ OwnerOK' /\ owner' \in [m : MarkerIds, tok : Tokens] \cup {NoOwner}
  BY OwnerMoves
<1>2. TypeOK'
  BY <1>1, FenceTyped, Typed DEF TypeOK, Moves, Sessions, Rewrites
<1>3. FenceOK'
  BY FenceKept
<1>4. m \in Occupied /\ Occupied' \subseteq Occupied
  BY OccupiedSame DEF Occupied
<1>5. ChainOK(marker', Occupied', attempt)
  BY <1>4, ChainMoves
<1>6. SnapOwned(marker', snap)
  BY SnapMoves DEF ChainOK
<1>7. SessionsOK'
  <2> SUFFICES ASSUME NEW v \in Workers
               PROVE  SessionOK(pc'[v], sess'[v], marker', owner', graph, attempt)
    BY DEF SessionsOK
  <2>1. CASE v = w
    BY <2>1
  <2>2. CASE v # w
    <3>1. pc'[v] = pc[v] /\ sess'[v] = sess[v]
      BY <2>2 DEF Moves
    <3>2. SessionOK(pc[v], sess[v], marker, owner, graph, attempt)
      BY DEF SessionsOK
    <3>3. ~ Holds(sess[v], owner')
      BY <2>2
    <3>4. CleanupOK(pc[v], sess[v], marker', attempt)
      <4> SUFFICES ASSUME pc[v] = "cleanup"
                   PROVE  Stale(marker'[sess[v].m], sess[v].m, sess[v].sid[2], attempt)
        BY DEF CleanupOK
      <4>1. sess[v].m \in MarkerIds /\ sess[v].sid[2] \in Attempts
        BY <3>2, Ids DEF SessionOK, ShapeOK, Sessions
      <4>2. Stale(marker[sess[v].m], sess[v].m, sess[v].sid[2], attempt)
        BY <3>2 DEF SessionOK, CleanupOK
      <4>3. CASE sess[v].m = m
        BY <4>1, <4>2, <4>3 DEF SnapshotsKept
      <4>4. CASE sess[v].m # m
        BY <4>1, <4>2, <4>4 DEF Rewrites
      <4> QED  BY <4>3, <4>4
    <3>5. SessionOK(pc[v], sess[v], marker', owner', graph, attempt)
      BY <3>2, <3>3, <3>4 DEF SessionOK, HolderOK, PhaseOK
    <3> QED  BY <3>1, <3>5
  <2> QED  BY <2>1, <2>2
<1> QED  BY <1>1, <1>2, <1>3, <1>5, <1>6, <1>7

\* What the invariant says of a session that has begun.
LEMMA LiveSessionOK ==
  ASSUME IInv, NEW w \in Workers, pc[w] # "idle"
  PROVE  /\ sess[w] \in Sessions /\ sess[w].sid[1] = sess[w].m[1]
         /\ sess[w].m \in MarkerIds /\ sess[w].m \in Occupied
         /\ sess[w].att \in Attempts /\ sess[w].sid \in SnapIds
         /\ SessionOK(pc[w], sess[w], marker, owner, graph, attempt)
<1>1. SessionOK(pc[w], sess[w], marker, owner, graph, attempt)
  BY DEF IInv, SessionsOK
<1> QED  BY <1>1 DEF SessionOK, ShapeOK, Sessions, Occupied

\* A session that owns the marker holds the current token.
LEMMA OwnedHolds ==
  ASSUME IInv, NEW w \in Workers, pc[w] # "idle", NEW S, Owned(w, S)
  PROVE  /\ Holds(sess[w], owner) /\ owner.m = sess[w].m /\ owner # NoOwner
         /\ marker[sess[w].m].state \in S /\ SidOf(marker, sess[w].m) = sess[w].sid
         /\ sess[w].m \in MarkerIds /\ sess[w].tok \in Tokens
         /\ owner = [m |-> sess[w].m, tok |-> sess[w].tok]
<1>1. owner = [m |-> sess[w].m, tok |-> sess[w].tok] /\ marker[sess[w].m].state \in S
      /\ SidOf(marker, sess[w].m) = sess[w].sid
  BY DEF Owned, SnapshotOf, SidOf
<1>2. sess[w].m # None
  BY LiveSessionOK, Ids
<1>3. owner # NoOwner
  BY <1>1, <1>2 DEF NoOwner
<1>4. owner.m \in MarkerIds /\ owner.tok \in Tokens
  BY <1>3, OwnerMarker DEF IInv
<1> QED  BY <1>1, <1>3, <1>4, GuardAssumption DEF Holds

\* So does a session behind its fence.
LEMMA FencedHolds ==
  ASSUME IInv, NEW w \in Workers, pc[w] \in InFence
  PROVE  /\ Holds(sess[w], owner) /\ owner.m = sess[w].m /\ owner # NoOwner /\ fence = w
         /\ SidOf(marker, sess[w].m) = sess[w].sid
         /\ sess[w].m \in MarkerIds /\ sess[w].tok \in Tokens
         /\ owner = [m |-> sess[w].m, tok |-> sess[w].tok]
         /\ pc[w] # "idle"
         /\ marker[sess[w].m].tok = sess[w].tok
<1>1. fence = w /\ pc[w] # "idle"
  BY DEF IInv, FenceOK, InFence
<1>2. owner = [m |-> sess[w].m, tok |-> sess[w].tok]
  BY <1>1, GuardAssumption DEF IInv, OneOwner
<1>3. sess[w].m \in MarkerIds /\ HolderOK(pc[w], sess[w], marker, owner)
  BY <1>1, LiveSessionOK DEF SessionOK
<1>4. owner # NoOwner
  BY <1>2, <1>3, Ids DEF NoOwner
<1>5. owner.m \in MarkerIds /\ owner.tok \in Tokens /\ marker[owner.m].tok = owner.tok
  BY <1>4, OwnerMarker DEF IInv
<1>6. Holds(sess[w], owner)
  BY <1>2, <1>5, GuardAssumption DEF Holds
<1> QED  BY <1>1, <1>2, <1>3, <1>4, <1>5, <1>6 DEF HolderOK

----------------------------------------------------------------------------
(* Steps that only move the session *)

LEMMA GotoMoves ==
  ASSUME TypeOK, NEW w \in Workers, NEW step \in Steps, Goto(w, step), sess' = sess
  PROVE  Moves(w) /\ pc'[w] = step /\ sess'[w] = sess[w]
BY Typed DEF Goto, Moves

LEMMA SessMoves ==
  ASSUME TypeOK, NEW w \in Workers, NEW step \in Steps, Goto(w, step),
         NEW s \in Sessions, sess' = [sess EXCEPT ![w] = s]
  PROVE  Moves(w) /\ pc'[w] = step /\ sess'[w] = s
BY Typed DEF Goto, Moves

\* A marker that exists names a snapshot.
LEMMA MarkerSnapshot ==
  ASSUME IInv, NEW m \in MarkerIds, marker[m].state # "NONE"
  PROVE  /\ SidOf(marker, m) \in SnapIds /\ SidOf(marker, m) = SnapshotOf(m)
         /\ marker[m].att \in Attempts /\ marker[m].att <= attempt[m[1]]
         /\ m[2] # 0 => marker[m].att = m[2]
         /\ m[2] <= attempt[m[1]]
<1>1. RowOK(marker[m], m, attempt)
  BY DEF IInv, ChainOK
<1>2. attempt[m[1]] \in 1 .. MaxAttempt /\ m[1] \in Episodes /\ m[2] \in Nat
  BY Typed, Ids DEF IInv, Attempts
<1>3. marker[m].att \in 1 .. attempt[m[1]] /\ (m[2] # 0 => marker[m].att = m[2])
  BY <1>1 DEF RowOK
<1>4. marker[m].att \in Attempts /\ marker[m].att <= attempt[m[1]]
  BY <1>2, <1>3, GuardAssumption DEF Attempts
<1> QED  BY <1>2, <1>3, <1>4 DEF SidOf, SnapshotOf, SnapIds

\* Without a token a session holds nothing.
LEMMA Tokenless ==
  ASSUME NEW p, NEW s, NEW mk, NEW ow, NEW gr, NEW at, ~ Holds(s, ow),
         ShapeOK(p, s, at), CleanupOK(p, s, mk, at)
  PROVE  SessionOK(p, s, mk, ow, gr, at)
BY DEF SessionOK, HolderOK, PhaseOK

LEMMA SameMarkerChain ==
  ASSUME IInv, NEW w \in Workers, Moves(w), SameMarker(w)
  PROVE  ChainOK(marker, Occupied', attempt)
BY OccupiedSame, ChainShrinks DEF IInv

\* A session goes on to another step with the same claim.
LEMMA GoesOn ==
  ASSUME IInv, NEW w \in Workers, pc[w] # "idle", NEW step \in Steps, Goto(w, step),
         NEW s \in Sessions, sess' = [sess EXCEPT ![w] = s],
         s.m = sess[w].m, s.tok = sess[w].tok,
         UNCHANGED <<Database, attempt, faults>>,
         FenceMove(w), fence' = w => owner = [m |-> s.m, tok |-> s.tok],
         SessionOK(step, s, marker, owner, graph, attempt)
  PROVE  IInv'
<1>1. Moves(w) /\ pc'[w] = step /\ sess'[w] = s
  BY SessMoves DEF IInv
<1>2. SameMarker(w)
  BY <1>1 DEF SameMarker
<1>3. ChainOK(marker, Occupied', attempt)
  BY <1>1, <1>2, SameMarkerChain
<1>4. faults' \in 0 .. MaxFault
  BY Typed DEF IInv
<1> QED  BY <1>1, <1>3, <1>4, QuietStep

\* Outside the fence nothing is owed to it.
LEMMA OutsideFence ==
  ASSUME IInv, NEW w \in Workers, NEW step \in Steps, Goto(w, step), fence' = fence,
         pc[w] \notin InFence, step \notin InFence
  PROVE  FenceMove(w) /\ fence' # w
BY Typed DEF IInv, FenceOK, FenceMove, Goto

\* A session without a claim goes on outside the fence.
LEMMA Waits ==
  ASSUME IInv, NEW w \in Workers, pc[w] # "idle", NEW step \in Steps, Goto(w, step),
         pc[w] \notin InFence, step \notin InFence,
         NEW s \in Sessions, sess' = [sess EXCEPT ![w] = s],
         s.m = sess[w].m, s.tok = sess[w].tok, ~ Holds(s, owner),
         UNCHANGED <<Database, fence, attempt, faults>>,
         ShapeOK(step, s, attempt), CleanupOK(step, s, marker, attempt)
  PROVE  IInv'
<1>1. SessionOK(step, s, marker, owner, graph, attempt)
  BY Tokenless
<1> QED  BY <1>1, GoesOn, OutsideFence

LEMMA NotNoSession ==
  ASSUME NEW s \in Sessions
  PROVE  s # NoSession
<1>1. s.m # None
  BY Ids DEF Sessions
<1> QED  BY <1>1 DEF NoSession

LEMMA ReadTerminalStep ==
  ASSUME IInv, NEW w \in Workers, ReadTerminal(w)
  PROVE  IInv'
<1> DEFINE m == sess[w].m
           raw == marker[m]
           answered == raw.state = "COMPLETE"
                       \/ (raw.state = "RECOVERED_AMBIGUOUS" /\ sess[w].att <= raw.att)
           terminal == raw.state \in Terminal
<1>0. /\ pc[w] = "begin" /\ UNCHANGED <<Database, fence, attempt, faults>>
      /\ TypeOK
  BY DEF ReadTerminal, Outside, IInv
<1>1. /\ sess[w] \in Sessions /\ sess[w].sid[1] = m[1] /\ m \in MarkerIds
      /\ sess[w].att \in Attempts /\ sess[w].tok = None
      /\ sess[w].att = Number(m, attempt) /\ sess[w].sid = <<m[1], sess[w].att>>
  BY <1>0, LiveSessionOK DEF SessionOK, ShapeOK, Unclaimed
<1>2. pc[w] # "idle" /\ pc[w] \notin InFence
      /\ \A p \in {"cleanup", "takeTerminal", "claim"} : p \in Steps /\ p \notin InFence /\ p # "idle"
  BY <1>0 DEF Steps, InFence
<1>3. CASE answered
  <2> DEFINE s == [sess[w] EXCEPT !.sid = SidOf(marker, m)]
  <2>1. SidOf(marker, m) \in SnapIds /\ SidOf(marker, m) = SnapshotOf(m) /\ raw.state \in Terminal
    BY <1>1, <1>3, MarkerSnapshot DEF Terminal
  <2>2. s \in Sessions /\ s.tok = None /\ s.m = m /\ s.sid = SidOf(marker, m)
    BY <1>1, <2>1 DEF Sessions
  <2>3. sess' = [sess EXCEPT ![w] = s] /\ Goto(w, "cleanup")
    BY <1>3, <2>1, <1>0, Typed DEF ReadTerminal, TypeOK
  <2> HIDE DEF s
  <2>4. ShapeOK("cleanup", s, attempt)
    BY <2>2, NotNoSession DEF ShapeOK, Unclaimed, SidOf
  <2>5. CleanupOK("cleanup", s, marker, attempt)
    BY <2>1, <2>2 DEF CleanupOK, Stale, SidOf
  <2> QED  BY <1>0, <1>1, <1>2, <2>2, <2>3, <2>4, <2>5, Waits DEF Holds
<1>4. CASE ~ answered /\ terminal
  <2> DEFINE s == [sess[w] EXCEPT !.sid = SidOf(marker, m), !.seen = raw]
  <2>1. SidOf(marker, m) \in SnapIds /\ SidOf(marker, m) = SnapshotOf(m)
        /\ raw.state = "RECOVERED_AMBIGUOUS" /\ raw.att < sess[w].att
        /\ raw \in Markers
    BY <1>0, <1>1, <1>4, MarkerSnapshot, Typed DEF Terminal, Attempts
  <2>2. s \in Sessions /\ s.tok = None /\ s.m = m /\ s.sid = SidOf(marker, m)
        /\ s.seen = raw /\ s.att = sess[w].att
    BY <1>1, <2>1 DEF Sessions
  <2>3. sess' = [sess EXCEPT ![w] = s] /\ Goto(w, "takeTerminal")
    BY <1>4, <2>1, <1>0, Typed DEF ReadTerminal, TypeOK, Terminal
  <2> HIDE DEF s
  <2>4. ShapeOK("takeTerminal", s, attempt)
    <3>1. s.sid[1] = s.m[1] /\ s.sid[2] < s.att
      BY <2>1, <2>2 DEF SidOf
    <3> QED  BY <1>1, <2>1, <2>2, <3>1, NotNoSession DEF ShapeOK, Unclaimed
  <2>5. CleanupOK("takeTerminal", s, marker, attempt)
    BY DEF CleanupOK
  <2> QED  BY <1>0, <1>1, <1>2, <2>2, <2>3, <2>4, <2>5, Waits DEF Holds
<1>5. CASE ~ answered /\ ~ terminal
  <2>1. sess' = [sess EXCEPT ![w] = sess[w]] /\ Goto(w, "claim")
    BY <1>0, <1>5, Typed DEF ReadTerminal, Terminal
  <2>2. ShapeOK("claim", sess[w], attempt) /\ CleanupOK("claim", sess[w], marker, attempt)
    BY <1>1, NotNoSession DEF ShapeOK, CleanupOK
  <2> QED  BY <1>0, <1>1, <1>2, <2>1, <2>2, Waits DEF Holds
<1> QED  BY <1>3, <1>4, <1>5

LEMMA ClaimRetainedStep ==
  ASSUME IInv, NEW w \in Workers, ClaimRetained(w)
  PROVE  IInv'
<1> DEFINE m == sess[w].m
           raw == marker[m]
           step == IF raw.state \in {"SNAPSHOTTING", "RECOVERING"}
                   THEN "takeRecovering" ELSE "takeOwned"
           s == [sess[w] EXCEPT !.sid = SidOf(marker, m), !.seen = raw]
<1>0. /\ pc[w] = "claim" /\ UNCHANGED <<Database, fence, attempt, faults>>
      /\ raw.state \in Unresolved /\ Goto(w, step) /\ TypeOK
  BY DEF ClaimRetained, CanAdopt, Outside, IInv
<1>1. /\ sess[w] \in Sessions /\ sess[w].sid[1] = m[1] /\ m \in MarkerIds
      /\ sess[w].tok = None /\ sess[w].att = Number(m, attempt)
  BY <1>0, LiveSessionOK DEF SessionOK, ShapeOK, Unclaimed
<1>2. pc[w] # "idle" /\ pc[w] \notin InFence
      /\ step \in Steps /\ step \notin InFence
  BY <1>0 DEF Steps, InFence
<1>3. SidOf(marker, m) \in SnapIds /\ SidOf(marker, m) = SnapshotOf(m) /\ raw \in Markers
  BY <1>0, <1>1, MarkerSnapshot, Typed DEF Unresolved
<1>4. s \in Sessions /\ s.tok = None /\ s.m = m /\ s.sid = SidOf(marker, m)
      /\ s.seen = raw /\ s.att = sess[w].att
  BY <1>1, <1>3 DEF Sessions
<1>5. sess' = [sess EXCEPT ![w] = s]
  BY <1>0, <1>3, Typed DEF ClaimRetained
<1> HIDE DEF s
<1>6. step \in {"takeRecovering", "takeOwned"}
      /\ (step = "takeRecovering" => raw.state \in {"SNAPSHOTTING", "RECOVERING"})
      /\ (step = "takeOwned" => raw.state \in Effect)
  BY <1>0 DEF Unresolved, Effect
<1> HIDE DEF step
<1>7. ShapeOK(step, s, attempt) /\ CleanupOK(step, s, marker, attempt)
  BY <1>1, <1>4, <1>6, NotNoSession DEF ShapeOK, CleanupOK, SidOf
<1> QED  BY <1>0, <1>1, <1>2, <1>4, <1>5, <1>7, Waits DEF Holds

LEMMA ClaimRefusedStep ==
  ASSUME IInv, NEW w \in Workers, ClaimRefused(w)
  PROVE  IInv'
<1>1. End(w) /\ UNCHANGED <<Database, attempt>> /\ faults' \in 0 .. MaxFault
  BY Typed DEF ClaimRefused, Outside, IInv
<1> QED  BY <1>1, EndStep

LEMMA CrashStep ==
  ASSUME IInv, NEW w \in Workers, Crash(w)
  PROVE  IInv'
<1>1. End(w) /\ UNCHANGED <<Database, attempt>> /\ faults' \in 0 .. MaxFault
  BY Typed, GuardAssumption DEF Crash, IInv
<1> QED  BY <1>1, EndStep

LEMMA CleanupDoneStep ==
  ASSUME IInv, NEW w \in Workers, CleanupDone(w)
  PROVE  IInv'
<1>1. End(w) /\ UNCHANGED <<Database, attempt>> /\ faults' \in 0 .. MaxFault
  BY Typed DEF CleanupDone, Outside, IInv
<1> QED  BY <1>1, EndStep

\* A session without a claim begins work on marker m.
LEMMA Begins ==
  ASSUME IInv, NEW w \in Workers, pc[w] = "idle", NEW step \in Unclaimed, Goto(w, step),
         NEW s \in Sessions, sess' = [sess EXCEPT ![w] = s], s.tok = None,
         UNCHANGED <<Database, fence, attempt, faults>>,
         ShapeOK(step, s, attempt),
         ChainOK(marker, Occupied \cup {s.m}, attempt)
  PROVE  IInv'
<1>0. step \in Steps /\ step \notin InFence /\ step # "cleanup" /\ pc[w] \notin InFence
  BY DEF Unclaimed, Steps, InFence
<1>1. Moves(w) /\ pc'[w] = step /\ sess'[w] = s
  BY <1>0, SessMoves DEF IInv
<1>2. FenceMove(w) /\ fence' # w
  BY <1>0, OutsideFence
<1>3. Occupied' \subseteq Occupied \cup {s.m}
  BY <1>1 DEF Moves, Occupied
<1>4. ChainOK(marker, Occupied', attempt)
  BY <1>3, ChainShrinks
<1>5. SessionOK(step, s, marker, owner, graph, attempt)
  BY <1>0, Tokenless DEF CleanupOK, Holds
<1>6. faults' \in 0 .. MaxFault
  BY Typed DEF IInv
<1> QED  BY <1>1, <1>2, <1>4, <1>5, <1>6, QuietStep

LEMMA OwnedRecoveryStep ==
  ASSUME IInv, NEW w \in Workers, OwnedRecovery(w)
  PROVE  IInv'
<1>0. pc[w] = "idle" /\ UNCHANGED <<Database, fence, attempt, faults>> /\ Goto(w, "takeOwned")
      /\ "takeOwned" \in Unclaimed
  BY DEF OwnedRecovery, Outside, Unclaimed
<1>1. PICK m \in MarkerIds :
        /\ Recoverable(m)
        /\ sess' = [sess EXCEPT ![w] = [NoSession EXCEPT !.m = m, !.att = marker[m].att,
                                          !.sid = SnapshotOf(m), !.seen = marker[m]]]
  BY DEF OwnedRecovery
<1> DEFINE s == [NoSession EXCEPT !.m = m, !.att = marker[m].att,
                                  !.sid = SnapshotOf(m), !.seen = marker[m]]
<1>2. marker[m].state \in Effect
  BY <1>1 DEF Recoverable, Effect
<1>3. SnapshotOf(m) \in SnapIds /\ marker[m].att \in Attempts /\ m[2] <= attempt[m[1]]
      /\ marker[m] \in Markers
  BY <1>2, MarkerSnapshot, Typed DEF Effect, IInv
<1>4. s \in Sessions
  BY <1>3 DEF Sessions, NoSession
<1>5. s.m = m /\ s.sid = SnapshotOf(m) /\ s.tok = None /\ s.seen = marker[m]
  BY DEF NoSession
<1> HIDE DEF s
<1>6. ShapeOK("takeOwned", s, attempt)
  BY <1>2, <1>4, <1>5, NotNoSession DEF ShapeOK, SnapshotOf
<1>7. ChainOK(marker, Occupied \cup {m}, attempt)
  <2>1. \A x \in MarkerIds : Reached(x, marker, Occupied \cup {m}) => Reached(x, marker, Occupied)
    BY <1>2 DEF Reached, Effect
  <2>2. ~ Spent(marker[m])
    BY <1>2 DEF Spent, Effect
  <2> QED  BY <1>3, <2>1, <2>2 DEF IInv, ChainOK
<1>8. sess' = [sess EXCEPT ![w] = s]
  BY <1>1 DEF s
<1> QED  BY <1>0, <1>4, <1>5, <1>6, <1>7, <1>8, Begins

----------------------------------------------------------------------------
(* Choosing the guard *)

\* A set of numbers below a bound has a largest one.
LEMMA LargestBelow ==
  ASSUME NEW n \in Nat, NEW S, S \subseteq 0 .. n, S # {}
  PROVE  \E x \in S : \A y \in S : y <= x
<1> DEFINE T == {i \in Nat : n - i \in S}
<1>1. T \subseteq Nat /\ T # {}
  <2>1. PICK k \in S : TRUE
    OBVIOUS
  <2>2. k \in Nat /\ k <= n /\ n - k \in Nat /\ n - (n - k) = k
    BY <2>1
  <2> QED  BY <2>1, <2>2
<1>2. PICK x \in T : \A y \in T : ~(<<y, x>> \in OpToRel(<, Nat))
  BY <1>1, NatLessThanWellFounded, WFMin, Zenon
<1>3. n - x \in S /\ x \in Nat
  BY <1>2
<1>4. ASSUME NEW k \in S PROVE k <= n - x
  <2>1. k \in Nat /\ k <= n /\ n - k \in Nat /\ n - (n - k) = k
    OBVIOUS
  <2>2. n - k \in T
    BY <2>1
  <2>3. ~ (n - k < x)
    BY <1>2, <1>3, <2>1, <2>2 DEF OpToRel
  <2> QED  BY <1>3, <2>1, <2>3
<1> QED  BY <1>3, <1>4

\* PriorMarker is the newest marker of the episode before attempt n.
LEMMA PriorMarkerOK ==
  ASSUME NEW e \in Episodes, NEW n \in 2 .. MaxAttempt
  PROVE  LET p == PriorMarker(e, n) IN
         /\ p \in MarkerIds /\ p[1] = e /\ p[2] < n
         /\ p[2] # 0 => marker[p].state # "NONE"
         /\ \A u \in MarkerIds : u[1] = e /\ p[2] < u[2] /\ u[2] < n => marker[u].state = "NONE"
<1> DEFINE retries == {k \in 2 .. (n - 1) : marker[<<e, k>>].state # "NONE"}
<1>0. n \in Nat /\ 2 <= n /\ n <= MaxAttempt /\ MaxAttempt \in Nat
  BY GuardAssumption
<1>1. CASE retries = {}
  <2>1. PriorMarker(e, n) = <<e, 0>>
    BY <1>1 DEF PriorMarker
  <2>2. <<e, 0>> \in MarkerIds
    BY DEF MarkerIds
  <2>3. ASSUME NEW u \in MarkerIds, u[1] = e, 0 < u[2], u[2] < n
        PROVE  marker[u].state = "NONE"
    <3>1. u = <<e, u[2]>> /\ u[2] \in 2 .. MaxAttempt
      BY <2>3, Ids
    <3>2. u[2] \in 2 .. (n - 1)
      BY <1>0, <2>3, <3>1
    <3> QED  BY <1>1, <3>1, <3>2
  <2> QED  BY <1>0, <2>1, <2>2, <2>3
<1>2. CASE retries # {}
  <2>1. \E x \in retries : \A y \in retries : y <= x
    <3>1. retries \subseteq 0 .. n
      BY <1>0
    <3> QED  BY <1>0, <1>2, <3>1, LargestBelow
  <2> DEFINE c == CHOOSE k \in retries : \A j \in retries : j <= k
  <2>2. c \in retries /\ \A j \in retries : j <= c
    BY <2>1
  <2>3. PriorMarker(e, n) = <<e, c>>
    BY <1>2 DEF PriorMarker
  <2>4. c \in 2 .. (n - 1) /\ marker[<<e, c>>].state # "NONE"
    BY <2>2
  <2> HIDE DEF c
  <2>5. <<e, c>> \in MarkerIds /\ c < n
    BY <1>0, <2>4 DEF MarkerIds
  <2>6. ASSUME NEW u \in MarkerIds, u[1] = e, c < u[2], u[2] < n
        PROVE  marker[u].state = "NONE"
    <3>1. u = <<e, u[2]>> /\ u[2] \in Nat
      BY <2>6, Ids
    <3>2. u[2] \in 2 .. (n - 1) /\ ~ (u[2] <= c)
      BY <1>0, <2>4, <2>6, <3>1
    <3> QED  BY <2>2, <3>1, <3>2
  <2> QED  BY <2>3, <2>4, <2>5, <2>6
<1> QED  BY <1>1, <1>2

\* Every guard `_add_episode' may construct continues the chain, provided the
\* sessions of the episode are all on its marker.
LEMMA GuardsChain ==
  ASSUME IInv, NEW e \in Episodes, NEW g \in GuardsFor(e, attempt[e]),
         \A u \in Occupied : u[1] = e => u = g.m
  PROVE  /\ g.m \in MarkerIds /\ g.m[1] = e /\ g.att \in Attempts
         /\ g.att = Number(g.m, attempt)
         /\ ChainOK(marker, Occupied \cup {g.m}, attempt)
<1> DEFINE n == attempt[e]
           p == PriorMarker(e, n)
           Settled(m) == \A u \in MarkerIds : u[1] = e /\ u[2] < m[2] =>
                            Spent(marker[u]) /\ marker[u].att < m[2]
           Newest(m) == \A x \in MarkerIds : x[1] = e /\ m[2] < x[2] => marker[x].state = "NONE"
<1>0. n \in Attempts /\ n \in Nat /\ n >= 1 /\ MaxAttempt \in Nat /\ n <= MaxAttempt
  BY Typed, GuardAssumption DEF IInv, Attempts
<1>1. ASSUME NEW x \in MarkerIds, x[1] = e, marker[x].state # "NONE"
      PROVE  x[2] <= n /\ Settled(x)
  BY <1>1, MarkerSnapshot DEF IInv, ChainOK, Reached
<1>2. \A x \in MarkerIds : x[1] = e /\ n < x[2] => marker[x].state = "NONE"
  <2> SUFFICES ASSUME NEW x \in MarkerIds, x[1] = e, n < x[2], marker[x].state # "NONE"
               PROVE  FALSE
    OBVIOUS
  <2> QED  BY <1>0, <1>1, Ids
<1>3. /\ g.m \in MarkerIds /\ g.m[1] = e /\ g.m[2] <= n
      /\ g.att = Number(g.m, attempt) /\ g.att \in Attempts
      /\ Settled(g.m) /\ Newest(g.m)
  <2>1. CASE n = 1
    <3>1. g = [m |-> <<e, 0>>, att |-> 1]
      BY <2>1 DEF GuardsFor
    <3>2. g.m = <<e, 0>> /\ g.att = 1 /\ g.m \in MarkerIds
      BY <3>1 DEF MarkerIds
    <3>3. Settled(g.m)
      BY <3>2, Ids
    <3>4. Newest(g.m)
      <4> SUFFICES ASSUME NEW x \in MarkerIds, x[1] = e, 0 < x[2]
                   PROVE  n < x[2]
        BY <1>2, <3>2
      <4> QED  BY <2>1, Ids, GuardAssumption
    <3> QED  BY <1>0, <2>1, <3>2, <3>3, <3>4 DEF Number
  <2>2. CASE n # 1 /\ marker[<<e, n>>].state # "NONE"
    <3>1. g = [m |-> <<e, n>>, att |-> n]
      BY <2>2 DEF GuardsFor
    <3>2. g.m = <<e, n>> /\ g.att = n /\ g.m \in MarkerIds
      BY <1>0, <2>2, <3>1 DEF MarkerIds
    <3> QED  BY <1>0, <1>1, <1>2, <2>2, <3>2 DEF Number
  <2>3. CASE n # 1 /\ marker[<<e, n>>].state = "NONE"
    <3>0. n \in 2 .. MaxAttempt
      BY <1>0, <2>3
    <3>1. /\ p \in MarkerIds /\ p[1] = e /\ p[2] < n /\ p[2] \in Nat
          /\ p[2] # 0 => marker[p].state # "NONE"
          /\ \A u \in MarkerIds : u[1] = e /\ p[2] < u[2] /\ u[2] < n => marker[u].state = "NONE"
      BY <3>0, PriorMarkerOK, Ids
    <3>2. Settled(p) /\ Newest(p)
      <4>1. Settled(p)
        BY <1>1, <3>1, Ids
      <4>2. ASSUME NEW x \in MarkerIds, x[1] = e, p[2] < x[2]
            PROVE  marker[x].state = "NONE"
        <5>1. CASE x[2] < n
          BY <3>1, <4>2, <5>1
        <5>2. CASE x[2] = n
          <6>1. x = <<e, n>>
            BY <4>2, <5>2, Ids
          <6> QED  BY <2>3, <6>1
        <5>3. CASE n < x[2]
          BY <1>2, <4>2, <5>3
        <5> QED  BY <1>0, <5>1, <5>2, <5>3, Ids
      <4> QED  BY <4>1, <4>2
    <3>3. CASE g = [m |-> p, att |-> IF p[2] = 0 THEN n ELSE p[2]]
      <4>1. g.m = p /\ g.att = IF p[2] = 0 THEN n ELSE p[2]
        BY <3>3
      <4>2. g.att = Number(g.m, attempt) /\ g.att \in Attempts
        BY <1>0, <3>1, <4>1, Ids DEF Number, Attempts
      <4> QED  BY <1>0, <3>1, <3>2, <4>1, <4>2
    <3>4. CASE g = [m |-> <<e, n>>, att |-> n] /\ MayRetryFresh(e, n)
      <4>1. g.m = <<e, n>> /\ g.att = n /\ g.m \in MarkerIds
        BY <3>0, <3>4 DEF MarkerIds
      <4>2. marker[p].att < n /\ Spent(marker[p])
        BY <3>4 DEF MayRetryFresh, Spent
      <4>3. ASSUME NEW u \in MarkerIds, u[1] = e, u[2] < n
            PROVE  Spent(marker[u]) /\ marker[u].att < n
        <5>1. CASE u[2] < p[2]
          <6>1. Spent(marker[u]) /\ marker[u].att < p[2] /\ marker[u].att \in Nat
            BY <3>1, <3>2, <4>3, <5>1, Typed, GuardAssumption DEF IInv, Markers
          <6> QED  BY <1>0, <3>1, <6>1
        <5>2. CASE u[2] = p[2]
          <6>1. u = p
            BY <3>1, <4>3, <5>2, Ids
          <6> QED  BY <4>2, <6>1
        <5>3. CASE p[2] < u[2]
          <6>1. marker[u].state = "NONE"
            BY <3>1, <4>3, <5>3
          <6>2. marker[u] = NoMarker
            BY <6>1 DEF IInv, ChainOK, RowOK
          <6> QED  BY <1>0, <6>1, <6>2 DEF Spent, NoMarker
        <5> QED  BY <3>1, <5>1, <5>2, <5>3, Ids
      <4>4. Settled(g.m)
        BY <4>1, <4>3
      <4> QED  BY <1>0, <1>2, <4>1, <4>4 DEF Number
    <3> QED  BY <2>3, <3>3, <3>4 DEF GuardsFor
  <2> QED  BY <2>1, <2>2, <2>3
<1>4. ASSUME NEW x \in MarkerIds
      PROVE  /\ RowOK(marker[x], x, attempt)
             /\ x \in Occupied \cup {g.m} => x[2] <= attempt[x[1]]
             /\ Reached(x, marker, Occupied \cup {g.m}) =>
                  \A u \in MarkerIds : u[1] = x[1] /\ u[2] < x[2] =>
                     Spent(marker[u]) /\ u \notin Occupied \cup {g.m} /\ marker[u].att < x[2]
  <2>1. RowOK(marker[x], x, attempt) /\ (x \in Occupied => x[2] <= attempt[x[1]])
    BY DEF IInv, ChainOK
  <2>2. ASSUME Reached(x, marker, Occupied \cup {g.m}),
               NEW u \in MarkerIds, u[1] = x[1], u[2] < x[2]
        PROVE  Spent(marker[u]) /\ u \notin Occupied \cup {g.m} /\ marker[u].att < x[2]
    <3>0. u[2] \in Nat /\ x[2] \in Nat /\ u # x
      BY <2>2, Ids
    <3>1. CASE x = g.m
      <4>1. u \notin Occupied /\ u # g.m
        BY <1>3, <2>2, <3>0, <3>1
      <4> QED  BY <1>3, <2>2, <3>1, <4>1
    <3>2. CASE x # g.m
      <4>1. Reached(x, marker, Occupied)
        BY <2>2, <3>2 DEF Reached
      <4>2. Spent(marker[u]) /\ u \notin Occupied /\ marker[u].att < x[2]
        BY <2>2, <4>1 DEF IInv, ChainOK
      <4>3. u # g.m
        <5> SUFFICES ASSUME u = g.m
                     PROVE  FALSE
          OBVIOUS
        <5>1. marker[x].state = "NONE"
          BY <1>3, <2>2
        <5>2. x \in Occupied
          BY <4>1, <5>1 DEF Reached
        <5> QED  BY <1>3, <2>2, <3>2, <5>2
      <4> QED  BY <4>2, <4>3
    <3> QED  BY <3>1, <3>2
  <2> QED  BY <1>3, <2>1, <2>2
<1>5. ChainOK(marker, Occupied \cup {g.m}, attempt)
  BY <1>4 DEF ChainOK
<1> QED  BY <1>3, <1>5

LEMMA StartStep ==
  ASSUME IInv, NEW w \in Workers, NEW e \in Episodes, Start(w, e)
  PROVE  IInv'
<1>0. /\ pc[w] = "idle" /\ UNCHANGED <<Database, fence, attempt, faults>> /\ Goto(w, "begin")
      /\ "begin" \in Unclaimed
  BY DEF Start, Outside, Unclaimed
<1>1. PICK g \in GuardsFor(e, attempt[e]) :
        /\ \A v \in Workers : pc[v] # "idle" /\ sess[v].m[1] = e => sess[v].m = g.m
        /\ sess' = [sess EXCEPT ![w] = [NoSession EXCEPT !.m = g.m, !.att = g.att,
                                                         !.sid = <<e, g.att>>]]
  BY DEF Start
<1>2. /\ g.m \in MarkerIds /\ g.m[1] = e /\ g.att \in Attempts
      /\ g.att = Number(g.m, attempt)
      /\ ChainOK(marker, Occupied \cup {g.m}, attempt)
  <2>1. \A u \in Occupied : u[1] = e => u = g.m
    BY <1>1 DEF Occupied
  <2> QED  BY <2>1, GuardsChain
<1> DEFINE s == [NoSession EXCEPT !.m = g.m, !.att = g.att, !.sid = <<e, g.att>>]
<1>3. NoMarker \in Markers
  BY GuardAssumption DEF NoMarker, Markers, States
<1>4. s \in Sessions
  BY <1>2, <1>3 DEF Sessions, NoSession, SnapIds
<1>5. s.m = g.m /\ s.att = g.att /\ s.sid = <<e, g.att>> /\ s.tok = None
  BY DEF NoSession
<1>6. sess' = [sess EXCEPT ![w] = s]
  BY <1>1
<1> HIDE DEF s
<1>7. ShapeOK("begin", s, attempt)
  BY <1>2, <1>4, <1>5, NotNoSession DEF ShapeOK, Unclaimed
<1> QED  BY <1>0, <1>2, <1>4, <1>5, <1>6, <1>7, Begins

----------------------------------------------------------------------------
(* Fences and the steps between them *)

\* The steps that lead behind a fence, one by one.
LEMMA FenceTable ==
  /\ DOMAIN Fenced = {"discard", "snapshot", "open", "prepared", "rolling"}
  /\ Fenced["discard"] = "discarding" /\ FenceStates["discard"] = {"RECOVERING"}
  /\ Fenced["snapshot"] = "snapshotting" /\ FenceStates["snapshot"] = {"SNAPSHOTTING"}
  /\ Fenced["open"] = "preparing" /\ FenceStates["open"] = Effect
  /\ Fenced["prepared"] = "mutating" /\ FenceStates["prepared"] = Effect
  /\ Fenced["rolling"] = "deleting" /\ FenceStates["rolling"] = Effect
BY DEF Fenced, FenceStates, Effect

LEMMA EnterFenceStep ==
  ASSUME IInv, NEW w \in Workers, EnterFence(w)
  PROVE  IInv'
<1> DEFINE step == Fenced[pc[w]]
<1>0. /\ pc[w] \in {"discard", "snapshot", "open", "prepared", "rolling"}
      /\ UNCHANGED <<Database, attempt, faults>> /\ sess' = sess
      /\ Goto(w, step) /\ fence = None /\ fence' = w /\ Owned(w, FenceStates[pc[w]])
  BY FenceTable DEF EnterFence, LockFree, Outside
<1>1. pc[w] # "idle"
  BY <1>0
<1>2. sess[w] \in Sessions /\ SessionOK(pc[w], sess[w], marker, owner, graph, attempt)
  BY <1>1, LiveSessionOK
<1>3. step \in InFence /\ step \in Steps
  BY <1>0, FenceTable DEF InFence, Steps
<1>4. owner = [m |-> sess[w].m, tok |-> sess[w].tok]
  BY <1>0, <1>1, OwnedHolds
<1>5. FenceMove(w)
  BY <1>0, <1>3, Typed, GuardAssumption DEF FenceMove, Goto, IInv
<1>6. SessionOK(step, sess[w], marker, owner, graph, attempt)
  <2>1. ShapeOK(step, sess[w], attempt) /\ CleanupOK(step, sess[w], marker, attempt)
    BY <1>0, <1>2, FenceTable, NotNoSession DEF SessionOK, ShapeOK, CleanupOK, Unclaimed
  <2>2. HolderOK(step, sess[w], marker, owner)
    BY <1>0, <1>2, FenceTable DEF SessionOK, HolderOK, Owning
  <2>3. PhaseOK(step, sess[w], owner, graph, Base(marker))
    BY <1>0, <1>2, FenceTable DEF SessionOK, PhaseOK
  <2> QED  BY <2>1, <2>2, <2>3 DEF SessionOK
<1>7. sess' = [sess EXCEPT ![w] = sess[w]]
  BY <1>0, Typed DEF IInv
<1> HIDE DEF step
<1> QED  BY <1>0, <1>1, <1>2, <1>3, <1>4, <1>5, <1>6, <1>7, GoesOn

\* A session of the pipeline turns to the rollback, from wherever it stands.
LEMMA TurnsBack ==
  ASSUME IInv, NEW w \in Workers,
         pc[w] \in {"open", "preparing", "prepared", "mutating", "repairing", "written"},
         Goto(w, "rollback"), sess' = sess, fence' = (IF fence = w THEN None ELSE fence),
         UNCHANGED <<Database, attempt, faults>>
  PROVE  IInv'
<1>1. pc[w] # "idle" /\ "rollback" \in Steps
  BY DEF Steps
<1>2. sess[w] \in Sessions /\ SessionOK(pc[w], sess[w], marker, owner, graph, attempt)
  BY <1>1, LiveSessionOK
<1>3. FenceMove(w) /\ fence' # w
  BY Typed, GuardAssumption DEF FenceMove, Goto, IInv, InFence
<1>4. SessionOK("rollback", sess[w], marker, owner, graph, attempt)
  <2>1. ShapeOK("rollback", sess[w], attempt) /\ CleanupOK("rollback", sess[w], marker, attempt)
    BY <1>2, NotNoSession DEF SessionOK, ShapeOK, CleanupOK, Unclaimed
  <2>2. HolderOK("rollback", sess[w], marker, owner)
    BY <1>2 DEF SessionOK, HolderOK, Owning
  <2>3. PhaseOK("rollback", sess[w], owner, graph, Base(marker))
    BY DEF PhaseOK
  <2> QED  BY <2>1, <2>2, <2>3 DEF SessionOK
<1>5. sess' = [sess EXCEPT ![w] = sess[w]]
  BY Typed DEF IInv
<1> QED  BY <1>1, <1>2, <1>3, <1>4, <1>5, GoesOn

LEMMA FailStep ==
  ASSUME IInv, NEW w \in Workers, Fail(w)
  PROVE  IInv'
BY TurnsBack DEF Fail, Outside

LEMMA FenceRefusedStep ==
  ASSUME IInv, NEW w \in Workers, FenceRefused(w)
  PROVE  IInv'
<1>0. UNCHANGED <<Database, attempt, faults>> /\ faults' \in 0 .. MaxFault /\ fence = None
  BY Typed DEF FenceRefused, Outside, LockFree, IInv
<1>1. CASE pc[w] \in {"open", "prepared"}
  <2>1. Goto(w, "rollback") /\ sess' = sess /\ fence' = fence /\ fence # w
    BY <1>0, <1>1, GuardAssumption DEF FenceRefused
  <2> QED  BY <1>0, <1>1, <2>1, TurnsBack
<1>2. CASE pc[w] \notin {"open", "prepared"}
  BY <1>0, <1>2, EndStep DEF FenceRefused
<1> QED  BY <1>1, <1>2

\* What the owner of an attempt that can be rolled back may rely on.
LEMMA HolderReverts ==
  ASSUME IInv, NEW w \in Workers, pc[w] # "idle", Holds(sess[w], owner),
         pc[w] \in Owning
  PROVE  /\ Reverts(sess[w].m, marker, graph, snap)
         /\ snap[sess[w].sid] = BaseSnap(marker)
         /\ marker[sess[w].m].state \in Effect /\ owner.m = sess[w].m
         /\ SidOf(marker, sess[w].m) = sess[w].sid
<1>1. sess[w].m \in MarkerIds /\ HolderOK(pc[w], sess[w], marker, owner)
  BY LiveSessionOK DEF SessionOK
<1>2. /\ owner.m = sess[w].m /\ marker[sess[w].m].state \in Effect
      /\ SidOf(marker, sess[w].m) = sess[w].sid
  BY <1>1 DEF HolderOK, Owning
<1>3. Reverts(sess[w].m, marker, graph, snap)
  BY <1>1, <1>2 DEF IInv, GraphOK
<1> QED  BY <1>2, <1>3 DEF Reverts

\* When every snapshotted object is as it was, the graph differs from the
\* promised generation by the episode's own object at most.
LEMMA UnchangedIsBase ==
  ASSUME IInv, NEW w \in Workers, pc[w] # "idle", Holds(sess[w], owner),
         pc[w] \in Owning, PreexistingUnchanged(w)
  PROVE  \A o \in Objects \ {sess[w].m[1]} : graph[o] = Base(marker)[o]
<1>1. Reverts(sess[w].m, marker, graph, snap) /\ snap[sess[w].sid] = BaseSnap(marker)
  BY HolderReverts
<1> SUFFICES ASSUME NEW o \in Objects \ {sess[w].m[1]}
             PROVE  graph[o] = Base(marker)[o]
  OBVIOUS
<1>2. CASE o \in Kept(marker)
  <2>1. <<o, "clean">> \in snap[sess[w].sid]
    BY <1>1, <1>2 DEF BaseSnap
  <2>2. graph[o] = "clean"
    BY <2>1 DEF PreexistingUnchanged
  <2> QED  BY <1>2, <2>2 DEF Base
<1>3. CASE o \notin Kept(marker)
  BY <1>1, <1>3 DEF Reverts, Base
<1> QED  BY <1>2, <1>3

LEMMA PersistDoneStep ==
  ASSUME IInv, NEW w \in Workers, PersistDone(w)
  PROVE  IInv'
<1>0. /\ pc[w] = "repairing" /\ pc[w] # "idle" /\ pc[w] \in InFence /\ pc[w] \in Owning
      /\ UNCHANGED <<Database, attempt, faults>> /\ sess' = sess
      /\ Goto(w, "written") /\ fence' = None /\ PreexistingUnchanged(w)
      /\ "written" \in Steps /\ "written" \notin InFence
  BY DEF PersistDone, Outside, InFence, Owning, Steps
<1>1. sess[w] \in Sessions /\ SessionOK(pc[w], sess[w], marker, owner, graph, attempt)
  BY <1>0, LiveSessionOK
<1>2. Holds(sess[w], owner) /\ fence = w
  BY <1>0, FencedHolds
<1>3. FenceMove(w) /\ fence' # w
  BY <1>0, <1>2, Typed, GuardAssumption DEF FenceMove, Goto, IInv
<1>4. SessionOK("written", sess[w], marker, owner, graph, attempt)
  <2>1. ShapeOK("written", sess[w], attempt) /\ CleanupOK("written", sess[w], marker, attempt)
    BY <1>1, NotNoSession, <1>0 DEF SessionOK, ShapeOK, CleanupOK, Unclaimed
  <2>2. HolderOK("written", sess[w], marker, owner)
    BY <1>0, <1>1 DEF SessionOK, HolderOK, Owning
  <2>3. \A o \in Objects : graph[o] = IF o = sess[w].m[1] THEN "clean" ELSE Base(marker)[o]
    <3>1. graph[sess[w].m[1]] = "clean"
      BY <1>0, <1>1, <1>2 DEF SessionOK, PhaseOK
    <3> QED  BY <1>0, <1>2, <3>1, UnchangedIsBase
  <2>4. PhaseOK("written", sess[w], owner, graph, Base(marker))
    BY <2>3 DEF PhaseOK
  <2> QED  BY <2>1, <2>2, <2>4 DEF SessionOK
<1>5. sess' = [sess EXCEPT ![w] = sess[w]]
  BY <1>0, Typed DEF IInv
<1> QED  BY <1>0, <1>1, <1>3, <1>4, <1>5, GoesOn

LEMMA RollbackReadStep ==
  ASSUME IInv, NEW w \in Workers, RollbackRead(w)
  PROVE  IInv'
<1> DEFINE m == sess[w].m
           raw == marker[m]
<1>0. /\ pc[w] = "rollbackRead" /\ UNCHANGED <<Database, attempt, faults>> /\ TypeOK
      /\ faults' \in 0 .. MaxFault
      /\ pc[w] # "idle" /\ pc[w] \notin InFence
  BY Typed DEF RollbackRead, Outside, InFence, IInv
<1>1. /\ sess[w] \in Sessions /\ sess[w].sid[1] = m[1] /\ m \in MarkerIds
      /\ SessionOK(pc[w], sess[w], marker, owner, graph, attempt)
  BY <1>0, LiveSessionOK
<1>2. CASE raw.state = "COMPLETE" /\ sess' = [sess EXCEPT ![w].sid = SnapshotOf(m)]
           /\ Goto(w, "cleanup") /\ UNCHANGED fence
  <2> DEFINE s == [sess[w] EXCEPT !.sid = SidOf(marker, m)]
  <2>1. SidOf(marker, m) \in SnapIds /\ SidOf(marker, m) = SnapshotOf(m)
        /\ raw.state \in Terminal
    BY <1>1, <1>2, MarkerSnapshot DEF Terminal
  <2>2. s \in Sessions /\ s.tok = sess[w].tok /\ s.m = m /\ s.sid = SidOf(marker, m)
    BY <1>1, <2>1 DEF Sessions
  <2>3. sess' = [sess EXCEPT ![w] = s]
    BY <1>0, <1>2, <2>1, Typed
  <2> HIDE DEF s
  <2>4. ShapeOK("cleanup", s, attempt)
    BY <2>2, NotNoSession DEF ShapeOK, Unclaimed, SidOf
  <2>5. CleanupOK("cleanup", s, marker, attempt)
    BY <2>1, <2>2 DEF CleanupOK, Stale, SidOf
  <2>6. ~ Holds(s, owner)
    BY <1>0, <1>1, <1>2, <2>2 DEF Holds, SessionOK, HolderOK, Effect
  <2>7. "cleanup" \in Steps /\ "cleanup" \notin InFence
    BY DEF Steps, InFence
  <2> QED  BY <1>0, <1>2, <2>2, <2>3, <2>4, <2>5, <2>6, <2>7, Waits
<1>3. CASE raw.state = "ROLLING_BACK" /\ Goto(w, "rolling") /\ UNCHANGED <<sess, fence>>
  <2>1. sess' = [sess EXCEPT ![w] = sess[w]]
    BY <1>0, <1>3, Typed
  <2>2. "rolling" \in Steps /\ "rolling" \notin InFence
    BY DEF Steps, InFence
  <2>3. SessionOK("rolling", sess[w], marker, owner, graph, attempt)
    <3>1. ShapeOK("rolling", sess[w], attempt) /\ CleanupOK("rolling", sess[w], marker, attempt)
      BY <1>0, <1>1, NotNoSession DEF SessionOK, ShapeOK, CleanupOK, Unclaimed
    <3>2. HolderOK("rolling", sess[w], marker, owner)
      BY <1>0, <1>1 DEF SessionOK, HolderOK, Owning
    <3>3. PhaseOK("rolling", sess[w], owner, graph, Base(marker))
      BY DEF PhaseOK
    <3> QED  BY <3>1, <3>2, <3>3 DEF SessionOK
  <2> QED  BY <1>0, <1>1, <1>3, <2>1, <2>2, <2>3, OutsideFence, GoesOn
<1>4. CASE End(w)
  BY <1>0, <1>4, EndStep
<1> QED  BY <1>2, <1>3, <1>4 DEF RollbackRead

----------------------------------------------------------------------------
(* Pages of snapshots and of the graph *)

\* A session commits one page and stays where it is.
LEMMA PageStep ==
  ASSUME IInv, NEW w \in Workers, pc[w] # "idle",
         UNCHANGED <<marker, owner, fence, pc, sess, attempt, faults>>,
         graph' \in [Objects -> Props],
         snap' \in [SnapIds -> SUBSET (Objects \X {"clean", "drift"})],
         graph' = graph \/ Holds(sess[w], owner),
         PhaseOK(pc[w], sess[w], owner, graph', Base(marker)),
         SnapOwned(marker, snap'),
         GraphOK(marker, owner, graph', snap')
  PROVE  IInv'
<1>1. sess[w] \in Sessions /\ SessionOK(pc[w], sess[w], marker, owner, graph, attempt)
  BY LiveSessionOK
<1>2. Moves(w) /\ SameMarker(w)
  BY <1>1, Typed DEF Moves, SameMarker, IInv
<1>3. FenceMove(w)
  BY Typed DEF FenceMove, IInv, FenceOK
<1>4. fence' = w => owner = [m |-> sess'[w].m, tok |-> sess'[w].tok]
  BY FencedHolds DEF IInv, FenceOK
<1>5. ChainOK(marker, Occupied', attempt)
  BY <1>2, SameMarkerChain
<1>6. SessionOK(pc'[w], sess'[w], marker, owner, graph', attempt)
  BY <1>1 DEF SessionOK
<1>7. faults' \in 0 .. MaxFault
  BY Typed DEF IInv
<1> QED  BY <1>2, <1>3, <1>4, <1>5, <1>6, <1>7, SessionStep

\* Deleting pages of a snapshot.
LEMMA SnapDelete ==
  ASSUME IInv, NEW sid \in SnapIds, NEW x, snap' = [snap EXCEPT ![sid] = @ \ {x}]
  PROVE  /\ snap' \in [SnapIds -> SUBSET (Objects \X {"clean", "drift"})]
         /\ SnapOwned(marker, snap')
         /\ \A s \in SnapIds : snap'[s] \subseteq snap[s] /\ (s # sid => snap'[s] = snap[s])
<1>0. snap \in [SnapIds -> SUBSET (Objects \X {"clean", "drift"})]
  BY Typed DEF IInv
<1>1. snap'[sid] = snap[sid] \ {x} /\ \A s \in SnapIds : s # sid => snap'[s] = snap[s]
  BY <1>0
<1>2. \A s \in SnapIds : snap'[s] \subseteq snap[s]
  BY <1>1
<1>3. snap' \in [SnapIds -> SUBSET (Objects \X {"clean", "drift"})]
  BY <1>0
<1>4. SnapOwned(marker, snap')
  <2>1. \A s \in SnapIds : snap'[s] # {} => snap[s] # {}
    BY <1>2
  <2> QED  BY <2>1 DEF IInv, SnapOwned
<1> QED  BY <1>1, <1>2, <1>3, <1>4

LEMMA DiscardPageStep ==
  ASSUME IInv, NEW w \in Workers, DiscardPage(w)
  PROVE  IInv'
<1>0. /\ pc[w] = "discarding" /\ pc[w] # "idle" /\ pc[w] \in InFence
      /\ UNCHANGED <<marker, owner, graph, fence, pc, sess, attempt, faults>>
  BY DEF DiscardPage, Outside, InFence
<1>1. sess[w].sid \in SnapIds /\ SessionOK(pc[w], sess[w], marker, owner, graph, attempt)
  BY <1>0, LiveSessionOK
<1>2. Holds(sess[w], owner) /\ owner.m = sess[w].m /\ owner # NoOwner
  BY <1>0, FencedHolds
<1>3. PICK x : snap' = [snap EXCEPT ![sess[w].sid] = @ \ {x}]
  BY DEF DiscardPage
<1>4. /\ snap' \in [SnapIds -> SUBSET (Objects \X {"clean", "drift"})]
      /\ SnapOwned(marker, snap')
  BY <1>1, <1>3, SnapDelete
<1>5. marker[sess[w].m].state = "RECOVERING"
  BY <1>0, <1>1, <1>2 DEF SessionOK, HolderOK, Owning
<1>6. GraphOK(marker, owner, graph, snap')
  BY <1>2, <1>5 DEF IInv, GraphOK, Effect
<1>7. PhaseOK(pc[w], sess[w], owner, graph, Base(marker)) /\ graph \in [Objects -> Props]
  BY <1>1, Typed DEF SessionOK, IInv
<1> QED  BY <1>0, <1>4, <1>6, <1>7, PageStep

LEMMA CleanupPageStep ==
  ASSUME IInv, NEW w \in Workers, CleanupPage(w)
  PROVE  IInv'
<1> DEFINE m == sess[w].m
           sid == sess[w].sid
<1>0. /\ pc[w] = "cleanup" /\ pc[w] # "idle"
      /\ UNCHANGED <<marker, owner, graph, fence, pc, sess, attempt, faults>>
  BY DEF CleanupPage, Outside
<1>1. /\ sid \in SnapIds /\ m \in MarkerIds /\ m \in Occupied /\ sid[1] = m[1]
      /\ SessionOK(pc[w], sess[w], marker, owner, graph, attempt)
  BY <1>0, LiveSessionOK
<1>2. PICK x : snap' = [snap EXCEPT ![sid] = @ \ {x}]
  BY DEF CleanupPage
<1>3. /\ snap' \in [SnapIds -> SUBSET (Objects \X {"clean", "drift"})]
      /\ SnapOwned(marker, snap')
      /\ \A s \in SnapIds : snap'[s] \subseteq snap[s] /\ (s # sid => snap'[s] = snap[s])
  BY <1>1, <1>2, SnapDelete
<1>4. ASSUME NEW u \in MarkerIds, marker[u].state \in Effect, SidOf(marker, u) = sid
      PROVE  FALSE
  <2>1. Stale(marker[m], m, sid[2], attempt)
    BY <1>0, <1>1 DEF SessionOK, CleanupOK
  <2>2. u[1] = m[1] /\ marker[u].att = sid[2]
    BY <1>1, <1>4 DEF SidOf
  <2>3. CASE u = m
    BY <1>4, <2>1, <2>2, <2>3 DEF Stale, Terminal, Effect
  <2>4. CASE u[2] < m[2]
    <3>1. Spent(marker[u])
      BY <1>1, <2>2, <2>4 DEF IInv, ChainOK, Reached
    <3> QED  BY <1>4, <3>1 DEF Spent, Effect
  <2>5. CASE m[2] < u[2]
    <3>1. m \notin Occupied
      BY <1>1, <1>4, <2>2, <2>5 DEF IInv, ChainOK, Reached, Effect
    <3> QED  BY <1>1, <3>1
  <2> QED  BY <1>1, <2>2, <2>3, <2>4, <2>5, Ids
<1>5. GraphOK(marker, owner, graph, snap')
  <2>1. ASSUME NEW u \in MarkerIds, owner.m = u
        PROVE  /\ marker[u].state \notin Effect => graph = Base(marker)
               /\ marker[u].state = "SNAPSHOTTING" => snap'[SidOf(marker, u)] \subseteq BaseSnap(marker)
               /\ marker[u].state \in Effect => Reverts(u, marker, graph, snap')
    <3>1. /\ marker[u].state \notin Effect => graph = Base(marker)
          /\ marker[u].state = "SNAPSHOTTING" => snap[SidOf(marker, u)] \subseteq BaseSnap(marker)
          /\ marker[u].state \in Effect => Reverts(u, marker, graph, snap)
      BY <2>1 DEF IInv, GraphOK
    <3>2. marker[u].state # "NONE" => SidOf(marker, u) \in SnapIds
      BY MarkerSnapshot
    <3>3. marker[u].state \in Effect => snap'[SidOf(marker, u)] = snap[SidOf(marker, u)]
      BY <1>3, <1>4, <3>2 DEF Effect
    <3>4. marker[u].state = "SNAPSHOTTING" => snap'[SidOf(marker, u)] \subseteq snap[SidOf(marker, u)]
      BY <1>3, <3>2
    <3> QED  BY <3>1, <3>3, <3>4 DEF Reverts
  <2> QED  BY <2>1 DEF IInv, GraphOK
<1>6. PhaseOK(pc[w], sess[w], owner, graph, Base(marker)) /\ graph \in [Objects -> Props]
  BY <1>1, Typed DEF SessionOK, IInv
<1> QED  BY <1>0, <1>3, <1>5, <1>6, PageStep

LEMMA SnapshotPageStep ==
  ASSUME IInv, NEW w \in Workers, SnapshotPage(w)
  PROVE  IInv'
<1> DEFINE m == sess[w].m
           sid == sess[w].sid
<1>0. /\ pc[w] = "snapshotting" /\ pc[w] # "idle" /\ pc[w] \in InFence
      /\ UNCHANGED <<marker, owner, graph, fence, pc, sess, attempt, faults>>
  BY DEF SnapshotPage, Outside, InFence
<1>1. sid \in SnapIds /\ m \in MarkerIds /\ SessionOK(pc[w], sess[w], marker, owner, graph, attempt)
  BY <1>0, LiveSessionOK
<1>2. /\ Holds(sess[w], owner) /\ owner.m = m /\ owner # NoOwner
      /\ SidOf(marker, m) = sid
  BY <1>0, FencedHolds
<1>3. marker[m].state = "SNAPSHOTTING"
  BY <1>0, <1>1, <1>2 DEF SessionOK, HolderOK, Owning
<1>4. graph = Base(marker) /\ snap[sid] \subseteq BaseSnap(marker)
  BY <1>1, <1>2, <1>3 DEF IInv, GraphOK, Effect
<1>5. PICK o \in Present : snap' = [snap EXCEPT ![sid] = @ \cup {<<o, graph[o]>>}]
  BY DEF SnapshotPage
<1>6. o \in Kept(marker) /\ graph[o] = "clean" /\ o \in Objects
  BY <1>4, <1>5 DEF Present, Base
<1>7. snap \in [SnapIds -> SUBSET (Objects \X {"clean", "drift"})] /\ graph \in [Objects -> Props]
  BY Typed DEF IInv
<1>8. snap' \in [SnapIds -> SUBSET (Objects \X {"clean", "drift"})]
  BY <1>1, <1>5, <1>6, <1>7
<1>9. /\ snap'[sid] = snap[sid] \cup {<<o, "clean">>}
      /\ \A s \in SnapIds : s # sid => snap'[s] = snap[s]
  BY <1>1, <1>5, <1>6, <1>7
<1>10. SnapOwned(marker, snap')
  <2> SUFFICES ASSUME NEW s \in SnapIds, snap'[s] # {}
               PROVE  \E u \in MarkerIds : u[1] = s[1] /\ marker[u].state # "NONE" /\ marker[u].att = s[2]
    BY DEF SnapOwned
  <2>1. CASE s = sid
    BY <1>1, <1>2, <1>3, <2>1 DEF SidOf
  <2>2. CASE s # sid
    BY <1>9, <2>2 DEF IInv, SnapOwned
  <2> QED  BY <2>1, <2>2
<1>11. snap'[sid] \subseteq BaseSnap(marker)
  BY <1>4, <1>6, <1>9 DEF BaseSnap
<1>12. GraphOK(marker, owner, graph, snap')
  BY <1>1, <1>2, <1>3, <1>4, <1>11 DEF GraphOK, Effect
<1>13. PhaseOK(pc[w], sess[w], owner, graph, Base(marker))
  BY <1>1 DEF SessionOK
<1> QED  BY <1>0, <1>7, <1>8, <1>10, <1>12, <1>13, PageStep

\* The writes of the owner change the graph only where a rollback reaches.
LEMMA RevertsGraph ==
  ASSUME IInv, NEW m \in MarkerIds, owner.m = m, marker[m].state \in Effect,
         NEW gr, Reverts(m, marker, gr, snap)
  PROVE  GraphOK(marker, owner, gr, snap)
<1>1. owner # NoOwner
  BY OwnerMarker DEF IInv
<1> QED  BY <1>1 DEF GraphOK, Effect

LEMMA RestorePageStep ==
  ASSUME IInv, NEW w \in Workers, RestorePage(w)
  PROVE  IInv'
<1> DEFINE m == sess[w].m
           sid == sess[w].sid
<1>0. /\ pc[w] \in {"repairing", "restoring"} /\ pc[w] # "idle"
      /\ pc[w] \in InFence /\ pc[w] \in Owning
      /\ UNCHANGED <<marker, owner, snap, fence, pc, sess, attempt, faults>>
  BY DEF RestorePage, Outside, InFence, Owning
<1>1. m \in MarkerIds /\ SessionOK(pc[w], sess[w], marker, owner, graph, attempt)
  BY <1>0, LiveSessionOK
<1>2. Holds(sess[w], owner)
  BY <1>0, FencedHolds
<1>3. /\ Reverts(m, marker, graph, snap) /\ snap[sid] = BaseSnap(marker)
      /\ marker[m].state \in Effect /\ owner.m = m
  BY <1>0, <1>2, HolderReverts
<1>4. PICK x \in snap[sid] : graph[x[1]] \notin {"absent", x[2]}
                             /\ graph' = [graph EXCEPT ![x[1]] = x[2]]
  BY DEF RestorePage
<1>5. x[2] = "clean" /\ x[1] \in Kept(marker)
  BY <1>3, <1>4 DEF BaseSnap
<1>6. graph \in [Objects -> Props] /\ snap \in [SnapIds -> SUBSET (Objects \X {"clean", "drift"})]
  BY Typed DEF IInv
<1>7. graph' \in [Objects -> Props]
  BY <1>4, <1>5, <1>6 DEF Props
<1>8. \A o \in Objects : graph'[o] = IF o = x[1] THEN "clean" ELSE graph[o]
  BY <1>4, <1>5, <1>6
<1>9. x[1] # m[1]
  BY <1>3, <1>4, <1>5, Ids, <1>1, <1>6 DEF Reverts
<1>10. Reverts(m, marker, graph', snap)
  <2>1. m[1] \in Objects
    BY <1>1, Ids DEF Objects
  <2> QED  BY <1>3, <1>5, <1>8, <1>9, <2>1 DEF Reverts
<1>11. PhaseOK(pc[w], sess[w], owner, graph', Base(marker))
  <2>1. graph'[m[1]] = graph[m[1]]
    BY <1>1, <1>8, <1>9, Ids DEF Objects
  <2> QED  BY <1>0, <1>1, <2>1 DEF SessionOK, PhaseOK
<1>12. GraphOK(marker, owner, graph', snap) /\ SnapOwned(marker, snap)
  BY <1>1, <1>3, <1>10, RevertsGraph DEF IInv
<1>13. snap' \in [SnapIds -> SUBSET (Objects \X {"clean", "drift"})]
       /\ SnapOwned(marker, snap') /\ GraphOK(marker, owner, graph', snap')
  BY <1>0, <1>6, <1>12
<1> QED  BY <1>0, <1>2, <1>7, <1>11, <1>13, PageStep

\* The owner, behind its fence, writes to the graph and goes on.
LEMMA WriteStep ==
  ASSUME IInv, NEW w \in Workers, pc[w] \in InFence, pc[w] \in Owning,
         NEW step \in Steps, step \in Owning, Goto(w, step), FenceMove(w),
         UNCHANGED <<marker, owner, snap, sess, attempt, faults>>,
         graph' \in [Objects -> Props],
         Reverts(sess[w].m, marker, graph', snap),
         PhaseOK(step, sess[w], owner, graph', Base(marker))
  PROVE  IInv'
<1>0. pc[w] # "idle" /\ step # "idle" /\ step # "cleanup" /\ step \notin Unclaimed
      /\ step \notin {"discard", "discarding"}
  BY DEF InFence, Owning, Unclaimed
<1>1. /\ sess[w] \in Sessions /\ sess[w].m \in MarkerIds
      /\ SessionOK(pc[w], sess[w], marker, owner, graph, attempt)
  BY <1>0, LiveSessionOK
<1>2. Holds(sess[w], owner) /\ owner = [m |-> sess[w].m, tok |-> sess[w].tok]
  BY FencedHolds
<1>3. marker[sess[w].m].state \in Effect /\ owner.m = sess[w].m
  BY <1>0, <1>2, HolderReverts
<1>4. Moves(w) /\ pc'[w] = step /\ sess'[w] = sess[w]
  BY GotoMoves DEF IInv
<1>5. SameMarker(w)
  BY <1>0, <1>4 DEF SameMarker
<1>6. ChainOK(marker, Occupied', attempt)
  BY <1>4, <1>5, SameMarkerChain
<1>7. SessionOK(step, sess[w], marker, owner, graph', attempt)
  <2>1. ShapeOK(step, sess[w], attempt) /\ CleanupOK(step, sess[w], marker, attempt)
    BY <1>0, <1>1, NotNoSession DEF SessionOK, ShapeOK, CleanupOK, Unclaimed
  <2>2. HolderOK(step, sess[w], marker, owner)
    BY <1>1, <1>2, <1>3 DEF SessionOK, HolderOK
  <2> QED  BY <2>1, <2>2 DEF SessionOK
<1>8. GraphOK(marker, owner, graph', snap')
  BY <1>1, <1>3, RevertsGraph
<1>9. /\ SnapOwned(marker, snap') /\ faults' \in 0 .. MaxFault
      /\ snap' \in [SnapIds -> SUBSET (Objects \X {"clean", "drift"})]
  BY Typed DEF IInv
<1> QED  BY <1>2, <1>4, <1>6, <1>7, <1>8, <1>9, SessionStep

\* The episode of an unresolved attempt has no sealed result.
LEMMA NotSealedYet ==
  ASSUME IInv, NEW m \in MarkerIds, marker[m].state \in Unresolved
  PROVE  m[1] \notin Kept(marker)
<1>0. m[1] \in Episodes /\ m[1] \notin Existing
  BY Ids, GuardAssumption
<1>1. ASSUME NEW u \in MarkerIds, u[1] = m[1], marker[u].state = "COMPLETE", marker[u].ok
      PROVE  FALSE
  <2>1. CASE u = m
    BY <1>1, <2>1 DEF Unresolved
  <2>2. CASE u[2] < m[2]
    <3>1. Spent(marker[u])
      BY <1>1, <2>2 DEF IInv, ChainOK, Reached, Unresolved
    <3> QED  BY <1>1, <3>1 DEF Spent
  <2>3. CASE m[2] < u[2]
    <3>1. Spent(marker[m])
      BY <1>1, <2>3 DEF IInv, ChainOK, Reached
    <3> QED  BY <3>1 DEF Spent, Unresolved
  <2> QED  BY <1>1, <2>1, <2>2, <2>3, Ids
<1> QED  BY <1>0, <1>1 DEF Kept, SealedIn

LEMMA PrepareStep ==
  ASSUME IInv, NEW w \in Workers, Prepare(w)
  PROVE  IInv'
<1> DEFINE e == sess[w].m[1]
<1>0. /\ pc[w] = "preparing" /\ pc[w] # "idle" /\ pc[w] \in InFence /\ pc[w] \in Owning
      /\ UNCHANGED <<marker, owner, snap, sess, attempt, faults>>
      /\ Goto(w, "prepared") /\ fence' = None
      /\ graph' = [graph EXCEPT ![e] = "clean"]
      /\ "prepared" \in Steps /\ "prepared" \in Owning /\ "prepared" \notin InFence
  BY DEF Prepare, Outside, InFence, Owning, Steps, Episode
<1>1. /\ sess[w].m \in MarkerIds /\ e \in Objects
      /\ SessionOK(pc[w], sess[w], marker, owner, graph, attempt)
  BY <1>0, LiveSessionOK, Ids DEF Objects
<1>2. Holds(sess[w], owner) /\ fence = w
  BY <1>0, FencedHolds
<1>3. Reverts(sess[w].m, marker, graph, snap) /\ graph = Base(marker)
  BY <1>0, <1>1, <1>2, HolderReverts DEF SessionOK, PhaseOK
<1>4. graph \in [Objects -> Props]
  BY Typed DEF IInv
<1>5. graph' \in [Objects -> Props] /\ \A o \in Objects : graph'[o] = IF o = e THEN "clean" ELSE graph[o]
  BY <1>0, <1>1, <1>4 DEF Props
<1>6. Reverts(sess[w].m, marker, graph', snap)
  BY <1>1, <1>3, <1>5 DEF Reverts
<1>7. PhaseOK("prepared", sess[w], owner, graph', Base(marker))
  BY <1>3, <1>5 DEF PhaseOK
<1>8. FenceMove(w)
  BY <1>0, <1>2, Typed, GuardAssumption DEF FenceMove, Goto, IInv
<1> QED  BY <1>0, <1>5, <1>6, <1>7, <1>8, WriteStep

LEMMA PersistStep ==
  ASSUME IInv, NEW w \in Workers, Persist(w)
  PROVE  IInv'
<1> DEFINE e == sess[w].m[1]
<1>0. /\ pc[w] = "mutating" /\ pc[w] # "idle" /\ pc[w] \in InFence /\ pc[w] \in Owning
      /\ UNCHANGED <<marker, owner, snap, sess, attempt, faults>>
      /\ Goto(w, "repairing") /\ fence' = fence
      /\ "repairing" \in Steps /\ "repairing" \in Owning /\ "repairing" \in InFence
  BY DEF Persist, Outside, InFence, Owning, Steps
<1>1. /\ sess[w].m \in MarkerIds /\ e \in Objects
      /\ SessionOK(pc[w], sess[w], marker, owner, graph, attempt)
  BY <1>0, LiveSessionOK, Ids DEF Objects
<1>2. Holds(sess[w], owner) /\ fence = w
  BY <1>0, FencedHolds
<1>3. Reverts(sess[w].m, marker, graph, snap) /\ graph[e] = "clean"
  BY <1>0, <1>1, <1>2, HolderReverts DEF SessionOK, PhaseOK
<1>4. graph \in [Objects -> Props]
  BY Typed DEF IInv
<1>5. PICK touched \in SUBSET (Present \ {e}) :
        graph' = [o \in Objects |-> IF o \in touched THEN "drift" ELSE graph[o]]
  BY DEF Persist, Episode
<1>6. /\ graph' \in [Objects -> Props]
      /\ \A o \in Objects : graph'[o] = IF o \in touched THEN "drift" ELSE graph[o]
      /\ \A o \in touched : o \in Objects /\ o # e /\ graph[o] # "absent"
  BY <1>4, <1>5 DEF Props, Present
<1>7. graph'[e] = "clean"
  BY <1>1, <1>3, <1>6
<1>8. \A o \in Objects : graph'[o] # "absent" <=> graph[o] # "absent"
  BY <1>6
<1>9. Reverts(sess[w].m, marker, graph', snap)
  BY <1>3, <1>7, <1>8 DEF Reverts
<1>10. PhaseOK("repairing", sess[w], owner, graph', Base(marker))
  BY <1>7 DEF PhaseOK
<1>11. FenceMove(w)
  BY <1>0, <1>2, Typed, GuardAssumption DEF FenceMove, Goto, IInv
<1> QED  BY <1>0, <1>6, <1>9, <1>10, <1>11, WriteStep

LEMMA DeleteNewStep ==
  ASSUME IInv, NEW w \in Workers, DeleteNew(w)
  PROVE  IInv'
<1> DEFINE e == sess[w].m[1]
<1>0. /\ pc[w] = "deleting" /\ pc[w] # "idle" /\ pc[w] \in InFence /\ pc[w] \in Owning
      /\ UNCHANGED <<marker, owner, snap, sess, attempt, faults>>
      /\ Goto(w, "restoring") /\ fence' = fence
      /\ graph' = [o \in Objects |-> IF o \in NewObjects(w) THEN "absent" ELSE graph[o]]
      /\ "restoring" \in Steps /\ "restoring" \in Owning /\ "restoring" \in InFence
  BY DEF DeleteNew, Outside, InFence, Owning, Steps
<1>1. /\ sess[w].m \in MarkerIds /\ e \in Objects
      /\ SessionOK(pc[w], sess[w], marker, owner, graph, attempt)
  BY <1>0, LiveSessionOK, Ids DEF Objects
<1>2. Holds(sess[w], owner) /\ fence = w
  BY <1>0, FencedHolds
<1>3. /\ Reverts(sess[w].m, marker, graph, snap) /\ snap[sess[w].sid] = BaseSnap(marker)
      /\ marker[sess[w].m].state \in Unresolved
  BY <1>0, <1>2, HolderReverts DEF Effect, Unresolved
<1>4. graph \in [Objects -> Props]
  BY Typed DEF IInv
<1>5. \A o \in Objects : o \in NewObjects(w) <=> o \notin Kept(marker)
  <2> SUFFICES ASSUME NEW o \in Objects
               PROVE  (\A p \in Props : <<o, p>> \notin BaseSnap(marker)) <=> o \notin Kept(marker)
    BY <1>3 DEF NewObjects
  <2>1. "clean" \in Props /\ \A p : <<o, p>> \in BaseSnap(marker) <=> o \in Kept(marker) /\ p = "clean"
    BY DEF BaseSnap, Props
  <2> QED  BY <2>1
<1>6. graph' \in [Objects -> Props]
      /\ \A o \in Objects : graph'[o] = IF o \in Kept(marker) THEN graph[o] ELSE "absent"
  BY <1>0, <1>4, <1>5 DEF Props
<1>7. graph'[e] = "absent"
  BY <1>1, <1>3, <1>6, NotSealedYet
<1>8. Reverts(sess[w].m, marker, graph', snap)
  BY <1>3, <1>6, <1>7 DEF Reverts
<1>9. PhaseOK("restoring", sess[w], owner, graph', Base(marker))
  BY <1>7 DEF PhaseOK
<1>10. FenceMove(w)
  BY <1>0, <1>2, Typed, GuardAssumption DEF FenceMove, Goto, IInv
<1> QED  BY <1>0, <1>6, <1>8, <1>9, <1>10, WriteStep

----------------------------------------------------------------------------
(* Steps that change a marker *)

\* Nothing is left under the snapshot id of an attempt that has not begun.
LEMMA NoLeftovers ==
  ASSUME IInv, NEW m \in Occupied, marker[m].state = "NONE",
         NEW k \in Attempts, k = Number(m, attempt)
  PROVE  snap[<<m[1], k>>] = {}
<1>0. m \in MarkerIds /\ m[1] \in Episodes /\ <<m[1], k>> \in SnapIds
  BY Ids DEF Occupied, SnapIds
<1> SUFFICES ASSUME snap[<<m[1], k>>] # {}
             PROVE  FALSE
  OBVIOUS
<1>1. PICK u \in MarkerIds : u[1] = m[1] /\ marker[u].state # "NONE" /\ marker[u].att = k
  BY <1>0 DEF IInv, SnapOwned
<1>2. CASE u[2] < m[2]
  <2>1. marker[u].att < m[2] /\ m[2] # 0
    BY <1>0, <1>1, <1>2, Ids DEF IInv, ChainOK, Reached
  <2>2. k = m[2] /\ m[2] \in Nat
    BY <1>0, <2>1, Ids DEF Number
  <2> QED  BY <1>1, <2>1, <2>2
<1>3. CASE m[2] < u[2]
  BY <1>0, <1>1, <1>3 DEF IInv, ChainOK, Reached
<1>4. CASE u[2] = m[2]
  BY <1>0, <1>1, <1>4, Ids
<1> QED  BY <1>0, <1>2, <1>3, <1>4, Ids

\* The fresh token is nobody's.
LEMMA FreshHolder ==
  ASSUME IInv, NEW w \in Workers, NEW ow, ow.tok = FreshToken
  PROVE  \A v \in Workers \ {w} : ~ Holds(sess[v], ow)
<1>1. \A v \in Workers : sess[v].tok # FreshToken
  BY FreshTokenOK DEF InUse, IInv
<1> QED  BY <1>1 DEF Holds

LEMMA NobodyHolds ==
  ASSUME NEW s
  PROVE  ~ Holds(s, NoOwner)
BY DEF Holds, NoOwner

LEMMA ClaimFreshStep ==
  ASSUME IInv, NEW w \in Workers, ClaimFresh(w)
  PROVE  IInv'
<1> DEFINE m == sess[w].m
           t == FreshToken
           r == [state |-> "SNAPSHOTTING", att |-> sess[w].att, tok |-> t,
                 expired |-> FALSE, ok |-> FALSE]
           s == [sess[w] EXCEPT !.tok = t]
<1>0. /\ pc[w] = "claim" /\ pc[w] # "idle" /\ fence = None /\ fence' = fence
      /\ owner = NoOwner /\ marker[m].state = "NONE"
      /\ marker' = [marker EXCEPT ![m] = r] /\ owner' = [m |-> m, tok |-> t]
      /\ Goto(w, "snapshot") /\ UNCHANGED <<graph, snap, attempt, faults>>
      /\ "snapshot" \in Steps /\ "snapshot" \notin InFence /\ pc[w] \notin InFence /\ TypeOK
  BY DEF ClaimFresh, CanCreate, LockFree, Outside, Steps, InFence, IInv
<1>1. /\ sess[w] \in Sessions /\ m \in MarkerIds /\ m \in Occupied
      /\ sess[w].att \in Attempts /\ sess[w].tok = None
      /\ sess[w].att = Number(m, attempt) /\ sess[w].sid = <<m[1], sess[w].att>>
  BY <1>0, LiveSessionOK DEF SessionOK, ShapeOK, Unclaimed
<1>2. t \in Tokens /\ t # None
  BY <1>0, FreshTokenOK, GuardAssumption
<1> HIDE DEF t
<1>3. r \in Markers
  BY <1>1, <1>2, GuardAssumption DEF Markers, States, Unresolved, Attempts
<1>4. s \in Sessions /\ s.m = m /\ s.tok = t /\ s.att = sess[w].att /\ s.sid = sess[w].sid
  BY <1>1, <1>2 DEF Sessions
<1>5. sess' = [sess EXCEPT ![w] = s]
  BY <1>0, Typed DEF ClaimFresh, t
<1> HIDE DEF s
<1>6. Moves(w) /\ pc'[w] = "snapshot" /\ sess'[w] = s
  BY <1>0, <1>4, <1>5, SessMoves
<1>7. SameMarker(w) /\ FenceMove(w)
  BY <1>0, <1>4, <1>6, OutsideFence DEF SameMarker
<1>8. /\ Rewrites(m) /\ marker'[m] = r /\ \A u \in MarkerIds \ {m} : marker'[u] = marker[u]
      /\ r.state = "SNAPSHOTTING" /\ r.att = sess[w].att /\ r.tok = t
  BY <1>0, <1>1, Typed DEF Rewrites
<1> HIDE DEF r
<1>9. OwnerFollows(m)
  BY <1>0, <1>2, <1>8 DEF OwnerFollows, Unresolved
<1>10. attempt[m[1]] \in 1 .. MaxAttempt /\ m[2] <= attempt[m[1]] /\ m[2] \in Nat
       /\ (m[2] = 0 \/ m[2] >= 2) /\ MaxAttempt \in Nat
  BY <1>0, <1>1, Typed, Ids, GuardAssumption DEF IInv, ChainOK, Attempts
<1>11. r.att \in 1 .. attempt[m[1]] /\ (m[2] # 0 => r.att = m[2]) /\ (m[2] = 0 => r.att = attempt[m[1]])
  BY <1>1, <1>8, <1>10 DEF Number
<1>12. RowOK(marker'[m], m, attempt)
  BY <1>8, <1>11 DEF RowOK
<1>13. SnapshotsKept(m)
  <2>1. ASSUME NEW k \in Attempts, Stale(marker[m], m, k, attempt)
        PROVE  Stale(r, m, k, attempt)
    <3>1. m[2] = 0 /\ k < attempt[m[1]]
      BY <1>0, <2>1 DEF Stale, Terminal
    <3>2. r.att # k
      BY <1>10, <1>11, <3>1 DEF Attempts
    <3> QED  BY <3>1, <3>2 DEF Stale
  <2>2. marker[m].state = "NONE" /\ marker'[m].state # "NONE" /\ marker'[m] = r
    BY <1>0, <1>8
  <2> QED  BY <2>1, <2>2 DEF SnapshotsKept
<1>14. SidOf(marker', m) = sess[w].sid
  BY <1>1, <1>8 DEF SidOf
<1>15. \A v \in Workers \ {w} : ~ Holds(sess[v], owner')
  BY <1>0, FreshHolder DEF t
<1>16. TokensDiffer'
  BY <1>4, <1>6, TokensFresh DEF t, IInv
<1>17. SessionOK("snapshot", s, marker', owner', graph, attempt)
  <2>1. ShapeOK("snapshot", s, attempt) /\ CleanupOK("snapshot", s, marker', attempt)
    BY <1>1, <1>4, NotNoSession DEF ShapeOK, CleanupOK, Unclaimed
  <2>2. HolderOK("snapshot", s, marker', owner')
    BY <1>0, <1>4, <1>8, <1>14 DEF HolderOK
  <2>3. PhaseOK("snapshot", s, owner', graph, Base(marker'))
    BY DEF PhaseOK
  <2> QED  BY <2>1, <2>2, <2>3 DEF SessionOK
<1>18. GraphOK(marker', owner', graph, snap)
  <2>1. Base(marker') = Base(marker) /\ BaseSnap(marker') = BaseSnap(marker)
    <3>1. marker[m].state # "COMPLETE" /\ marker'[m].state # "COMPLETE"
      BY <1>0, <1>8
    <3> QED  BY <1>1, <1>8, <3>1, SameBase
  <2>2. graph = Base(marker)
    BY <1>0 DEF IInv, GraphOK
  <2>3. snap[SidOf(marker', m)] = {}
    BY <1>0, <1>1, <1>14, NoLeftovers
  <2>4. owner' # NoOwner /\ owner'.m = m /\ marker'[m].state = "SNAPSHOTTING"
    BY <1>0, <1>1, <1>8, Ids DEF NoOwner
  <2> QED  BY <2>1, <2>2, <2>3, <2>4 DEF GraphOK, Effect
<1> QED  BY <1>0, <1>1, <1>3, <1>6, <1>7, <1>8, <1>9, <1>12, <1>13, <1>15, <1>16, <1>17, <1>18,
            MarkerStep

LEMMA TakeOverStep ==
  ASSUME IInv, NEW w \in Workers, TakeOver(w)
  PROVE  IInv'
<1> DEFINE m == sess[w].m
           t == FreshToken
           r == marker'[m]
           step == IF pc[w] = "takeOwned" THEN "rollback" ELSE "discard"
           s == [sess[w] EXCEPT !.tok = t, !.seen = NoMarker]
<1>0. /\ pc[w] \in {"takeTerminal", "takeRecovering", "takeOwned"} /\ pc[w] # "idle"
      /\ fence = None /\ pc[w] \notin InFence /\ TypeOK
      /\ UNCHANGED <<graph, snap, attempt, faults>> /\ faults' \in 0 .. MaxFault
  BY Typed DEF TakeOver, LockFree, Outside, InFence, IInv
<1>1. CASE ~ Takeable(w) /\ End(w) /\ UNCHANGED <<marker, owner>>
  BY <1>0, <1>1, EndStep DEF Database
<1>2. CASE /\ Takeable(w)
           /\ marker' = [marker EXCEPT
                ![m].state = IF pc[w] = "takeOwned" THEN @ ELSE "RECOVERING",
                ![m].tok = t, ![m].expired = FALSE]
           /\ owner' = [m |-> m, tok |-> t]
           /\ sess' = [sess EXCEPT ![w].tok = t, ![w].seen = NoMarker]
           /\ Goto(w, step)
           /\ UNCHANGED fence
  <2>0. Goto(w, step) /\ fence' = fence
    BY <1>2, Zenon
  <2>1. /\ sess[w] \in Sessions /\ m \in MarkerIds /\ m \in Occupied /\ sess[w].att \in Attempts
        /\ sess[w].sid \in SnapIds /\ sess[w].sid[1] = m[1]
        /\ SessionOK(pc[w], sess[w], marker, owner, graph, attempt)
    BY <1>0, LiveSessionOK
  <2>2. t \in Tokens /\ t # None
    BY <1>0, FreshTokenOK, GuardAssumption
  <2>3. NoMarker \in Markers
    BY GuardAssumption DEF NoMarker, Markers, States
  <2> HIDE DEF t
  <2>4. s \in Sessions /\ s.m = m /\ s.tok = t /\ s.att = sess[w].att /\ s.sid = sess[w].sid
    BY <2>1, <2>2, <2>3 DEF Sessions
  <2>5. sess' = [sess EXCEPT ![w] = s]
    BY <1>0, <1>2, Typed
  <2> HIDE DEF s
  <2>6. /\ step \in Steps /\ step \notin InFence /\ step # "idle"
        /\ (step = "rollback" /\ pc[w] = "takeOwned") \/ (step = "discard" /\ pc[w] # "takeOwned")
    BY DEF Steps, InFence
  <2> HIDE DEF step
  <2>7. Moves(w) /\ pc'[w] = step /\ sess'[w] = s
    BY <1>0, <2>0, <2>4, <2>5, <2>6, SessMoves
  <2>8. SameMarker(w) /\ FenceMove(w)
    BY <1>0, <2>0, <2>4, <2>6, <2>7, OutsideFence DEF SameMarker
  <2>9. marker \in [MarkerIds -> Markers]
    BY <1>0, Typed
  <2>10. Rewrites(m) /\ \A u \in MarkerIds \ {m} : marker'[u] = marker[u]
    BY <1>2, <2>1, <2>9 DEF Rewrites
  <2>11. /\ r \in Markers
         /\ r.state = (IF pc[w] = "takeOwned" THEN marker[m].state ELSE "RECOVERING")
         /\ r.tok = t /\ r.att = marker[m].att /\ r.ok = marker[m].ok
    BY <1>2, <2>1, <2>2, <2>9 DEF Markers, States, Unresolved
  <2>12. /\ marker[m].state = sess[w].seen.state /\ SidOf(marker, m) = sess[w].sid
         /\ owner = NoOwner \/ owner.m = m
         /\ pc[w] # "takeTerminal" => owner.m = m
    BY <1>2 DEF Takeable, SnapshotOf, SidOf
  <2>13. /\ pc[w] = "takeTerminal" => /\ marker[m].state = "RECOVERED_AMBIGUOUS"
                                      /\ marker[m].att < sess[w].att
         /\ pc[w] = "takeRecovering" => marker[m].state \in {"SNAPSHOTTING", "RECOVERING"}
         /\ pc[w] = "takeOwned" => marker[m].state \in Effect
         /\ pc[w] # "takeOwned" => sess[w].att = Number(m, attempt)
    BY <1>0, <2>1, <2>12 DEF SessionOK, ShapeOK, SidOf
  <2>14. OwnerFollows(m)
    BY <1>0, <1>2, <2>2, <2>11, <2>12, <2>13 DEF OwnerFollows, Unresolved, Effect
  <2>15. RowOK(marker[m], m, attempt) /\ marker[m].state # "NONE" /\ marker[m].state # "COMPLETE"
    BY <1>0, <2>1, <2>13 DEF IInv, ChainOK, Effect
  <2>16. RowOK(r, m, attempt) /\ r.state # "NONE" /\ r.state # "COMPLETE"
    BY <2>11, <2>15 DEF RowOK
  <2>17. SnapshotsKept(m)
    <3>1. ASSUME NEW k \in Attempts, Stale(marker[m], m, k, attempt)
          PROVE  Stale(r, m, k, attempt)
      <4>1. CASE pc[w] = "takeTerminal"
        <5>1. m[2] = 0
          <6> SUFFICES ASSUME m[2] # 0
                       PROVE  FALSE
            OBVIOUS
          <6>1. marker[m].att = m[2] /\ sess[w].att = m[2]
            BY <2>13, <2>15, <4>1 DEF RowOK, Number
          <6> QED  BY <2>1, <2>13, <4>1, <6>1, Ids
        <5>2. sess[w].att = attempt[m[1]]
          BY <2>13, <4>1, <5>1 DEF Number
        <5>3. k < attempt[m[1]]
          BY <2>13, <3>1, <4>1, <5>2 DEF Stale
        <5> QED  BY <2>11, <4>1, <5>1, <5>3 DEF Stale, Effect
      <4>2. CASE pc[w] # "takeTerminal"
        BY <1>0, <2>11, <2>13, <3>1, <4>2 DEF Stale, Effect, Terminal
      <4> QED  BY <4>1, <4>2
    <3> QED  BY <2>11, <2>16, <3>1 DEF SnapshotsKept
  <2>18. SidOf(marker', m) = sess[w].sid /\ SidOf(marker', m) = SidOf(marker, m)
    BY <2>11, <2>12 DEF SidOf
  <2>19. \A v \in Workers \ {w} : ~ Holds(sess[v], owner')
    BY <1>2, FreshHolder DEF t
  <2>20. TokensDiffer'
    BY <2>4, <2>7, TokensFresh DEF t, IInv
  <2>21. SessionOK(step, s, marker', owner', graph, attempt)
    <3>1. ShapeOK(step, s, attempt) /\ CleanupOK(step, s, marker', attempt)
      BY <2>1, <2>4, <2>6, <2>13, NotNoSession DEF ShapeOK, CleanupOK, Unclaimed
    <3>2. HolderOK(step, s, marker', owner')
      BY <1>0, <1>2, <2>4, <2>6, <2>11, <2>13, <2>18 DEF HolderOK, Owning
    <3>3. PhaseOK(step, s, owner', graph, Base(marker'))
      BY <2>6 DEF PhaseOK
    <3> QED  BY <3>1, <3>2, <3>3 DEF SessionOK
  <2>22. GraphOK(marker', owner', graph, snap)
    <3>1. /\ Base(marker') = Base(marker) /\ BaseSnap(marker') = BaseSnap(marker)
          /\ Kept(marker') = Kept(marker)
      BY <2>1, <2>10, <2>15, <2>16, SameBase
    <3>2. owner' # NoOwner /\ owner'.m = m
      BY <1>2, <2>1, Ids DEF NoOwner
    <3>3. CASE pc[w] = "takeOwned"
      <4>1. Reverts(m, marker, graph, snap) /\ r.state \in Effect
        BY <2>1, <2>11, <2>12, <2>13, <3>3 DEF IInv, GraphOK
      <4>2. Reverts(m, marker', graph, snap)
        BY <2>18, <3>1, <4>1 DEF Reverts
      <4> QED  BY <3>2, <4>1, <4>2 DEF GraphOK, Effect
    <3>4. CASE pc[w] # "takeOwned"
      <4>1. marker[m].state \notin Effect /\ r.state = "RECOVERING"
        BY <1>0, <2>11, <2>13, <3>4 DEF Effect
      <4>2. graph = Base(marker)
        BY <2>1, <2>12, <4>1 DEF IInv, GraphOK
      <4> QED  BY <3>1, <3>2, <4>1, <4>2 DEF GraphOK, Effect
    <3> QED  BY <3>3, <3>4
  <2> HIDE DEF r
  <2>23. marker'[m] \in Markers /\ RowOK(marker'[m], m, attempt) /\ fence' = None
    BY <1>0, <1>2, <2>11, <2>16 DEF r
  <2> QED  BY <1>0, <2>1, <2>7, <2>8, <2>10, <2>14, <2>17, <2>19, <2>20, <2>21, <2>22, <2>23,
              MarkerStep
<1> QED  BY <1>1, <1>2 DEF TakeOver

LEMMA DiscardMarkerStep ==
  ASSUME IInv, NEW w \in Workers, DiscardMarker(w)
  PROVE  IInv'
<1> DEFINE m == sess[w].m
           s == [NoSession EXCEPT !.m = m, !.att = sess[w].att, !.sid = <<m[1], sess[w].att>>]
<1>0. /\ pc[w] = "discarding" /\ pc[w] # "idle" /\ pc[w] \in InFence /\ TypeOK
      /\ snap[sess[w].sid] = {} /\ marker' = [marker EXCEPT ![m] = NoMarker]
      /\ owner' = NoOwner /\ fence' = None /\ Goto(w, "begin")
      /\ UNCHANGED <<graph, snap, attempt, faults>>
      /\ "begin" \in Steps /\ "begin" \notin InFence
  BY DEF DiscardMarker, Outside, Steps, InFence, IInv
<1>1. /\ m \in MarkerIds /\ m \in Occupied /\ sess[w].att \in Attempts
      /\ SessionOK(pc[w], sess[w], marker, owner, graph, attempt)
      /\ sess[w].att = Number(m, attempt)
  BY <1>0, LiveSessionOK DEF SessionOK, ShapeOK
<1>2. /\ Holds(sess[w], owner) /\ owner.m = m /\ fence = w /\ SidOf(marker, m) = sess[w].sid
  BY <1>0, FencedHolds
<1>3. marker[m].state = "RECOVERING"
  BY <1>0, <1>1, <1>2 DEF SessionOK, HolderOK, Owning
<1>4. NoMarker \in Markers /\ NoMarker.state = "NONE"
  BY GuardAssumption DEF NoMarker, Markers, States
<1>5. s \in Sessions
  BY <1>1, <1>4, Ids DEF Sessions, NoSession, SnapIds
<1>6. s.m = m /\ s.att = sess[w].att /\ s.sid = <<m[1], sess[w].att>> /\ s.tok = None
  BY DEF NoSession
<1>7. sess' = [sess EXCEPT ![w] = s]
  BY DEF DiscardMarker, Episode
<1> HIDE DEF s
<1>8. Moves(w) /\ pc'[w] = "begin" /\ sess'[w] = s
  BY <1>0, <1>5, <1>7, SessMoves
<1>9. SameMarker(w)
  BY <1>0, <1>6, <1>8 DEF SameMarker
<1>10. FenceMove(w)
  BY <1>0, <1>2, <1>8, GuardAssumption DEF FenceMove
<1>11. /\ Rewrites(m) /\ marker'[m] = NoMarker
       /\ \A u \in MarkerIds \ {m} : marker'[u] = marker[u]
  BY <1>0, <1>1, Typed DEF Rewrites
<1>12. OwnerFollows(m)
  BY <1>0, <1>2, <1>4, <1>11 DEF OwnerFollows, Unresolved
<1>13. RowOK(marker'[m], m, attempt)
  BY <1>4, <1>11 DEF RowOK
<1>14. SnapshotsKept(m)
  <2>1. \A k \in Attempts : Stale(marker[m], m, k, attempt) => Stale(NoMarker, m, k, attempt)
    BY <1>3, <1>4 DEF Stale, Terminal, Effect
  <2> QED  BY <1>0, <1>2, <1>4, <1>11, <2>1 DEF SnapshotsKept
<1>15. \A v \in Workers \ {w} : ~ Holds(sess[v], owner')
  BY <1>0, NobodyHolds
<1>16. TokensDiffer'
  BY <1>0, <1>6, <1>8, TokensKept DEF IInv
<1>17. SessionOK("begin", s, marker', owner', graph, attempt)
  <2>1. ShapeOK("begin", s, attempt) /\ CleanupOK("begin", s, marker', attempt)
    BY <1>1, <1>5, <1>6, NotNoSession DEF ShapeOK, CleanupOK, Unclaimed
  <2> QED  BY <1>6, <2>1, Tokenless DEF Holds
<1>18. GraphOK(marker', owner', graph, snap)
  <2>1. marker[m].state # "COMPLETE" /\ marker'[m].state # "COMPLETE"
    BY <1>3, <1>4, <1>11
  <2>2. Base(marker') = Base(marker)
    BY <1>1, <1>11, <2>1, SameBase
  <2>3. graph = Base(marker)
    BY <1>1, <1>2, <1>3 DEF IInv, GraphOK, Effect
  <2>4. \A u \in MarkerIds : owner'.m # u
    BY <1>0, Ids DEF NoOwner
  <2> QED  BY <2>2, <2>3, <2>4 DEF GraphOK
<1> QED  BY <1>0, <1>1, <1>4, <1>8, <1>9, <1>10, <1>11, <1>12, <1>13, <1>14, <1>15, <1>16, <1>17,
            <1>18, MarkerStep

\* The owner moves its marker on while the generation stays its own.
LEMMA OwnerMovesOn ==
  ASSUME IInv, NEW w \in Workers, pc[w] # "idle", NEW step \in Steps, step # "idle",
         Goto(w, step), sess' = sess, fence' = None, FenceMove(w),
         Holds(sess[w], owner), owner.m = sess[w].m, UNCHANGED <<owner, graph, snap, attempt, faults>>,
         NEW st \in Effect, marker' = [marker EXCEPT ![sess[w].m].state = st],
         marker[sess[w].m].state \in {"SNAPSHOTTING", "PENDING"},
         SidOf(marker, sess[w].m) = sess[w].sid,
         step \in Owning,
         step = "open" => graph = Base(marker),
         step \in {"open", "rolling"},
         Reverts(sess[w].m, marker, graph, snap)
  PROVE  IInv'
<1> DEFINE m == sess[w].m
           r == marker'[m]
<1>0. TypeOK /\ owner # NoOwner
  BY OwnerMarker, LiveSessionOK DEF IInv
<1>1. /\ sess[w] \in Sessions /\ m \in MarkerIds /\ m \in Occupied
      /\ SessionOK(pc[w], sess[w], marker, owner, graph, attempt)
  BY LiveSessionOK
<1>2. marker[m].tok = owner.tok /\ owner.tok \in Tokens /\ owner = [m |-> m, tok |-> owner.tok]
  BY <1>0, OwnerMarker, Typed DEF IInv
<1>3. marker \in [MarkerIds -> Markers]
  BY <1>0, Typed
<1>4. Rewrites(m) /\ \A u \in MarkerIds \ {m} : marker'[u] = marker[u]
  BY <1>1, <1>3 DEF Rewrites
<1>5. /\ r \in Markers /\ r.state = st /\ r.tok = marker[m].tok /\ r.att = marker[m].att
      /\ r.ok = marker[m].ok
  BY <1>1, <1>3 DEF Markers, States, Unresolved, Effect
<1> HIDE DEF r
<1>6. Moves(w) /\ pc'[w] = step /\ sess'[w] = sess[w]
  BY <1>0, GotoMoves
<1>7. SameMarker(w)
  BY <1>6 DEF SameMarker
<1>8. OwnerFollows(m)
  BY <1>2, <1>5 DEF OwnerFollows, Unresolved, Effect, r
<1>9. RowOK(r, m, attempt)
  <2>1. RowOK(marker[m], m, attempt)
    BY <1>1 DEF IInv, ChainOK
  <2> QED  BY <1>5, <2>1 DEF RowOK, Effect
<1>10. SnapshotsKept(m)
  <2>1. \A k \in Attempts : Stale(marker[m], m, k, attempt) => Stale(r, m, k, attempt)
    BY <1>5 DEF Stale, Terminal, Effect
  <2> QED  BY <1>5, <2>1 DEF SnapshotsKept, r, Effect
<1>11. \A v \in Workers \ {w} : ~ Holds(sess[v], owner')
  BY OneHolder DEF IInv
<1>12. TokensDiffer'
  BY <1>0, <1>6, TokensKept DEF IInv
<1>13. SidOf(marker', m) = SidOf(marker, m)
  BY <1>5 DEF SidOf, r
<1>14. /\ Base(marker') = Base(marker) /\ BaseSnap(marker') = BaseSnap(marker)
       /\ Kept(marker') = Kept(marker)
  <2>1. marker[m].state # "COMPLETE" /\ marker'[m].state # "COMPLETE"
    BY <1>5 DEF r, Effect
  <2> QED  BY <1>1, <1>4, <2>1, SameBase
<1>15. SessionOK(step, sess[w], marker', owner', graph, attempt)
  <2>1. ShapeOK(step, sess[w], attempt) /\ CleanupOK(step, sess[w], marker', attempt)
    BY <1>1, NotNoSession DEF SessionOK, ShapeOK, CleanupOK, Unclaimed
  <2>2. HolderOK(step, sess[w], marker', owner')
    BY <1>5, <1>13 DEF HolderOK, r
  <2>3. PhaseOK(step, sess[w], owner', graph, Base(marker'))
    BY <1>14 DEF PhaseOK
  <2> QED  BY <2>1, <2>2, <2>3 DEF SessionOK
<1>16. GraphOK(marker', owner', graph, snap)
  <2>1. Reverts(m, marker', graph, snap)
    BY <1>13, <1>14 DEF Reverts
  <2>2. marker'[m].state \in Effect
    BY <1>5 DEF r
  <2> QED  BY <1>0, <2>1, <2>2 DEF GraphOK, Effect
<1>17. marker'[m] \in Markers /\ RowOK(marker'[m], m, attempt)
  BY <1>5, <1>9 DEF r
<1> QED  BY <1>1, <1>4, <1>6, <1>7, <1>8, <1>10, <1>11, <1>12, <1>15, <1>16, <1>17, MarkerStep

LEMMA SnapshotDoneStep ==
  ASSUME IInv, NEW w \in Workers, SnapshotDone(w)
  PROVE  IInv'
<1> DEFINE m == sess[w].m
           sid == sess[w].sid
<1>0. /\ pc[w] = "snapshotting" /\ pc[w] # "idle" /\ pc[w] \in InFence
      /\ \A o \in Present : <<o, graph[o]>> \in snap[sid]
      /\ marker' = [marker EXCEPT ![m].state = "PENDING"]
      /\ fence' = None /\ Goto(w, "open") /\ sess' = sess
      /\ UNCHANGED <<owner, graph, snap, attempt, faults>>
      /\ "open" \in Steps /\ "open" \notin InFence /\ "open" \in Owning /\ "PENDING" \in Effect
  BY DEF SnapshotDone, Outside, Steps, InFence, Owning, Effect
<1>1. m \in MarkerIds /\ SessionOK(pc[w], sess[w], marker, owner, graph, attempt)
  BY <1>0, LiveSessionOK
<1>2. /\ Holds(sess[w], owner) /\ owner.m = m /\ fence = w
      /\ SidOf(marker, m) = sid
  BY <1>0, FencedHolds
<1>3. marker[m].state = "SNAPSHOTTING"
  BY <1>0, <1>1, <1>2 DEF SessionOK, HolderOK, Owning
<1>4. graph = Base(marker) /\ snap[sid] \subseteq BaseSnap(marker)
  BY <1>1, <1>2, <1>3 DEF IInv, GraphOK, Effect
<1>5. \A o \in Objects : graph[o] = IF o \in Kept(marker) THEN "clean" ELSE "absent"
  BY <1>4 DEF Base
<1>6. BaseSnap(marker) \subseteq snap[sid]
  <2> SUFFICES ASSUME NEW o \in Kept(marker)
               PROVE  <<o, "clean">> \in snap[sid]
    BY DEF BaseSnap
  <2>1. o \in Objects
    BY DEF Kept, SealedIn, Objects
  <2>2. o \in Present /\ graph[o] = "clean"
    BY <1>5, <2>1 DEF Present
  <2> QED  BY <1>0, <2>2
<1>7. Reverts(m, marker, graph, snap)
  <2>1. m[1] \in Objects
    BY <1>1, Ids DEF Objects
  <2> QED  BY <1>2, <1>4, <1>5, <1>6, <2>1 DEF Reverts
<1>8. FenceMove(w)
  BY <1>0, <1>2, Typed, GuardAssumption DEF FenceMove, Goto, IInv
<1> QED  BY <1>0, <1>2, <1>3, <1>4, <1>7, <1>8, OwnerMovesOn

LEMMA RollbackClaimStep ==
  ASSUME IInv, NEW w \in Workers, RollbackClaim(w)
  PROVE  IInv'
<1> DEFINE m == sess[w].m
<1>0. /\ pc[w] = "rollback" /\ pc[w] # "idle" /\ pc[w] \notin InFence /\ pc[w] \in Owning
      /\ fence = None /\ fence' = fence /\ sess' = sess
      /\ UNCHANGED <<owner, graph, snap, attempt, faults>>
      /\ "rolling" \in Steps /\ "rolling" \notin InFence /\ "rolling" \in Owning
      /\ "ROLLING_BACK" \in Effect
      /\ "rollbackRead" \in Steps /\ "rollbackRead" \notin InFence
  BY DEF RollbackClaim, LockFree, Outside, Steps, InFence, Owning, Effect
<1>1. CASE /\ Owned(w, {"PENDING"})
           /\ marker' = [marker EXCEPT ![m].state = "ROLLING_BACK"]
           /\ Goto(w, "rolling")
  <2>1. /\ Holds(sess[w], owner) /\ owner.m = m /\ marker[m].state = "PENDING"
        /\ SidOf(marker, m) = sess[w].sid
    BY <1>0, <1>1, OwnedHolds
  <2>2. Reverts(m, marker, graph, snap)
    BY <1>0, <2>1, HolderReverts
  <2>3. FenceMove(w)
    BY <1>0, <1>1, OutsideFence
  <2> QED  BY <1>0, <1>1, <2>1, <2>2, <2>3, OwnerMovesOn
<1>2. CASE Goto(w, "rollbackRead") /\ UNCHANGED marker
  <2>1. sess[w] \in Sessions /\ SessionOK(pc[w], sess[w], marker, owner, graph, attempt)
    BY <1>0, LiveSessionOK
  <2>2. SessionOK("rollbackRead", sess[w], marker, owner, graph, attempt)
    <3>1. ShapeOK("rollbackRead", sess[w], attempt) /\ CleanupOK("rollbackRead", sess[w], marker, attempt)
      BY <1>0, <2>1, NotNoSession DEF SessionOK, ShapeOK, CleanupOK, Unclaimed
    <3>2. HolderOK("rollbackRead", sess[w], marker, owner)
      BY <1>0, <2>1 DEF SessionOK, HolderOK, Owning
    <3>3. PhaseOK("rollbackRead", sess[w], owner, graph, Base(marker))
      BY DEF PhaseOK
    <3> QED  BY <3>1, <3>2, <3>3 DEF SessionOK
  <2>3. FenceMove(w) /\ fence' # w
    BY <1>0, <1>2, OutsideFence
  <2>4. sess' = [sess EXCEPT ![w] = sess[w]] /\ UNCHANGED <<Database, attempt, faults>>
    BY <1>0, <1>2, Typed DEF IInv, Database
  <2> QED  BY <1>0, <1>2, <2>1, <2>2, <2>3, <2>4, GoesOn
<1> QED  BY <1>1, <1>2 DEF RollbackClaim

\* The owner settles its attempt: the marker becomes final and the generation
\* is free, with exactly what the markers now promise in it.
LEMMA Settles ==
  ASSUME IInv, NEW w \in Workers, pc[w] # "idle", pc[w] \in Owning,
         Holds(sess[w], owner), Moves(w), FenceMove(w), SameMarker(w), fence' = None,
         Rewrites(sess[w].m), marker'[sess[w].m] \in Markers,
         marker'[sess[w].m].state \in Terminal,
         marker'[sess[w].m].att = marker[sess[w].m].att,
         owner' = NoOwner, UNCHANGED <<graph, snap, attempt, faults>>,
         sess'[w].tok \in {None, sess[w].tok},
         ShapeOK(pc'[w], sess'[w], attempt),
         CleanupOK(pc'[w], sess'[w], marker', attempt),
         graph = Base(marker')
  PROVE  IInv'
<1> DEFINE m == sess[w].m
<1>1. m \in MarkerIds /\ m \in Occupied
  BY LiveSessionOK
<1>2. marker[m].state \in Effect /\ owner.m = m
  BY HolderReverts
<1>3. OwnerFollows(m)
  BY <1>2 DEF OwnerFollows, Unresolved, Terminal
<1>4. RowOK(marker'[m], m, attempt)
  <2>1. RowOK(marker[m], m, attempt)
    BY <1>1 DEF IInv, ChainOK
  <2> QED  BY <1>2, <2>1 DEF RowOK, Effect, Terminal
<1>5. SnapshotsKept(m)
  <2>1. \A k \in Attempts : Stale(marker[m], m, k, attempt) => Stale(marker'[m], m, k, attempt)
    BY <1>2 DEF Stale, Terminal, Effect
  <2> QED  BY <2>1 DEF SnapshotsKept, Terminal
<1>6. \A v \in Workers \ {w} : ~ Holds(sess[v], owner')
  BY NobodyHolds
<1>7. TokensDiffer'
  BY TokensKept DEF IInv
<1>8. SessionOK(pc'[w], sess'[w], marker', owner', graph, attempt)
  BY Tokenless, NobodyHolds
<1>9. GraphOK(marker', owner', graph, snap)
  <2>1. \A u \in MarkerIds : owner'.m # u
    BY Ids DEF NoOwner
  <2> QED  BY <2>1 DEF GraphOK
<1> QED  BY <1>1, <1>3, <1>4, <1>5, <1>6, <1>7, <1>8, <1>9, MarkerStep

\* What sealing marker m does to the promised generation.
LEMMA SealBase ==
  ASSUME NEW mk, NEW nk, NEW m \in MarkerIds, m[1] \in Episodes,
         \A u \in MarkerIds \ {m} : nk[u] = mk[u],
         mk[m].state # "COMPLETE", nk[m].state = "COMPLETE", nk[m].ok
  PROVE  SealedIn(nk) = SealedIn(mk) \cup {m[1]}
BY DEF SealedIn

LEMMA RollbackDoneStep ==
  ASSUME IInv, NEW w \in Workers, RollbackDone(w)
  PROVE  IInv'
<1> DEFINE m == sess[w].m
<1>0. /\ pc[w] = "restoring" /\ pc[w] # "idle" /\ pc[w] \in InFence /\ pc[w] \in Owning
      /\ PreexistingUnchanged(w) /\ TypeOK
      /\ marker' = [marker EXCEPT ![m].state = "RECOVERED_AMBIGUOUS", ![m].expired = FALSE]
      /\ owner' = NoOwner /\ fence' = None /\ Goto(w, "cleanup") /\ sess' = sess
      /\ UNCHANGED <<graph, snap, attempt, faults>>
      /\ "cleanup" \in Steps /\ "cleanup" \notin InFence
  BY DEF RollbackDone, Outside, InFence, Owning, Steps, IInv
<1>1. /\ sess[w] \in Sessions /\ m \in MarkerIds /\ sess[w].sid[1] = m[1]
      /\ SessionOK(pc[w], sess[w], marker, owner, graph, attempt)
  BY <1>0, LiveSessionOK
<1>2. Holds(sess[w], owner) /\ fence = w /\ SidOf(marker, m) = sess[w].sid
  BY <1>0, FencedHolds
<1>3. marker[m].state \in Effect
  BY <1>0, <1>2, HolderReverts
<1>4. marker \in [MarkerIds -> Markers] /\ graph \in [Objects -> Props]
  BY <1>0, Typed
<1>5. Rewrites(m) /\ \A u \in MarkerIds \ {m} : marker'[u] = marker[u]
  BY <1>0, <1>1, <1>4 DEF Rewrites
<1>6. /\ marker'[m] \in Markers /\ marker'[m].state = "RECOVERED_AMBIGUOUS"
      /\ marker'[m].att = marker[m].att
  BY <1>0, <1>1, <1>4 DEF Markers, States
<1>7. Moves(w) /\ pc'[w] = "cleanup" /\ sess'[w] = sess[w]
  BY <1>0, GotoMoves
<1>8. SameMarker(w) /\ FenceMove(w)
  BY <1>0, <1>2, <1>7, GuardAssumption DEF SameMarker, FenceMove
<1>9. ShapeOK("cleanup", sess[w], attempt) /\ CleanupOK("cleanup", sess[w], marker', attempt)
  <2>1. ShapeOK("cleanup", sess[w], attempt)
    BY <1>0, <1>1, NotNoSession DEF SessionOK, ShapeOK, Unclaimed
  <2>2. marker'[m].att = sess[w].sid[2]
    BY <1>2, <1>6 DEF SidOf
  <2> QED  BY <1>6, <2>1, <2>2 DEF CleanupOK, Stale, Terminal
<1>10. graph = Base(marker')
  <2>1. Base(marker') = Base(marker)
    <3>1. marker[m].state # "COMPLETE" /\ marker'[m].state # "COMPLETE"
      BY <1>3, <1>6 DEF Effect
    <3> QED  BY <1>1, <1>5, <3>1, SameBase
  <2>2. \A o \in Objects \ {m[1]} : graph[o] = Base(marker)[o]
    BY <1>0, <1>2, UnchangedIsBase
  <2>3. graph[m[1]] = "absent" /\ m[1] \notin Kept(marker)
    BY <1>0, <1>1, <1>2, <1>3, NotSealedYet DEF SessionOK, PhaseOK, Effect, Unresolved
  <2>4. \A o \in Objects : graph[o] = Base(marker)[o]
    BY <2>2, <2>3 DEF Base
  <2> QED  BY <1>4, <2>1, <2>4 DEF Base
<1> QED  BY <1>0, <1>2, <1>5, <1>6, <1>7, <1>8, <1>9, <1>10, Settles DEF Terminal

\* What the seal writes in the marker.
SealedRow(r, b) == [r EXCEPT !.state = "COMPLETE", !.ok = b, !.tok = None, !.expired = FALSE]

LEMMA SealedRowOK ==
  ASSUME NEW r \in Markers, NEW b \in BOOLEAN
  PROVE  /\ SealedRow(r, b) \in Markers
         /\ SealedRow(r, b).state = "COMPLETE" /\ SealedRow(r, b).att = r.att
         /\ SealedRow(r, b).ok = b
<1>1. SealedRow(r, b) \in Markers
  BY DEF SealedRow, Markers, States
<1>2. SealedRow(r, b).state = "COMPLETE" /\ SealedRow(r, b).att = r.att
  BY DEF SealedRow, Markers
<1>3. SealedRow(r, b).ok = b
  BY DEF SealedRow, Markers
<1> QED  BY <1>1, <1>2, <1>3

\* The three steps from which `complete' is called, and what it finds in the
\* graph when the session owns its marker.
LEMMA CompleteSettles ==
  ASSUME IInv, NEW w \in Workers, pc[w] \in {"open", "prepared", "written"}, fence = None,
         Owned(w, {"PENDING"}), owner' = NoOwner, UNCHANGED <<graph, snap, attempt, faults>>,
         marker' = [u \in MarkerIds |-> IF u = sess[w].m THEN marker'[u] ELSE marker[u]],
         marker'[sess[w].m] = SealedRow(marker[sess[w].m], pc[w] # "open"),
         Moves(w), FenceMove(w), SameMarker(w), fence' = None,
         sess'[w].tok \in {None, sess[w].tok},
         ShapeOK(pc'[w], sess'[w], attempt),
         pc'[w] = "cleanup" => sess'[w] = sess[w]
  PROVE  IInv'
<1> DEFINE m == sess[w].m
<1>0. pc[w] # "idle" /\ pc[w] \in Owning /\ TypeOK
  BY DEF Owning, IInv
<1>1. m \in MarkerIds /\ m[1] \in Episodes /\ SessionOK(pc[w], sess[w], marker, owner, graph, attempt)
  BY <1>0, LiveSessionOK, Ids
<1>2. Holds(sess[w], owner) /\ SidOf(marker, m) = sess[w].sid /\ marker[m].state = "PENDING"
  BY <1>0, OwnedHolds
<1>3. marker \in [MarkerIds -> Markers] /\ graph \in [Objects -> Props]
  BY <1>0, Typed
<1>4. Rewrites(m) /\ \A u \in MarkerIds \ {m} : marker'[u] = marker[u]
  BY <1>1, <1>3 DEF Rewrites
<1> DEFINE b == pc[w] # "open"
<1>5. marker[m] \in Markers /\ b \in BOOLEAN /\ marker'[m] = SealedRow(marker[m], b)
  BY <1>1, <1>3
<1> HIDE DEF b
<1>6. marker'[m].ok = b
  BY <1>5, SealedRowOK
<1>7. marker'[m] \in Markers /\ marker'[m].state = "COMPLETE" /\ marker'[m].att = marker[m].att
  BY <1>5, SealedRowOK
<1>8. CleanupOK(pc'[w], sess'[w], marker', attempt)
  <2> SUFFICES ASSUME pc'[w] = "cleanup"
               PROVE  Stale(marker'[m], m, sess[w].sid[2], attempt)
    BY DEF CleanupOK
  <2>1. marker'[m].att = sess[w].sid[2]
    BY <1>2, <1>7 DEF SidOf
  <2> QED  BY <1>7, <2>1 DEF Stale, Terminal
<1>9. graph = Base(marker')
  <2>1. CASE pc[w] = "open"
    <3>1. graph = Base(marker)
      BY <1>1, <1>2, <2>1 DEF SessionOK, PhaseOK
    <3>2. marker[m].state # "COMPLETE" /\ ~ marker'[m].ok
      BY <1>2, <1>6, <2>1 DEF b
    <3> QED  BY <1>1, <1>4, <3>1, <3>2, SameBase
  <2>2. CASE pc[w] # "open"
    <3>1. \A o \in Objects : graph[o] = IF o = m[1] THEN "clean" ELSE Base(marker)[o]
      BY <1>1, <1>2, <2>2 DEF SessionOK, PhaseOK
    <3>2. SealedIn(marker') = SealedIn(marker) \cup {m[1]}
      <4>1. marker[m].state # "COMPLETE" /\ marker'[m].ok
        BY <1>2, <1>6, <2>2 DEF b
      <4>2. marker'[m].state = "COMPLETE"
        BY <1>7
      <4> QED  BY <1>1, <1>4, <4>1, <4>2, SealBase
    <3>3. \A o \in Objects : graph[o] = Base(marker')[o]
      BY <3>1, <3>2 DEF Base, Kept
    <3> QED  BY <1>3, <3>3 DEF Base
  <2> QED  BY <2>1, <2>2
<1> QED  BY <1>0, <1>2, <1>4, <1>7, <1>8, <1>9, Settles DEF Terminal

LEMMA CompleteStep ==
  ASSUME IInv, NEW w \in Workers, Complete(w)
  PROVE  IInv'
<1> DEFINE m == sess[w].m
           seal == /\ marker' = [marker EXCEPT ![m].state = "COMPLETE", ![m].ok = pc[w] # "open",
                                               ![m].tok = None, ![m].expired = FALSE]
                   /\ owner' = NoOwner
<1>0. /\ pc[w] \in {"open", "prepared", "written"} /\ pc[w] # "idle" /\ pc[w] \notin InFence
      /\ fence = None /\ UNCHANGED <<graph, snap, attempt, faults>> /\ TypeOK
      /\ faults' \in 0 .. MaxFault /\ w # None
      /\ "cleanup" \in Steps /\ "cleanup" \notin InFence
      /\ "rollback" \in Steps /\ "rollback" \notin InFence
  BY Typed, GuardAssumption DEF Complete, LockFree, Outside, InFence, Steps, IInv
<1>1. sess[w] \in Sessions /\ SessionOK(pc[w], sess[w], marker, owner, graph, attempt)
  BY <1>0, LiveSessionOK
<1>2. \A p \in {"cleanup", "rollback"} : ShapeOK(p, sess[w], attempt)
  BY <1>0, <1>1, NotNoSession DEF SessionOK, ShapeOK, Unclaimed
<1>3. ASSUME seal
      PROVE  /\ marker' = [u \in MarkerIds |-> IF u = m THEN marker'[u] ELSE marker[u]]
             /\ marker'[m] = SealedRow(marker[m], pc[w] # "open")
             /\ owner' = NoOwner
  <2>1. marker \in [MarkerIds -> Markers] /\ m \in MarkerIds
    BY <1>0, <1>1, Typed DEF Sessions
  <2>2. marker' = [marker EXCEPT ![m] = SealedRow(marker[m], pc[w] # "open")]
    BY <1>3, <2>1, Zenon DEF SealedRow
  <2> QED  BY <1>3, <2>1, <2>2, Zenon
<1> HIDE DEF seal
<1>4. ASSUME Owned(w, {"PENDING"}), seal, NEW p \in {"cleanup", "rollback"}, Goto(w, p),
             UNCHANGED <<sess, fence>>
      PROVE  IInv'
  <2>1. Moves(w) /\ pc'[w] = p /\ sess'[w] = sess[w]
    BY <1>0, <1>4, GotoMoves
  <2>2. SameMarker(w) /\ FenceMove(w)
    BY <1>0, <1>4, <2>1, OutsideFence DEF SameMarker
  <2> QED  BY <1>0, <1>2, <1>4, <1>3, <2>1, <2>2, CompleteSettles
<1>5. ASSUME Owned(w, {"PENDING"}), seal, End(w)
      PROVE  IInv'
  <2>1. /\ Moves(w) /\ FenceMove(w) /\ SameMarker(w)
        /\ pc'[w] = "idle" /\ sess'[w] = NoSession
    BY <1>5, EndMoves DEF IInv
  <2>2. fence' = None
    BY <1>0, <1>5 DEF End
  <2>3. ShapeOK("idle", NoSession, attempt) /\ NoSession.tok = None
    BY DEF ShapeOK, NoSession, Unclaimed
  <2> QED  BY <1>0, <1>5, <1>3, <2>1, <2>2, <2>3, CompleteSettles
<1>6. ASSUME UNCHANGED <<marker, owner>>, End(w)
      PROVE  IInv'
  BY <1>0, <1>6, EndStep DEF Database
<1>7. ASSUME UNCHANGED <<marker, owner>>, Goto(w, "rollback"), UNCHANGED <<sess, fence>>
      PROVE  IInv'
  <2>1. fence' = (IF fence = w THEN None ELSE fence)
    BY <1>0, <1>7
  <2> QED  BY <1>0, <1>7, <2>1, TurnsBack DEF Database
<1>8. CASE pc[w] = "open"
  BY <1>4, <1>5, <1>6, <1>8 DEF Complete, seal
<1>9. CASE pc[w] # "open"
  BY <1>4, <1>7, <1>9 DEF Complete, seal
<1> QED  BY <1>8, <1>9

----------------------------------------------------------------------------
(* The environment, and every step *)

\* Only the lease of one marker runs out: all that the invariant reads of it
\* stays.
LEMMA ExpireStep ==
  ASSUME IInv, NEW m \in MarkerIds, Expire(m)
  PROVE  IInv'
<1>0. /\ marker' = [marker EXCEPT ![m].expired = TRUE] /\ marker[m].state \in Unresolved
      /\ UNCHANGED <<owner, graph, snap, fence, pc, sess, attempt>>
      /\ TypeOK /\ marker \in [MarkerIds -> Markers]
  BY Typed DEF Expire, IInv
<1>1. \A u \in MarkerIds :
         /\ marker'[u].state = marker[u].state /\ marker'[u].att = marker[u].att
         /\ marker'[u].tok = marker[u].tok
         /\ marker'[u].ok <=> marker[u].ok
         /\ u # m => marker'[u] = marker[u]
  BY <1>0 DEF Markers
<1>2. marker' \in [MarkerIds -> Markers]
  BY <1>0 DEF Markers
<1>3. faults' \in 0 .. MaxFault
  BY Typed, GuardAssumption DEF Expire, IInv
<1>4. TypeOK'
  BY <1>0, <1>2, <1>3 DEF TypeOK
<1>5. /\ SealedIn(marker') = SealedIn(marker) /\ Kept(marker') = Kept(marker)
      /\ Base(marker') = Base(marker) /\ BaseSnap(marker') = BaseSnap(marker)
  <2>1. SealedIn(marker') = SealedIn(marker)
    BY <1>1 DEF SealedIn
  <2> QED  BY <2>1 DEF Kept, Base, BaseSnap
<1>6. \A u \in MarkerIds : SidOf(marker', u) = SidOf(marker, u)
  BY <1>1 DEF SidOf
<1>7. OneOwner'
  BY <1>0, <1>1 DEF OneOwner, IInv
<1>8. OwnerOK'
  <2> SUFFICES ASSUME owner # NoOwner
               PROVE  marker'[owner.m].state \in Unresolved /\ marker'[owner.m].tok = owner.tok
    BY <1>0 DEF OwnerOK
  <2>1. owner.m \in MarkerIds /\ marker[owner.m].state \in Unresolved /\ marker[owner.m].tok = owner.tok
    BY OwnerMarker DEF IInv
  <2> QED  BY <1>1, <2>1
<1>9. FenceOK' /\ TokensDiffer'
  BY <1>0 DEF IInv, FenceOK, TokensDiffer
<1>10. SessionsOK'
  <2> SUFFICES ASSUME NEW v \in Workers
               PROVE  SessionOK(pc[v], sess[v], marker', owner, graph, attempt)
    BY <1>0 DEF SessionsOK
  <2>1. SessionOK(pc[v], sess[v], marker, owner, graph, attempt)
    BY DEF IInv, SessionsOK
  <2>2. CASE pc[v] = "idle"
    <3>1. sess[v] = NoSession
      BY <2>1, <2>2 DEF SessionOK, ShapeOK
    <3> QED  BY <2>2, <3>1, IdleOK
  <2>3. CASE pc[v] # "idle"
    <3>1. sess[v].m \in MarkerIds
      BY <2>3, LiveSessionOK
    <3>2. CleanupOK(pc[v], sess[v], marker', attempt)
      BY <1>1, <2>1, <3>1 DEF SessionOK, CleanupOK, Stale
    <3>3. HolderOK(pc[v], sess[v], marker', owner)
      BY <1>1, <1>6, <2>1, <3>1 DEF SessionOK, HolderOK
    <3>4. PhaseOK(pc[v], sess[v], owner, graph, Base(marker'))
      BY <1>5, <2>1 DEF SessionOK
    <3> QED  BY <2>1, <3>2, <3>3, <3>4 DEF SessionOK
  <2> QED  BY <2>2, <2>3
<1>11. ChainOK(marker', Occupied', attempt)
  <2>1. Occupied' = Occupied
    BY <1>0 DEF Occupied
  <2>2. \A u \in MarkerIds : RowOK(marker'[u], u, attempt)
    <3> SUFFICES ASSUME NEW u \in MarkerIds
                 PROVE  RowOK(marker'[u], u, attempt)
      OBVIOUS
    <3>1. RowOK(marker[u], u, attempt)
      BY DEF IInv, ChainOK
    <3>2. CASE u = m
      BY <1>0, <1>1, <3>1, <3>2 DEF RowOK, Unresolved
    <3>3. CASE u # m
      BY <1>1, <3>1, <3>3
    <3> QED  BY <3>2, <3>3
  <2>3. \A u \in MarkerIds : Spent(marker'[u]) <=> Spent(marker[u])
    BY <1>1 DEF Spent
  <2>4. \A u \in MarkerIds : Reached(u, marker', Occupied) <=> Reached(u, marker, Occupied)
    BY <1>1 DEF Reached
  <2> QED  BY <1>1, <2>1, <2>2, <2>3, <2>4 DEF IInv, ChainOK
<1>12. SnapOwned(marker', snap)
  BY <1>1 DEF IInv, SnapOwned
<1>13. GraphOK(marker', owner, graph, snap)
  <2>1. \A u \in MarkerIds : Reverts(u, marker, graph, snap) => Reverts(u, marker', graph, snap)
    BY <1>5, <1>6 DEF Reverts
  <2> QED  BY <1>1, <1>5, <1>6, <2>1 DEF IInv, GraphOK
<1> QED  BY <1>0, <1>4, <1>7, <1>8, <1>9, <1>10, <1>11, <1>12, <1>13 DEF IInv

\* The control plane moves on only when no session of the episode is left.
LEMMA NextAttemptStep ==
  ASSUME IInv, NEW e \in Episodes, NextAttempt(e)
  PROVE  IInv'
<1>0. /\ attempt[e] < MaxAttempt /\ ~ LiveSession(e)
      /\ attempt' = [attempt EXCEPT ![e] = @ + 1]
      /\ UNCHANGED <<marker, owner, graph, snap, fence, pc, sess, faults>>
      /\ TypeOK /\ attempt \in [Episodes -> Attempts]
  BY Typed DEF NextAttempt, Database, IInv
<1>1. /\ attempt' \in [Episodes -> Attempts]
      /\ \A x \in Episodes : x # e => attempt'[x] = attempt[x]
      /\ \A x \in Episodes : attempt[x] <= attempt'[x]
  BY <1>0, GuardAssumption DEF Attempts
<1>2. TypeOK'
  BY <1>0, <1>1 DEF TypeOK
<1>3. OneOwner' /\ OwnerOK' /\ FenceOK' /\ TokensDiffer'
  BY <1>0 DEF IInv, OneOwner, OwnerOK, FenceOK, TokensDiffer
<1>4. SessionsOK'
  <2> SUFFICES ASSUME NEW v \in Workers
               PROVE  SessionOK(pc[v], sess[v], marker, owner, graph, attempt')
    BY <1>0 DEF SessionsOK
  <2>1. SessionOK(pc[v], sess[v], marker, owner, graph, attempt)
    BY DEF IInv, SessionsOK
  <2>2. CASE pc[v] = "idle"
    <3>1. sess[v] = NoSession
      BY <2>1, <2>2 DEF SessionOK, ShapeOK
    <3> QED  BY <2>2, <3>1, IdleOK
  <2>3. CASE pc[v] # "idle"
    <3>1. sess[v].m \in MarkerIds /\ sess[v].m[1] \in Episodes
      BY <2>3, LiveSessionOK, Ids
    <3>2. attempt'[sess[v].m[1]] = attempt[sess[v].m[1]]
      BY <1>0, <1>1, <2>3, <3>1 DEF LiveSession
    <3>3. Number(sess[v].m, attempt') = Number(sess[v].m, attempt)
      BY <3>2 DEF Number
    <3>4. ShapeOK(pc[v], sess[v], attempt')
      BY <2>1, <3>3 DEF SessionOK, ShapeOK
    <3>5. CleanupOK(pc[v], sess[v], marker, attempt')
      BY <2>1, <3>2 DEF SessionOK, CleanupOK, Stale
    <3> QED  BY <2>1, <3>4, <3>5 DEF SessionOK
  <2> QED  BY <2>2, <2>3
<1>5. ChainOK(marker, Occupied', attempt')
  <2>1. Occupied' = Occupied
    BY <1>0 DEF Occupied
  <2>2. ASSUME NEW u \in MarkerIds
        PROVE  RowOK(marker[u], u, attempt') /\ (u \in Occupied => u[2] <= attempt'[u[1]])
    <3>1. /\ u[1] \in Episodes /\ u[2] \in Nat /\ RowOK(marker[u], u, attempt)
          /\ u \in Occupied => u[2] <= attempt[u[1]]
      BY Ids DEF IInv, ChainOK
    <3>2. attempt[u[1]] \in Nat /\ attempt'[u[1]] \in Nat /\ attempt[u[1]] <= attempt'[u[1]]
      BY <1>0, <1>1, <3>1, GuardAssumption DEF Attempts
    <3> QED  BY <3>1, <3>2 DEF RowOK
  <2> QED  BY <2>1, <2>2 DEF IInv, ChainOK
<1> QED  BY <1>0, <1>2, <1>3, <1>4, <1>5 DEF IInv

LEMMA InitInv == Init => IInv
<1> SUFFICES ASSUME Init PROVE IInv
  OBVIOUS
<1>0. NoMarker \in Markers
  BY GuardAssumption DEF NoMarker, Markers, States
<1>1. TypeOK
  BY <1>0, GuardAssumption DEF Init, TypeOK, Steps, Attempts, Props, Objects
<1>2. OneOwner /\ OwnerOK /\ FenceOK /\ TokensDiffer
  BY GuardAssumption DEF Init, OneOwner, OwnerOK, FenceOK, TokensDiffer, NoMarker, NoSession,
     Unresolved, InFence
<1>3. SessionsOK
  BY IdleOK DEF Init, SessionsOK
<1>4. Occupied = {}
  BY DEF Init, Occupied
<1>5. \A m \in MarkerIds : marker[m] = NoMarker
  BY DEF Init
<1>6. ChainOK(marker, Occupied, attempt)
  <2>1. NoMarker.state = "NONE"
    BY DEF NoMarker
  <2> QED  BY <1>4, <1>5, <2>1 DEF ChainOK, RowOK, Reached
<1>7. SnapOwned(marker, snap)
  BY DEF Init, SnapOwned
<1>8. GraphOK(marker, owner, graph, snap)
  <2>1. SealedIn(marker) = {}
    BY <1>5 DEF SealedIn, NoMarker
  <2>2. graph = Base(marker)
    BY <2>1 DEF Init, Base, Kept
  <2>3. \A m \in MarkerIds : owner.m # m
    BY Ids DEF Init, NoOwner
  <2> QED  BY <2>2, <2>3 DEF GraphOK
<1> QED  BY <1>1, <1>2, <1>3, <1>6, <1>7, <1>8 DEF IInv

\* What a session does next keeps the invariant, one lemma for each action.
LEMMA StepInv ==
  ASSUME IInv, NEW w \in Workers, Step(w)
  PROVE  IInv'
<1>1. CASE ReadTerminal(w) \/ ClaimFresh(w) \/ ClaimRetained(w) \/ ClaimRefused(w)
  BY <1>1, ReadTerminalStep, ClaimFreshStep, ClaimRetainedStep, ClaimRefusedStep
<1>2. CASE TakeOver(w) \/ EnterFence(w) \/ FenceRefused(w)
  BY <1>2, TakeOverStep, EnterFenceStep, FenceRefusedStep
<1>3. CASE DiscardPage(w) \/ DiscardMarker(w) \/ SnapshotPage(w) \/ SnapshotDone(w)
  BY <1>3, DiscardPageStep, DiscardMarkerStep, SnapshotPageStep, SnapshotDoneStep
<1>4. CASE Prepare(w) \/ Persist(w) \/ RestorePage(w) \/ PersistDone(w) \/ Complete(w)
  BY <1>4, PrepareStep, PersistStep, RestorePageStep, PersistDoneStep, CompleteStep
<1>5. CASE RollbackClaim(w) \/ RollbackRead(w) \/ DeleteNew(w)
  BY <1>5, RollbackClaimStep, RollbackReadStep, DeleteNewStep
<1>6. CASE RollbackDone(w) \/ CleanupPage(w) \/ CleanupDone(w)
  BY <1>6, RollbackDoneStep, CleanupPageStep, CleanupDoneStep
<1> QED  BY <1>1, <1>2, <1>3, <1>4, <1>5, <1>6 DEF Step

LEMMA NextInv == IInv /\ [Next]_vars => IInv'
<1> SUFFICES ASSUME IInv, [Next]_vars PROVE IInv'
  OBVIOUS
<1>1. ASSUME NEW w \in Workers, NEW e \in Episodes, Start(w, e)
      PROVE  IInv'
  BY <1>1, StartStep
<1>2. ASSUME NEW w \in Workers, Step(w) \/ OwnedRecovery(w) \/ Fail(w) \/ Crash(w)
      PROVE  IInv'
  BY <1>2, StepInv, OwnedRecoveryStep, FailStep, CrashStep
<1>3. ASSUME NEW m \in MarkerIds, Expire(m)
      PROVE  IInv'
  BY <1>3, ExpireStep
<1>4. ASSUME NEW e \in Episodes, NextAttempt(e)
      PROVE  IInv'
  BY <1>4, NextAttemptStep
<1>5. CASE UNCHANGED vars
  BY <1>5 DEF vars, IInv, TypeOK, OneOwner, OwnerOK, FenceOK, TokensDiffer, SessionsOK, Occupied
<1> QED  BY <1>1, <1>2, <1>3, <1>4, <1>5 DEF Next

LEMMA Invariance == Spec => []IInv
<1>1. Init => IInv
  BY InitInv
<1>2. IInv /\ [Next]_vars => IInv'
  BY NextInv
<1> QED  BY <1>1, <1>2, PTL DEF Spec
----------------------------------------------------------------------------
(* The invariants *)

\* Every variable keeps its type through all the steps of neo4j_guard.py: a
\* claim always finds an unused uuid4 token, and attempts stay within bounds.
THEOREM TypeCorrect == Spec => []TypeOK
<1>1. IInv => TypeOK
  BY DEF IInv
<1> QED  BY <1>1, Invariance, PTL

\* One attempt at most is unresolved in the generation, the generation node names
\* it, and only the holder of its token is behind the fence, whatever sessions
\* die, stall, are taken over or come back (_owned_match, _claim_marker,
\* _take_over).
THEOREM OneOwnerAtATime == Spec => []OneOwner
<1>1. IInv => OneOwner
  BY DEF IInv
<1> QED  BY <1>1, Invariance, PTL

LEMMA InvRollback == IInv => RollbackPossible
<1> SUFFICES ASSUME IInv, NEW m \in MarkerIds, Revertible(m)
             PROVE  /\ \A x \in snap[SnapshotOf(m)] : graph[x[1]] # "absent" /\ x[2] = "clean"
                    /\ \A o \in Existing : <<o, "clean">> \in snap[SnapshotOf(m)]
  BY DEF RollbackPossible
<1>1. owner.m = m /\ marker[m].state \in Effect /\ marker[m].state \in Unresolved
  BY DEF Revertible, Effect, Unresolved
<1>2. Reverts(m, marker, graph, snap)
  BY <1>1 DEF IInv, GraphOK
<1>3. snap[SnapshotOf(m)] = Kept(marker) \X {"clean"}
  BY <1>2 DEF Reverts, BaseSnap, SidOf, SnapshotOf
<1>4. \A o \in Kept(marker) : graph[o] # "absent"
  <2>1. m[1] \notin Kept(marker)
    BY <1>1, NotSealedYet
  <2>2. Kept(marker) \subseteq Objects
    BY DEF Kept, SealedIn, Objects
  <2> QED  BY <1>2, <2>1, <2>2 DEF Reverts
<1> QED  BY <1>3, <1>4 DEF Kept

\* As long as an attempt may be rolled back, its snapshot is one clean copy of
\* each object and all it names is still there: rollback_pending never meets an
\* object it cannot restore, and restores nobody's stray writes.
THEOREM RollbackStaysPossible == Spec => []RollbackPossible
BY InvRollback, Invariance, PTL
----------------------------------------------------------------------------
(* The refinement *)

\* What a reader may rely on is the sealed episodes on what was there.
LEMMA ReliableIsBase == IInv => Reliable = Base(marker)
<1> SUFFICES ASSUME IInv PROVE Reliable = Base(marker)
  OBVIOUS
<1>1. CASE \E m \in MarkerIds : Revertible(m)
  <2>1. PICK m \in MarkerIds : Revertible(m)
    BY <1>1
  <2>2. owner.m = m /\ marker[m].state \in Effect
    BY <2>1 DEF Revertible, Effect
  <2>3. snap[SnapshotOf(owner.m)] = Kept(marker) \X {"clean"}
    BY <2>2 DEF IInv, GraphOK, Reverts, BaseSnap, SidOf, SnapshotOf
  <2>4. ASSUME NEW o \in Objects
        PROVE  LET kept == {p \in Props : <<o, p>> \in snap[SnapshotOf(owner.m)]}
               IN (IF kept = {} THEN "absent" ELSE CHOOSE p \in kept : TRUE) = Base(marker)[o]
    <3> DEFINE kept == {p \in Props : <<o, p>> \in snap[SnapshotOf(owner.m)]}
    <3>1. CASE o \in Kept(marker)
      <4>1. kept = {"clean"}
        BY <2>3, <3>1 DEF Props
      <4> HIDE DEF kept
      <4>2. (CHOOSE p \in kept : TRUE) \in kept
        BY <4>1
      <4>3. (CHOOSE p \in kept : TRUE) = "clean" /\ kept # {}
        BY <4>1, <4>2
      <4>4. Base(marker)[o] = "clean"
        BY <3>1 DEF Base
      <4> QED  BY <4>3, <4>4 DEF kept
    <3>2. CASE o \notin Kept(marker)
      <4>1. kept = {}
        BY <2>3, <3>2
      <4>2. Base(marker)[o] = "absent"
        BY <3>2 DEF Base
      <4> QED  BY <4>1, <4>2
    <3> QED  BY <3>1, <3>2
  <2> QED  BY <1>1, <2>4 DEF Reliable, Base
<1>2. CASE ~ \E m \in MarkerIds : Revertible(m)
  <2>1. graph = Base(marker)
    <3>1. CASE owner = NoOwner
      BY <3>1 DEF IInv, GraphOK
    <3>2. CASE owner # NoOwner
      <4>1. owner.m \in MarkerIds
        BY <3>2, OwnerMarker DEF IInv
      <4>2. marker[owner.m].state \notin Effect
        BY <1>2, <4>1 DEF Revertible, Effect
      <4> QED  BY <4>1, <4>2 DEF IInv, GraphOK
    <3> QED  BY <3>1, <3>2
  <2> QED  BY <1>2, <2>1 DEF Reliable
<1> QED  BY <1>1, <1>2

\* A step that rewrites one marker, before and after unsealed, seals nothing.
LEMMA SealsNothing ==
  ASSUME NEW m \in MarkerIds, \A u \in MarkerIds \ {m} : marker'[u] = marker[u],
         marker[m].state # "COMPLETE", marker'[m].state # "COMPLETE"
  PROVE  SealedIn(marker') = SealedIn(marker)
BY SameBase

\* What the step of session w that changes marker m makes of it.
LEMMA ClaimSealsNothing ==
  ASSUME IInv, NEW w \in Workers, ClaimFresh(w)
  PROVE  SealedIn(marker') = SealedIn(marker)
<1> DEFINE m == sess[w].m
           r == [state |-> "SNAPSHOTTING", att |-> sess[w].att,
                 tok |-> FreshToken, expired |-> FALSE, ok |-> FALSE]
<1>0. pc[w] # "idle" /\ marker' = [marker EXCEPT ![m] = r] /\ marker[m].state = "NONE"
  BY DEF ClaimFresh, CanCreate
<1>1. r.state = "SNAPSHOTTING"
  OBVIOUS
<1> HIDE DEF r
<1>2. m \in MarkerIds /\ marker \in [MarkerIds -> Markers]
  BY <1>0, LiveSessionOK, Typed DEF IInv
<1>3. marker'[m] = r /\ \A u \in MarkerIds \ {m} : marker'[u] = marker[u]
  BY <1>0, <1>2
<1> QED  BY <1>0, <1>1, <1>2, <1>3, SealsNothing

LEMMA TakeOverSealsNothing ==
  ASSUME IInv, NEW w \in Workers, TakeOver(w)
  PROVE  SealedIn(marker') = SealedIn(marker)
<1> DEFINE m == sess[w].m
<1>0. /\ pc[w] # "idle" /\ pc[w] \in {"takeTerminal", "takeRecovering", "takeOwned"}
      /\ m \in MarkerIds /\ marker \in [MarkerIds -> Markers]
      /\ ShapeOK(pc[w], sess[w], attempt)
  BY LiveSessionOK, Typed DEF IInv, SessionOK, TakeOver
<1>1. CASE UNCHANGED marker
  BY <1>1
<1>2. CASE /\ Takeable(w)
           /\ marker' = [marker EXCEPT
                ![m].state = IF pc[w] = "takeOwned" THEN @ ELSE "RECOVERING",
                ![m].tok = FreshToken, ![m].expired = FALSE]
  <2>1. marker[m].state # "COMPLETE"
    BY <1>0, <1>2 DEF Takeable, ShapeOK, Effect
  <2>2. \A u \in MarkerIds \ {m} : marker'[u] = marker[u]
    BY <1>0, <1>2
  <2>3. marker'[m].state = IF pc[w] = "takeOwned" THEN marker[m].state ELSE "RECOVERING"
    BY <1>0, <1>2 DEF Markers
  <2> QED  BY <1>0, <2>1, <2>2, <2>3, SealsNothing
<1> QED  BY <1>1, <1>2 DEF TakeOver

LEMMA FencedSealsNothing ==
  ASSUME IInv, NEW w \in Workers, DiscardMarker(w) \/ SnapshotDone(w) \/ RollbackDone(w)
  PROVE  SealedIn(marker') = SealedIn(marker)
<1> DEFINE m == sess[w].m
<1>0. pc[w] \in {"discarding", "snapshotting", "restoring"} /\ pc[w] \in InFence
  BY DEF DiscardMarker, SnapshotDone, RollbackDone, InFence
<1>1. /\ Holds(sess[w], owner) /\ pc[w] # "idle" /\ m \in MarkerIds
      /\ HolderOK(pc[w], sess[w], marker, owner) /\ marker \in [MarkerIds -> Markers]
  BY <1>0, FencedHolds, LiveSessionOK, Typed DEF IInv, SessionOK
<1>2. marker[m].state # "COMPLETE"
  BY <1>1 DEF HolderOK, Effect
<1>3. (\A u \in MarkerIds \ {m} : marker'[u] = marker[u]) /\ marker'[m].state # "COMPLETE"
  <2>1. CASE DiscardMarker(w)
    BY <1>1, <2>1 DEF DiscardMarker, NoMarker
  <2>2. CASE SnapshotDone(w)
    BY <1>1, <2>2 DEF SnapshotDone, Markers
  <2>3. CASE RollbackDone(w)
    BY <1>1, <2>3 DEF RollbackDone, Markers
  <2> QED  BY <2>1, <2>2, <2>3
<1> QED  BY <1>1, <1>2, <1>3, SealsNothing

LEMMA RollbackClaimSealsNothing ==
  ASSUME IInv, NEW w \in Workers, RollbackClaim(w)
  PROVE  SealedIn(marker') = SealedIn(marker)
<1> DEFINE m == sess[w].m
<1>0. pc[w] # "idle" /\ m \in MarkerIds /\ marker \in [MarkerIds -> Markers]
  BY LiveSessionOK, Typed DEF IInv, RollbackClaim
<1>1. CASE UNCHANGED marker
  BY <1>1
<1>2. CASE Owned(w, {"PENDING"}) /\ marker' = [marker EXCEPT ![m].state = "ROLLING_BACK"]
  <2>1. /\ marker[m].state # "COMPLETE" /\ marker'[m].state # "COMPLETE"
        /\ \A u \in MarkerIds \ {m} : marker'[u] = marker[u]
    BY <1>0, <1>2 DEF Owned, Markers
  <2> QED  BY <1>0, <2>1, SealsNothing
<1> QED  BY <1>1, <1>2 DEF RollbackClaim

LEMMA ExpireSealsNothing ==
  ASSUME IInv, NEW m \in MarkerIds, Expire(m)
  PROVE  SealedIn(marker') = SealedIn(marker)
<1>1. marker' = [marker EXCEPT ![m].expired = TRUE] /\ marker \in [MarkerIds -> Markers]
  BY Typed DEF Expire, IInv
<1>2. \A u \in MarkerIds : marker'[u].state = marker[u].state /\ (marker'[u].ok <=> marker[u].ok)
  BY <1>1 DEF Markers
<1> QED  BY <1>2 DEF SealedIn

\* `complete' seals nothing, or one episode that was not sealed before.
SealsOne == \E e \in Episodes : e \notin SealedIn(marker)
                                /\ SealedIn(marker') = SealedIn(marker) \cup {e}

LEMMA CompleteSealsOne ==
  ASSUME IInv, NEW w \in Workers, Complete(w)
  PROVE  SealedIn(marker') = SealedIn(marker) \/ SealsOne
<1> DEFINE m == sess[w].m
           b == pc[w] # "open"
<1>0. pc[w] # "idle" /\ m \in MarkerIds /\ marker \in [MarkerIds -> Markers]
  BY LiveSessionOK, Typed DEF IInv, Complete
<1>1. CASE UNCHANGED marker
  BY <1>1
<1>2. CASE /\ Owned(w, {"PENDING"})
           /\ marker' = [marker EXCEPT ![m].state = "COMPLETE", ![m].ok = b,
                                       ![m].tok = None, ![m].expired = FALSE]
  <2>1. marker' = [marker EXCEPT ![m] = SealedRow(marker[m], b)]
    BY <1>0, <1>2, Zenon DEF SealedRow
  <2>2. marker[m].state = "PENDING" /\ b \in BOOLEAN
    BY <1>2 DEF Owned
  <2> HIDE DEF b
  <2>3. /\ \A u \in MarkerIds \ {m} : marker'[u] = marker[u]
        /\ marker'[m] = SealedRow(marker[m], b) /\ marker[m] \in Markers
    BY <1>0, <2>1, Zenon
  <2>4. marker'[m].state = "COMPLETE" /\ marker'[m].ok = b
    BY <2>2, <2>3, SealedRowOK
  <2>5. m[1] \in Episodes /\ m[1] \notin SealedIn(marker)
    BY <1>0, <2>2, Ids, NotSealedYet DEF Unresolved, Kept
  <2>6. CASE ~ b
    <3>1. ~ marker'[m].ok
      BY <2>4, <2>6, Zenon
    <3>2. SealedIn(marker') = SealedIn(marker)
      BY <1>0, <2>2, <2>3, <3>1, SameBase, Zenon
    <3> QED  BY <3>2, Zenon
  <2>7. CASE b
    <3>1. marker'[m].ok
      BY <2>4, <2>7, Zenon
    <3>2. marker[m].state # "COMPLETE"
      BY <2>2, Zenon
    <3>3. marker'[m].state = "COMPLETE" /\ \A u \in MarkerIds \ {m} : marker'[u] = marker[u]
      BY <2>3, <2>4, Zenon
    <3>4. SealedIn(marker') = SealedIn(marker) \cup {m[1]}
      BY <1>0, <2>5, <3>3, <3>1, <3>2, SealBase
    <3> QED  BY <2>5, <3>4, Zenon DEF SealsOne
  <2> QED  BY <2>6, <2>7, Zenon
<1> QED  BY <1>1, <1>2 DEF Complete

\* Whatever step is taken, at most one episode is sealed by it and none is
\* unsealed.
LEMMA NextSealsOne ==
  ASSUME IInv, [Next]_vars
  PROVE  SealedIn(marker') = SealedIn(marker) \/ SealsOne
<1>1. CASE UNCHANGED marker
  BY <1>1
<1>2. ASSUME NEW w \in Workers, Step(w)
      PROVE  SealedIn(marker') = SealedIn(marker) \/ SealsOne
  <2>1. CASE ReadTerminal(w) \/ ClaimRetained(w) \/ ClaimRefused(w) \/ EnterFence(w)
             \/ FenceRefused(w) \/ DiscardPage(w) \/ SnapshotPage(w)
    BY <1>1, <2>1 DEF ReadTerminal, ClaimRetained, ClaimRefused, EnterFence, FenceRefused,
                      DiscardPage, SnapshotPage, Database
  <2>2. CASE Prepare(w) \/ Persist(w) \/ RestorePage(w) \/ PersistDone(w) \/ RollbackRead(w)
             \/ DeleteNew(w) \/ CleanupPage(w) \/ CleanupDone(w)
    BY <1>1, <2>2 DEF Prepare, Persist, RestorePage, PersistDone, RollbackRead, DeleteNew,
                      CleanupPage, CleanupDone, Database
  <2>3. CASE ClaimFresh(w) \/ TakeOver(w) \/ RollbackClaim(w)
    BY <2>3, ClaimSealsNothing, TakeOverSealsNothing, RollbackClaimSealsNothing
  <2>4. CASE DiscardMarker(w) \/ SnapshotDone(w) \/ RollbackDone(w) \/ Complete(w)
    BY <2>4, FencedSealsNothing, CompleteSealsOne
  <2> QED  BY <1>2, <2>1, <2>2, <2>3, <2>4 DEF Step
<1>3. ASSUME NEW w \in Workers, NEW e \in Episodes, Start(w, e)
      PROVE  UNCHANGED marker
  BY <1>3 DEF Start, Database
<1>4. ASSUME NEW w \in Workers, OwnedRecovery(w) \/ Fail(w) \/ Crash(w)
      PROVE  UNCHANGED marker
  BY <1>4 DEF OwnedRecovery, Fail, Crash, Database
<1>5. ASSUME NEW e \in Episodes, NextAttempt(e)
      PROVE  UNCHANGED marker
  BY <1>5 DEF NextAttempt, Database
<1>6. CASE UNCHANGED vars
  BY <1>1, <1>6 DEF vars
<1> QED  BY <1>1, <1>2, <1>3, <1>4, <1>5, <1>6, ExpireSealsNothing DEF Next

LEMMA InitRefines == Init => Atomic!Init
<1> SUFFICES ASSUME Init PROVE Atomic!Init
  OBVIOUS
<1>1. Reliable = Base(marker)
  BY InitInv, ReliableIsBase
<1>2. \A m \in MarkerIds : marker[m].state = "NONE"
  BY DEF Init, NoMarker
<1>3. SealedIn(marker) = {} /\ Sealed = {}
  BY <1>2 DEF SealedIn, Sealed
<1> QED  BY <1>1, <1>3 DEF Atomic!Init, Base, Kept, Objects

LEMMA StepRefines ==
  ASSUME IInv, [Next]_vars, Reliable = Base(marker), Reliable' = Base(marker')
  PROVE  [Atomic!Next]_(Atomic!avars)
<1>0. Sealed = SealedIn(marker) /\ Sealed' = SealedIn(marker')
  BY DEF Sealed, SealedIn
<1>1. CASE SealedIn(marker') = SealedIn(marker)
  <2>1. Reliable' = Reliable
    BY <1>1 DEF Base, Kept
  <2> QED  BY <1>0, <1>1, <2>1 DEF Atomic!avars
<1>2. CASE SealsOne
  <2>1. PICK e \in Episodes : e \notin SealedIn(marker)
                              /\ SealedIn(marker') = SealedIn(marker) \cup {e}
    BY <1>2 DEF SealsOne
  <2>2. Reliable' = [Reliable EXCEPT ![e] = "clean"]
    BY <2>1 DEF Base, Kept, Objects
  <2>3. Atomic!Seal(e)
    BY <1>0, <2>1, <2>2 DEF Atomic!Seal
  <2> QED  BY <2>3 DEF Atomic!Next
<1> QED  BY <1>1, <1>2, NextSealsOne

\* The journal implements indivisible episodes: whatever sessions crash, stall,
\* lose the answer to their commit or are taken over between any two pages of
\* neo4j_guard.py, the generation a reader may rely on changes only when an
\* episode is sealed, then by that episode's object alone, and no sealed result
\* is undone or redone.
THEOREM JournalIsAtomic == Spec => EpisodesAreAtomic
<1>1. Init => Atomic!Init
  BY InitRefines
<1>2. (IInv => Reliable = Base(marker))'
  BY ReliableIsBase, PTL
<1>3. IInv /\ IInv' /\ [Next]_vars => [Atomic!Next]_(Atomic!avars)
  BY <1>2, ReliableIsBase, StepRefines
<1> QED  BY <1>1, <1>3, Invariance, PTL DEF Spec, EpisodesAreAtomic, Atomic!Spec
=============================================================================
