--------------------------- MODULE TriageExecution ---------------------------
(***************************************************************************)
(* The triage execution store: execution Batches, Worker Attempts and Work *)
(* Item Leases (newsroom/increment6/_execution_store.py), over the Work    *)
(* Item heads it consults (newsroom/increment6/work_items.py).             *)
(*                                                                         *)
(* Every public operation of the store runs inside one BEGIN IMMEDIATE     *)
(* transaction, so it is one action here.  A refused call rolls back and   *)
(* changes nothing: it is a stuttering step, and only the accepting path   *)
(* of each operation is an action.  Identities are content addresses: a    *)
(* Batch is its decision and members, a Worker Attempt is its Work Item    *)
(* Version and the chain of semantic requests that leads to it (the hash   *)
(* of an attempt covers its request, its ordinal and its predecessor).     *)
(***************************************************************************)
EXTENDS Integers, Sequences, FiniteSets

CONSTANTS
    Items,        \* Work Items
    MaxVersion,   \* bound: Versions appended to one Work Item
    Decisions,    \* scheduling decisions a Batch can be built from
    MaxBatches,   \* bound: Batches registered
    Requests,     \* semantic requests (worker kind, version and input)
    MaxAttempts,  \* bound: ordinal of a Worker Attempt
    Workers,      \* authenticated identities: principal, profile, credential
    Evidence,     \* completion evidence digests
    TTL,          \* lease_ttl_seconds
    MaxTime,      \* bound: last reading of the wall clock
    None          \* an absent value

ASSUME TriageExecutionAssumption ==
    /\ MaxVersion \in Nat \ {0}
    /\ MaxBatches \in Nat
    /\ MaxAttempts \in Nat \ {0}
    /\ TTL \in Nat \ {0}
    /\ MaxTime \in Nat
    /\ None \notin Evidence

VARIABLES
    now,       \* the wall clock every operation reads
    head,      \* head[i]: ordinal of i's current Version, 0 before creation
    usable,    \* usable[i]: i's head has complete retrieval, current upstream
    batches,   \* rows of triage_execution_batches
    attempts,  \* rows of triage_worker_attempts
    leases,    \* rows of triage_work_item_leases
    answers    \* history: what claim and the terminal operations returned

vars == <<now, head, usable, batches, attempts, leases, answers>>

-----------------------------------------------------------------------------
(* Rows.                                                                   *)

Versions == 1..MaxVersion

Batch == [decision : Decisions, members : SUBSET (Items \X Versions)]

\* The content address of a Worker Attempt.
AttemptId == [item : Items, version : Versions, chain : Seq(Requests)]

Attempt == [id : AttemptId, batch : Batch]

Lifecycle == {"CLAIMED", "RELEASED", "EXPIRED"}

\* "evidence" is the digest of the COMPLETED progress item of the last
\* transition receipt; None when the transition carries no progress.
Lease == [attempt : AttemptId, owner : Workers, fence : Nat \ {0},
          lifecycle : Lifecycle, issued : Nat, expires : Nat,
          evidence : Evidence \cup {None}]

Answer == [op : {"claim", "complete", "release", "expire"},
           attempt : AttemptId, owner : Workers, fence : Nat \ {0},
           evidence : Evidence \cup {None}]

TypeOK ==
    /\ now \in 0..MaxTime
    /\ head \in [Items -> 0..MaxVersion]
    /\ usable \in [Items -> BOOLEAN]
    /\ batches \subseteq Batch
    /\ attempts \subseteq Attempt
    /\ \A a \in attempts : a.id.chain # <<>>
    /\ leases \subseteq Lease
    /\ answers \subseteq Answer

-----------------------------------------------------------------------------
(* Queries the operations share.                                           *)

Ordinal(id) == Len(id.chain)

IsSuccessor(id, previous) ==
    /\ id.item = previous.item
    /\ id.version = previous.version
    /\ \E r \in Requests : id.chain = Append(previous.chain, r)

\* require_usable_current_in_transaction with _version_matches_member or
\* _require_current_attempt: the Version is the head, and the head is usable.
UsableCurrent_AnyVersion(i, v) == usable[i]

UsableCurrent(i, v) == usable[i] /\ head[i] = v

LeasesOf(i) == {l \in leases : l.attempt.item = i}

FencesOf(i) == {l.fence : l \in LeasesOf(i)}

\* SELECT 1 ... WHERE work_item_id=? AND lifecycle='CLAIMED', with the index
\* one_claimed_triage_lease_per_work_item behind it.  The seeded fault looks
\* only at leases of the version being claimed.
HasCurrentLease_SameVersion(i, v) ==
    \E l \in LeasesOf(i) : l.lifecycle = "CLAIMED" /\ l.attempt.version = v

HasCurrentLease(i, v) == \E l \in LeasesOf(i) : l.lifecycle = "CLAIMED"

\* SELECT COALESCE(MAX(fence),0)+1 ... WHERE work_item_id=?  The seeded faults
\* count per Version, and forget the + 1.
NextFence_Max(i) ==
    CHOOSE n \in {0} \cup FencesOf(i) : \A f \in FencesOf(i) : f <= n

NextFence_CurrentVersion(i) ==
    LET fences == {l.fence : l \in {m \in LeasesOf(i) : m.attempt.version = head[i]}}
    IN CHOOSE n \in {1} \cup {f + 1 : f \in fences} : \A f \in fences : f < n

NextFence(i) ==
    CHOOSE n \in {1} \cup {f + 1 : f \in FencesOf(i)} :
        \A f \in FencesOf(i) : f < n

\* WorkItemLease.is_expired_at
IsExpired(l) == l.lifecycle = "CLAIMED" /\ now >= l.expires

-----------------------------------------------------------------------------
(* The wall clock and the Work Items.                                      *)

ClockAdvance ==
    /\ now < MaxTime
    /\ now' = now + 1
    /\ UNCHANGED <<head, usable, batches, attempts, leases, answers>>

\* UtcTimestamp.now is the wall clock, which can be set back.
ClockStepBack ==
    /\ now > 0
    /\ now' = now - 1
    /\ UNCHANGED <<head, usable, batches, attempts, leases, answers>>

\* create_or_replay when the head is 0, append_version afterwards: the new
\* Version becomes the head.  Its retrieval may or may not be complete.
AppendVersion(i) ==
    /\ head[i] < MaxVersion
    /\ head' = [head EXCEPT ![i] = @ + 1]
    /\ \E u \in BOOLEAN : usable' = [usable EXCEPT ![i] = u]
    /\ UNCHANGED <<now, batches, attempts, leases, answers>>

\* A gate, source, disposition or retrieval head moves: _upstream_reasons of
\* the current Version change without a write to the Work Item.
UpstreamChange(i) ==
    /\ head[i] > 0
    /\ usable' = [usable EXCEPT ![i] = ~@]
    /\ UNCHANGED <<now, head, batches, attempts, leases, answers>>

-----------------------------------------------------------------------------
(* Registration.                                                           *)

ValidBatch(b) ==
    /\ b.members # {}
    /\ \A m, n \in b.members : m[1] = n[1] => m = n

RegisterBatch(b) ==
    /\ Cardinality(batches) < MaxBatches
    /\ ValidBatch(b)
    /\ b \notin batches
    /\ \A m \in b.members : UsableCurrent(m[1], m[2])
    /\ batches' = batches \cup {b}
    /\ UNCHANGED <<now, head, usable, attempts, leases, answers>>

\* The ordinal is unique per Work Item Version.
OrdinalTaken_ById(id) == \E a \in attempts : a.id = id

OrdinalTaken(id) ==
    \E a \in attempts : /\ a.id.item = id.item
                        /\ a.id.version = id.version
                        /\ Ordinal(a.id) = Ordinal(id)

RegisterAttempt(b, i, v, r) ==
    LET id == [item |-> i, version |-> v, chain |-> <<r>>] IN
    /\ b \in batches
    /\ ~OrdinalTaken(id)
    /\ <<i, v>> \in b.members
    /\ UsableCurrent(i, v)
    /\ attempts' = attempts \cup {[id |-> id, batch |-> b]}
    /\ UNCHANGED <<now, head, usable, batches, leases, answers>>

-----------------------------------------------------------------------------
(* Leases.                                                                 *)

Reply(op, l) == [op |-> op, attempt |-> l.attempt, owner |-> l.owner,
                 fence |-> l.fence, evidence |-> l.evidence]

Claim(w, a) ==
    LET lease == [attempt |-> a.id, owner |-> w, fence |-> NextFence(a.id.item),
                  lifecycle |-> "CLAIMED", issued |-> now, expires |-> now + TTL,
                  evidence |-> None] IN
    /\ now + TTL <= MaxTime
    /\ a \in attempts
    /\ \A l \in leases : l.attempt # a.id
    /\ UsableCurrent(a.id.item, a.id.version)
    /\ ~HasCurrentLease(a.id.item, a.id.version)
    /\ leases' = leases \cup {lease}
    /\ answers' = answers \cup {Reply("claim", lease)}
    /\ UNCHANGED <<now, head, usable, batches, attempts>>

\* A lost response: the owner claims again and is given the retained lease,
\* whatever has become of it.  The claim answer is the lease as first issued.
OwnsLease(w, l) == l.owner = w

ClaimReplay(w, l) ==
    /\ l \in leases
    /\ OwnsLease(w, l)
    /\ answers' = answers \cup {[Reply("claim", l) EXCEPT !.owner = w,
                                                          !.evidence = None]}
    /\ UNCHANGED <<now, head, usable, batches, attempts, leases>>

\* UPDATE ... WHERE lease_id=? AND lifecycle='CLAIMED' AND fence=? ...
Finish(l, lifecycle, evidence) ==
    leases' = (leases \ {l}) \cup
                {[l EXCEPT !.lifecycle = lifecycle, !.evidence = evidence]}

\* release: only the owner, in [issued, expires); completion also needs the
\* attempt's Version to be the usable head still.
Releasable(w, l) ==
    /\ l \in leases
    /\ l.lifecycle = "CLAIMED"
    /\ OwnsLease(w, l)
    /\ ~IsExpired(l)
    /\ l.issued <= now

Complete(w, l, e) ==
    /\ Releasable(w, l)
    /\ UsableCurrent(l.attempt.item, l.attempt.version)
    /\ Finish(l, "RELEASED", e)
    /\ answers' = answers \cup {Reply("complete", [l EXCEPT !.evidence = e])}
    /\ UNCHANGED <<now, head, usable, batches, attempts>>

Release(w, l) ==
    /\ Releasable(w, l)
    /\ Finish(l, "RELEASED", None)
    /\ answers' = answers \cup {Reply("release", l)}
    /\ UNCHANGED <<now, head, usable, batches, attempts>>

\* Any authenticated caller may expire a lease at its expiry boundary.
Expire(l) ==
    /\ l \in leases
    /\ IsExpired(l)
    /\ l.issued <= now
    /\ Finish(l, "EXPIRED", None)
    /\ answers' = answers \cup {Reply("expire", l)}
    /\ UNCHANGED <<now, head, usable, batches, attempts>>

\* A terminal operation on a terminal lease is answered only when it is the
\* one that ended it; "terminal Lease replay diverges" otherwise.
ReplayMatches_Lifecycle(l, op, e) ==
    \/ op \in {"complete", "release"} /\ l.lifecycle = "RELEASED"
    \/ op = "expire" /\ l.lifecycle = "EXPIRED"

ReplayMatches(l, op, e) ==
    \/ op = "complete" /\ l.lifecycle = "RELEASED" /\ e # None /\ l.evidence = e
    \/ op = "release" /\ l.lifecycle = "RELEASED" /\ l.evidence = None
    \/ op = "expire" /\ l.lifecycle = "EXPIRED"

TerminalReplay(w, l, op, e) ==
    /\ l \in leases
    /\ l.lifecycle # "CLAIMED"
    /\ op # "expire" => OwnsLease(w, l)
    /\ (op = "complete") = (e # None)
    /\ ReplayMatches(l, op, e)
    /\ answers' = answers \cup {Reply(op, [l EXCEPT !.evidence = e])}
    /\ UNCHANGED <<now, head, usable, batches, attempts, leases>>

\* restart: the predecessor's lease must be terminal; a CLAIMED lease past its
\* expiry is expired in the same transaction, so a refusal further down (a
\* stale Version) also undoes the expiry.
Restartable(l) ==
    \/ l.lifecycle # "CLAIMED"
    \/ IsExpired(l) /\ l.issued <= now

\* The seeded fault takes the lapsed lease for terminal and leaves its row.
EndPredecessor_LeftClaimed(l) == UNCHANGED leases

EndPredecessor(l) ==
    IF l.lifecycle = "CLAIMED"
    THEN Finish(l, "EXPIRED", None)
    ELSE UNCHANGED leases

Restart(a, l, r) ==
    LET id == [a.id EXCEPT !.chain = Append(@, r)] IN
    /\ a \in attempts
    /\ l \in leases
    /\ l.attempt = a.id
    /\ Ordinal(a.id) < MaxAttempts
    /\ \A s \in attempts : ~IsSuccessor(s.id, a.id)
    /\ Restartable(l)
    /\ UsableCurrent(a.id.item, a.id.version)
    /\ EndPredecessor(l)
    /\ attempts' = attempts \cup {[id |-> id, batch |-> a.batch]}
    /\ UNCHANGED <<now, head, usable, batches, answers>>

-----------------------------------------------------------------------------
Init ==
    /\ now = 0
    /\ head = [i \in Items |-> 0]
    /\ usable = [i \in Items |-> FALSE]
    /\ batches = {}
    /\ attempts = {}
    /\ leases = {}
    /\ answers = {}

Next ==
    \/ ClockAdvance
    \/ ClockStepBack
    \/ \E i \in Items : AppendVersion(i) \/ UpstreamChange(i)
    \/ \E b \in Batch : RegisterBatch(b)
    \/ \E b \in batches, i \in Items, v \in Versions, r \in Requests :
          RegisterAttempt(b, i, v, r)
    \/ \E w \in Workers, a \in attempts : Claim(w, a)
    \/ \E w \in Workers, l \in leases : ClaimReplay(w, l) \/ Release(w, l)
    \/ \E w \in Workers, l \in leases, e \in Evidence : Complete(w, l, e)
    \/ \E l \in leases : Expire(l)
    \/ \E w \in Workers, l \in leases, op \in {"complete", "release", "expire"},
          e \in Evidence \cup {None} : TerminalReplay(w, l, op, e)
    \/ \E a \in attempts, l \in leases, r \in Requests : Restart(a, l, r)

Spec == Init /\ [][Next]_vars

-----------------------------------------------------------------------------
(* Safety.                                                                 *)

\* A Work Item has at most one current owner, across all its Versions and
\* attempts: a worker on an old Version excludes the worker on the new one.
OneCurrentLease ==
    \A l, m \in leases :
        /\ l.lifecycle = "CLAIMED" /\ m.lifecycle = "CLAIMED"
        /\ l.attempt.item = m.attempt.item
        => l = m

\* Fences of a Work Item are issued 1, 2, 3, ... without gap or repetition,
\* the current owner holds the newest, and a restarted attempt's lease is
\* always newer than its predecessor's, so a consumer that keeps the largest
\* fence it has seen never accepts a superseded worker.
FencesTotallyOrdered ==
    /\ \A i \in Items : \A f \in FencesOf(i) : f = 1 \/ f - 1 \in FencesOf(i)
    /\ \A l, m \in leases :
          l.attempt.item = m.attempt.item =>
            /\ l.fence = m.fence => l = m
            /\ l.lifecycle = "CLAIMED" => m.fence <= l.fence
            /\ IsSuccessor(l.attempt, m.attempt) => m.fence < l.fence

\* _verify_integrity: what a reopened store demands of the retained rows.  The
\* store never writes a database it would refuse to open.
VerifyIntegrity ==
    /\ \A b \in batches : \A m \in b.members : m[2] <= head[m[1]]
    /\ \A a \in attempts :
          /\ a.batch \in batches
          /\ <<a.id.item, a.id.version>> \in a.batch.members
          /\ Ordinal(a.id) > 1 =>
                \E p \in attempts :
                    /\ IsSuccessor(a.id, p.id)
                    /\ p.batch = a.batch
                    /\ \E l \in leases : l.attempt = p.id /\ l.lifecycle # "CLAIMED"
    /\ \A l \in leases : \E a \in attempts : a.id = l.attempt
    /\ OneCurrentLease

\* The attempts of one Work Item Version form a single chain: no two attempts
\* share an ordinal, so no two lineages of retries run side by side.
SingleLineage ==
    \A a, b \in attempts :
        /\ a.id.item = b.id.item
        /\ a.id.version = b.id.version
        /\ Ordinal(a.id) = Ordinal(b.id)
        => a = b

\* Retried calls agree: every answer ever given about one attempt names one
\* owner and one fence, its end is reported one way only, with one evidence
\* digest, and that is what the retained lease says.
AnswersAgree ==
    /\ \A x, y \in answers :
          x.attempt = y.attempt =>
            /\ x.owner = y.owner /\ x.fence = y.fence
            /\ x.op # "claim" /\ y.op # "claim" => x.op = y.op /\ x.evidence = y.evidence
    /\ \A x \in answers : \E l \in leases :
          /\ l.attempt = x.attempt /\ l.owner = x.owner /\ l.fence = x.fence
          /\ x.op # "claim" => l.lifecycle # "CLAIMED" /\ l.evidence = x.evidence

-----------------------------------------------------------------------------
(* What a step may never do.                                               *)

Completed == {l \in leases : l.evidence # None}

AttemptIds == {a.id : a \in attempts}

LeasedIds == {l.attempt : l \in leases}

\* Work bound to a superseded or unusable Version goes no further: in a step
\* nothing is registered, claimed, restarted or completed for a Version that is
\* not the usable head; such a lease can only be released or expired.
StaleWorkIsFrozen ==
    [][\A id \in (AttemptIds' \ AttemptIds) \cup (LeasedIds' \ LeasedIds)
              \cup {l.attempt : l \in Completed' \ Completed} :
          usable[id.item] /\ head[id.item] = id.version]_vars

\* Once an attempt has been restarted its worker can change nothing: the lease
\* of an attempt with a successor is never touched again.
SupersededWorkerCannotAct ==
    [][\A l \in leases, a \in attempts :
          IsSuccessor(a.id, l.attempt) => l \in leases']_vars

=============================================================================
