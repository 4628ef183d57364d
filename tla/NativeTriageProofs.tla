-------------------------- MODULE NativeTriageProofs --------------------------
(***************************************************************************)
(* The native triage driver uses the execution store as the store allows,  *)
(* so everything proved of the store holds below it; and no replay of a    *)
(* turn disposes of another proposal than the one its lease completed.     *)
(***************************************************************************)
EXTENDS NativeTriage, TriageExecutionProofs

\* The driver registers first attempts of first Versions only.
OnlyFirst == \A a \in attempts : a.id.version = 1 /\ Ordinal(a.id) = 1

\* A lease is completed with the evidence its own attempt determines.
Evidenced == \A l \in leases : l.evidence # None => l.attempt.chain = <<l.evidence>>

\* persist is called only once the turn's own attempt is completed.
PersistReady ==
    at = "persist" => \E l \in leases : l.attempt = TheAttempt /\ l.evidence = turn.request

DisposedHasLease ==
    \A i \in Items : disposed[i] # None =>
        \E l \in leases : l.attempt.item = i /\ l.evidence = disposed[i]

DInv ==
    /\ DriverTypeOK
    /\ IInv
    /\ OnlyFirst
    /\ Evidenced
    /\ PersistReady
    /\ DisposedHasLease

-----------------------------------------------------------------------------
\* Every step of the driver is a step of the store, or leaves the store alone.
LEMMA DriverStepsStore ==
    ASSUME DriverTypeOK, [DriverNext]_allVars
    PROVE  [Next]_vars
<1> USE TriageExecutionAssumption, NativeTriageAssumption
<1>1. /\ item \in Items
      /\ turn.request \in Requests
      /\ 1 \in Versions
      /\ TheBatch \in Batch
    BY DEF DriverTypeOK, item, Versions, TheBatch, Batch
<1>2. CASE UNCHANGED allVars
    BY <1>2 DEF allVars, vars
<1>3. CASE \E i \in Items : Begin(i) \/ UpstreamMoves(i) \/ Retrieve(i)
    BY <1>3 DEF Begin, UpstreamMoves, Retrieve, Next
<1>4. CASE Create
    BY <1>1, <1>4 DEF Create, Next
<1>5. CASE Register
    BY <1>1, <1>5 DEF Register, Next
<1>6. CASE RegisterFirst
    <2>1. CASE RegisterAttempt(TheBatch, item, 1, turn.request)
        <3>1. TheBatch \in batches
            BY <2>1 DEF RegisterAttempt
        <3> QED
            BY <1>1, <2>1, <3>1 DEF Next
    <2> QED
        BY <1>6, <2>1 DEF RegisterFirst
<1>7. CASE ClaimCall
    BY <1>7 DEF ClaimCall, Next
<1>8. CASE CompleteCall
    <2>1. TheEvidence \in Evidence
        BY <1>1 DEF TheEvidence
    <2>2. PICK l \in leases :
              \/ Complete(Worker, l, TheEvidence)
              \/ TerminalReplay(Worker, l, "complete", TheEvidence)
        BY <1>8 DEF CompleteCall
    <2> QED
        BY <2>1, <2>2 DEF Next
<1>9. CASE Persist \/ Refused \/ CreateRefused \/ Crash
    BY <1>9 DEF Persist, Refused, CreateRefused, Crash
<1>10. CASE Elapse
    BY <1>10 DEF Elapse, Next
<1>11. CASE \E i \in Items, r \in Requests : Recite(i, r)
    BY <1>11 DEF Recite
<1> QED
    BY <1>2, <1>3, <1>4, <1>5, <1>6, <1>7, <1>8, <1>9, <1>10, <1>11 DEF DriverNext

\* The variables of the driver keep their types.
LEMMA DriverTypes ==
    ASSUME DriverTypeOK, TypeOK', [DriverNext]_allVars
    PROVE  DriverTypeOK'
<1> USE TriageExecutionAssumption, NativeTriageAssumption
<1>0. item \in Items
    BY DEF DriverTypeOK, item
<1>1. CASE UNCHANGED allVars
    BY <1>1 DEF allVars, vars, driver, DriverTypeOK
<1>2. ASSUME NEW i \in Items, Begin(i) PROVE DriverTypeOK'
    BY <1>2 DEF Begin, DriverTypeOK, Calls, vars
<1>3. ASSUME NEW i \in Items, UpstreamMoves(i) PROVE DriverTypeOK'
    BY <1>3 DEF UpstreamMoves, UpstreamChange, DriverTypeOK, driver, TypeOK
<1>4. CASE Create
    <2>1. CASE head[item] = 0
        <3>1. AppendVersion(item) /\ retrieved' = [retrieved EXCEPT ![item] = usable'[item]]
            BY <1>4, <2>1 DEF Create
        <3>2. \A i \in Items \ {item} : usable'[i] = usable[i]
            BY <3>1 DEF AppendVersion, DriverTypeOK, TypeOK
        <3>3. usable' \in [Items -> BOOLEAN]
            BY DEF TypeOK
        <3>4. /\ retrieved' \in [Items -> BOOLEAN]
              /\ \A i \in Items : usable'[i] => retrieved'[i]
            BY <1>0, <3>1, <3>2, <3>3 DEF DriverTypeOK
        <3> QED
            BY <1>0, <1>4, <3>4 DEF Create, Goes, EndTurn, DriverTypeOK, Calls, Stages
    <2>2. CASE head[item] # 0
        BY <1>0, <1>4, <2>2 DEF Create, Goes, EndTurn, DriverTypeOK, Calls, Stages, vars
    <2> QED
        BY <2>1, <2>2
<1>5. CASE Register \/ RegisterFirst \/ ClaimCall \/ CompleteCall
    <2>1. UNCHANGED usable
        BY <1>5 DEF Register, RegisterFirst, ClaimCall, CompleteCall, RegisterBatch,
                    RegisterAttempt, Claim, ClaimReplay, Complete, TerminalReplay, vars
    <2>2. /\ at' \in Calls
          /\ UNCHANGED <<turn, retrieved, cited, rebuilt, disposed, journal, faults, changes>>
        BY <1>5 DEF Register, RegisterFirst, ClaimCall, CompleteCall, Goes, Calls
    <2> QED
        BY <2>1, <2>2 DEF DriverTypeOK
<1>6. CASE Persist
    BY <1>0, <1>6 DEF Persist, EndTurn, DriverTypeOK, Stages, vars
<1>7. CASE Refused \/ CreateRefused
    BY <1>0, <1>7 DEF Refused, CreateRefused, EndTurn, DriverTypeOK, Stages, vars
<1>8. CASE Crash
    BY <1>8 DEF Crash, DriverTypeOK, vars
<1>9. CASE Elapse
    BY <1>9 DEF Elapse, ClockAdvance, DriverTypeOK, driver
<1>10. ASSUME NEW i \in Items, NEW r \in Requests, Recite(i, r) PROVE DriverTypeOK'
    BY <1>10 DEF Recite, DriverTypeOK, vars
<1>11. ASSUME NEW i \in Items, Retrieve(i) PROVE DriverTypeOK'
    BY <1>11 DEF Retrieve, DriverTypeOK, vars
<1> QED
    BY <1>1, <1>2, <1>3, <1>4, <1>5, <1>6, <1>7, <1>8, <1>9, <1>10, <1>11 DEF DriverNext

-----------------------------------------------------------------------------
\* What the calls do to the leases: completed leases stay, and a newly completed
\* lease is the turn's own, completed by complete.
LEMMA LeasesGrow ==
    ASSUME DInv, [DriverNext]_allVars
    PROVE  /\ \A l \in leases : l.evidence # None => l \in leases'
           /\ \A l \in leases' : l.evidence # None /\ l \notin leases =>
                 l.attempt = TheAttempt /\ l.evidence = turn.request
<1> USE NativeTriageAssumption, TriageExecutionAssumption
<1>1. leases \subseteq Lease /\ \A l \in leases : l.evidence # None => l.lifecycle = "RELEASED"
    BY DEF DInv, IInv, TypeOK, LeaseInv, OpenLeaseHasNoEvidence
<1>2. CASE UNCHANGED leases
    BY <1>2
<1>3. CASE ClaimCall
    <2>1. CASE \E a \in attempts : a.id = TheAttempt /\ Claim(Worker, a)
        BY <2>1 DEF Claim
    <2>2. CASE \E l \in leases : l.attempt = TheAttempt /\ ClaimReplay(Worker, l)
        <3>1. UNCHANGED leases
            BY <2>2 DEF ClaimReplay
        <3> QED
            BY <1>2, <3>1
    <2> QED
        BY <1>3, <2>1, <2>2 DEF ClaimCall
<1>4. CASE CompleteCall
    <2>1. PICK l \in leases :
              /\ l.attempt = TheAttempt
              /\ \/ Complete(Worker, l, TheEvidence)
                 \/ TerminalReplay(Worker, l, "complete", TheEvidence)
        BY <1>4 DEF CompleteCall
    <2>2. CASE Complete(Worker, l, TheEvidence)
        <3> DEFINE done == [l EXCEPT !.lifecycle = "RELEASED", !.evidence = TheEvidence]
        <3>1. l.lifecycle = "CLAIMED" /\ leases' = (leases \ {l}) \cup {done}
            BY <2>2 DEF Complete, Releasable, Finish
        <3>2. done.attempt = TheAttempt /\ done.evidence = turn.request
            BY <1>1, <2>1 DEF Lease, TheEvidence
        <3> QED
            BY <1>1, <3>1, <3>2
    <2>3. CASE TerminalReplay(Worker, l, "complete", TheEvidence)
        BY <1>2, <2>3 DEF TerminalReplay
    <2> QED
        BY <2>1, <2>2, <2>3
<1>5. ASSUME ~ClaimCall, ~CompleteCall PROVE UNCHANGED leases
    BY <1>5 DEF DriverNext, allVars, vars, Begin, UpstreamMoves, UpstreamChange, Create,
                AppendVersion, Register, RegisterBatch, RegisterFirst, RegisterAttempt,
                Persist, Refused, CreateRefused, Crash, Elapse, ClockAdvance, Recite, Retrieve
<1> QED
    BY <1>2, <1>3, <1>4, <1>5

\* Attempts are registered only as the turn's own first attempt.
LEMMA FirstAttemptsOnly ==
    ASSUME DInv, [DriverNext]_allVars
    PROVE  OnlyFirst'
<1>1. CASE UNCHANGED attempts
    BY <1>1 DEF DInv, OnlyFirst, Ordinal
<1>2. CASE RegisterFirst
    <2>1. CASE RegisterAttempt(TheBatch, item, 1, turn.request)
        <3>1. attempts' = attempts \cup {[id |-> TheAttempt, batch |-> TheBatch]}
            BY <2>1 DEF RegisterAttempt, TheAttempt
        <3>2. TheAttempt.version = 1 /\ Len(TheAttempt.chain) = 1
            BY DEF TheAttempt
        <3> QED
            BY <3>1, <3>2 DEF DInv, OnlyFirst, Ordinal
    <2> QED
        BY <1>1, <1>2, <2>1 DEF RegisterFirst, vars
<1>3. ASSUME ~RegisterFirst PROVE UNCHANGED attempts
    <2>1. ASSUME NEW a, Claim(Worker, a) PROVE UNCHANGED attempts
        BY <2>1 DEF Claim
    <2>2. ASSUME NEW l, ClaimReplay(Worker, l) PROVE UNCHANGED attempts
        BY <2>2 DEF ClaimReplay
    <2>3. ASSUME NEW l, Complete(Worker, l, TheEvidence) PROVE UNCHANGED attempts
        BY <2>3 DEF Complete
    <2>4. ASSUME NEW l, TerminalReplay(Worker, l, "complete", TheEvidence)
          PROVE  UNCHANGED attempts
        BY <2>4 DEF TerminalReplay
    <2> QED
        BY <1>3, <2>1, <2>2, <2>3, <2>4
        DEF DriverNext, allVars, vars, Begin, UpstreamMoves, UpstreamChange, Create,
            AppendVersion, Register, RegisterBatch, ClaimCall, CompleteCall,
            Persist, Refused, CreateRefused, Crash, Elapse, ClockAdvance, Recite, Retrieve
<1> QED
    BY <1>1, <1>2, <1>3

\* After complete the turn's own lease carries the turn's evidence.
LEMMA CompletedBeforePersist ==
    ASSUME DInv, [DriverNext]_allVars
    PROVE  PersistReady'
<1> USE NativeTriageAssumption
<1>0. turn.request # None /\ leases \subseteq Lease
    BY DEF DInv, DriverTypeOK, IInv, TypeOK
<1>1. CASE CompleteCall
    <2>1. PICK l \in leases :
              /\ l.attempt = TheAttempt
              /\ \/ Complete(Worker, l, TheEvidence)
                 \/ TerminalReplay(Worker, l, "complete", TheEvidence)
        BY <1>1 DEF CompleteCall
    <2>2. CASE Complete(Worker, l, TheEvidence)
        <3> DEFINE done == [l EXCEPT !.lifecycle = "RELEASED", !.evidence = TheEvidence]
        <3>1. done \in leases'
            BY <2>2 DEF Complete, Finish
        <3>2. done.attempt = TheAttempt /\ done.evidence = turn.request
            BY <1>0, <2>1 DEF Lease, TheEvidence
        <3> HIDE DEF done
        <3> QED
            BY <1>1, <3>1, <3>2 DEF CompleteCall, Goes, PersistReady, TheAttempt, item
    <2>3. CASE TerminalReplay(Worker, l, "complete", TheEvidence)
        <3>1. l.evidence = turn.request /\ UNCHANGED leases
            BY <2>3 DEF TerminalReplay, ReplayMatches, TheEvidence
        <3> QED
            BY <1>1, <2>1, <3>1 DEF CompleteCall, Goes, PersistReady, TheAttempt, item
    <2> QED
        BY <2>1, <2>2, <2>3
<1>2. CASE UNCHANGED driver
    <2>1. at' = at /\ turn' = turn
        BY <1>2 DEF driver
    <2>2. CASE at = "persist"
        <3>1. PICK l \in leases : l.attempt = TheAttempt /\ l.evidence = turn.request
            BY <2>2 DEF DInv, PersistReady
        <3>2. l \in leases'
            BY <1>0, <3>1, LeasesGrow
        <3> QED
            BY <2>1, <3>1, <3>2 DEF PersistReady, TheAttempt, item
    <2> QED
        BY <2>1, <2>2 DEF PersistReady
<1>3. ASSUME ~CompleteCall, ~UNCHANGED driver PROVE at' # "persist"
    BY <1>3 DEF DriverNext, allVars, Begin, UpstreamMoves, Create, Register,
                RegisterFirst, ClaimCall, Persist, Refused, CreateRefused, Crash,
                Elapse, Recite, Retrieve, Goes, EndTurn
<1> QED
    BY <1>1, <1>2, <1>3 DEF PersistReady

\* Dispositions are written by persist only, and keep the lease behind them.
LEMMA DispositionsKeepLease ==
    ASSUME DInv, [DriverNext]_allVars
    PROVE  DisposedHasLease'
<1>1. \A l \in leases : l.evidence # None => l \in leases'
    BY LeasesGrow
<1>2. CASE UNCHANGED disposed
    BY <1>1, <1>2 DEF DInv, DisposedHasLease
<1>3. CASE Persist
    <2>1. PICK l \in leases : l.attempt = TheAttempt /\ l.evidence = turn.request
        BY <1>3 DEF Persist, DInv, PersistReady
    <2>2. l.attempt.item = item
        BY <2>1 DEF TheAttempt
    <2>3. disposed' = [disposed EXCEPT ![item] = turn.request] /\ leases' = leases
        BY <1>3 DEF Persist, vars
    <2> QED
        BY <2>1, <2>2, <2>3 DEF DInv, DisposedHasLease, DriverTypeOK
<1>4. ASSUME ~Persist PROVE UNCHANGED disposed
    BY <1>4 DEF DriverNext, allVars, driver, Begin, UpstreamMoves, Create, Register,
                RegisterFirst, ClaimCall, CompleteCall, Refused, CreateRefused, Crash,
                Elapse, Recite, Retrieve, Goes, EndTurn
<1> QED
    BY <1>2, <1>3, <1>4

-----------------------------------------------------------------------------
\* DInv is inductive.
THEOREM DriverInductive == DriverSpec => []DInv
<1> USE NativeTriageAssumption, TriageExecutionAssumption
<1>1. DriverInit => DInv
    <2> SUFFICES ASSUME DriverInit PROVE DInv
        OBVIOUS
    <2>1. IInv
        BY InitInv DEF DriverInit
    <2>2. DriverTypeOK
        BY <2>1 DEF IInv, DriverInit, Init, DriverTypeOK, Stages
    <2> QED
        BY <2>1, <2>2 DEF DInv, DriverInit, Init, OnlyFirst, Evidenced, PersistReady,
                          DisposedHasLease
<1>2. DInv /\ [DriverNext]_allVars => DInv'
    <2> SUFFICES ASSUME DInv, [DriverNext]_allVars PROVE DInv'
        OBVIOUS
    <2>1. IInv'
        BY DriverStepsStore, StepInv DEF DInv
    <2>2. DriverTypeOK'
        BY <2>1, DriverTypes DEF DInv, IInv
    <2>3. Evidenced'
        BY LeasesGrow DEF DInv, Evidenced, TheAttempt
    <2> QED
        BY <2>1, <2>2, <2>3, FirstAttemptsOnly, CompletedBeforePersist,
           DispositionsKeepLease DEF DInv
<1> QED
    BY <1>1, <1>2, PTL DEF DriverSpec

\* The driver implements the store's specification, with the identity as the
\* refinement mapping: it calls the store only as the store allows, and what is
\* proved of the store holds of the store it drives.
THEOREM DriverImplementsStore == DriverSpec => Spec
<1>1. DriverInit => Init
    BY DEF DriverInit
<1>2. DInv /\ [DriverNext]_allVars => [Next]_vars
    BY DriverStepsStore DEF DInv
<1> QED
    BY <1>1, <1>2, DriverInductive, PTL DEF DriverSpec, Spec

\* Type correctness of the driver and of the store below it.
THEOREM DriverTypeCorrect == DriverSpec => []DriverTypeOK
<1>1. DInv => DriverTypeOK
    BY DEF DInv
<1> QED
    BY <1>1, DriverInductive, PTL

\* Whatever crashes and replays there are, an item has one attempt, and the
\* dispositions kept for it are those of the proposal that completed its lease.
THEOREM ReplayDisposesOnce == DriverSpec => []DisposedAsCompleted
<1>1. DInv => DisposedAsCompleted
    <2> SUFFICES ASSUME DInv, NEW i \in Items
                 PROVE  /\ \A a, b \in attempts : a.id.item = i /\ b.id.item = i => a = b
                        /\ disposed[i] # None =>
                              \E l \in leases :
                                  /\ l.attempt.item = i
                                  /\ l.lifecycle = "RELEASED"
                                  /\ l.evidence = disposed[i]
                                  /\ l.attempt.chain = <<disposed[i]>>
        BY DEF DisposedAsCompleted
    <2>1. \A a, b \in attempts : a.id.item = i /\ b.id.item = i => a = b
        BY DEF DInv, OnlyFirst, IInv, LineageInv, SingleLineage
    <2>2. ASSUME disposed[i] # None
          PROVE  \E l \in leases :
                     /\ l.attempt.item = i
                     /\ l.lifecycle = "RELEASED"
                     /\ l.evidence = disposed[i]
                     /\ l.attempt.chain = <<disposed[i]>>
        BY <2>2 DEF DInv, DisposedHasLease, Evidenced, IInv, LeaseInv, OpenLeaseHasNoEvidence
    <2> QED
        BY <2>1, <2>2
<1> QED
    BY <1>1, DriverInductive, PTL
=============================================================================
