-------------------------- MODULE Services_proofs --------------------------
(***************************************************************************)
(* Proofs about the three services a workspace works with: the executor    *)
(* manager, the artifact store and the event hub.  They share no state.    *)
(***************************************************************************)
EXTENDS ExecutorManager, ArtifactStore, EventHub, SequenceTheorems, FiniteSetTheorems,
        WellFoundedInduction, TLAPS

-----------------------------------------------------------------------------
(***************************************************************************)
(* ExecutorManager.                                                        *)
(***************************************************************************)

\* A lease is told from all others by its id, and only ids of leases that were
\* handed out are cancelled.
IdsTell ==
    /\ \A l, m \in worker_leases : l.id = m.id => l = m
    /\ \A i \in cancelled : i < next_lease

\* The leases of a job since its last revocation have rising attempts, and the
\* job's current attempt is not below them.
AttemptsRise ==
    /\ \A l \in worker_leases :
          /\ l.since <= revocations[l.job]
          /\ l.since = revocations[l.job] =>
                current_attempts[l.job] # NoAttempt /\ l.attempt <= current_attempts[l.job]
    /\ \A l, m \in worker_leases :
          l.job = m.job /\ l.id < m.id =>
              l.since <= m.since /\ (l.since = m.since => l.attempt < m.attempt)

ManagerInd == ManagerTypeOK /\ CurrentIsNewest /\ IdsTell /\ AttemptsRise

\* Lease keeps the invariant: the new lease has the highest id and an attempt
\* above those of the job since its last revocation.
LEMMA LeaseStep ==
    ASSUME ManagerInd, NEW j \in Jobs, Lease(j)
    PROVE  ManagerInd'
<1> DEFINE new == [id |-> next_lease, job |-> j, attempt |-> NextAttempt(j),
                   since |-> revocations[j]]
<1> USE DEF NoAttempt
<1>1. /\ worker_leases' = worker_leases \cup {new}
      /\ current_attempts' = [current_attempts EXCEPT ![j] = NextAttempt(j)]
      /\ next_lease' = next_lease + 1
      /\ UNCHANGED <<cancelled, results, revocations>>
  BY DEF Lease
<1>2. NextAttempt(j) \in Nat \ {0} /\ next_lease \in Nat \ {0} /\ revocations[j] \in Nat
  BY DEF ManagerInd, ManagerTypeOK, NextAttempt
<1>3. new \in WorkerLease
  BY <1>2 DEF WorkerLease
<1>4. \A l \in worker_leases : l \in WorkerLease /\ l.id < next_lease
  BY DEF ManagerInd, ManagerTypeOK
<1> HIDE DEF new
<1>5. new.id = next_lease /\ new.job = j /\ new.attempt = NextAttempt(j) /\ new.since = revocations[j]
  BY DEF new
<1>6. ManagerTypeOK'
  <2>1. \A l \in worker_leases' : l \in WorkerLease /\ l.id < next_lease'
    BY <1>1, <1>2, <1>3, <1>4, <1>5 DEF WorkerLease
  <2> QED  BY <1>1, <1>2, <2>1 DEF ManagerInd, ManagerTypeOK
<1>7. IdsTell'
  BY <1>1, <1>2, <1>4, <1>5 DEF ManagerInd, IdsTell, WorkerLease, ManagerTypeOK
<1>8. CurrentIsNewest'
  <2> SUFFICES ASSUME NEW l \in worker_leases', Newest(l)', current_attempts'[l.job] # 0
               PROVE  current_attempts'[l.job] = l.attempt /\ l.id \notin cancelled'
    BY DEF CurrentIsNewest
  <2>1. CASE l = new
    BY <2>1, <1>1, <1>2, <1>5 DEF ManagerInd, ManagerTypeOK, IdsTell
  <2>2. CASE l \in worker_leases /\ l.job = j
    BY <2>2, <1>1, <1>4, <1>5 DEF Newest, WorkerLease, ManagerInd, ManagerTypeOK
  <2>3. CASE l \in worker_leases /\ l.job # j
    <3>1. Newest(l)
      BY <1>1 DEF Newest
    <3>2. current_attempts'[l.job] = current_attempts[l.job]
      BY <1>1, <1>4, <2>3 DEF WorkerLease, ManagerInd, ManagerTypeOK
    <3> QED  BY <3>1, <3>2, <2>3, <1>1 DEF ManagerInd, CurrentIsNewest
  <2> QED  BY <2>1, <2>2, <2>3, <1>1
<1>9. AttemptsRise'
  <2>1. ASSUME NEW l \in worker_leases'
        PROVE  /\ l.since <= revocations'[l.job]
               /\ l.since = revocations'[l.job] =>
                     current_attempts'[l.job] # 0 /\ l.attempt <= current_attempts'[l.job]
    <3>1. CASE l = new
      BY <3>1, <1>1, <1>2, <1>5 DEF ManagerInd, ManagerTypeOK
    <3>2. CASE l \in worker_leases /\ l.job = j
      BY <3>2, <1>1, <1>2, <1>4 DEF ManagerInd, ManagerTypeOK, AttemptsRise, NextAttempt, WorkerLease
    <3>3. CASE l \in worker_leases /\ l.job # j
      BY <3>3, <1>1, <1>4 DEF ManagerInd, ManagerTypeOK, AttemptsRise, WorkerLease
    <3> QED  BY <3>1, <3>2, <3>3, <1>1
  <2>2. ASSUME NEW l \in worker_leases', NEW m \in worker_leases', l.job = m.job, l.id < m.id
        PROVE  l.since <= m.since /\ (l.since = m.since => l.attempt < m.attempt)
    <3>1. l \in worker_leases
      BY <2>2, <1>1, <1>2, <1>4, <1>5 DEF WorkerLease
    <3>2. CASE m \in worker_leases
      BY <3>1, <3>2, <2>2 DEF ManagerInd, AttemptsRise
    <3>3. CASE m = new
      <4>1. l.since = revocations[j] => current_attempts[j] # 0 /\ l.attempt <= current_attempts[j]
        BY <3>1, <3>3, <2>2, <1>5 DEF ManagerInd, AttemptsRise
      <4>2. l.since <= revocations[j]
        BY <3>1, <3>3, <2>2, <1>5 DEF ManagerInd, AttemptsRise
      <4>3. l.attempt \in Nat /\ current_attempts[j] \in Nat
        BY <3>1, <1>4 DEF WorkerLease, ManagerInd, ManagerTypeOK
      <4> QED  BY <4>1, <4>2, <4>3, <3>3, <1>5 DEF NextAttempt
    <3> QED  BY <3>2, <3>3, <1>1
  <2> QED  BY <2>1, <2>2 DEF AttemptsRise
<1> QED  BY <1>6, <1>7, <1>8, <1>9 DEF ManagerInd

\* Revoke keeps the invariant: the job has no current attempt, and none of its
\* leases is one since the last revocation.
LEMMA RevokeStep ==
    ASSUME ManagerInd, NEW l \in worker_leases, Revoke(l)
    PROVE  ManagerInd'
<1> USE DEF NoAttempt
<1>1. l \in WorkerLease /\ l.job \in Jobs /\ l.id \in Nat /\ l.id < next_lease
  BY DEF ManagerInd, ManagerTypeOK, WorkerLease
<1>2. /\ cancelled' = cancelled \cup {l.id}
      /\ current_attempts' = [current_attempts EXCEPT ![l.job] = 0]
      /\ revocations' = [revocations EXCEPT ![l.job] = revocations[l.job] + 1]
      /\ UNCHANGED <<next_lease, worker_leases, results>>
  BY DEF Revoke, Forgotten
<1>3. ManagerTypeOK'
  <2>1. current_attempts' \in [Jobs -> Nat] /\ revocations' \in [Jobs -> Nat]
    BY <1>1, <1>2 DEF ManagerInd, ManagerTypeOK
  <2>2. cancelled' \subseteq Nat
    BY <1>1, <1>2 DEF ManagerInd, ManagerTypeOK
  <2> QED  BY <1>2, <2>1, <2>2 DEF ManagerInd, ManagerTypeOK
<1>4. IdsTell'
  BY <1>1, <1>2 DEF ManagerInd, IdsTell
<1>5. CurrentIsNewest'
  <2> SUFFICES ASSUME NEW k \in worker_leases, Newest(k), current_attempts'[k.job] # 0
               PROVE  current_attempts'[k.job] = k.attempt /\ k.id \notin cancelled'
    BY <1>2 DEF CurrentIsNewest, Newest
  <2>1. k.job \in Jobs /\ k.job # l.job
    BY <1>1, <1>2 DEF ManagerInd, ManagerTypeOK, WorkerLease
  <2>2. current_attempts'[k.job] = current_attempts[k.job]
    BY <1>1, <1>2, <2>1 DEF ManagerInd, ManagerTypeOK
  <2>3. k.id # l.id
    BY <2>1 DEF ManagerInd, IdsTell
  <2> QED  BY <2>2, <2>3, <1>2 DEF ManagerInd, CurrentIsNewest
<1>6. AttemptsRise'
  <2>1. ASSUME NEW k \in worker_leases
        PROVE  /\ k.since <= revocations'[k.job]
               /\ k.since = revocations'[k.job] =>
                     current_attempts'[k.job] # 0 /\ k.attempt <= current_attempts'[k.job]
    <3>1. k.job \in Jobs /\ k.since \in Nat /\ revocations[k.job] \in Nat /\ k.since <= revocations[k.job]
      BY DEF ManagerInd, ManagerTypeOK, WorkerLease, AttemptsRise
    <3>2. CASE k.job = l.job
      BY <3>1, <3>2, <1>2 DEF ManagerInd, ManagerTypeOK
    <3>3. CASE k.job # l.job
      BY <3>1, <3>3, <1>2 DEF ManagerInd, ManagerTypeOK, AttemptsRise
    <3> QED  BY <3>2, <3>3
  <2> QED  BY <2>1, <1>2 DEF ManagerInd, AttemptsRise
<1> QED  BY <1>3, <1>4, <1>5, <1>6 DEF ManagerInd

\* Run keeps the invariant: it adds a result.
LEMMA RunStep ==
    ASSUME ManagerInd, NEW l \in worker_leases, Run(l)
    PROVE  ManagerInd'
<1>1. ResultOf(l) \in WorkerResult
  BY DEF ManagerInd, ManagerTypeOK, WorkerLease, ResultOf, WorkerResult
<1>2. ManagerTypeOK'
  BY <1>1 DEF ManagerInd, ManagerTypeOK, Run
<1>3. CurrentIsNewest' /\ IdsTell' /\ AttemptsRise'
  BY DEF ManagerInd, CurrentIsNewest, Newest, IdsTell, AttemptsRise, Run
<1> QED  BY <1>2, <1>3 DEF ManagerInd

\* The inductive invariant of the executor manager.
LEMMA ManagerInductive == ManagerSpec => []ManagerInd
<1>1. ManagerInit => ManagerInd
  BY DEF ManagerInit, ManagerInd, ManagerTypeOK, CurrentIsNewest, IdsTell, AttemptsRise, NoAttempt
<1>2. ManagerInd /\ [ManagerNext]_managerVars => ManagerInd'
  <2> SUFFICES ASSUME ManagerInd, [ManagerNext]_managerVars
               PROVE  ManagerInd'
    OBVIOUS
  <2>1. CASE \E j \in Jobs : Lease(j)
    BY <2>1, LeaseStep
  <2>2. CASE \E l \in worker_leases : Run(l) \/ Revoke(l)
    BY <2>2, RunStep, RevokeStep
  <2>3. CASE UNCHANGED managerVars
    BY <2>3 DEF managerVars, ManagerInd, ManagerTypeOK, CurrentIsNewest, Newest, IdsTell, AttemptsRise
  <2> QED  BY <2>1, <2>2, <2>3 DEF ManagerNext
<1> QED  BY <1>1, <1>2, PTL DEF ManagerSpec

\* The fields of the manager have their types, and the current attempt of a
\* job is that of its newest lease, which was not revoked, for any number of
\* jobs, leases and revocations.
THEOREM ManagerConsistent == ManagerSpec => []ManagerInvariant
<1>1. ManagerInd => ManagerInvariant
  BY DEF ManagerInd, ManagerInvariant
<1> QED  BY <1>1, ManagerInductive, PTL

\* validate_current takes a late result from no lease but the newest, between
\* two revocations of the job.
THEOREM ManagerRejectsLate == ManagerSpec => []LateResultsRejected
<1>1. ManagerInd => LateResultsRejected
  <2> SUFFICES ASSUME ManagerInd, NEW l \in worker_leases, MayComplete(l),
                      l.since = revocations[l.job],
                      NEW m \in worker_leases, m.job = l.job
               PROVE  m.id <= l.id
    BY DEF LateResultsRejected, Newest
  <2>1. /\ l.id \in Nat /\ m.id \in Nat /\ l.attempt \in Nat /\ m.attempt \in Nat
        /\ l.since \in Nat /\ m.since \in Nat /\ current_attempts[l.job] \in Nat
    BY DEF ManagerInd, ManagerTypeOK, WorkerLease
  <2>2. l.attempt = current_attempts[l.job]
    BY DEF MayComplete, ValidateCurrent
  <2>3. /\ m.since <= revocations[l.job]
        /\ m.since = revocations[l.job] => m.attempt <= current_attempts[l.job]
    BY DEF ManagerInd, AttemptsRise
  <2>4. l.id < m.id => l.since <= m.since /\ (l.since = m.since => l.attempt < m.attempt)
    BY DEF ManagerInd, AttemptsRise
  <2> QED  BY <2>1, <2>2, <2>3, <2>4
<1> QED  BY <1>1, ManagerInductive, PTL

-----------------------------------------------------------------------------
(***************************************************************************)
(* ArtifactStore.                                                          *)
(***************************************************************************)

\* ArtifactTypeOK, with the publish under way as such.
StoreTypes ==
    /\ root \in BOOLEAN
    /\ objects \subseteq Keys
    /\ leases \in [Keys -> Nat]
    /\ temps \in [Keys -> {"none", "part", "whole"}]
    /\ files \in [Keys -> {"none", "part", "whole"}]
    /\ publishing = {} \/ \E k \in Keys : publishing = {k}
    /\ holders \in [Keys -> Nat]
    /\ published \subseteq Keys
    /\ faults \in 0..MaxFaults
    /\ \A k \in Keys : k \notin objects => leases[k] = 0

\* The file of a published key is whole from the first publish on.
FilesWhole == root => \A k \in published : files[k] = "whole"

\* The leases of a key that was not published while it was held are those of
\* its holders.
LeasesExact == \A k \in Keys \ replaced : leases[k] = holders[k]

ArtifactInd == StoreTypes /\ FilesWhole /\ LeasesHaveHolders /\ LeasesExact

\* The steps of publish keep the invariant: a file is replaced by a whole one,
\* and the object starts without leases.
LEMMA PublishStep ==
    ASSUME ArtifactInd, NEW k \in Keys,
           \/ PublishInMemory(k) \/ OpenTemp(k) \/ WriteTemp(k) \/ Rename(k) \/ PublishError(k)
    PROVE  ArtifactInd'
<1> USE ArtifactAssumption DEF ArtifactInd
<1>1. CASE PublishInMemory(k)
  <2>1. StoreTypes'
    BY <1>1 DEF PublishInMemory, StoreObject, StoreTypes
  <2>2. FilesWhole'
    BY <1>1 DEF PublishInMemory, FilesWhole
  <2>3. LeasesHaveHolders' /\ LeasesExact'
    BY <1>1 DEF PublishInMemory, StoreObject, StoreTypes, LeasesHaveHolders, LeasesExact
  <2> QED  BY <2>1, <2>2, <2>3
<1>2. CASE OpenTemp(k)
  BY <1>2 DEF OpenTemp, memory, StoreTypes, FilesWhole, LeasesHaveHolders, LeasesExact
<1>3. CASE WriteTemp(k)
  BY <1>3 DEF WriteTemp, memory, StoreTypes, FilesWhole, LeasesHaveHolders, LeasesExact
<1>4. CASE Rename(k)
  <2>1. StoreTypes'
    BY <1>4 DEF Rename, Written, StoreObject, StoreTypes
  <2>2. FilesWhole'
    BY <1>4 DEF Rename, Written, StoreObject, StoreTypes, FilesWhole
  <2>3. LeasesHaveHolders' /\ LeasesExact'
    BY <1>4 DEF Rename, StoreObject, StoreTypes, LeasesHaveHolders, LeasesExact
  <2> QED  BY <2>1, <2>2, <2>3
<1>5. CASE PublishError(k)
  BY <1>5 DEF PublishError, memory, StoreTypes, FilesWhole, LeasesHaveHolders, LeasesExact
<1> QED  BY <1>1, <1>2, <1>3, <1>4, <1>5

\* Acquiring and releasing a lease keep the invariant.
LEMMA HolderStep ==
    ASSUME ArtifactInd, NEW k \in Keys, Acquire(k) \/ Release(k)
    PROVE  ArtifactInd'
<1> USE DEF ArtifactInd
<1>1. CASE Acquire(k)
  <2>1. StoreTypes' /\ FilesWhole'
    BY <1>1 DEF Acquire, StoreTypes, FilesWhole
  <2>2. LeasesHaveHolders' /\ LeasesExact'
    BY <1>1 DEF Acquire, StoreTypes, LeasesHaveHolders, LeasesExact
  <2> QED  BY <2>1, <2>2
<1>2. CASE Release(k)
  <2>1. leases[k] \in Nat /\ holders[k] \in Nat /\ CountedDown(k) \in Nat
        /\ (k \notin objects => CountedDown(k) = 0)
    BY DEF CountedDown, StoreTypes
  <2>2. StoreTypes'
    BY <1>2, <2>1 DEF Release, StoreTypes
  <2>3. FilesWhole'
    BY <1>2 DEF Release, FilesWhole
  <2>4. CountedDown(k) <= holders[k] - 1 /\ (k \notin replaced => CountedDown(k) = holders[k] - 1)
    BY <1>2, <2>1 DEF Release, CountedDown, StoreTypes, LeasesHaveHolders, LeasesExact
  <2>5. LeasesHaveHolders' /\ LeasesExact'
    BY <1>2, <2>4 DEF Release, StoreTypes, LeasesHaveHolders, LeasesExact
  <2> QED  BY <2>2, <2>3, <2>5
<1> QED  BY <1>1, <1>2

\* A collection keeps the invariant: it takes what has no lease.
LEMMA GcStep ==
    ASSUME ArtifactInd, Gc
    PROVE  ArtifactInd'
<1> USE DEF ArtifactInd
<1>1. leases' = leases
  BY DEF Gc, Unleased, StoreTypes
<1>2. StoreTypes'
  BY <1>1 DEF Gc, Unleased, StoreTypes
<1>3. FilesWhole' /\ LeasesHaveHolders' /\ LeasesExact'
  BY <1>1 DEF Gc, FilesWhole, LeasesHaveHolders, LeasesExact
<1> QED  BY <1>2, <1>3

\* A restart keeps the invariant: the memory is new and the files stay.
LEMMA RestartStep ==
    ASSUME ArtifactInd, Restart
    PROVE  ArtifactInd'
BY ArtifactAssumption
   DEF ArtifactInd, Restart, StoreTypes, FilesWhole, LeasesHaveHolders, LeasesExact

\* The inductive invariant of the artifact store.
LEMMA ArtifactInductive == ArtifactSpec => []ArtifactInd
<1>1. ArtifactInit => ArtifactInd
  BY ArtifactAssumption
     DEF ArtifactInit, ArtifactInd, StoreTypes, FilesWhole, LeasesHaveHolders, LeasesExact
<1>2. ArtifactInd /\ [ArtifactNext]_artifactVars => ArtifactInd'
  <2> SUFFICES ASSUME ArtifactInd, [ArtifactNext]_artifactVars
               PROVE  ArtifactInd'
    OBVIOUS
  <2>1. CASE UNCHANGED artifactVars
    BY <2>1 DEF artifactVars, memory, ArtifactInd, StoreTypes, FilesWhole, LeasesHaveHolders, LeasesExact
  <2> QED  BY <2>1, PublishStep, HolderStep, GcStep, RestartStep DEF ArtifactNext
<1> QED  BY <1>1, <1>2, PTL DEF ArtifactSpec

\* The fields of the store have their types, only objects have leases, and no
\* lease outlives its holders.
THEOREM LeasesConsistent == ArtifactSpec => []LeaseInvariant
<1>1. ArtifactInd => LeaseInvariant
  <2> SUFFICES ASSUME ArtifactInd
               PROVE  Cardinality(publishing) <= 1 /\ publishing \subseteq Keys
    BY Zenon DEF ArtifactInd, StoreTypes, LeaseInvariant, ArtifactTypeOK
  <2>1. CASE publishing = {}
    BY <2>1, FS_EmptySet
  <2>2. CASE \E k \in Keys : publishing = {k}
    <3>1. PICK k \in Keys : publishing = {k}
      BY <2>2
    <3>2. Cardinality({k}) = 1
      BY FS_Singleton
    <3> QED  BY <3>1, <3>2
  <2> QED  BY <2>1, <2>2 DEF ArtifactInd, StoreTypes
<1> QED  BY <1>1, ArtifactInductive, PTL

\* What was published stays readable from a store with a root, over failed
\* publishes, restarts and collections.
THEOREM PublishedStaysReadable == ArtifactSpec => []PublishedReadable
<1>1. ArtifactInd => PublishedReadable
  BY DEF ArtifactInd, FilesWhole, PublishedReadable, Readable
<1> QED  BY <1>1, ArtifactInductive, PTL

\* gc takes nothing that is held, unless it was published again while held.
THEOREM GcKeepsHeld == ArtifactSpec => []HeldKept
<1>1. ArtifactInd => HeldKept
  BY DEF ArtifactInd, StoreTypes, LeasesExact, HeldKept
<1> QED  BY <1>1, ArtifactInductive, PTL

-----------------------------------------------------------------------------
(***************************************************************************)
(* EventHub.                                                               *)
(***************************************************************************)

\* A non-empty set of natural numbers has a least element.
LEMMA LeastNumber ==
    ASSUME NEW T, T \subseteq Nat, T # {}
    PROVE  \E n \in T : \A m \in T : n <= m
<1>1. IsWellFoundedOn(OpToRel(<, Nat), Nat)
  BY NatLessThanWellFounded
<1>2. PICK n \in T : \A m \in T : ~(<<m, n>> \in OpToRel(<, Nat))
  BY <1>1, WFMin
<1>3. \A m \in T : ~(m < n)
  BY <1>2 DEF OpToRel
<1> QED  BY <1>3

\* Induction: a set of natural numbers that holds 0 and the successor of each of
\* its members holds them all.
LEMMA Inductively ==
    ASSUME NEW S, S \subseteq Nat, 0 \in S, \A n \in S : n + 1 \in S
    PROVE  S = Nat
<1> SUFFICES ASSUME Nat \ S # {}
             PROVE  FALSE
  OBVIOUS
<1>1. PICK n \in Nat \ S : \A m \in Nat \ S : n <= m
  BY LeastNumber
<1>2. n # 0 /\ n - 1 \in Nat /\ n - 1 \in S
  BY <1>1
<1> QED  BY <1>1, <1>2

\* What an event counts against the credit, and the sums of that over the first
\* events of a sequence: ProgressBytes is the last of them.
Weight(e) == IF e.kind = "progress" THEN e.bytes ELSE 0
IsSum(f, q) ==
    /\ f \in [0..Len(q) -> Nat]
    /\ f[0] = 0
    /\ \A k \in 1..Len(q) : f[k] = f[k - 1] + Weight(q[k])
SumEquation(f, q) ==
    f = [k \in 0..Len(q) |-> IF k = 0 THEN 0 ELSE f[k - 1] + Weight(q[k])]

LEMMA WeightType ==
    ASSUME NEW e \in BuildEvent
    PROVE  Weight(e) \in Nat
BY DEF Weight, BuildEvent

\* The sums of a sequence with one event more.
LEMMA SumOfAppend ==
    ASSUME NEW q \in Seq(BuildEvent), NEW e \in BuildEvent, NEW f, IsSum(f, q)
    PROVE  \E g : IsSum(g, Append(q, e)) /\ g[Len(q) + 1] = f[Len(q)] + Weight(e)
<1> DEFINE n == Len(q)
           g == [k \in 0..(n + 1) |-> IF k <= n THEN f[k] ELSE f[n] + Weight(e)]
<1>1. /\ Len(Append(q, e)) = n + 1 /\ n \in Nat
      /\ \A i \in 1..n : Append(q, e)[i] = q[i]
      /\ Append(q, e)[n + 1] = e
  BY AppendProperties
<1>2. g \in [0..(n + 1) -> Nat]
  BY <1>1, WeightType DEF IsSum
<1>3. g[0] = 0
  BY <1>1 DEF IsSum
<1>4. ASSUME NEW k \in 1..(n + 1)
      PROVE  g[k] = g[k - 1] + Weight(Append(q, e)[k])
  <2>1. CASE k <= n
    BY <2>1, <1>1 DEF IsSum
  <2>2. CASE k = n + 1
    BY <2>2, <1>1 DEF IsSum
  <2> QED  BY <2>1, <2>2, <1>1
<1>5. g[n + 1] = f[n] + Weight(e)
  BY <1>1
<1> QED  BY <1>1, <1>2, <1>3, <1>4, <1>5 DEF IsSum

\* Every sequence of events has its sums.
LEMMA SumsExist ==
    ASSUME NEW q \in Seq(BuildEvent)
    PROVE  \E f : IsSum(f, q)
<1> DEFINE S == {n \in Nat : \A p \in Seq(BuildEvent) : Len(p) = n => \E f : IsSum(f, p)}
<1>1. 0 \in S
  <2> SUFFICES ASSUME NEW p \in Seq(BuildEvent), Len(p) = 0
               PROVE  \E f : IsSum(f, p)
    OBVIOUS
  <2>1. IsSum([k \in 0..0 |-> 0], p)
    BY DEF IsSum
  <2> QED  BY <2>1
<1>2. ASSUME NEW n \in S
      PROVE  n + 1 \in S
  <2> SUFFICES ASSUME NEW p \in Seq(BuildEvent), Len(p) = n + 1
               PROVE  \E f : IsSum(f, p)
    OBVIOUS
  <2> DEFINE front == SubSeq(p, 1, n)
  <2>1. front \in Seq(BuildEvent) /\ Len(front) = n /\ p[n + 1] \in BuildEvent
        /\ p = Append(front, p[n + 1])
    <3>1. /\ front \in Seq(BuildEvent) /\ Len(front) = n
          /\ \A i \in 1..n : front[i] = p[i]
      BY SubSeqProperties
    <3>2. p[n + 1] \in BuildEvent
      BY ElementOfSeq
    <3> HIDE DEF front
    <3>3. p = Append(front, p[n + 1])
      BY <3>1, <3>2, AppendProperties, SeqEqual
    <3> QED  BY <3>1, <3>2, <3>3
  <2>2. PICK f : IsSum(f, front)
    BY <2>1
  <2> QED  BY <2>1, <2>2, SumOfAppend
<1>3. S = Nat
  BY <1>1, <1>2, Inductively
<1> QED  BY <1>3

\* The equation that defines the sums in ProgressBytes has one solution.
LEMMA SumsUnique ==
    ASSUME NEW q \in Seq(BuildEvent), NEW f, IsSum(f, q)
    PROVE  SumEquation(f, q) /\ \A g : SumEquation(g, q) => g = f
<1> DEFINE n == Len(q)
<1>1. SumEquation(f, q)
  <2>1. \A k \in 0..n : f[k] = IF k = 0 THEN 0 ELSE f[k - 1] + Weight(q[k])
    BY DEF IsSum
  <2>2. f = [k \in 0..n |-> f[k]]
    BY DEF IsSum
  <2> QED  BY <2>1, <2>2 DEF SumEquation
<1>2. ASSUME NEW g, SumEquation(g, q)
      PROVE  g = f
  <2>1. \A k \in 0..n : g[k] = IF k = 0 THEN 0 ELSE g[k - 1] + Weight(q[k])
    BY <1>2 DEF SumEquation
  <2>2. g = [k \in 0..n |-> g[k]]
    BY <1>2 DEF SumEquation
  <2> DEFINE S == {k \in Nat : k \in 0..n => g[k] = f[k]}
  <2>3. 0 \in S
    BY <2>1 DEF IsSum
  <2>4. ASSUME NEW k \in S
        PROVE  k + 1 \in S
    <3> SUFFICES ASSUME k + 1 \in 0..n
                 PROVE  g[k + 1] = f[k + 1]
      OBVIOUS
    <3>1. k \in 0..n /\ k + 1 \in 1..n /\ (k + 1) - 1 = k /\ k + 1 # 0
      OBVIOUS
    <3>2. g[k + 1] = g[k] + Weight(q[k + 1])
      BY <2>1, <3>1
    <3>3. f[k + 1] = f[k] + Weight(q[k + 1])
      BY <3>1 DEF IsSum
    <3> QED  BY <3>1, <3>2, <3>3
  <2>5. S = Nat
    BY <2>3, <2>4, Inductively
  <2>6. \A k \in 0..n : g[k] = f[k]
    BY <2>5
  <2>7. f = [k \in 0..n |-> f[k]]
    BY DEF IsSum
  <2> QED  BY <2>2, <2>6, <2>7
<1> QED  BY <1>1, <1>2

\* ProgressBytes is the last of the sums.
LEMMA ProgressBytesIsSum ==
    ASSUME NEW q \in Seq(BuildEvent), NEW f, IsSum(f, q)
    PROVE  ProgressBytes(q) = f[Len(q)]
<1> DEFINE chosen == CHOOSE g : SumEquation(g, q)
<1>1. chosen = f
  BY SumsUnique, Zenon
<1>2. ProgressBytes(q) = chosen[Len(q)]
  BY DEF ProgressBytes, SumEquation, Weight
<1> QED  BY <1>1, <1>2

\* The bytes of progress in no events, and in one event more.
LEMMA ProgressBytesSteps ==
    /\ ProgressBytes(<<>>) = 0
    /\ \A q \in Seq(BuildEvent) : ProgressBytes(q) \in Nat
    /\ \A q \in Seq(BuildEvent), e \in BuildEvent :
          ProgressBytes(Append(q, e)) = ProgressBytes(q) + Weight(e)
<1>1. ASSUME NEW q \in Seq(BuildEvent)
      PROVE  ProgressBytes(q) \in Nat /\ (q = <<>> => ProgressBytes(q) = 0)
  <2>1. PICK f : IsSum(f, q)
    BY SumsExist
  <2>2. ProgressBytes(q) = f[Len(q)]
    BY <2>1, ProgressBytesIsSum
  <2>3. Len(q) \in 0..Len(q) /\ (q = <<>> => Len(q) = 0)
    OBVIOUS
  <2> QED  BY <2>1, <2>2, <2>3 DEF IsSum
<1>2. ASSUME NEW q \in Seq(BuildEvent), NEW e \in BuildEvent
      PROVE  ProgressBytes(Append(q, e)) = ProgressBytes(q) + Weight(e)
  <2>1. PICK f : IsSum(f, q)
    BY SumsExist
  <2>2. PICK g : IsSum(g, Append(q, e)) /\ g[Len(q) + 1] = f[Len(q)] + Weight(e)
    BY <2>1, SumOfAppend
  <2>3. Append(q, e) \in Seq(BuildEvent) /\ Len(Append(q, e)) = Len(q) + 1
    BY AppendProperties
  <2> QED  BY <2>1, <2>2, <2>3, ProgressBytesIsSum
<1>3. <<>> \in Seq(BuildEvent)
  OBVIOUS
<1> QED  BY <1>1, <1>2, <1>3

\* The events of q are numbered upwards and no higher than n.
OrderedUpTo(q, n) ==
    /\ \A k \in 1..Len(q) : q[k].number <= n
    /\ \A j, k \in 1..Len(q) : j < k => q[j].number < q[k].number

\* The terminal events among those offered are in q.
TerminalsIn(offers, q) == \A k \in OfKind(offers, "terminal") : k \in Numbers(q)

\* Of the events up to n none is missing in q before there is a gap, and none
\* in front of the gap afterwards.
MarkedUpTo(q, n, gap) ==
    IF gap THEN \E k \in OfKind(q, "gap") : \A d \in 1..n : d < q[k].number => d \in Numbers(q)
    ELSE \A d \in 1..n : d \in Numbers(q)

HubTypes ==
    /\ HubTypeOK
    /\ delivered \in [StreamIds -> Seq(BuildEvent)]
    /\ offered \in [StreamIds -> Seq(BuildEvent)]
    /\ granted \in [StreamIds -> Nat]

StreamInd(s) ==
    /\ s \notin streams => Stream(s) = <<>>
    /\ OrderedUpTo(Stream(s), Len(offered[s]))
    /\ TerminalsIn(offered[s], Stream(s))
    /\ MarkedUpTo(Stream(s), Len(offered[s]), gap_emitted[s])
    /\ credit[s] + ProgressBytes(Stream(s)) <= granted[s]

HubInd == HubTypes /\ \A s \in StreamIds : StreamInd(s)

LEMMA NumbersOfAppend ==
    ASSUME NEW q \in Seq(BuildEvent), NEW e \in BuildEvent
    PROVE  Numbers(Append(q, e)) = Numbers(q) \cup {e.number}
<1>1. /\ Len(Append(q, e)) = Len(q) + 1 /\ Len(q) \in Nat
      /\ \A i \in 1..Len(q) : Append(q, e)[i] = q[i]
      /\ Append(q, e)[Len(q) + 1] = e
  BY AppendProperties
<1>2. 1..(Len(q) + 1) = (1..Len(q)) \cup {Len(q) + 1}
  BY <1>1
<1> DEFINE r == Append(q, e)
<1> HIDE DEF r
<1>3. ASSUME NEW x \in Numbers(r)
      PROVE  x \in Numbers(q) \cup {e.number}
  <2>1. PICK k \in 1..Len(r) : x = r[k].number
    BY <1>3 DEF Numbers
  <2>2. CASE k \in 1..Len(q)
    BY <2>1, <2>2, <1>1 DEF Numbers, r
  <2>3. CASE k = Len(q) + 1
    BY <2>1, <2>3, <1>1 DEF r
  <2> QED  BY <2>1, <2>2, <2>3, <1>1 DEF r
<1>4. ASSUME NEW x \in Numbers(q)
      PROVE  x \in Numbers(r)
  <2>1. PICK k \in 1..Len(q) : x = q[k].number
    BY <1>4 DEF Numbers
  <2>2. k \in 1..Len(r) /\ r[k] = q[k]
    BY <1>1 DEF r
  <2> QED  BY <2>1, <2>2 DEF Numbers
<1>5. e.number \in Numbers(r)
  <2>1. Len(q) + 1 \in 1..Len(r) /\ r[Len(q) + 1] = e
    BY <1>1 DEF r
  <2> QED  BY <2>1 DEF Numbers
<1> QED  BY <1>3, <1>4, <1>5 DEF r

LEMMA NumbersBounded ==
    ASSUME NEW q \in Seq(BuildEvent), NEW n, OrderedUpTo(q, n)
    PROVE  \A i \in 1..Len(q) : q[i].number \in Nat /\ q[i].number <= n
<1>1. \A i \in 1..Len(q) : q[i] \in BuildEvent
  BY ElementOfSeq
<1>2. \A e \in BuildEvent : e.number \in Nat
  BY DEF BuildEvent
<1> QED  BY <1>1, <1>2 DEF OrderedUpTo

\* What a subscriber sees when the event numbered n + 1 is put behind the others.
LEMMA EventBehind ==
    ASSUME NEW q \in Seq(BuildEvent), NEW n \in Nat, NEW e \in BuildEvent, e.number = n + 1,
           OrderedUpTo(q, n)
    PROVE  /\ OrderedUpTo(Append(q, e), n + 1)
           /\ \A gap \in BOOLEAN : MarkedUpTo(q, n, gap) => MarkedUpTo(Append(q, e), n + 1, gap)
           /\ MarkedUpTo(q, n, FALSE) /\ e.kind = "gap" => MarkedUpTo(Append(q, e), n + 1, TRUE)
<1> DEFINE r == Append(q, e)
<1>1. /\ r \in Seq(BuildEvent) /\ Len(r) = Len(q) + 1 /\ Len(q) \in Nat
      /\ \A i \in 1..Len(q) : r[i] = q[i]
      /\ r[Len(q) + 1] = e
  BY AppendProperties
<1>2. Numbers(r) = Numbers(q) \cup {n + 1}
  BY NumbersOfAppend
<1>3. \A i \in 1..Len(q) : q[i].number \in Nat /\ q[i].number <= n
  BY NumbersBounded
<1> HIDE DEF r
<1>4. OrderedUpTo(r, n + 1)
  <2>1. \A k \in 1..Len(r) : r[k].number <= n + 1
    <3> SUFFICES ASSUME NEW k \in 1..Len(r)
                 PROVE  r[k].number <= n + 1
      OBVIOUS
    <3>1. CASE k \in 1..Len(q)
      BY <3>1, <1>1, <1>3
    <3>2. CASE k = Len(q) + 1
      BY <3>2, <1>1
    <3> QED  BY <3>1, <3>2, <1>1
  <2>2. ASSUME NEW j \in 1..Len(r), NEW k \in 1..Len(r), j < k
        PROVE  r[j].number < r[k].number
    <3>1. j \in 1..Len(q) /\ r[j] = q[j]
      BY <2>2, <1>1
    <3>2. CASE k \in 1..Len(q)
      BY <3>1, <3>2, <2>2, <1>1 DEF OrderedUpTo
    <3>3. CASE k = Len(q) + 1
      BY <3>1, <3>3, <1>1, <1>3
    <3> QED  BY <3>2, <3>3, <1>1
  <2> QED  BY <2>1, <2>2 DEF OrderedUpTo
<1>5. ASSUME MarkedUpTo(q, n, TRUE)
      PROVE  MarkedUpTo(r, n + 1, TRUE)
  <2>1. PICK k \in OfKind(q, "gap") : \A d \in 1..n : d < q[k].number => d \in Numbers(q)
    BY <1>5 DEF MarkedUpTo
  <2>2. k \in OfKind(r, "gap") /\ r[k] = q[k] /\ q[k].number \in Nat /\ q[k].number <= n
    BY <1>1, <1>3 DEF OfKind
  <2>3. \A d \in 1..(n + 1) : d < r[k].number => d \in Numbers(r)
    BY <2>1, <2>2, <1>2
  <2> QED  BY <2>2, <2>3 DEF MarkedUpTo
<1>6. ASSUME MarkedUpTo(q, n, FALSE)
      PROVE  MarkedUpTo(r, n + 1, FALSE)
  BY <1>6, <1>2 DEF MarkedUpTo
<1>7. ASSUME MarkedUpTo(q, n, FALSE), e.kind = "gap"
      PROVE  MarkedUpTo(r, n + 1, TRUE)
  <2>1. Len(q) + 1 \in OfKind(r, "gap")
    BY <1>1, <1>7 DEF OfKind
  <2>2. \A d \in 1..(n + 1) : d < r[Len(q) + 1].number => d \in Numbers(r)
    BY <1>7, <1>1, <1>2 DEF MarkedUpTo
  <2> QED  BY <2>1, <2>2 DEF MarkedUpTo
<1> QED  BY <1>4, <1>5, <1>6, <1>7 DEF r

\* The same when the event is dropped and the gap was put already.
LEMMA EventDropped ==
    ASSUME NEW q \in Seq(BuildEvent), NEW n \in Nat, OrderedUpTo(q, n)
    PROVE  OrderedUpTo(q, n + 1) /\ (MarkedUpTo(q, n, TRUE) => MarkedUpTo(q, n + 1, TRUE))
<1>1. \A i \in 1..Len(q) : q[i].number \in Nat /\ q[i].number <= n
  BY NumbersBounded
<1>2. OrderedUpTo(q, n + 1)
  BY <1>1 DEF OrderedUpTo
<1>3. MarkedUpTo(q, n, TRUE) => MarkedUpTo(q, n + 1, TRUE)
  BY <1>1 DEF MarkedUpTo, OfKind
<1> QED  BY <1>2, <1>3

\* Terminal events stay with the subscriber as events are offered.
LEMMA TerminalsBehind ==
    ASSUME NEW offers \in Seq(BuildEvent), NEW q \in Seq(BuildEvent), NEW e \in BuildEvent,
           e.number = Len(offers) + 1, TerminalsIn(offers, q)
    PROVE  /\ \A g \in BuildEvent : g.number = e.number =>
                 TerminalsIn(Append(offers, e), Append(q, g))
           /\ e.kind # "terminal" => TerminalsIn(Append(offers, e), q)
<1>1. /\ Len(Append(offers, e)) = Len(offers) + 1 /\ Len(offers) \in Nat
      /\ \A i \in 1..Len(offers) : Append(offers, e)[i] = offers[i]
      /\ Append(offers, e)[Len(offers) + 1] = e
  BY AppendProperties
<1>2. \A k \in OfKind(Append(offers, e), "terminal") :
          k \in OfKind(offers, "terminal") \/ (k = Len(offers) + 1 /\ e.kind = "terminal")
  BY <1>1 DEF OfKind
<1>3. \A g \in BuildEvent : Numbers(Append(q, g)) = Numbers(q) \cup {g.number}
  BY NumbersOfAppend
<1> QED  BY <1>2, <1>3 DEF TerminalsIn

LEMMA StreamType ==
    ASSUME HubTypes, NEW s \in StreamIds
    PROVE  /\ Stream(s) \in Seq(BuildEvent) /\ delivered[s] \in Seq(BuildEvent)
           /\ queued[s] \in Seq(BuildEvent) /\ offered[s] \in Seq(BuildEvent)
           /\ Len(offered[s]) \in Nat /\ credit[s] \in Nat /\ granted[s] \in Nat
           /\ gap_emitted[s] \in BOOLEAN
<1>1. delivered[s] \in Seq(BuildEvent) /\ queued[s] \in Seq(BuildEvent) /\ offered[s] \in Seq(BuildEvent)
  BY DEF HubTypes, HubTypeOK
<1>2. Stream(s) \in Seq(BuildEvent)
  BY <1>1, ConcatProperties DEF Stream
<1>3. credit[s] \in Nat /\ granted[s] \in Nat /\ gap_emitted[s] \in BOOLEAN
  BY HubAssumption DEF HubTypes, HubTypeOK
<1> QED  BY <1>1, <1>2, <1>3

LEMMA AppendBehind ==
    ASSUME NEW S, NEW a \in Seq(S), NEW b \in Seq(S), NEW e \in S
    PROVE  a \o Append(b, e) = Append(a \o b, e)
<1>1. Append(b, e) = b \o <<e>> /\ <<e>> \in Seq(S) /\ a \o b \in Seq(S)
  BY AppendIsConcat, ConcatProperties
<1>2. a \o (b \o <<e>>) = (a \o b) \o <<e>>
  BY <1>1, ConcatAssociative
<1>3. Append(a \o b, e) = (a \o b) \o <<e>>
  BY <1>1, AppendIsConcat
<1> QED  BY <1>1, <1>2, <1>3

\* Push adds an event to what the subscriber of one stream sees.
LEMMA PushStream ==
    ASSUME HubTypes, NEW s \in StreamIds, NEW e \in BuildEvent, Push(s, e), delivered' = delivered
    PROVE  /\ queued' \in [StreamIds -> Seq(BuildEvent)]
           /\ Stream(s)' = Append(Stream(s), e)
           /\ \A t \in StreamIds \ {s} : Stream(t)' = Stream(t)
<1>1. queued[s] \in Seq(BuildEvent) /\ delivered[s] \in Seq(BuildEvent) /\ Stream(s) \in Seq(BuildEvent)
  BY StreamType
<1>2. queued \in [StreamIds -> Seq(BuildEvent)]
  BY DEF HubTypes, HubTypeOK
<1>3. queued' = [queued EXCEPT ![s] = Append(queued[s], e)]
  BY DEF Push
<1>4. Append(queued[s], e) \in Seq(BuildEvent)
  BY <1>1, AppendProperties
<1>5. queued'[s] = Append(queued[s], e)
  BY <1>2, <1>3
<1>6. delivered[s] \o Append(queued[s], e) = Append(delivered[s] \o queued[s], e)
  <2>1. \A a, b \in Seq(BuildEvent) : a \o Append(b, e) = Append(a \o b, e)
    BY AppendBehind
  <2>2. queued[s] \in Seq(BuildEvent) /\ delivered[s] \in Seq(BuildEvent)
    BY <1>1
  <2> QED  BY <2>1, <2>2, Zenon
<1>7. Stream(s)' = Append(Stream(s), e)
  BY <1>5, <1>6 DEF Stream
<1>8. \A t \in StreamIds \ {s} : Stream(t)' = Stream(t)
  BY <1>2, <1>3 DEF Stream
<1> QED  BY <1>2, <1>3, <1>4, <1>7, <1>8

\* A stream none of whose fields changes keeps its invariant.
LEMMA OtherStream ==
    ASSUME NEW s, NEW t \in StreamIds, t # s, StreamInd(t), Stream(t)' = Stream(t),
           offered'[t] = offered[t], gap_emitted'[t] = gap_emitted[t],
           credit'[t] = credit[t], granted'[t] = granted[t],
           t \in streams' <=> t \in streams
    PROVE  StreamInd(t)'
BY DEF StreamInd

\* open_stream, add_credit and drain leave what a subscriber sees as it is.
LEMMA CreditSteps ==
    ASSUME HubInd, NEW s \in StreamIds, NEW n \in Sizes, OpenStream(s, n) \/ AddCredit(s, n)
    PROVE  HubInd'
<1> USE DEF HubInd
<1>1. n \in 0..MaxCredit /\ n \in Nat /\ credit[s] \in Nat /\ granted[s] \in Nat
  BY HubAssumption DEF HubTypes, HubTypeOK
<1>2. Stream(s) \in Seq(BuildEvent) /\ ProgressBytes(Stream(s)) \in Nat
  BY StreamType, ProgressBytesSteps
<1>3. HubTypes'
  <2>1. CASE OpenStream(s, n)
    BY <2>1, <1>1, HubAssumption DEF OpenStream, HubTypes, HubTypeOK
  <2>2. CASE AddCredit(s, n)
    <3>1. credit[s] + n \in 0..MaxCredit
      BY <2>2, <1>1, HubAssumption DEF AddCredit, Fits
    <3>2. credit' \in [StreamIds -> 0..MaxCredit]
      BY <2>2, <3>1 DEF AddCredit, HubTypes, HubTypeOK
    <3>3. granted' \in [StreamIds -> Nat]
      BY <2>2, <1>1 DEF AddCredit, HubTypes
    <3> QED  BY <2>2, <3>2, <3>3 DEF AddCredit, HubTypes, HubTypeOK
  <2> QED  BY <2>1, <2>2
<1>4. \A t \in StreamIds : Stream(t)' = Stream(t)
  BY DEF OpenStream, AddCredit, Stream
<1>5. \A t \in StreamIds \ {s} : StreamInd(t)'
  BY <1>4, OtherStream DEF OpenStream, AddCredit, HubTypes, HubTypeOK
<1>6. credit'[s] + ProgressBytes(Stream(s)) <= granted'[s]
  <2>1. CASE OpenStream(s, n)
    <3>1. Stream(s) = <<>>
      BY <2>1 DEF OpenStream, StreamInd
    <3>2. credit'[s] = n /\ granted'[s] = n
      BY <2>1 DEF OpenStream, HubTypes, HubTypeOK
    <3> QED  BY <3>1, <3>2, <1>1, ProgressBytesSteps
  <2>2. CASE AddCredit(s, n)
    <3>1. credit'[s] = credit[s] + n /\ granted'[s] = granted[s] + n
      BY <2>2 DEF AddCredit, HubTypes, HubTypeOK
    <3>2. credit[s] + ProgressBytes(Stream(s)) <= granted[s]
      BY DEF StreamInd
    <3> QED  BY <3>1, <3>2, <1>1, <1>2
  <2> QED  BY <2>1, <2>2
<1>7. StreamInd(s)'
  BY <1>4, <1>6 DEF OpenStream, AddCredit, StreamInd
<1> QED  BY <1>3, <1>5, <1>7

LEMMA DrainStep ==
    ASSUME HubInd, NEW s \in StreamIds, Drain(s)
    PROVE  HubInd'
<1> USE DEF HubInd
<1>1. queued[s] \in Seq(BuildEvent) /\ delivered[s] \in Seq(BuildEvent)
  BY StreamType
<1>2. delivered[s] \o queued[s] \in Seq(BuildEvent)
  BY <1>1, ConcatProperties
<1>3. HubTypes'
  <2>1. delivered' \in [StreamIds -> Seq(BuildEvent)]
    BY <1>2 DEF Drain, Drained, HubTypes
  <2>2. queued' \in [StreamIds -> Seq(BuildEvent)]
    BY DEF Drain, HubTypes, HubTypeOK
  <2> QED  BY <2>1, <2>2 DEF Drain, HubTypes, HubTypeOK
<1>4. ASSUME NEW t \in StreamIds
      PROVE  Stream(t)' = Stream(t)
  <2>1. CASE t = s
    <3>1. delivered'[s] = delivered[s] \o queued[s] /\ queued'[s] = <<>>
      BY DEF Drain, Drained, HubTypes, HubTypeOK
    <3> QED  BY <2>1, <3>1, <1>2, ConcatEmptySeq DEF Stream
  <2>2. CASE t # s
    BY <2>2 DEF Drain, HubTypes, HubTypeOK, Stream
  <2> QED  BY <2>1, <2>2
<1>5. \A t \in StreamIds : StreamInd(t)'
  BY <1>4 DEF Drain, StreamInd
<1> QED  BY <1>3, <1>5

\* publish.
LEMMA PublishEvent ==
    ASSUME HubInd, NEW s \in StreamIds, NEW n \in Sizes, NEW terminal \in BOOLEAN,
           Publish(s, Event(s, terminal, n))
    PROVE  HubInd'
<1> USE DEF HubInd
<1> DEFINE e == Event(s, terminal, n)
           q == Stream(s)
           m == Len(offered[s])
<1>1. n \in Nat /\ m \in Nat /\ q \in Seq(BuildEvent) /\ offered[s] \in Seq(BuildEvent)
      /\ credit[s] \in 0..MaxCredit /\ granted[s] \in Nat /\ ProgressBytes(q) \in Nat /\ gap_emitted[s] \in BOOLEAN
  BY StreamType, ProgressBytesSteps, HubAssumption DEF HubTypes, HubTypeOK
<1>2. /\ e \in BuildEvent /\ e.number = m + 1 /\ e.bytes = n
      /\ e.kind \in {"progress", "terminal"}
  BY <1>1 DEF Event, BuildEvent
<1>3. Gap(s) \in BuildEvent /\ Gap(s).number = m + 1 /\ Gap(s).kind = "gap"
  BY <1>1 DEF Gap, BuildEvent
<1> HIDE DEF e
<1>4. Publishing(s, e) /\ s \in streams
  BY DEF Publish, PublishWithCredit, PublishTerminal, Drop, Publishing, e
<1>5. /\ offered' \in [StreamIds -> Seq(BuildEvent)]
      /\ offered'[s] = Append(offered[s], e) /\ Len(offered'[s]) = m + 1
      /\ \A t \in StreamIds \ {s} : offered'[t] = offered[t]
  <2>1. Append(offered[s], e) \in Seq(BuildEvent) /\ Len(Append(offered[s], e)) = m + 1
    BY <1>1, <1>2, AppendProperties
  <2> QED  BY <1>4, <2>1 DEF Publishing, HubTypes
<1>6. UNCHANGED <<streams, delivered, granted>>
  BY <1>4 DEF Publishing
<1>7. /\ OrderedUpTo(q, m) /\ TerminalsIn(offered[s], q) /\ MarkedUpTo(q, m, gap_emitted[s])
      /\ credit[s] + ProgressBytes(q) <= granted[s]
  BY DEF StreamInd
<1>8. CASE PublishWithCredit(s, e) \/ PublishTerminal(s, e)
  <2>1. Push(s, e) /\ UNCHANGED gap_emitted
    BY <1>8 DEF PublishWithCredit, PublishTerminal
  <2>2. /\ queued' \in [StreamIds -> Seq(BuildEvent)] /\ Stream(s)' = Append(q, e)
        /\ \A t \in StreamIds \ {s} : Stream(t)' = Stream(t)
    BY <2>1, <1>2, <1>6, PushStream
  <2>3. /\ credit' \in [StreamIds -> 0..MaxCredit]
        /\ \A t \in StreamIds \ {s} : credit'[t] = credit[t]
        /\ credit'[s] + Weight(e) <= credit[s]
    <3>1. CASE PublishWithCredit(s, e)
      <4>1. credit' = [credit EXCEPT ![s] = credit[s] - n] /\ n <= credit[s]
        BY <3>1, <1>2 DEF PublishWithCredit, Charged
      <4>2. credit[s] - n \in 0..MaxCredit /\ credit'[s] = credit[s] - n
        BY <4>1, <1>1, HubAssumption DEF HubTypes, HubTypeOK
      <4> QED  BY <4>1, <4>2, <1>1, <1>2 DEF HubTypes, HubTypeOK, Weight
    <3>2. CASE PublishTerminal(s, e)
      BY <3>2, <1>1, <1>2 DEF PublishTerminal, HubTypes, HubTypeOK, Weight
    <3> QED  BY <3>1, <3>2, <1>8
  <2>4. HubTypes'
    BY <1>5, <1>6, <2>1, <2>2, <2>3 DEF HubTypes, HubTypeOK
  <2>5. credit'[s] + ProgressBytes(Append(q, e)) <= granted[s]
    <3>1. ProgressBytes(Append(q, e)) = ProgressBytes(q) + Weight(e) /\ Weight(e) \in Nat
      BY <1>1, <1>2, ProgressBytesSteps, WeightType
    <3>2. credit'[s] \in Nat
      BY <2>3, HubAssumption
    <3> QED  BY <3>1, <3>2, <2>3, <1>1, <1>7
  <2>6. /\ OrderedUpTo(Append(q, e), m + 1)
        /\ MarkedUpTo(Append(q, e), m + 1, gap_emitted[s])
    BY <1>1, <1>2, <1>7, EventBehind
  <2>7. TerminalsIn(Append(offered[s], e), Append(q, e))
    BY <1>1, <1>2, <1>7, TerminalsBehind
  <2>8. StreamInd(s)'
    BY <1>4, <1>5, <1>6, <2>1, <2>2, <2>5, <2>6, <2>7 DEF StreamInd
  <2>9. \A t \in StreamIds \ {s} : StreamInd(t)'
    BY <1>5, <1>6, <2>1, <2>2, <2>3, OtherStream
  <2> QED  BY <2>4, <2>8, <2>9
<1>9. CASE Drop(s, e)
  <2>1. /\ UNCHANGED credit /\ e.kind # "terminal"
        /\ gap_emitted' = [gap_emitted EXCEPT ![s] = TRUE]
        /\ gap_emitted'[s] = TRUE /\ \A t \in StreamIds \ {s} : gap_emitted'[t] = gap_emitted[t]
        /\ gap_emitted' \in [StreamIds -> BOOLEAN]
    BY <1>9 DEF Drop, HubTypes, HubTypeOK
  <2>2. CASE ~gap_emitted[s]
    <3>1. Push(s, Gap(s))
      BY <1>9, <2>2 DEF Drop, NeedsGap
    <3>2. /\ queued' \in [StreamIds -> Seq(BuildEvent)] /\ Stream(s)' = Append(q, Gap(s))
          /\ \A t \in StreamIds \ {s} : Stream(t)' = Stream(t)
      BY <3>1, <1>3, <1>6, PushStream
    <3>3. HubTypes'
      BY <1>5, <1>6, <2>1, <3>2 DEF HubTypes, HubTypeOK
    <3>4. ProgressBytes(Append(q, Gap(s))) = ProgressBytes(q) + 0
      BY <1>1, <1>3, ProgressBytesSteps DEF Weight
    <3>5. OrderedUpTo(Append(q, Gap(s)), m + 1) /\ MarkedUpTo(Append(q, Gap(s)), m + 1, TRUE)
      BY <1>1, <1>3, <1>7, <2>2, EventBehind
    <3>6. TerminalsIn(Append(offered[s], e), Append(q, Gap(s)))
      BY <1>1, <1>2, <1>3, <1>7, TerminalsBehind
    <3>7. StreamInd(s)'
      <4>1. credit'[s] + ProgressBytes(Append(q, Gap(s))) <= granted'[s]
        BY <1>1, <1>6, <1>7, <2>1, <3>4
      <4> QED  BY <1>4, <1>5, <1>6, <2>1, <3>2, <3>5, <3>6, <4>1 DEF StreamInd
    <3>8. \A t \in StreamIds \ {s} : StreamInd(t)'
      BY <1>5, <1>6, <2>1, <3>2, OtherStream
    <3> QED  BY <3>3, <3>7, <3>8
  <2>3. CASE gap_emitted[s]
    <3>1. UNCHANGED queued
      BY <1>9, <2>3 DEF Drop, NeedsGap
    <3>2. \A t \in StreamIds : Stream(t)' = Stream(t)
      BY <3>1, <1>6 DEF Stream
    <3>3. HubTypes'
      BY <1>5, <1>6, <2>1, <3>1 DEF HubTypes, HubTypeOK
    <3>4. OrderedUpTo(q, m + 1) /\ MarkedUpTo(q, m + 1, TRUE)
      BY <1>1, <1>7, <2>3, EventDropped
    <3>5. TerminalsIn(Append(offered[s], e), q)
      BY <1>1, <1>2, <1>7, <2>1, TerminalsBehind
    <3>6. StreamInd(s)'
      BY <1>4, <1>5, <1>6, <1>7, <2>1, <3>2, <3>4, <3>5 DEF StreamInd
    <3>7. \A t \in StreamIds \ {s} : StreamInd(t)'
      BY <1>5, <1>6, <2>1, <3>2, OtherStream
    <3> QED  BY <3>3, <3>6, <3>7
  <2> QED  BY <2>2, <2>3, <1>1
<1> QED  BY <1>8, <1>9 DEF Publish, e

\* The inductive invariant of the event hub.
LEMMA HubInductive == HubSpec => []HubInd
<1>1. HubInit => HubInd
  <2> SUFFICES ASSUME HubInit
               PROVE  HubInd
    OBVIOUS
  <2>1. HubTypes
    BY HubAssumption DEF HubInit, HubTypes, HubTypeOK
  <2>2. ASSUME NEW s \in StreamIds
        PROVE  StreamInd(s)
    <3>1. /\ Stream(s) = <<>> /\ offered[s] = <<>> /\ gap_emitted[s] = FALSE
          /\ credit[s] = 0 /\ granted[s] = 0
      BY DEF HubInit, Stream
    <3>2. ProgressBytes(<<>>) = 0
      BY ProgressBytesSteps
    <3>3. OrderedUpTo(<<>>, 0) /\ TerminalsIn(<<>>, <<>>) /\ MarkedUpTo(<<>>, 0, FALSE)
      BY DEF OrderedUpTo, TerminalsIn, MarkedUpTo, OfKind
    <3>4. credit[s] + ProgressBytes(Stream(s)) <= granted[s] /\ Len(offered[s]) = 0
      BY <3>1, <3>2
    <3> QED  BY <3>1, <3>3, <3>4 DEF StreamInd
  <2> QED  BY <2>1, <2>2 DEF HubInd
<1>2. HubInd /\ [HubNext]_hubVars => HubInd'
  <2> SUFFICES ASSUME HubInd, [HubNext]_hubVars
               PROVE  HubInd'
    OBVIOUS
  <2>1. CASE UNCHANGED hubVars
    BY <2>1 DEF hubVars, hub, HubInd, HubTypes, HubTypeOK, StreamInd, Stream
  <2> QED  BY <2>1, CreditSteps, PublishEvent, DrainStep DEF HubNext
<1> QED  BY <1>1, <1>2, PTL DEF HubSpec

\* The fields of the hub have their types, the credit within its width, and a
\* subscriber is sent no more progress than it gave credit for.
THEOREM HubWithinCredit == HubSpec => []HubInvariant
<1>1. HubInd => HubInvariant
  <2> SUFFICES ASSUME HubInd, NEW s \in StreamIds
               PROVE  ProgressBytes(Stream(s)) <= granted[s]
    BY DEF HubInd, HubTypes, HubInvariant, ProgressWithinCredit
  <2>1. credit[s] \in Nat /\ granted[s] \in Nat /\ ProgressBytes(Stream(s)) \in Nat
    BY StreamType, ProgressBytesSteps DEF HubInd
  <2> QED  BY <2>1 DEF HubInd, StreamInd
<1> QED  BY <1>1, HubInductive, PTL

\* Every terminal event reaches the subscriber, whatever its credit.
THEOREM HubRetainsTerminals == HubSpec => []TerminalsRetained
<1>1. HubInd => TerminalsRetained
  BY DEF HubInd, StreamInd, TerminalsIn, TerminalsRetained
<1> QED  BY <1>1, HubInductive, PTL

\* Events reach the subscriber in the order they were published, each once.
THEOREM HubKeepsOrder == HubSpec => []InOrder
<1>1. HubInd => InOrder
  BY DEF HubInd, StreamInd, OrderedUpTo, InOrder
<1> QED  BY <1>1, HubInductive, PTL

\* The first event a subscriber lacks is marked by a gap in front of it.
THEOREM HubMarksFirstDrop == HubSpec => []FirstDropMarked
<1>1. HubInd => FirstDropMarked
  <2> SUFFICES ASSUME HubInd, NEW s \in StreamIds,
                      (1..Len(offered[s])) \ Numbers(Stream(s)) # {}
               PROVE  \E g \in {Stream(s)[k].number : k \in OfKind(Stream(s), "gap")} :
                         \A d \in (1..Len(offered[s])) \ Numbers(Stream(s)) : g < d
    BY DEF FirstDropMarked
  <2>1. MarkedUpTo(Stream(s), Len(offered[s]), TRUE)
    BY StreamType DEF HubInd, StreamInd, MarkedUpTo
  <2>2. PICK k \in OfKind(Stream(s), "gap") :
           \A d \in 1..Len(offered[s]) : d < Stream(s)[k].number => d \in Numbers(Stream(s))
    BY <2>1 DEF MarkedUpTo
  <2>3. Stream(s)[k].number \in Nat /\ Stream(s)[k].number \in Numbers(Stream(s))
    BY StreamType, NumbersBounded DEF HubInd, StreamInd, OfKind, Numbers
  <2>4. \A d \in (1..Len(offered[s])) \ Numbers(Stream(s)) : Stream(s)[k].number < d
    BY <2>2, <2>3
  <2> QED  BY <2>4
<1> QED  BY <1>1, HubInductive, PTL

=============================================================================
