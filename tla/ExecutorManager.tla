-------------------------- MODULE ExecutorManager --------------------------
(***************************************************************************)
(* ExecutorManager over an Executor: leases of worker authority, one or    *)
(* more per job over its retries, results that arrive late, and revocation.*)
(*                                                                         *)
(* A WorkerLease is a value its holder keeps; nothing ever clears its      *)
(* active flag, which is left out.  run() is one step; its result travels  *)
(* back on its own and is validated when it arrives, if it does, so that   *)
(* validate_current is a test of the states the result can arrive in.      *)
(***************************************************************************)
EXTENDS Naturals, FiniteSets

CONSTANTS
    Jobs,           \* job ids
    MaxLeases,      \* bound: leases handed out
    MaxRevocations  \* bound: calls of revoke for a job

ASSUME LeasesAssumption == MaxLeases \in Nat /\ MaxRevocations \in Nat

NoAttempt == 0      \* a job that is not in current_attempts_

VARIABLES
    current_attempts,   \* job -> attempt; NoAttempt if absent
    next_lease,
    worker_leases,      \* the leases handed out
    cancelled,          \* the executor's cancelled_: ids of the revoked leases
    results,            \* results of runs, as WorkerResult: lease and attempt
    revocations         \* history: job -> calls of revoke for the job

managerVars == <<current_attempts, next_lease, worker_leases, cancelled, results, revocations>>

\* A lease, with the number of revocations of its job in front of it.
WorkerLease == [id : Nat \ {0}, job : Jobs, attempt : Nat \ {NoAttempt}, since : Nat]
WorkerResult == [lease : Nat \ {0}, attempt : Nat \ {NoAttempt}]

ManagerInit ==
    /\ current_attempts = [j \in Jobs |-> NoAttempt]
    /\ next_lease = 1
    /\ worker_leases = {}
    /\ cancelled = {}
    /\ results = {}
    /\ revocations = [j \in Jobs |-> 0]

\* A variant with a mistake in it: a retry gets no attempt of its own.
NextAttemptRepeated(j) ==
    IF current_attempts[j] = NoAttempt THEN 2 ELSE current_attempts[j]

\* A job that is not in the map starts from Generation{}, which is 1.
NextAttempt(j) ==
    IF current_attempts[j] = NoAttempt THEN 2 ELSE current_attempts[j] + 1

Lease(j) ==
    /\ next_lease <= MaxLeases
    /\ current_attempts' = [current_attempts EXCEPT ![j] = NextAttempt(j)]
    /\ worker_leases' = worker_leases \cup
                      {[id |-> next_lease, job |-> j, attempt |-> NextAttempt(j),
                        since |-> revocations[j]]}
    /\ next_lease' = next_lease + 1
    /\ UNCHANGED <<cancelled, results, revocations>>

\* validate_current.
ValidateCurrent(l, r) ==
    /\ r.lease = l.id /\ r.attempt = l.attempt
    /\ current_attempts[l.job] # NoAttempt
    /\ current_attempts[l.job] = l.attempt

ResultOf(l) == [lease |-> l.id, attempt |-> l.attempt]

\* run: the lease is current and the executor has not cancelled it.
Run(l) ==
    /\ ValidateCurrent(l, ResultOf(l))
    /\ l.id \notin cancelled
    /\ results' = results \cup {ResultOf(l)}
    /\ UNCHANGED <<current_attempts, next_lease, worker_leases, cancelled, revocations>>

\* A variant with a mistake in it: the attempt of the job stays.
AttemptStays(j) == current_attempts

Forgotten(j) == [current_attempts EXCEPT ![j] = NoAttempt]

\* revoke: whichever attempt of the job is current is forgotten.
Revoke(l) ==
    /\ revocations[l.job] < MaxRevocations
    /\ cancelled' = cancelled \cup {l.id}
    /\ current_attempts' = Forgotten(l.job)
    /\ revocations' = [revocations EXCEPT ![l.job] = @ + 1]
    /\ UNCHANGED <<next_lease, worker_leases, results>>

ManagerNext ==
    \/ \E j \in Jobs : Lease(j)
    \/ \E l \in worker_leases : Run(l) \/ Revoke(l)

ManagerSpec == ManagerInit /\ [][ManagerNext]_managerVars

-----------------------------------------------------------------------------
(***************************************************************************)
(* Properties.                                                             *)
(***************************************************************************)

\* The types of the manager's fields.
ManagerTypeOK ==
    /\ current_attempts \in [Jobs -> Nat]
    /\ next_lease \in Nat \ {0}
    /\ worker_leases \subseteq WorkerLease
    /\ \A l \in worker_leases : l.id < next_lease
    /\ cancelled \subseteq Nat
    /\ results \subseteq WorkerResult
    /\ revocations \in [Jobs -> Nat]

\* A result of the lease exists and is accepted, should it arrive now.
MayComplete(l) == ResultOf(l) \in results /\ ValidateCurrent(l, ResultOf(l))

Newest(l) == \A m \in worker_leases : m.job = l.job => m.id <= l.id

\* current_attempts_ follows the newest lease of a job, and forgets it when it
\* is revoked: if the job has a current attempt, its newest lease has that
\* attempt and was not revoked.
CurrentIsNewest ==
    \A l \in worker_leases :
        Newest(l) /\ current_attempts[l.job] # NoAttempt =>
            current_attempts[l.job] = l.attempt /\ l.id \notin cancelled

\* Between two revocations of a job, whatever its retries, a late result is
\* accepted from no lease but the newest.
LateResultsRejected ==
    \A l \in worker_leases :
        MayComplete(l) /\ l.since = revocations[l.job] => Newest(l)

\* The manager's fields have their types, and current_attempts_ and the leases
\* handed out agree, over retries and revocations in any order.
ManagerInvariant == ManagerTypeOK /\ CurrentIsNewest

=============================================================================
