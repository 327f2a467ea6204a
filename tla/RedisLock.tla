------------------------------ MODULE RedisLock ------------------------------
(***************************************************************************)
(* RedisLockService.runExclusive: the lease in Redis under which one       *)
(* instance of the backend runs a job.  Time passes in units of the        *)
(* interval between two refreshes, a third of the lease.  A timer that     *)
(* fires late, a lost or a failed refresh is an Extend that does not       *)
(* happen: the work goes on, and does not learn of it.                     *)
(***************************************************************************)
EXTENDS Naturals

CONSTANTS
    Runs,    \* runs in progress at a time, of any instance: each has a token of its own
    Lease,   \* ttlMs, in refresh intervals
    Nobody

ASSUME LeaseIsPositive == Lease \in Nat \ {0}
ASSUME NobodyIsNoRun == Nobody \notin Runs

VARIABLES
    key,      \* the run whose token the key has in Redis
    ttl,      \* how long it stays there
    running,  \* runs whose work is in progress
    age       \* run -> time since its last SET or extend, counted to Lease

lock == <<key, ttl, running, age>>

LockTypeOK ==
    /\ key \in Runs \cup {Nobody}
    /\ ttl \in 0..Lease
    /\ running \subseteq Runs
    /\ age \in [Runs -> 0..Lease]

LockInit ==
    /\ key = Nobody
    /\ ttl = 0
    /\ running = {}
    /\ age = [r \in Runs |-> Lease]

\* SET NX PX
Acquire(r) ==
    /\ r \notin running
    /\ key = Nobody
    /\ key' = r
    /\ ttl' = Lease
    /\ running' = running \cup {r}
    /\ age' = [age EXCEPT ![r] = 0]

\* The script of extend, which looks whose token it is.
Extend(r) ==
    /\ r \in running
    /\ key = r
    /\ age[r] > 0
    /\ ttl' = Lease
    /\ age' = [age EXCEPT ![r] = 0]
    /\ UNCHANGED <<key, running>>

\* Variant: the key is deleted, whosever it is.
DeleteKey(r) == Nobody

\* The script of release, which looks whose token it is.
Released(r) == IF key = r THEN Nobody ELSE key

\* The finally block, after the work or its error.
Release(r) ==
    /\ r \in running
    /\ running' = running \ {r}
    /\ key' = Released(r)
    /\ ttl' = IF key' = Nobody THEN 0 ELSE ttl
    /\ UNCHANGED age

\* The process ends, or Redis does not answer the release.
Abandon(r) ==
    /\ r \in running
    /\ running' = running \ {r}
    /\ UNCHANGED <<key, ttl, age>>

\* Variant: a key set without PX does not expire.
Lasting == ttl

\* What is left of a key's time
Remaining == IF ttl > 0 THEN ttl - 1 ELSE 0

\* Redis drops the key at the end of its time.
Elapse ==
    /\ ttl' = Remaining
    /\ key' = IF ttl' = 0 THEN Nobody ELSE key
    /\ age' = [r \in Runs |-> IF age[r] < Lease THEN age[r] + 1 ELSE Lease]
    /\ UNCHANGED running

LockNext ==
    \/ \E r \in Runs : Acquire(r) \/ Extend(r) \/ Release(r) \/ Abandon(r)
    \/ Elapse

LockSpec == LockInit /\ [][LockNext]_lock

-----------------------------------------------------------------------------
\* A run that was refreshed in time has the lock to itself: no run that lost its lease
\* takes it away, and none begins meanwhile.
LeaseIsKept ==
    \A r \in running : age[r] < Lease => key = r

=============================================================================
