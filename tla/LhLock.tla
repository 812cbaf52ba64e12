------------------------------ MODULE LhLock ------------------------------
(***************************************************************************)
(* The recursive mutex of linux-host                                       *)
(* (src/linux-host/src/gateway_common/src/mutex.c), the lock with a        *)
(* condition variable it is built on (linux/linux_specific.c) and the      *)
(* names threads have (src/threads.c).                                     *)
(*                                                                         *)
(* The mutex tells the recursive locker from others by THREAD_self(), the  *)
(* lock below by pthread_self().  THREAD_self() knows a thread only when   *)
(* THREAD_create() made it and has stored its os_id: main() and the        *)
(* threads of nanostack have no name, and a new thread may run before it   *)
(* has one.  A section under a pthread mutex, or under the global lock, is *)
(* one step; owner and recursive_lock are also written outside of both.    *)
(***************************************************************************)
EXTENDS Integers, FiniteSets

CONSTANTS
    LockThreads,  \* the threads that use the mutex
    Anonymous,    \* those THREAD_create() did not make
    MaxNest       \* how often a thread locks before it unlocks

ASSUME LockAssumption == Anonymous \subseteq LockThreads /\ MaxNest \in Nat \ {0}

NoName == "no name"
Nobody == "nobody"

VARIABLES
    mutex,   \* struct mutex: owner, recursive_lock; struct p_atomic: pOwner,
             \* depth, and the threads asleep in its condition variable
    lt,      \* per thread: where it is in MUTEX_lock, and what it holds
    named,   \* the threads whose os_id THREAD_create() has stored
    used,    \* history: <<thread, identity>> a thread used the mutex under
    fatal    \* _atomic_fatal() ended the process

lockvars == <<mutex, lt, named, used, fatal>>

Waits == {"forever", "never", "bounded"}

-----------------------------------------------------------------------------
(* Names.                                                                  *)

\* _thread_self(): the first thread of the list whose os_id is the caller's;
\* a caller without an os_id matches a thread that has none yet.
THREAD_self(t) ==
    IF t \in named THEN {t}
    ELSE IF t \in Anonymous /\ LockThreads \ (Anonymous \cup named) # {}
    THEN LockThreads \ (Anonymous \cup named)
    ELSE {NoName}

\* THREAD_create() stores the os_id of the thread it started.
ThreadNamed(t) ==
    /\ t \notin named \cup Anonymous
    /\ named' = named \cup {t}
    /\ UNCHANGED <<mutex, lt, used, fatal>>

-----------------------------------------------------------------------------
(* MUTEX_lock().                                                           *)

Goes(t, to) == lt' = [lt EXCEPT ![t].at = to]

\* Mutant of NeedsLock: a mutex that is locked counts as one's own.
NeedsLock_Unowned(id) == mutex.recursive_lock = 0

\* The inspection under the global lock.
NeedsLock(id) == mutex.recursive_lock = 0 \/ mutex.owner # id

MUTEX_lock(t, w) ==
    /\ lt[t].at = "out" /\ lt[t].holds < MaxNest
    /\ \E id \in THREAD_self(t) :
         /\ lt' = [lt EXCEPT ![t].wait = w,
                             ![t].at = IF NeedsLock(id) THEN "lock" ELSE "taken"]
         /\ used' = used \cup {<<t, id>>}
    /\ UNCHANGED <<mutex, named, fatal>>

\* _ATOMIC_local_lock() up to its return or to a wait.  "late": a bounded
\* wait is over; the depth is looked at once more before the clock.
_ATOMIC_local_lock(t) ==
    /\ lt[t].at \in {"lock", "late"}
    /\ \/ /\ mutex.pOwner = t \/ mutex.depth = 0
          /\ mutex' = [mutex EXCEPT !.depth = @ + 1,
                                    !.pOwner = IF mutex.depth = 0 THEN t ELSE @]
          /\ Goes(t, "taken")
       \/ /\ mutex.pOwner # t /\ mutex.depth > 0
          /\ lt[t].wait = "never" \/ lt[t].at = "late"
          /\ Goes(t, "out")
          /\ UNCHANGED mutex
       \/ /\ mutex.pOwner # t /\ mutex.depth > 0
          /\ lt[t].wait # "never" /\ lt[t].at = "lock"
          /\ mutex' = [mutex EXCEPT !.asleep = @ \cup {t}]
          /\ Goes(t, "asleep")
    /\ UNCHANGED <<named, used, fatal>>

\* A wait that is over without a signal: spuriously, or by its time limit.
Awake(t) ==
    /\ t \in mutex.asleep
    /\ mutex' = [mutex EXCEPT !.asleep = @ \ {t}]
    /\ Goes(t, IF lt[t].wait = "bounded" THEN "late" ELSE "lock")
    /\ UNCHANGED <<named, used, fatal>>

\* pM->owner = THREAD_self()
SetsOwner(t) ==
    /\ lt[t].at = "taken"
    /\ \E id \in THREAD_self(t) :
         /\ mutex' = [mutex EXCEPT !.owner = id]
         /\ used' = used \cup {<<t, id>>}
    /\ Goes(t, "load")
    /\ UNCHANGED <<named, fatal>>

\* pM->recursive_lock += 1, which is no atomic operation
Loads(t) ==
    /\ lt[t].at = "load"
    /\ lt' = [lt EXCEPT ![t].at = "store", ![t].seen = mutex.recursive_lock]
    /\ UNCHANGED <<mutex, named, used, fatal>>

Stores(t) ==
    /\ lt[t].at = "store"
    /\ mutex' = [mutex EXCEPT !.recursive_lock = lt[t].seen + 1]
    /\ lt' = [lt EXCEPT ![t].at = "out", ![t].holds = @ + 1, ![t].seen = 0]
    /\ UNCHANGED <<named, used, fatal>>

-----------------------------------------------------------------------------
(* MUTEX_unLock().                                                         *)

\* pthread_cond_signal(): one of the threads asleep is woken.
Signalled(S) == IF S = {} THEN {S} ELSE {S \ {t} : t \in S}

_ATOMIC_local_unlock(t, m) ==
    IF m.pOwner # t \/ m.depth <= 0
    THEN fatal' = TRUE /\ mutex' = m /\ lt' = lt
    ELSE /\ \E S \in Signalled(m.asleep) :
              /\ mutex' = [m EXCEPT !.depth = @ - 1, !.asleep = S,
                                    !.pOwner = IF m.depth = 1 THEN Nobody ELSE @]
              /\ lt' = [u \in LockThreads |->
                          IF u = t THEN [lt[u] EXCEPT !.holds = @ - 1]
                          ELSE IF u \in m.asleep \ S
                          THEN [lt[u] EXCEPT !.at = "lock"] ELSE lt[u]]
         /\ fatal' = fatal

MUTEX_unLock(t) ==
    /\ lt[t].at = "out" /\ lt[t].holds > 0
    /\ LET r == mutex.recursive_lock - 1 IN
       IF r = 0
       THEN _ATOMIC_local_unlock(t, [mutex EXCEPT !.recursive_lock = 0,
                                                  !.owner = NoName])
       ELSE /\ mutex' = [mutex EXCEPT !.recursive_lock = r]
            /\ lt' = [lt EXCEPT ![t].holds = @ - 1]
            /\ fatal' = fatal
    /\ UNCHANGED <<named, used>>

-----------------------------------------------------------------------------

LockInit ==
    /\ mutex = [owner |-> NoName, recursive_lock |-> 0, pOwner |-> Nobody,
                depth |-> 0, asleep |-> {}]
    /\ lt = [t \in LockThreads |->
                [at |-> "out", holds |-> 0, wait |-> "forever", seen |-> 0]]
    /\ named \in SUBSET (LockThreads \ Anonymous)
    /\ used = {} /\ fatal = FALSE

LockNext ==
    /\ ~fatal
    /\ \E t \in LockThreads :
         \/ ThreadNamed(t) \/ _ATOMIC_local_lock(t) \/ Awake(t)
         \/ SetsOwner(t) \/ Loads(t) \/ Stores(t) \/ MUTEX_unLock(t)
         \/ \E w \in Waits : MUTEX_lock(t, w)

LockSpec == LockInit /\ [][LockNext]_lockvars

-----------------------------------------------------------------------------

\* Every thread went by one identity and every identity was one thread's.
\* A single thread without a name is as good as a named one.
Distinct ==
    \A p, q \in used : (p[1] = q[1]) <=> (p[2] = q[2])

\* As long as threads are told apart the mutex excludes: no two threads hold
\* it, however locks nest, waits end and signals race with newcomers, nobody's
\* unlock ends the process, and no wake-up is lost: when the lock is free and
\* threads sleep, one that was woken is about to look at it
\* (src/linux-host/src/gateway_common/src/mutex.c:221, 279,
\* src/linux-host/src/gateway_common/linux/linux_specific.c:456).
MutexExcludes ==
    Distinct =>
        /\ ~fatal
        /\ Cardinality({t \in LockThreads : lt[t].holds > 0}) <= 1
        /\ mutex.depth = 0 /\ mutex.asleep # {} =>
              \E t \in LockThreads : lt[t].at \in {"lock", "late"}
=============================================================================
