----------------------------- MODULE ScopedLock -----------------------------
(***************************************************************************)
(* The scoped lock guards of src/sylar/mutex.h over the locks they wrap.   *)
(*                                                                         *)
(* Threads enter scopes that hold a guard on one of two shared locks:      *)
(*   "lock"  -- ScopedLockImpl<T> (Mutex::Lock, Spinlock::Lock,           *)
(*              CASLock::Lock) on an exclusive lock;                       *)
(*   "read"  -- ReadScopedLockImpl<RWMutex> (RWMutex::ReadLock);           *)
(*   "write" -- WriteScopedLockImpl<RWMutex> (RWMutex::WriteLock).          *)
(* Inside the scope the thread may call the guard's unlock() and lock()    *)
(* (at most MaxRelocks times), and leaving the scope runs the destructor.  *)
(*                                                                         *)
(* Mutex (pthread_mutex_lock/unlock of a default mutex), Spinlock          *)
(* (pthread_spin_lock/unlock) and CASLock (test_and_set loop / clear on an *)
(* atomic_flag) are all a flag that lock() waits to find clear and sets,  *)
(* and that unlock() clears whoever calls it; they differ in blocking or   *)
(* spinning, not in the states they reach, so one flag `lk.held` stands   *)
(* for all three.  RWMutex is glibc's pthread_rwlock_t: a count of readers *)
(* and the thread holding it for writing (__cur_writer); its unlock()     *)
(* releases the write lock if the caller holds it, and one read lock       *)
(* otherwise.  WriteScopedLockImpl calls `m_mutex.wdlock()`, which RWMutex *)
(* does not have; the model takes the evident wrlock().                    *)
(***************************************************************************)
EXTENDS Naturals, FiniteSets

CONSTANTS
  Threads,       \* the threads that take the locks
  MaxRelocks,    \* bound: unlock()/lock() calls on one guard
  None           \* __cur_writer of an rwlock no thread writes

ASSUME None \notin Threads /\ MaxRelocks \in Nat

Guards == {"lock", "read", "write"}

VARIABLES
  lk,            \* the locks: [held, writer, readers]
  pc,            \* thread -> "idle" | "ctor" | "scope" | "relock"
  guard,         \* thread -> the guard of its current scope
  m_locked,      \* thread -> its guard's m_locked
  relocks        \* thread -> unlock()/lock() calls made on its guard

vars == <<lk, pc, guard, m_locked, relocks>>

(***************************************************************************)
(* The lock primitives                                                     *)
(***************************************************************************)
\* Mutex::lock / Spinlock::lock / CASLock::lock, RWMutex::rdlock, and
\* RWMutex::wrlock can return now
Free(g) ==
  CASE g = "lock"  -> ~lk.held
    [] g = "read"  -> lk.writer = None
    [] g = "write" -> lk.writer = None /\ lk.readers = 0

\* the lock once that call returns to thread t
Take(g, t) ==
  CASE g = "lock"  -> [lk EXCEPT !.held = TRUE]
    [] g = "read"  -> [lk EXCEPT !.readers = @ + 1]
    [] g = "write" -> [lk EXCEPT !.writer = t]

\* an RWMutex::unlock that always releases a read lock
GiveAsReader(g, t) ==
  IF g = "lock" THEN [lk EXCEPT !.held = FALSE]
  ELSE [lk EXCEPT !.readers = @ - 1]

\* Mutex/Spinlock/CASLock::unlock clear the flag; RWMutex::unlock releases
\* the write lock if t holds it, else one read lock
Give(g, t) ==
  IF g = "lock" THEN [lk EXCEPT !.held = FALSE]
  ELSE IF lk.writer = t THEN [lk EXCEPT !.writer = None]
  ELSE [lk EXCEPT !.readers = @ - 1]

(***************************************************************************)
(* The guards                                                              *)
(***************************************************************************)
\* an unlock() that does not look at m_locked
GuardUnlockNoCheck(t) ==
  /\ lk' = Give(guard[t], t)
  /\ m_locked' = [m_locked EXCEPT ![t] = FALSE]

\* unlock(): `if (m_locked) { m_mutex.unlock(); m_locked = false; }`
GuardUnlock(t) ==
  IF m_locked[t]
  THEN /\ lk' = Give(guard[t], t)
       /\ m_locked' = [m_locked EXCEPT ![t] = FALSE]
  ELSE UNCHANGED <<lk, m_locked>>

\* a lock() that does not look at m_locked
GuardLockNoCheck(t) == pc' = [pc EXCEPT ![t] = "relock"]

\* lock(): `if (!m_locked) { m_mutex.lock(); m_locked = true; }`
GuardLock(t) ==
  pc' = [pc EXCEPT ![t] = IF m_locked[t] THEN "scope" ELSE "relock"]

\* the constructor: `m_mutex.lock()` (rdlock(), wrlock()) begins
Enter(t, g) ==
  /\ pc[t] = "idle"
  /\ pc' = [pc EXCEPT ![t] = "ctor"]
  /\ guard' = [guard EXCEPT ![t] = g]
  /\ relocks' = [relocks EXCEPT ![t] = 0]
  /\ UNCHANGED <<lk, m_locked>>

\* the lock call of the constructor or of lock() returns: `m_locked = true`
Acquire(t) ==
  /\ pc[t] \in {"ctor", "relock"}
  /\ Free(guard[t])
  /\ lk' = Take(guard[t], t)
  /\ m_locked' = [m_locked EXCEPT ![t] = TRUE]
  /\ pc' = [pc EXCEPT ![t] = "scope"]
  /\ UNCHANGED <<guard, relocks>>

\* the thread calls its guard's lock()
Lock(t) ==
  /\ pc[t] = "scope"
  /\ relocks[t] < MaxRelocks
  /\ relocks' = [relocks EXCEPT ![t] = @ + 1]
  /\ GuardLock(t)
  /\ UNCHANGED <<lk, guard, m_locked>>

\* the thread calls its guard's unlock()
Unlock(t) ==
  /\ pc[t] = "scope"
  /\ relocks[t] < MaxRelocks
  /\ relocks' = [relocks EXCEPT ![t] = @ + 1]
  /\ GuardUnlock(t)
  /\ UNCHANGED <<pc, guard>>

\* the scope ends: the destructor calls unlock()
Leave(t) ==
  /\ pc[t] = "scope"
  /\ GuardUnlock(t)
  /\ pc' = [pc EXCEPT ![t] = "idle"]
  /\ UNCHANGED <<guard, relocks>>

Init ==
  /\ lk = [held |-> FALSE, writer |-> None, readers |-> 0]
  /\ pc = [t \in Threads |-> "idle"]
  /\ guard = [t \in Threads |-> "lock"]
  /\ m_locked = [t \in Threads |-> FALSE]
  /\ relocks = [t \in Threads |-> 0]

Next ==
  \E t \in Threads :
    \/ \E g \in Guards : Enter(t, g)
    \/ Acquire(t)
    \/ Lock(t)
    \/ Unlock(t)
    \/ Leave(t)

\* The scheduler runs a thread that can run: weak fairness of each
\* thread's steps inside its scope.  A scope is a block of code that ends,
\* so a thread in a scope eventually leaves it; threads are not obliged to
\* enter scopes, and nothing makes the locks fair to a waiting thread.
Fairness ==
  \A t \in Threads : WF_vars(Leave(t)) /\ WF_vars(Lock(t)) /\ WF_vars(Unlock(t))

Spec == Init /\ [][Next]_vars /\ Fairness

(***************************************************************************)
(* Properties                                                              *)
(***************************************************************************)
TypeOK ==
  /\ lk \in [held : BOOLEAN, writer : Threads \cup {None},
             readers : 0..Cardinality(Threads)]
  /\ pc \in [Threads -> {"idle", "ctor", "scope", "relock"}]
  /\ guard \in [Threads -> Guards]
  /\ m_locked \in [Threads -> BOOLEAN]
  /\ relocks \in [Threads -> 0..MaxRelocks]

\* two guards that may not hold at the same time
Conflict(g, h) ==
  \/ g = "lock" /\ h = "lock"
  \/ {g, h} \subseteq {"read", "write"} /\ "write" \in {g, h}

\* No two threads' guards believe they hold conflicting locks at once:
\* whatever order of constructors, unlock(), lock() and destructors the
\* threads run, m_locked of ScopedLockImpl, ReadScopedLockImpl and
\* WriteScopedLockImpl keeps the locks' exclusion.
MutualExclusion ==
  \A t, u \in Threads :
    (t # u /\ m_locked[t] /\ m_locked[u]) => ~Conflict(guard[t], guard[u])

\* The exclusive lock and the write lock are free again and again: no
\* sequence of lock()/unlock() calls leaves a guard waiting on a lock its
\* own thread holds, or a lock held after every scope has ended.
LocksReleased == []<>(~lk.held) /\ []<>(lk.writer = None)

=============================================================================
