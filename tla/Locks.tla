-------------------------------- MODULE Locks --------------------------------
(***************************************************************************)
(* rport/port_posix.cc and include/rocksutil/mutexlock.h: Mutex and a       *)
(* CondVar on it, RWMutex, and SpinMutex, with the threads that use them.   *)
(* The calls into pthread are modelled from how they are used: a lock is    *)
(* given to one thread, pthread_cond_wait releases it and waits in one step *)
(* and returns, signalled or not, with the lock.                            *)
(*                                                                          *)
(* A thread in "held" has the mutex and runs its critical section, one in   *)
(* "reads", "writes" or "spins" has one of the other locks.                 *)
(***************************************************************************)

CONSTANTS
  Thread,
  Null        \* no thread

LocksAssumption == Null \notin Thread

VARIABLES
  mu_,        \* the thread that has the pthread_mutex_t
  locked_,    \* Mutex::locked_, which debug builds keep
  cv_,        \* the threads that wait in pthread_cond_wait
  readers,    \* the threads that have RWMutex::mu_
  writer,
  spin,       \* SpinMutex::locked_
  expected,   \* currently_locked of try_lock
  pc

vars == <<mu_, locked_, cv_, readers, writer, spin, expected, pc>>
mutexVars == <<mu_, locked_, cv_>>
rwVars == <<readers, writer>>
spinVars == <<spin, expected>>

\* The constructor of Mutex leaves locked_ as it is.
Init ==
  /\ mu_ = Null /\ locked_ \in BOOLEAN /\ cv_ = {}
  /\ readers = {} /\ writer = Null
  /\ spin = FALSE /\ expected = [t \in Thread |-> FALSE]
  /\ pc = [t \in Thread |-> "idle"]

Go(t, from, to) == pc[t] = from /\ pc' = [pc EXCEPT ![t] = to]

-----------------------------------------------------------------------------
(* Mutex and MutexLock.                                                    *)

\* pthread_mutex_lock
Lock(t) ==
  /\ Go(t, "idle", "locked")
  /\ mu_ = Null /\ mu_' = t
  /\ UNCHANGED <<locked_, cv_, rwVars, spinVars>>

\* What Lock, Wait and TimedWait do once they have the lock
MarkLocked(t) ==
  /\ Go(t, "locked", "held")
  /\ locked_' = TRUE
  /\ UNCHANGED <<mu_, cv_, rwVars, spinVars>>

\* What Unlock, Wait and TimedWait do before they give the lock away
MarkUnlocked(t) ==
  /\ \E to \in {"unlock", "wait"} : Go(t, "held", to)
  /\ locked_' = FALSE
  /\ UNCHANGED <<mu_, cv_, rwVars, spinVars>>

\* pthread_mutex_unlock
Unlock(t) ==
  /\ Go(t, "unlock", "idle")
  /\ mu_' = Null
  /\ UNCHANGED <<locked_, cv_, rwVars, spinVars>>

-----------------------------------------------------------------------------
(* CondVar, which is used with the mutex held.                             *)

\* pthread_cond_wait, pthread_cond_timedwait
Wait(t) ==
  /\ Go(t, "wait", "waiting")
  /\ mu_' = Null /\ cv_' = cv_ \cup {t}
  /\ UNCHANGED <<locked_, rwVars, spinVars>>

\* Mutant: locked_ is not set again.
ReturnUnmarked(t) ==
  /\ Go(t, "waiting", "held")
  /\ mu_ = Null /\ mu_' = t
  /\ cv_' = cv_ \ {t}
  /\ UNCHANGED <<locked_, rwVars, spinVars>>

\* A waiting thread returns with the mutex: it was signalled, its time is over, or for
\* no reason.
Return(t) ==
  /\ Go(t, "waiting", "locked")
  /\ mu_ = Null /\ mu_' = t
  /\ cv_' = cv_ \ {t}
  /\ UNCHANGED <<locked_, rwVars, spinVars>>

\* One of the threads that wait is to return.
Signal(t) ==
  /\ pc[t] = "held"
  /\ cv_ # {} /\ \E u \in cv_ : cv_' = cv_ \ {u}
  /\ UNCHANGED <<mu_, locked_, rwVars, spinVars, pc>>

SignalAll(t) ==
  /\ pc[t] = "held"
  /\ cv_ # {} /\ cv_' = {}
  /\ UNCHANGED <<mu_, locked_, rwVars, spinVars, pc>>

-----------------------------------------------------------------------------
(* RWMutex, ReadLock and WriteLock.                                        *)

ReadLock(t) ==
  /\ Go(t, "idle", "reads")
  /\ writer = Null /\ readers' = readers \cup {t}
  /\ UNCHANGED <<mutexVars, writer, spinVars>>

WriteLock(t) ==
  /\ Go(t, "idle", "writes")
  /\ writer = Null /\ readers = {} /\ writer' = t
  /\ UNCHANGED <<mutexVars, readers, spinVars>>

\* The two are the same call of pthread, which releases what the thread has.
ReadUnlock(t) ==
  /\ Go(t, "reads", "idle")
  /\ readers' = readers \ {t}
  /\ UNCHANGED <<mutexVars, writer, spinVars>>

WriteUnlock(t) ==
  /\ Go(t, "writes", "idle")
  /\ writer' = Null
  /\ UNCHANGED <<mutexVars, readers, spinVars>>

-----------------------------------------------------------------------------
(* SpinMutex.                                                              *)

\* The load of try_lock
Load(t) ==
  /\ Go(t, "idle", "loaded") \/ Go(t, "spinning", "loaded")
  /\ expected' = [expected EXCEPT ![t] = spin]
  /\ UNCHANGED <<mutexVars, rwVars, spin>>

\* compare_exchange_weak, which may fail though the value is as expected. lock tries
\* again, a caller of try_lock may leave it.
CompareExchange(t) ==
  /\ \/ /\ ~expected[t] /\ spin = expected[t]
        /\ spin' = TRUE
        /\ Go(t, "loaded", "spins")
     \/ /\ UNCHANGED spin
        /\ Go(t, "loaded", "spinning") \/ Go(t, "loaded", "idle")
  /\ UNCHANGED <<mutexVars, rwVars, expected>>

SpinUnlock(t) ==
  /\ Go(t, "spins", "idle")
  /\ spin' = FALSE
  /\ UNCHANGED <<mutexVars, rwVars, expected>>

-----------------------------------------------------------------------------

Next ==
  \E t \in Thread :
    \/ Lock(t) \/ MarkLocked(t) \/ MarkUnlocked(t) \/ Unlock(t)
    \/ Wait(t) \/ Return(t) \/ Signal(t) \/ SignalAll(t)
    \/ ReadLock(t) \/ WriteLock(t) \/ ReadUnlock(t) \/ WriteUnlock(t)
    \/ Load(t) \/ CompareExchange(t) \/ SpinUnlock(t)

Spec == Init /\ [][Next]_vars

-----------------------------------------------------------------------------
(* Properties.                                                             *)

Held(t) == pc[t] \in {"locked", "held", "unlock", "wait"}

TypeOK ==
  /\ mu_ \in Thread \cup {Null} /\ locked_ \in BOOLEAN /\ cv_ \subseteq Thread
  /\ readers \subseteq Thread /\ writer \in Thread \cup {Null}
  /\ spin \in BOOLEAN /\ expected \in [Thread -> BOOLEAN]
  /\ pc \in [Thread -> {"idle", "locked", "held", "unlock", "wait", "waiting",
                         "reads", "writes", "loaded", "spinning", "spins"}]

\* Who has a lock, as the locks know it
HoldersAreKnown ==
  /\ \A t \in Thread : Held(t) <=> mu_ = t
  /\ readers = {t \in Thread : pc[t] = "reads"}
  /\ \A t \in Thread : pc[t] = "writes" <=> writer = t
  /\ writer # Null => readers = {}
  /\ \A t \in Thread : pc[t] = "spins" => spin
  /\ \A t, u \in Thread : pc[t] = "spins" /\ pc[u] = "spins" => t = u

AssertHeld == locked_

\* AssertHeld succeeds in the critical section of every thread, whoever locked, waited
\* and was signalled before, and however the writes to locked_ on either side of the
\* lock and of the wait fall between each other.
HolderIsMarked == \A t \in Thread : pc[t] = "held" => AssertHeld

\* No two threads are in critical sections that exclude each other.
HoldersAreAlone ==
  \A t, u \in Thread : t # u =>
    /\ ~(pc[t] \in {"held", "unlock", "wait"} /\ pc[u] \in {"held", "unlock", "wait"})
    /\ ~(pc[t] = "writes" /\ pc[u] \in {"reads", "writes"})
    /\ ~(pc[t] = "spins" /\ pc[u] = "spins")

\* The locks exclude, and the mutex knows that it is held.
LocksAreSafe == HolderIsMarked /\ HoldersAreAlone
=============================================================================
