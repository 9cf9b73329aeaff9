------------------------------- MODULE EnvThreads -------------------------------
(***************************************************************************)
(* StartThread, WaitForJoin and the destructor of PosixEnv                  *)
(* (rutil/env_posix.cc): the threads a client starts, and the handles that  *)
(* are kept to join them.                                                   *)
(*                                                                          *)
(* StartThread creates the thread and then stores its handle under mu_;     *)
(* WaitForJoin takes no lock: it goes through the handles that are there    *)
(* when its loop begins, and clears them all.  A handle that is stored      *)
(* meanwhile is taken to leave the others where they are.                   *)
(***************************************************************************)
EXTENDS Integers, Sequences

CONSTANTS
  Thread,      \* the threads that StartThread may create
  Main,        \* the client's thread, which also waits and destroys
  Nested       \* may a thread that was started start others?

VARIABLES
  state,              \* per thread: "none", "running" or "ended"
  threads_to_join_,
  pc,                 \* per thread and client: "idle", "store" (in StartThread),
                      \* "join" (in WaitForJoin), "destroy" or "gone"
  created,            \* per thread and client: the thread it is starting
  i, end              \* the iterators of the loop

vars == <<state, threads_to_join_, pc, created, i, end>>

Actor == Thread \cup {Main}

Init ==
  /\ state = [t \in Thread |-> "none"]
  /\ threads_to_join_ = <<>>
  /\ pc = [a \in Actor |-> "idle"]
  /\ created = [a \in Actor |-> Main]
  /\ i = 1 /\ end = 0

Runs(a) == a \in Thread => (Nested /\ state[a] = "running")

\* pthread_create
StartThread(a, t) ==
  /\ Runs(a)
  /\ pc[a] = "idle"
  /\ state[t] = "none"
  /\ state' = [state EXCEPT ![t] = "running"]
  /\ created' = [created EXCEPT ![a] = t]
  /\ pc' = [pc EXCEPT ![a] = "store"]
  /\ UNCHANGED <<threads_to_join_, i, end>>

\* push_back of the handle
Store(a) ==
  /\ pc[a] = "store"
  /\ threads_to_join_' = Append(threads_to_join_, created[a])
  /\ pc' = [pc EXCEPT ![a] = "idle"]
  /\ UNCHANGED <<state, created, i, end>>

\* The function of the thread returns.
End(t) ==
  /\ state[t] = "running"
  /\ pc[t] = "idle"
  /\ state' = [state EXCEPT ![t] = "ended"]
  /\ UNCHANGED <<threads_to_join_, pc, created, i, end>>


\* The loop of WaitForJoin, or of the destructor, begins.
Loop(where) ==
  /\ pc[Main] = "idle"
  /\ pc' = [pc EXCEPT ![Main] = where]
  /\ i' = 1
  /\ end' = Len(threads_to_join_)
  /\ UNCHANGED <<state, threads_to_join_, created>>

WaitForJoin == Loop("join")

\* pthread_join blocks until the thread has ended.
MayJoin(t) == state[t] = "ended"

Join ==
  /\ pc[Main] \in {"join", "destroy"}
  /\ i <= end
  /\ MayJoin(threads_to_join_[i])
  /\ i' = i + 1
  /\ UNCHANGED <<state, threads_to_join_, pc, created, end>>

WaitForJoinReturns ==
  /\ pc[Main] = "join" /\ i > end
  /\ threads_to_join_' = <<>>
  /\ pc' = [pc EXCEPT ![Main] = "idle"]
  /\ UNCHANGED <<state, created, i, end>>

\* The destructor joins the handles that are left and then the pools' threads.
Destroy == Loop("destroy")

DestroyReturns ==
  /\ pc[Main] = "destroy" /\ i > end
  /\ pc' = [pc EXCEPT ![Main] = "gone"]
  /\ UNCHANGED <<state, threads_to_join_, created, i, end>>

Next ==
  \/ \E a \in Actor, t \in Thread : StartThread(a, t)
  \/ \E a \in Actor : Store(a)
  \/ \E t \in Thread : End(t)
  \/ WaitForJoin \/ Join \/ WaitForJoinReturns
  \/ Destroy \/ DestroyReturns

Spec == Init /\ [][Next]_vars

-----------------------------------------------------------------------------
(* Properties.                                                             *)

=============================================================================
