----------------------------- MODULE CallQueue -----------------------------
(***************************************************************************)
(* The condition variable of hw17/hw31.py: customers add numbers to a      *)
(* queue, clerks call them, and a clerk that finds none waits.  Python's   *)
(* Condition is external: acquire takes its lock, notify lets one waiting  *)
(* thread go on, which must take the lock again before wait returns.       *)
(***************************************************************************)
EXTENDS Integers, FiniteSets

CONSTANTS
  Customer, Clerk,
  Nobody,
  MaxProducts        \* bound of the runs: customers stop there

Thread == Customer \cup Clerk

ASSUME CallQueueAssumption ==
  /\ IsFiniteSet(Customer) /\ IsFiniteSet(Clerk)
  /\ Customer \cap Clerk = {} /\ Nobody \notin Thread
  /\ MaxProducts \in Nat

VARIABLES
  products,      \* the numbers in the queue
  lock,          \* the thread that holds the condition's lock
  waiting,       \* the clerks in wait that nobody has notified
  notified       \* the clerks in wait that may take the lock again

vars == <<products, lock, waiting, notified>>

TypeOK ==
  /\ products \in Nat
  /\ lock \in Thread \cup {Nobody}
  /\ waiting \subseteq Clerk /\ notified \subseteq Clerk

Init ==
  /\ products = 0
  /\ lock = Nobody
  /\ waiting = {} /\ notified = {}

-----------------------------------------------------------------------------
(* A slip: nobody is notified.                                             *)
Notify_Nobody == UNCHANGED <<waiting, notified>>
(* condition.notify: one of the waiting threads, if there is one.          *)
Notify ==
  \/ waiting = {} /\ UNCHANGED <<waiting, notified>>
  \/ \E c \in waiting : /\ waiting' = waiting \ {c}
                        /\ notified' = notified \cup {c}

(* condition.acquire, at the top of the loop.                              *)
Acquire(t) ==
  /\ lock = Nobody
  /\ t \notin waiting \cup notified
  /\ t \in Customer => products < MaxProducts
  /\ lock' = t
  /\ UNCHANGED <<products, waiting, notified>>

(* A customer's critical section, with the release.                        *)
Deliver(t) ==
  /\ lock = t
  /\ products' = products + 1
  /\ Notify
  /\ lock' = Nobody

(* A clerk's, when there is a number ...                                   *)
Call(c) ==
  /\ lock = c
  /\ products > 0
  /\ products' = products - 1
  /\ Notify
  /\ lock' = Nobody

(* ... and when there is none.                                             *)
Wait(c) ==
  /\ lock = c
  /\ products = 0
  /\ waiting' = waiting \cup {c}
  /\ lock' = Nobody
  /\ UNCHANGED <<products, notified>>

(* A notified clerk takes the lock, returns from wait and releases it: it   *)
(* looks at the queue again only from the top of the loop.                 *)
Resume(c) ==
  /\ c \in notified
  /\ lock = Nobody
  /\ notified' = notified \ {c}
  /\ UNCHANGED <<products, lock, waiting>>

Next ==
  \/ \E t \in Thread : Acquire(t)
  \/ \E t \in Customer : Deliver(t)
  \/ \E c \in Clerk : Call(c) \/ Wait(c) \/ Resume(c)

Spec == Init /\ [][Next]_vars

-----------------------------------------------------------------------------
(* No number is left while clerks sleep: as many clerks are awake as there *)
(* are numbers, or all are.  Every delivery wakes one, and a clerk goes to *)
(* sleep only when the queue is empty.                                     *)
EnoughAwake ==
  \/ waiting = {}
  \/ Cardinality(Clerk \ waiting) >= products
=============================================================================
