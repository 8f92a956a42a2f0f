----------------------------- MODULE WaitQueue -----------------------------
(***************************************************************************)
(* The wait queue of osxtd/src/sync/wait.rs and the parking primitives it  *)
(* rests on.  A thread that calls wait_until evaluates its condition,      *)
(* creates a Waiter, and then repeats: enqueue the waker, evaluate the     *)
(* condition again, sleep.  The wake functions pop wakers one at a time.   *)
(*                                                                         *)
(* This module holds the steps of the queue itself; a client module (Mutex,*)
(* RwMutex) adds the condition and the steps that call the wake functions. *)
(* pc[t] is the point thread t has reached, "run" being outside the queue. *)
(*                                                                         *)
(* A waker is named by its thread while its Waiter lives.  Once the Waiter *)
(* is dropped has_woken stays TRUE for ever, so every such waker behaves   *)
(* alike and is renamed to Closed wherever it is still referenced.         *)
(***************************************************************************)
EXTENDS Naturals, Sequences, ThreadSet

CONSTANTS Closed,   \* any waker whose Waiter has been dropped
          Nobody    \* the spin lock of the queue is free

ASSUME WaitQueueAssumption == /\ Closed \notin Threads
                              /\ Nobody \notin Threads

VARIABLES pc,           \* pc[t]: where thread t is
          wakers,       \* the VecDeque<Arc<Waker>>
          wakers_lock,  \* the holder of the spin lock around wakers
          num_wakers,   \* the atomic copy of wakers.len()
          has_woken,    \* has_woken[t]: the flag of t's current waker
          waiter,       \* waiter[t]: t has created its Waiter
          waking,       \* waking[t]: the waker t has popped, Closed when none
          wake_kind     \* wake_kind[t]: t runs wake_one or wake_all; "one" when none

wqVars == <<wakers, wakers_lock, num_wakers, has_woken, waiter, waking, wake_kind>>

QueueSteps == {"enqueue", "enqueue_num", "wait", "park", "parked", "drop_waiter",
               "wake", "pop", "pop_num", "wake_up", "unpark"}

WakeSteps == {"wake", "pop", "pop_num", "wake_up", "unpark"}

QueueTypeOK == /\ wakers \in Seq(Threads \cup {Closed})
               /\ wakers_lock \in Threads \cup {Nobody}
               /\ num_wakers \in Nat
               /\ has_woken \in [Threads -> BOOLEAN]
               /\ waiter \in [Threads -> BOOLEAN]
               /\ waking \in [Threads -> Threads \cup {Closed}]
               /\ wake_kind \in [Threads -> {"one", "all"}]

QueueInit == /\ wakers = <<>>
             /\ wakers_lock = Nobody
             /\ num_wakers = 0
             /\ has_woken = [t \in Threads |-> FALSE]
             /\ waiter = [t \in Threads |-> FALSE]
             /\ waking = [t \in Threads |-> Closed]
             /\ wake_kind = [t \in Threads |-> "one"]

Goto(t, label) == pc' = [pc EXCEPT ![t] = label]

-----------------------------------------------------------------------------
(* wait_until, from the point of view of the condition it evaluates.       *)

\* cond() returned Some(_): return, dropping the Waiter if there is one.
CondSome(t) == /\ Goto(t, IF waiter[t] THEN "drop_waiter" ELSE "run")
               /\ UNCHANGED wqVars

\* A mutant: the Waiter goes to sleep before its waker is in the queue.
CondNoneNoEnqueue(t) ==
  /\ waiter' = [waiter EXCEPT ![t] = TRUE]
  /\ has_woken' = [has_woken EXCEPT ![t] = FALSE]
  /\ Goto(t, "wait")
  /\ UNCHANGED <<wakers, wakers_lock, num_wakers, waking, wake_kind>>

\* cond() returned None: the first time create the Waiter and enter the loop,
\* later go to sleep (the cancel condition of wait_until never fires).
CondNone(t) ==
  \/ /\ ~waiter[t]
     /\ waiter' = [waiter EXCEPT ![t] = TRUE]
     /\ has_woken' = [has_woken EXCEPT ![t] = FALSE]
     /\ Goto(t, "enqueue")
     /\ UNCHANGED <<wakers, wakers_lock, num_wakers, waking, wake_kind>>
  \/ /\ waiter[t]
     /\ Goto(t, "wait")
     /\ UNCHANGED wqVars

\* enqueue: push_back under the spin lock ...
EnqueuePush(t) ==
  /\ pc[t] = "enqueue"
  /\ wakers_lock = Nobody
  /\ wakers_lock' = t
  /\ wakers' = Append(wakers, t)
  /\ Goto(t, "enqueue_num")
  /\ UNCHANGED <<num_wakers, has_woken, waiter, waking, wake_kind>>

\* A mutant: the counter is not incremented.
EnqueueUncounted(t) ==
  /\ pc[t] = "enqueue_num"
  /\ wakers_lock' = Nobody
  /\ Goto(t, "cond")
  /\ UNCHANGED <<wakers, num_wakers, has_woken, waiter, waking, wake_kind>>

\* A mutant: the condition is not tested again before sleeping.
EnqueueThenSleep(t) ==
  /\ pc[t] = "enqueue_num"
  /\ num_wakers' = num_wakers + 1
  /\ wakers_lock' = Nobody
  /\ Goto(t, "wait")
  /\ UNCHANGED <<wakers, has_woken, waiter, waking, wake_kind>>

\* ... then the counter, and the guard is dropped; cond() comes next.
EnqueueNum(t) ==
  /\ pc[t] = "enqueue_num"
  /\ num_wakers' = num_wakers + 1
  /\ wakers_lock' = Nobody
  /\ Goto(t, "cond")
  /\ UNCHANGED <<wakers, has_woken, waiter, waking, wake_kind>>

\* do_wait: consume a wakeup (then enqueue and test again) or park.
DoWait(t) ==
  /\ pc[t] = "wait"
  /\ Goto(t, IF has_woken[t] THEN "enqueue" ELSE "park")
  /\ has_woken' = [has_woken EXCEPT ![t] = FALSE]
  /\ UNCHANGED <<wakers, wakers_lock, num_wakers, waiter, waking, wake_kind>>

\* A mutant: parks without looking at has_woken under the lock.
ParkUnchecked(t) ==
  /\ pc[t] = "park"
  /\ Goto(t, "parked")
  /\ UNCHANGED wqVars

\* park_current: under the run queue's lock, give up if has_woken is set,
\* otherwise leave the run queue.
ParkCurrent(t) ==
  /\ pc[t] = "park"
  /\ Goto(t, IF has_woken[t] THEN "wait" ELSE "parked")
  /\ UNCHANGED wqVars

\* Waiter::drop closes the waker, wherever a reference to it is left.
CloseWaker(t) ==
  LET close(w) == IF w = t THEN Closed ELSE w
  IN  /\ wakers' = [i \in 1..Len(wakers) |-> close(wakers[i])]
      /\ waking' = [u \in Threads |-> IF pc[u] \in {"pop_num", "wake_up"}
                                        THEN close(waking[u]) ELSE waking[u]]
      /\ has_woken' = [has_woken EXCEPT ![t] = TRUE]

DropWaiter(t) ==
  /\ pc[t] = "drop_waiter"
  /\ CloseWaker(t)
  /\ waiter' = [waiter EXCEPT ![t] = FALSE]
  /\ Goto(t, "run")
  /\ UNCHANGED <<wakers_lock, num_wakers, wake_kind>>

-----------------------------------------------------------------------------
(* wake_one and wake_all: the same loop, left at the first success or not. *)

\* A client enters wake_one ("one") or wake_all ("all").
CallWake(t, kind) ==
  /\ wake_kind' = [wake_kind EXCEPT ![t] = kind]
  /\ Goto(t, "wake")
  /\ UNCHANGED <<wakers, wakers_lock, num_wakers, has_woken, waiter, waking>>

WakeReturns(t) ==
  /\ wake_kind' = [wake_kind EXCEPT ![t] = "one"]
  /\ Goto(t, "run")
  /\ UNCHANGED <<wakers, wakers_lock, num_wakers, has_woken, waiter, waking>>

\* The lock-free fast path: return, or enter the loop.
IsEmpty(t) ==
  /\ pc[t] = "wake"
  /\ \/ num_wakers = 0 /\ WakeReturns(t)
     \/ num_wakers # 0 /\ Goto(t, "pop") /\ UNCHANGED wqVars

PopFront(t) ==
  /\ pc[t] = "pop"
  /\ wakers_lock = Nobody
  /\ \/ wakers = <<>> /\ WakeReturns(t)
     \/ /\ wakers # <<>>
        /\ wakers_lock' = t
        /\ wakers' = Tail(wakers)
        /\ waking' = [waking EXCEPT ![t] = Head(wakers)]
        /\ Goto(t, "pop_num")
        /\ UNCHANGED <<num_wakers, has_woken, waiter, wake_kind>>

\* A mutant: the counter goes down twice for one waker.
PopNumTwice(t) ==
  /\ pc[t] = "pop_num"
  /\ num_wakers' = num_wakers - 2
  /\ wakers_lock' = Nobody
  /\ Goto(t, "wake_up")
  /\ UNCHANGED <<wakers, has_woken, waiter, waking, wake_kind>>

PopNum(t) ==
  /\ pc[t] = "pop_num"
  /\ num_wakers' = num_wakers - 1
  /\ wakers_lock' = Nobody
  /\ Goto(t, "wake_up")
  /\ UNCHANGED <<wakers, has_woken, waiter, waking, wake_kind>>

\* Waker::wake_up returns false: the waker is closed or already woken.
WakeUpFalse(t) ==
  /\ pc[t] = "wake_up"
  /\ waking[t] = Closed \/ \E u \in Threads : waking[t] = u /\ has_woken[u]
  /\ waking' = [waking EXCEPT ![t] = Closed]
  /\ Goto(t, "pop")
  /\ UNCHANGED <<wakers, wakers_lock, num_wakers, has_woken, waiter, wake_kind>>

WakeUpTrue(t) ==
  /\ pc[t] = "wake_up"
  /\ \E u \in Threads : /\ waking[t] = u
                        /\ ~has_woken[u]
                        /\ has_woken' = [has_woken EXCEPT ![u] = TRUE]
  /\ Goto(t, "unpark")
  /\ UNCHANGED <<wakers, wakers_lock, num_wakers, waiter, waking, wake_kind>>

\* unpark_target: make the task runnable if it is not; the Waiter it was woken
\* for may be gone, in which case the task sees a spurious wakeup.
UnparkTarget(t) ==
  /\ pc[t] = "unpark"
  /\ pc' = [u \in Threads |->
              IF u = t THEN (IF wake_kind[t] = "one" THEN "run" ELSE "pop")
              ELSE IF u = waking[t] /\ pc[u] = "parked" THEN "wait" ELSE pc[u]]
  /\ waking' = [waking EXCEPT ![t] = Closed]
  /\ UNCHANGED <<wakers, wakers_lock, num_wakers, has_woken, waiter, wake_kind>>

WaitStep(t) == EnqueuePush(t) \/ EnqueueNum(t) \/ DoWait(t) \/ ParkCurrent(t) \/ DropWaiter(t)

WakeStep(t) == IsEmpty(t) \/ PopFront(t) \/ PopNum(t) \/ WakeUpFalse(t) \/ WakeUpTrue(t)
               \/ UnparkTarget(t)

QueueStep(t) == WaitStep(t) \/ WakeStep(t)

-----------------------------------------------------------------------------
\* The comment on num_wakers ("A copy of wakers.len()"): the copy is exact
\* whenever the spin lock is free, and off by the one step in progress when not.
NumWakersIsLen ==
  /\ wakers_lock = Nobody => num_wakers = Len(wakers)
  /\ \A t \in Threads :
       wakers_lock = t => \/ pc[t] = "enqueue_num" /\ num_wakers + 1 = Len(wakers)
                          \/ pc[t] = "pop_num" /\ num_wakers = Len(wakers) + 1

\* The promise on Waker::wake_up ("the wake event will be properly delivered"):
\* a task is never left parked with its has_woken flag set, unless the thread
\* that set it has yet to unpark it.
WokenIsUnparked ==
  \A t \in Threads :
    pc[t] = "parked" /\ has_woken[t] => \E u \in Threads : pc[u] = "unpark" /\ waking[u] = t

InQueue(t) == \E i \in 1..Len(wakers) : wakers[i] = t
Popped(t) == \E u \in Threads : pc[u] \in {"pop_num", "wake_up"} /\ waking[u] = t

\* The inductive invariant of the queue, whatever its client: it adds to the
\* two properties above who holds the spin lock, when a Waiter exists, and
\* that every waiting thread that has not been woken can still be found.
QueueInv ==
  /\ \A t \in Threads : wakers_lock = t <=> pc[t] \in {"enqueue_num", "pop_num"}
  /\ NumWakersIsLen
  /\ \A t \in Threads :
       /\ pc[t] \in {"enqueue", "enqueue_num", "wait", "park", "parked", "drop_waiter"} => waiter[t]
       /\ pc[t] \in {"run"} \cup WakeSteps => ~waiter[t]
       /\ InQueue(t) \/ Popped(t) => waiter[t]
       /\ waiter[t] /\ ~has_woken[t] /\ pc[t] \notin {"enqueue", "drop_waiter"}
            => InQueue(t) \/ Popped(t)
  /\ WokenIsUnparked

=============================================================================
