---------------------------- MODULE MutexProofs ----------------------------
(***************************************************************************)
(* Proofs about the wait queue, whatever its client, and about Mutex, for  *)
(* any finite set of threads and any number of calls: mutual exclusion,    *)
(* and that no wakeup is lost.                                             *)
(***************************************************************************)
EXTENDS Mutex, SequenceTheorems, TLAPS

-----------------------------------------------------------------------------
(* The wait queue.                                                         *)

\* The queue of wakers, seen as the set of threads that are in it.
LEMMA InQueueAppend ==
  ASSUME wakers \in Seq(Threads \cup {Closed}), NEW t \in Threads, wakers' = Append(wakers, t)
  PROVE  /\ wakers' \in Seq(Threads \cup {Closed})
         /\ Len(wakers') = Len(wakers) + 1
         /\ \A x \in Threads : InQueue(x)' <=> InQueue(x) \/ x = t
<1>1. /\ wakers' \in Seq(Threads \cup {Closed})
      /\ Len(wakers') = Len(wakers) + 1
      /\ \A i \in 1..Len(wakers) : wakers'[i] = wakers[i]
      /\ wakers'[Len(wakers) + 1] = t
  BY AppendProperties
<1>2. Len(wakers) \in Nat
  OBVIOUS
<1>3. QED
  BY <1>1, <1>2 DEF InQueue

\* pop_front takes the waker at the head off the queue, and no other.
LEMMA InQueueTail ==
  ASSUME wakers \in Seq(Threads \cup {Closed}), wakers # <<>>, wakers' = Tail(wakers)
  PROVE  /\ wakers' \in Seq(Threads \cup {Closed})
         /\ Head(wakers) \in Threads \cup {Closed}
         /\ Len(wakers') = Len(wakers) - 1
         /\ Len(wakers) \in Nat \ {0}
         /\ \A x \in Threads : InQueue(x) <=> InQueue(x)' \/ x = Head(wakers)
<1>1. /\ wakers' \in Seq(Threads \cup {Closed})
      /\ Head(wakers) \in Threads \cup {Closed}
      /\ Head(wakers) = wakers[1]
      /\ Len(wakers) \in Nat \ {0}
      /\ Len(wakers') = Len(wakers) - 1
      /\ \A i \in 1..Len(wakers') : wakers'[i] = wakers[i + 1]
  BY HeadTailProperties, EmptySeq
<1>2. ASSUME NEW x \in Threads, InQueue(x), x # Head(wakers) PROVE InQueue(x)'
  <2>1. PICK i \in 1..Len(wakers) : wakers[i] = x
    BY <1>2 DEF InQueue
  <2>2. i - 1 \in 1..Len(wakers') /\ wakers'[i - 1] = x
    <3>1. i # 1
      BY <1>1, <1>2, <2>1
    <3>2. i - 1 \in 1..Len(wakers') /\ (i - 1) + 1 = i
      BY <1>1, <3>1
    <3>3. QED
      BY <1>1, <2>1, <3>2
  <2>3. QED
    BY <2>2 DEF InQueue
<1>3. ASSUME NEW x \in Threads, InQueue(x)' PROVE InQueue(x)
  BY <1>1, <1>3 DEF InQueue
<1>4. ASSUME NEW x \in Threads, x = Head(wakers) PROVE InQueue(x)
  BY <1>1, <1>4 DEF InQueue
<1>5. QED
  BY <1>1, <1>2, <1>3, <1>4

\* Closing a waker hides its thread from the queue and keeps the queue's length.
LEMMA InQueueClose ==
  ASSUME wakers \in Seq(Threads \cup {Closed}), NEW t \in Threads, CloseWaker(t)
  PROVE  /\ wakers' \in Seq(Threads \cup {Closed})
         /\ Len(wakers') = Len(wakers)
         /\ \A x \in Threads : InQueue(x)' <=> InQueue(x) /\ x # t
<1>1. /\ Len(wakers) \in Nat
      /\ \A i \in 1..Len(wakers) : wakers[i] \in Threads \cup {Closed}
  OBVIOUS
<1>2. wakers' = [i \in 1..Len(wakers) |-> IF wakers[i] = t THEN Closed ELSE wakers[i]]
  BY DEF CloseWaker
<1>3. wakers' \in Seq(Threads \cup {Closed}) /\ Len(wakers') = Len(wakers)
  BY <1>1, <1>2
<1>4. QED
  BY <1>1, <1>2, <1>3, WaitQueueAssumption DEF InQueue

\* The steps of a client around the queue: it starts wait_until or a wake function,
\* evaluates the condition, undoes an evaluation in two steps, or does other things.
ClientStep(t) ==
  \/ pc[t] \in {"cond", "undo"} /\ (CondSome(t) \/ CondNone(t))
  \/ pc[t] = "cond" /\ Goto(t, "undo") /\ UNCHANGED wqVars
  \/ pc[t] = "run" /\ Goto(t, "cond") /\ UNCHANGED wqVars
  \/ pc[t] = "run" /\ \E kind \in {"one", "all"} : CallWake(t, kind)
  \/ UNCHANGED <<pc, wqVars>>

\* What the queue relies on: its own invariant, and the program counters of a client.
QueueOK == /\ QueueTypeOK
           /\ QueueInv
           /\ pc \in [Threads -> QueueSteps \cup {"run", "cond", "undo"}]

\* The waker that is being enqueued is the last one of the queue.
LastWaker == \A t \in Threads : pc[t] = "enqueue_num" => wakers[Len(wakers)] = t

\* The steps of a client keep the queue's types and its invariant.
LEMMA ClientSteps ==
  ASSUME QueueTypeOK, QueueInv, pc = [u \in Threads |-> pc[u]], NEW t \in Threads,
         ClientStep(t)
  PROVE  QueueTypeOK' /\ QueueInv'
<1> USE DEF Goto, wqVars
<1>0. \A x \in Threads : (InQueue(x)' <=> InQueue(x)) /\ (Popped(x)' <=> Popped(x))
  BY DEF ClientStep, CondSome, CondNone, CallWake, InQueue, Popped
<1>1. CASE pc[t] \in {"cond", "undo"} /\ CondSome(t)
  BY <1>0, <1>1 DEF QueueTypeOK, QueueInv, CondSome, NumWakersIsLen, WokenIsUnparked, WakeSteps
<1>2. CASE pc[t] \in {"cond", "undo"} /\ CondNone(t)
  <2>1. CASE waiter[t]
    <3>1. pc' = [pc EXCEPT ![t] = "wait"] /\ UNCHANGED wqVars
      BY <1>2, <2>1 DEF CondNone
    <3>2. QED
      BY <1>0, <1>2, <2>1, <3>1 DEF QueueTypeOK, QueueInv, NumWakersIsLen, WokenIsUnparked, WakeSteps
  <2>2. CASE ~waiter[t]
    <3>1. /\ pc' = [pc EXCEPT ![t] = "enqueue"] /\ waiter' = [waiter EXCEPT ![t] = TRUE]
          /\ has_woken' = [has_woken EXCEPT ![t] = FALSE]
          /\ UNCHANGED <<wakers, wakers_lock, num_wakers, waking, wake_kind>>
      BY <1>2, <2>2 DEF CondNone
    <3>2. QED
      BY <1>0, <1>2, <3>1 DEF QueueTypeOK, QueueInv, NumWakersIsLen, WokenIsUnparked, WakeSteps
  <2>3. QED
    BY <2>1, <2>2
<1>3. CASE pc[t] = "cond" /\ Goto(t, "undo") /\ UNCHANGED wqVars
  BY <1>0, <1>3 DEF QueueTypeOK, QueueInv, NumWakersIsLen, WokenIsUnparked, WakeSteps
<1>4. CASE pc[t] = "run" /\ Goto(t, "cond") /\ UNCHANGED wqVars
  BY <1>0, <1>4 DEF QueueTypeOK, QueueInv, NumWakersIsLen, WokenIsUnparked, WakeSteps
<1>5. CASE pc[t] = "run" /\ \E kind \in {"one", "all"} : CallWake(t, kind)
  BY <1>0, <1>5 DEF QueueTypeOK, QueueInv, CallWake, NumWakersIsLen, WokenIsUnparked, WakeSteps
<1>6. CASE UNCHANGED <<pc, wqVars>>
  BY <1>0, <1>6 DEF QueueTypeOK, QueueInv, NumWakersIsLen, WokenIsUnparked
<1>7. QED
  BY <1>1, <1>2, <1>3, <1>4, <1>5, <1>6 DEF ClientStep

\* The waiting side of the queue.
LEMMA WaitSteps ==
  ASSUME QueueTypeOK, QueueInv, pc = [u \in Threads |-> pc[u]], NEW t \in Threads, WaitStep(t)
  PROVE  QueueTypeOK' /\ QueueInv'
<1> USE WaitQueueAssumption DEF Goto
<1>1. CASE EnqueuePush(t)
  <2>1. /\ wakers' \in Seq(Threads \cup {Closed})
        /\ Len(wakers') = Len(wakers) + 1
        /\ \A x \in Threads : InQueue(x)' <=> InQueue(x) \/ x = t
    BY <1>1, InQueueAppend DEF QueueTypeOK, EnqueuePush
  <2>2. \A x \in Threads : Popped(x)' <=> Popped(x)
    BY <1>1 DEF EnqueuePush, Popped
  <2>3. QED
    BY <1>1, <2>1, <2>2 DEF QueueTypeOK, QueueInv, EnqueuePush, NumWakersIsLen, WokenIsUnparked, WakeSteps
<1>2. CASE EnqueueNum(t)
  <2>1. \A x \in Threads : (InQueue(x)' <=> InQueue(x)) /\ (Popped(x)' <=> Popped(x))
    BY <1>2 DEF EnqueueNum, InQueue, Popped
  <2>2. QED
    BY <1>2, <2>1 DEF QueueTypeOK, QueueInv, EnqueueNum, NumWakersIsLen, WokenIsUnparked, WakeSteps
<1>3. CASE DoWait(t)
  <2>1. \A x \in Threads : (InQueue(x)' <=> InQueue(x)) /\ (Popped(x)' <=> Popped(x))
    BY <1>3 DEF DoWait, InQueue, Popped
  <2>2. QED
    BY <1>3, <2>1 DEF QueueTypeOK, QueueInv, DoWait, NumWakersIsLen, WokenIsUnparked, WakeSteps
<1>4. CASE ParkCurrent(t)
  <2>1. \A x \in Threads : (InQueue(x)' <=> InQueue(x)) /\ (Popped(x)' <=> Popped(x))
    BY <1>4 DEF ParkCurrent, InQueue, Popped, wqVars
  <2>2. QED
    BY <1>4, <2>1 DEF QueueTypeOK, QueueInv, ParkCurrent, NumWakersIsLen, WokenIsUnparked, WakeSteps, wqVars
<1>5. CASE DropWaiter(t)
  <2>1. /\ wakers' \in Seq(Threads \cup {Closed})
        /\ Len(wakers') = Len(wakers)
        /\ \A x \in Threads : InQueue(x)' <=> InQueue(x) /\ x # t
    BY <1>5, InQueueClose DEF QueueTypeOK, DropWaiter
  <2>2. \A x \in Threads : Popped(x)' <=> Popped(x) /\ x # t
    BY <1>5 DEF QueueTypeOK, DropWaiter, CloseWaker, Popped
  <2>3. QueueTypeOK'
    BY <1>5, <2>1 DEF QueueTypeOK, DropWaiter, CloseWaker
  <2>4. WokenIsUnparked'
    BY <1>5 DEF QueueTypeOK, QueueInv, DropWaiter, CloseWaker, WokenIsUnparked
  <2>5. NumWakersIsLen'
    BY <1>5, <2>1 DEF QueueTypeOK, QueueInv, DropWaiter, NumWakersIsLen
  <2>6. QED
    BY <1>5, <2>1, <2>2, <2>3, <2>4, <2>5 DEF QueueTypeOK, QueueInv, DropWaiter, CloseWaker, WakeSteps
<1>6. QED
  BY <1>1, <1>2, <1>3, <1>4, <1>5 DEF WaitStep

\* The waking side of the queue.
LEMMA WakingSteps ==
  ASSUME QueueTypeOK, QueueInv, pc = [u \in Threads |-> pc[u]], NEW t \in Threads, WakeStep(t)
  PROVE  QueueTypeOK' /\ QueueInv'
<1> USE WaitQueueAssumption DEF Goto
<1>1. CASE IsEmpty(t)
  <2>1. \A x \in Threads : (InQueue(x)' <=> InQueue(x)) /\ (Popped(x)' <=> Popped(x))
    BY <1>1 DEF IsEmpty, WakeReturns, InQueue, Popped, wqVars
  <2>2. QED
    BY <1>1, <2>1 DEF QueueTypeOK, QueueInv, IsEmpty, WakeReturns, NumWakersIsLen, WokenIsUnparked, WakeSteps, wqVars
<1>2. CASE PopFront(t) /\ wakers = <<>>
  <2>1. \A x \in Threads : (InQueue(x)' <=> InQueue(x)) /\ (Popped(x)' <=> Popped(x))
    BY <1>2 DEF PopFront, WakeReturns, InQueue, Popped
  <2>2. /\ pc[t] = "pop" /\ pc' = [pc EXCEPT ![t] = "run"]
        /\ wake_kind' = [wake_kind EXCEPT ![t] = "one"]
        /\ UNCHANGED <<wakers, wakers_lock, num_wakers, has_woken, waiter, waking>>
    BY <1>2 DEF PopFront, WakeReturns
  <2>3. QED
    BY <2>1, <2>2 DEF QueueTypeOK, QueueInv, NumWakersIsLen, WokenIsUnparked, WakeSteps
<1>3. CASE PopFront(t) /\ wakers # <<>>
  <2>1. /\ wakers' \in Seq(Threads \cup {Closed})
        /\ Head(wakers) \in Threads \cup {Closed}
        /\ Len(wakers') = Len(wakers) - 1
        /\ Len(wakers) \in Nat \ {0}
        /\ \A x \in Threads : InQueue(x) <=> InQueue(x)' \/ x = Head(wakers)
    BY <1>3, InQueueTail DEF QueueTypeOK, PopFront
  <2>2. \A x \in Threads : Popped(x)' <=> Popped(x) \/ x = Head(wakers)
    BY <1>3 DEF QueueTypeOK, PopFront, Popped
  <2>3. QueueTypeOK'
    BY <1>3, <2>1 DEF QueueTypeOK, PopFront
  <2>4. WokenIsUnparked'
    <3>1. /\ pc[t] = "pop" /\ pc' = [pc EXCEPT ![t] = "pop_num"]
          /\ waking' = [waking EXCEPT ![t] = Head(wakers)] /\ has_woken' = has_woken
      BY <1>3 DEF PopFront
    <3>2. QED
      BY <3>1, Zenon DEF QueueTypeOK, QueueInv, WokenIsUnparked
  <2>5. NumWakersIsLen'
    BY <1>3, <2>1 DEF QueueTypeOK, QueueInv, PopFront, NumWakersIsLen
  <2>6. QED
    BY <1>3, <2>1, <2>2, <2>3, <2>4, <2>5 DEF QueueTypeOK, QueueInv, PopFront, WakeSteps
<1>4. CASE PopNum(t)
  <2>1. \A x \in Threads : (InQueue(x)' <=> InQueue(x)) /\ (Popped(x)' <=> Popped(x))
    BY <1>4 DEF PopNum, InQueue, Popped
  <2>2. wakers_lock = t /\ num_wakers = Len(wakers) + 1 /\ Len(wakers) \in Nat
    BY <1>4 DEF QueueTypeOK, QueueInv, NumWakersIsLen, PopNum
  <2>3. QED
    BY <1>4, <2>1, <2>2 DEF QueueTypeOK, QueueInv, PopNum, NumWakersIsLen, WokenIsUnparked, WakeSteps
<1>5. CASE WakeUpFalse(t)
  <2>1. \A x \in Threads : InQueue(x)' <=> InQueue(x)
    BY <1>5 DEF WakeUpFalse, InQueue
  <2>2. \A x \in Threads : (Popped(x)' => Popped(x)) /\ (Popped(x) /\ ~has_woken[x] => Popped(x)')
    BY <1>5, Zenon DEF QueueTypeOK, WakeUpFalse, Popped
  <2>3. QueueTypeOK'
    BY <1>5 DEF QueueTypeOK, WakeUpFalse
  <2>4. QED
    BY <1>5, <2>1, <2>2, <2>3, ZenonT(30) DEF QueueTypeOK, QueueInv, WakeUpFalse, NumWakersIsLen, WokenIsUnparked, WakeSteps
<1>6. CASE WakeUpTrue(t)
  <2>1. PICK w \in Threads : waking[t] = w /\ ~has_woken[w] /\ has_woken' = [has_woken EXCEPT ![w] = TRUE]
    BY <1>6, Zenon DEF WakeUpTrue
  <2>2. \A x \in Threads : InQueue(x)' <=> InQueue(x)
    BY <1>6 DEF WakeUpTrue, InQueue
  <2>3. \A x \in Threads : (Popped(x)' => Popped(x)) /\ (Popped(x) /\ x # w => Popped(x)')
    BY <1>6, <2>1 DEF QueueTypeOK, WakeUpTrue, Popped
  <2>4. QueueTypeOK'
    BY <1>6, <2>1 DEF QueueTypeOK, WakeUpTrue
  <2>5. WokenIsUnparked'
    BY <1>6, <2>1 DEF QueueTypeOK, QueueInv, WakeUpTrue, WokenIsUnparked
  <2>6. QED
    BY <1>6, <2>1, <2>2, <2>3, <2>4, <2>5 DEF QueueTypeOK, QueueInv, WakeUpTrue, NumWakersIsLen, WakeSteps
<1>7. CASE UnparkTarget(t)
  <2>1. \A x \in Threads : InQueue(x)' <=> InQueue(x)
    BY <1>7 DEF UnparkTarget, InQueue
  <2>2. \A x \in Threads : Popped(x)' <=> Popped(x)
    BY <1>7 DEF QueueTypeOK, UnparkTarget, Popped
  <2>3. QueueTypeOK'
    BY <1>7 DEF QueueTypeOK, UnparkTarget
  <2>4. WokenIsUnparked'
    BY <1>7 DEF QueueTypeOK, QueueInv, UnparkTarget, WokenIsUnparked
  <2>5. QED
    BY <1>7, <2>1, <2>2, <2>3, <2>4 DEF QueueTypeOK, QueueInv, UnparkTarget, NumWakersIsLen, WakeSteps
<1>8. QED
  BY <1>1, <1>2, <1>3, <1>4, <1>5, <1>6, <1>7 DEF WakeStep

\* Where a step takes its thread, and the others: at most a parked one wakes up.
LEMMA PcAfterStep ==
  ASSUME QueueOK, NEW t \in Threads, ClientStep(t) \/ QueueStep(t)
  PROVE  /\ pc' \in [Threads -> QueueSteps \cup {"run", "cond", "undo"}]
         /\ \A u \in Threads \ {t} : pc'[u] = pc[u] \/ (pc[u] = "parked" /\ pc'[u] = "wait")
<1> USE DEF Goto
<1>0. pc \in [Threads -> QueueSteps \cup {"run", "cond", "undo"}]
  BY DEF QueueOK
<1>1. CASE ClientStep(t)
  BY <1>0, <1>1 DEF ClientStep, CondSome, CondNone, CallWake, QueueSteps
<1>2. CASE WaitStep(t)
  BY <1>0, <1>2 DEF WaitStep, EnqueuePush, EnqueueNum, DoWait, ParkCurrent, DropWaiter, QueueSteps
<1>3. CASE WakeStep(t)
  BY <1>0, <1>3 DEF WakeStep, IsEmpty, PopFront, WakeReturns, PopNum, WakeUpFalse, WakeUpTrue,
                    UnparkTarget, QueueSteps
<1>4. QED
  BY <1>1, <1>2, <1>3 DEF QueueStep

\* So a step of either kind keeps what the queue relies on.
LEMMA QueueKept ==
  ASSUME QueueOK, NEW t \in Threads, ClientStep(t) \/ QueueStep(t)
  PROVE  QueueOK'
<1>0. QueueTypeOK /\ QueueInv /\ pc = [u \in Threads |-> pc[u]]
  BY DEF QueueOK
<1>1. QueueTypeOK' /\ QueueInv'
  BY <1>0, ClientSteps, WaitSteps, WakingSteps DEF QueueStep
<1>2. QED
  BY <1>1, PcAfterStep DEF QueueOK

\* Until it releases the queue's spin lock, the waker a thread has pushed is the
\* last of the queue.
LEMMA LastWakerKept ==
  ASSUME QueueOK, LastWaker, NEW t \in Threads, ClientStep(t) \/ QueueStep(t)
  PROVE  LastWaker'
<1> SUFFICES ASSUME NEW u \in Threads, pc'[u] = "enqueue_num" PROVE wakers'[Len(wakers')] = u
  BY DEF LastWaker
<1>0. /\ pc \in [Threads -> QueueSteps \cup {"run", "cond", "undo"}]
      /\ wakers \in Seq(Threads \cup {Closed})
      /\ pc[u] = "enqueue_num" => wakers[Len(wakers)] = u /\ wakers_lock = u
      /\ wakers_lock = u <=> pc[u] \in {"enqueue_num", "pop_num"}
  BY DEF QueueOK, QueueTypeOK, QueueInv, LastWaker
<1>1. CASE EnqueuePush(t)
  <2>1. wakers_lock = Nobody /\ wakers' = Append(wakers, t) /\ pc' = [pc EXCEPT ![t] = "enqueue_num"]
    BY <1>1 DEF EnqueuePush, Goto
  <2>2. u = t
    BY <1>0, <2>1, WaitQueueAssumption
  <2>3. QED
    BY <1>0, <2>1, <2>2, AppendProperties
<1>2. CASE DropWaiter(t)
  <2>1. /\ pc[u] = "enqueue_num" /\ u # t
        /\ wakers' = [i \in 1..Len(wakers) |-> IF wakers[i] = t THEN Closed ELSE wakers[i]]
    BY <1>0, <1>2 DEF DropWaiter, CloseWaker, Goto
  <2>2. Len(wakers') = Len(wakers) /\ Len(wakers) \in Nat
    BY <1>0, <1>2, InQueueClose DEF DropWaiter
  <2>3. num_wakers \in Nat /\ num_wakers + 1 = Len(wakers)
    BY <1>0, <2>1 DEF QueueOK, QueueTypeOK, QueueInv, NumWakersIsLen
  <2>4. Len(wakers) \in 1..Len(wakers)
    BY <2>2, <2>3
  <2>5. QED
    BY <1>0, <2>1, <2>2, <2>4
<1>3. CASE PopFront(t)
  <2>1. wakers_lock = Nobody /\ pc[u] = "enqueue_num"
    BY <1>0, <1>3 DEF PopFront, WakeReturns, Goto
  <2>2. QED
    BY <1>0, <2>1, WaitQueueAssumption
<1>4. ASSUME wakers' = wakers, pc[u] = "enqueue_num" PROVE wakers'[Len(wakers')] = u
  BY <1>0, <1>4
<1>5. CASE ClientStep(t)
  <2>1. wakers' = wakers /\ pc[u] = "enqueue_num"
    BY <1>0, <1>5 DEF ClientStep, CondSome, CondNone, CallWake, wqVars, Goto
  <2>2. QED
    BY <1>4, <2>1
<1>6. CASE EnqueueNum(t) \/ DoWait(t) \/ ParkCurrent(t)
  <2>1. wakers' = wakers /\ pc[u] = "enqueue_num"
    BY <1>0, <1>6 DEF EnqueueNum, DoWait, ParkCurrent, wqVars, Goto
  <2>2. QED
    BY <1>4, <2>1
<1>7. CASE IsEmpty(t) \/ PopNum(t) \/ WakeUpFalse(t) \/ WakeUpTrue(t) \/ UnparkTarget(t)
  <2>1. wakers' = wakers /\ pc[u] = "enqueue_num"
    BY <1>0, <1>7 DEF IsEmpty, WakeReturns, PopNum, WakeUpFalse, WakeUpTrue, UnparkTarget, wqVars, Goto
  <2>2. QED
    BY <1>4, <2>1
<1>8. QED
  BY <1>1, <1>2, <1>3, <1>5, <1>6, <1>7 DEF QueueStep, WaitStep, WakeStep

\* What a step leaves of the other threads.
LEMMA OthersKept ==
  ASSUME QueueOK, NEW t \in Threads, ClientStep(t) \/ QueueStep(t), NEW u \in Threads, u # t
  PROVE  /\ pc'[u] = pc[u] \/ (pc[u] = "parked" /\ pc'[u] = "wait")
         /\ waiter'[u] = waiter[u] /\ wake_kind'[u] = wake_kind[u]
         /\ has_woken[u] => has_woken'[u]
         /\ \A v \in Threads : v # t /\ waking[u] = v => waking'[u] = v
<1>1. pc'[u] = pc[u] \/ (pc[u] = "parked" /\ pc'[u] = "wait")
  BY PcAfterStep
<1>2. waiter'[u] = waiter[u] /\ wake_kind'[u] = wake_kind[u]
  <2>0. waiter \in [Threads -> BOOLEAN] /\ wake_kind \in [Threads -> {"one", "all"}]
    BY DEF QueueOK, QueueTypeOK
  <2>1. CASE ClientStep(t)
    BY <2>0, <2>1, Zenon DEF ClientStep, CondSome, CondNone, CallWake, wqVars
  <2>2. CASE WaitStep(t)
    BY <2>0, <2>2 DEF WaitStep, EnqueuePush, EnqueueNum, DoWait, ParkCurrent, DropWaiter, wqVars
  <2>3. CASE WakeStep(t)
    BY <2>0, <2>3 DEF WakeStep, IsEmpty, PopFront, WakeReturns, PopNum, WakeUpFalse, WakeUpTrue,
                      UnparkTarget, wqVars
  <2>4. QED
    BY <2>1, <2>2, <2>3 DEF QueueStep
<1>3. ASSUME has_woken[u] PROVE has_woken'[u]
  <2>0. has_woken \in [Threads -> BOOLEAN]
    BY DEF QueueOK, QueueTypeOK
  <2>1. CASE ClientStep(t)
    BY <1>3, <2>0, <2>1, Zenon DEF ClientStep, CondSome, CondNone, CallWake, wqVars
  <2>2. CASE WaitStep(t)
    BY <1>3, <2>0, <2>2 DEF WaitStep, EnqueuePush, EnqueueNum, DoWait, ParkCurrent, DropWaiter, CloseWaker, wqVars
  <2>3. CASE WakeStep(t)
    BY <1>3, <2>0, <2>3 DEF WakeStep, IsEmpty, PopFront, WakeReturns, PopNum, WakeUpFalse, WakeUpTrue,
                            UnparkTarget, wqVars
  <2>4. QED
    BY <2>1, <2>2, <2>3 DEF QueueStep
<1>4. ASSUME NEW v \in Threads, v # t, waking[u] = v PROVE waking'[u] = v
  <2>0. waking \in [Threads -> Threads \cup {Closed}]
    BY DEF QueueOK, QueueTypeOK
  <2>1. CASE ClientStep(t)
    BY <1>4, <2>0, <2>1, Zenon DEF ClientStep, CondSome, CondNone, CallWake, wqVars
  <2>2. CASE WaitStep(t)
    BY <1>4, <2>0, <2>2 DEF WaitStep, EnqueuePush, EnqueueNum, DoWait, ParkCurrent, DropWaiter, CloseWaker, wqVars
  <2>3. CASE WakeStep(t)
    BY <1>4, <2>0, <2>3 DEF WakeStep, IsEmpty, PopFront, WakeReturns, PopNum, WakeUpFalse, WakeUpTrue,
                            UnparkTarget, wqVars
  <2>4. QED
    BY <2>1, <2>2, <2>3 DEF QueueStep
<1>5. QED
  BY <1>1, <1>2, <1>3, <1>4

\* A waker popped for a thread that has not been woken stays popped for it.
LEMMA PoppedKept ==
  ASSUME QueueOK, NEW t \in Threads, ClientStep(t) \/ QueueStep(t),
         NEW v \in Threads, v # t, Popped(v), ~has_woken[v], ~has_woken'[v]
  PROVE  Popped(v)'
<1>1. PICK u \in Threads : pc[u] \in {"pop_num", "wake_up"} /\ waking[u] = v
  BY DEF Popped
<1>2. CASE u # t
  <2>1. pc'[u] = pc[u] /\ waking'[u] = v
    BY <1>1, <1>2, OthersKept
  <2>2. QED
    BY <1>1, <2>1 DEF Popped
<1>3. CASE u = t
  <2>0. /\ pc \in [Threads -> QueueSteps \cup {"run", "cond", "undo"}]
        /\ has_woken \in [Threads -> BOOLEAN] /\ v # Closed
    BY WaitQueueAssumption DEF QueueOK, QueueTypeOK
  <2>1. PopNum(t) \/ WakeUpFalse(t) \/ WakeUpTrue(t) \/ UNCHANGED <<pc, wqVars>>
    <3>1. CASE ClientStep(t)
      BY <1>1, <1>3, <3>1 DEF ClientStep
    <3>2. CASE QueueStep(t)
      BY <1>1, <1>3, <3>2 DEF QueueStep, WaitStep, EnqueuePush, EnqueueNum, DoWait, ParkCurrent, DropWaiter,
         WakeStep, IsEmpty, PopFront, UnparkTarget
    <3>3. QED
      BY <3>1, <3>2
  <2>2. CASE PopNum(t)
    BY <1>1, <1>3, <2>0, <2>2 DEF PopNum, Popped, Goto
  <2>3. CASE WakeUpFalse(t)
    BY <1>1, <1>3, <2>0, <2>3 DEF WakeUpFalse
  <2>4. CASE WakeUpTrue(t)
    BY <1>1, <1>3, <2>0, <2>4 DEF WakeUpTrue
  <2>5. CASE UNCHANGED <<pc, wqVars>>
    BY <1>1, <2>5 DEF Popped, wqVars
  <2>6. QED
    BY <2>1, <2>2, <2>3, <2>4, <2>5
<1>4. QED
  BY <1>2, <1>3

\* Where the wake functions find no waker, a thread that waits for one has been
\* popped, or is being enqueued.
LEMMA NoneQueued ==
  ASSUME QueueOK, NEW v \in Threads, waiter[v], ~has_woken[v], pc[v] \notin {"enqueue", "drop_waiter"},
         num_wakers = 0 \/ wakers = <<>>
  PROVE  \/ Popped(v)
         \/ /\ InQueue(v) /\ Len(wakers) = 1
            /\ \E x \in Threads : pc[x] = "enqueue_num"
<1>1. InQueue(v) \/ Popped(v)
  BY DEF QueueOK, QueueInv
<1>2. ASSUME InQueue(v) PROVE Len(wakers) = 1 /\ \E x \in Threads : pc[x] = "enqueue_num"
  <2>1. Len(wakers) \in Nat \ {0} /\ wakers # <<>>
    BY <1>2 DEF InQueue, QueueOK, QueueTypeOK
  <2>2. num_wakers = 0 /\ num_wakers # Len(wakers)
    BY <2>1
  <2>3. PICK x \in Threads : pc[x] = "enqueue_num" /\ num_wakers + 1 = Len(wakers)
    BY <2>1, <2>2 DEF QueueOK, QueueTypeOK, QueueInv, NumWakersIsLen
  <2>4. QED
    BY <2>2, <2>3
<1>3. QED
  BY <1>1, <1>2

-----------------------------------------------------------------------------
(* The mutex.                                                              *)

USE DEF Goto

\* A step of the mutex is a step of the queue or of one of its clients.
LEMMA MutexStepOnQueue ==
  ASSUME NEW t \in Threads, Lock(t) \/ TryLock(t) \/ MutexStep(t)
  PROVE  ClientStep(t) \/ QueueStep(t)
<1>1. CASE MutexQueue(t)
  BY <1>1 DEF MutexQueue
<1>2. CASE Lock(t) \/ TryLock(t) \/ LockCond(t) \/ Unlock(t)
  BY <1>2 DEF Lock, TryLock, LockCond, Unlock, StartCall, ClientStep
<1>3. QED
  BY <1>1, <1>2 DEF MutexStep

\* The queue's own invariant survives every step of the mutex.
LEMMA MutexQueueKept ==
  ASSUME MutexTypeOK, MutexInv, MutexNext
  PROVE  QueueTypeOK' /\ QueueInv'
<1>0. QueueOK
  BY DEF MutexTypeOK, MutexInv, QueueOK
<1>1. CASE MutexDone
  BY <1>0, <1>1 DEF MutexDone, mutexVars, wqVars, QueueOK, QueueTypeOK, QueueInv, NumWakersIsLen, WokenIsUnparked,
                    InQueue, Popped
<1>2. ASSUME NEW t \in Threads, Lock(t) \/ TryLock(t) \/ MutexStep(t)
      PROVE  QueueTypeOK' /\ QueueInv'
  <2>1. ClientStep(t) \/ QueueStep(t)
    BY <1>2, MutexStepOnQueue
  <2>2. QED
    BY <1>0, <2>1, QueueKept DEF QueueOK
<1>3. QED
  BY <1>1, <1>2 DEF MutexNext

\* The rest of the type invariant.
LEMMA MutexTypeKept ==
  ASSUME MutexTypeOK, MutexInv, MutexNext
  PROVE  MutexTypeOK'
<1>0. QueueTypeOK'
  BY MutexQueueKept
<1>1. CASE MutexDone
  BY <1>0, <1>1 DEF MutexTypeOK, MutexDone, mutexVars
<1>2. ASSUME NEW t \in Threads, Lock(t) \/ TryLock(t)
      PROVE  MutexTypeOK'
  <2>1. calls' \in 0..MaxCalls
    BY <1>2, MutexAssumption DEF MutexTypeOK, Lock, TryLock, StartCall
  <2>2. locked' \in BOOLEAN /\ owns' \in [Threads -> BOOLEAN]
    BY <1>2, Zenon DEF MutexTypeOK, Lock, TryLock, AcquireLock
  <2>3. pc' \in [Threads -> QueueSteps \cup {"run", "cond"}]
    BY <1>2 DEF MutexTypeOK, Lock, TryLock
  <2>4. QED
    BY <1>0, <2>1, <2>2, <2>3 DEF MutexTypeOK
<1>3. ASSUME NEW t \in Threads, LockCond(t) \/ Unlock(t)
      PROVE  MutexTypeOK'
  BY <1>0, <1>3, Zenon DEF MutexTypeOK, LockCond, Unlock, AcquireLock, CondSome, CondNone, CallWake, QueueSteps
<1>4. ASSUME NEW t \in Threads, MutexQueue(t)
      PROVE  MutexTypeOK'
  <2>1. pc' \in [Threads -> QueueSteps \cup {"run", "cond"}]
    <3>1. CASE WaitStep(t)
      BY <3>1 DEF MutexTypeOK, WaitStep, EnqueuePush, EnqueueNum, DoWait, ParkCurrent, DropWaiter, QueueSteps
    <3>2. CASE WakeStep(t)
      BY <3>2 DEF MutexTypeOK, WakeStep, IsEmpty, PopFront, WakeReturns, PopNum, WakeUpFalse, WakeUpTrue,
                  UnparkTarget, QueueSteps
    <3>3. QED
      BY <1>4, <3>1, <3>2 DEF MutexQueue, QueueStep
  <2>2. QED
    BY <1>0, <1>4, <2>1 DEF MutexTypeOK, MutexQueue
<1>5. QED
  BY <1>1, <1>2, <1>3, <1>4 DEF MutexNext, MutexStep

\* At most one guard; and a thread that drops its Waiter has got the lock.
LEMMA ExclusionKept ==
  ASSUME MutexTypeOK, MutexInv, MutexNext
  PROVE  MutualExclusion' /\ \A t \in Threads : pc'[t] = "drop_waiter" => owns'[t]
<1>1. CASE MutexDone
  BY <1>1 DEF MutexInv, MutualExclusion, MutexDone, mutexVars
<1>2. ASSUME NEW t \in Threads, Lock(t) \/ TryLock(t) \/ Unlock(t)
      PROVE  MutualExclusion' /\ \A u \in Threads : pc'[u] = "drop_waiter" => owns'[u]
  BY <1>2 DEF MutexTypeOK, MutexInv, MutualExclusion, Lock, TryLock, StartCall, AcquireLock, Unlock, CallWake
<1>3. ASSUME NEW t \in Threads, LockCond(t)
      PROVE  MutualExclusion' /\ \A u \in Threads : pc'[u] = "drop_waiter" => owns'[u]
  BY <1>3 DEF MutexTypeOK, MutexInv, MutualExclusion, LockCond, AcquireLock, CondSome, CondNone
<1>4. ASSUME NEW t \in Threads, MutexQueue(t)
      PROVE  MutualExclusion' /\ \A u \in Threads : pc'[u] = "drop_waiter" => owns'[u]
  <2>1. UNCHANGED <<locked, owns>>
    BY <1>4 DEF MutexQueue
  <2>2. \A u \in Threads : pc'[u] = "drop_waiter" => pc[u] = "drop_waiter"
    <3>1. CASE WaitStep(t)
      BY <3>1 DEF MutexTypeOK, WaitStep, EnqueuePush, EnqueueNum, DoWait, ParkCurrent, DropWaiter
    <3>2. CASE WakeStep(t)
      BY <3>2 DEF MutexTypeOK, WakeStep, IsEmpty, PopFront, WakeReturns, PopNum, WakeUpFalse, WakeUpTrue,
                  UnparkTarget
    <3>3. QED
      BY <1>4, <3>1, <3>2 DEF MutexQueue, QueueStep
  <2>3. QED
    BY <2>1, <2>2 DEF MutexInv, MutualExclusion
<1>5. QED
  BY <1>1, <1>2, <1>3, <1>4 DEF MutexNext, MutexStep

\* On its way to sleep with no wakeup.
Asleep(t) == pc[t] \in {"wait", "park", "parked"} /\ ~has_woken[t]

\* Nobody takes another thread's responsibility away.
LEMMA OthersStayResponsible ==
  ASSUME MutexTypeOK, MutexInv, NEW t \in Threads, MutexQueue(t), NEW u \in Threads, u # t, Responsible(u)
  PROVE  Responsible(u)'
<1>1. QueueOK
  BY DEF MutexTypeOK, MutexInv, QueueOK
<1>2. QED
  BY <1>1, OthersKept DEF MutexQueue, Responsible

\* Waking steps hand the responsibility on: to another thread, when they find the
\* queue empty, or to the thread they wake.
LEMMA WakeHandsOn ==
  ASSUME MutexTypeOK, MutexInv, NEW t \in Threads, MutexQueue(t), WakeStep(t), ~locked,
         NEW s \in Threads, Asleep(s)'
  PROVE  \E u \in Threads : Responsible(u)'
<1>1. Asleep(s)
  BY DEF MutexTypeOK, QueueTypeOK, MutexInv, QueueInv, WokenIsUnparked, Asleep, WakeStep, IsEmpty, PopFront,
         WakeReturns, PopNum, WakeUpFalse, WakeUpTrue, UnparkTarget, wqVars
<1>2. PICK r \in Threads : Responsible(r)
  BY <1>1 DEF MutexInv, Asleep
<1>3. CASE r # t
  BY <1>2, <1>3, OthersStayResponsible
<1>4. CASE r = t
  <2>1. CASE IsEmpty(t) \/ PopFront(t)
    <3>1. CASE pc'[t] = "run"
      <4>1. pc[t] \in {"wake", "pop"} /\ (num_wakers = 0 \/ wakers = <<>>)
        BY <2>1, <3>1 DEF MutexTypeOK, IsEmpty, PopFront
      <4>2. QueueOK /\ waiter[s] /\ ~has_woken[s] /\ pc[s] \notin {"enqueue", "drop_waiter"}
        BY <1>1 DEF MutexTypeOK, MutexInv, QueueInv, QueueOK, Asleep
      <4>3. Popped(s) \/ \E u \in Threads : pc[u] = "enqueue_num"
        BY <4>1, <4>2, NoneQueued
      <4>4. \E u \in Threads : u # t /\ Responsible(u)
        BY <4>1, <4>3 DEF Popped, Responsible
      <4>5. QED
        BY <4>4, OthersStayResponsible
    <3>2. CASE pc'[t] # "run"
      BY <2>1, <3>2 DEF MutexTypeOK, Responsible, IsEmpty, PopFront, WakeReturns
    <3>3. QED
      BY <3>1, <3>2
  <2>2. CASE PopNum(t) \/ WakeUpFalse(t)
    BY <2>2 DEF MutexTypeOK, Responsible, PopNum, WakeUpFalse
  <2>3. CASE WakeUpTrue(t)
    <3>1. PICK w \in Threads : waking[t] = w /\ has_woken' = [has_woken EXCEPT ![w] = TRUE]
      BY <2>3, Zenon DEF WakeUpTrue
    <3>2. waiter[w] /\ w # t
      BY <2>3, <3>1 DEF MutexInv, QueueInv, Popped, WakeUpTrue, WakeSteps
    <3>3. pc[w] # "drop_waiter"
      BY DEF MutexInv, MutualExclusion
    <3>4. pc[w] \in {"cond", "enqueue", "enqueue_num", "wait", "park", "parked"}
      BY <3>2, <3>3 DEF MutexTypeOK, MutexInv, QueueInv, QueueSteps, WakeSteps
    <3>5. pc'[w] = pc[w] /\ has_woken'[w]
      BY <2>3, <3>1, <3>2 DEF MutexTypeOK, QueueTypeOK, WakeUpTrue
    <3>6. QED
      BY <3>4, <3>5 DEF Responsible
  <2>4. CASE UnparkTarget(t)
    BY <1>2, <1>4, <2>4 DEF Responsible, UnparkTarget
  <2>5. QED
    BY <2>1, <2>2, <2>3, <2>4 DEF WakeStep
<1>5. QED
  BY <1>3, <1>4

\* Nobody goes to sleep on a free mutex unless someone else is responsible.
LEMMA ResponsibleKept ==
  ASSUME MutexTypeOK, MutexInv, MutexNext, NEW s \in Threads, Asleep(s)', ~locked'
  PROVE  \E u \in Threads : Responsible(u)'
<1>1. CASE MutexDone
  BY <1>1 DEF MutexInv, Asleep, Responsible, MutexDone, mutexVars, wqVars
<1>2. ASSUME NEW t \in Threads, Lock(t) \/ Unlock(t)
      PROVE  \E u \in Threads : Responsible(u)'
  BY <1>2 DEF MutexTypeOK, Responsible, Lock, Unlock, CallWake
<1>3. ASSUME NEW t \in Threads, TryLock(t) \/ LockCond(t)
      PROVE  \E u \in Threads : Responsible(u)'
  BY <1>3 DEF TryLock, LockCond, AcquireLock
<1>4. ASSUME NEW t \in Threads, MutexQueue(t), WakeStep(t)
      PROVE  \E u \in Threads : Responsible(u)'
  BY <1>4, WakeHandsOn DEF MutexQueue
<1>5. ASSUME NEW t \in Threads, MutexQueue(t), WaitStep(t)
      PROVE  \E u \in Threads : Responsible(u)'
  <2>1. CASE DropWaiter(t)
    BY <1>5, <2>1 DEF MutexInv, MutualExclusion, DropWaiter, MutexQueue
  <2>2. CASE EnqueuePush(t) \/ EnqueueNum(t)
    BY <2>2 DEF MutexTypeOK, Responsible, EnqueuePush, EnqueueNum
  <2>3. CASE DoWait(t) \/ ParkCurrent(t)
    <3>1. CASE has_woken[t]
      BY <2>3, <3>1 DEF MutexTypeOK, QueueTypeOK, Responsible, DoWait, ParkCurrent, wqVars
    <3>2. CASE ~has_woken[t]
      <4>1. Asleep(s)
        BY <2>3, <3>2 DEF MutexTypeOK, QueueTypeOK, Asleep, DoWait, ParkCurrent, wqVars
      <4>2. PICK r \in Threads : Responsible(r)
        BY <1>5, <4>1 DEF MutexInv, Asleep, MutexQueue
      <4>3. r # t
        BY <2>3, <3>2, <4>2 DEF Responsible, DoWait, ParkCurrent
      <4>4. QED
        BY <1>5, <4>2, <4>3, OthersStayResponsible
    <3>3. QED
      BY <3>1, <3>2
  <2>4. QED
    BY <1>5, <2>1, <2>2, <2>3 DEF WaitStep
<1>6. QED
  BY <1>1, <1>2, <1>3, <1>4, <1>5 DEF MutexNext, MutexStep, MutexQueue, QueueStep

\* The inductive invariant holds in every behaviour of the mutex.
THEOREM MutexInvHolds == MutexSpec => [](MutexTypeOK /\ MutexInv)
<1>1. MutexInit => MutexTypeOK /\ MutexInv
  <2> SUFFICES ASSUME MutexInit PROVE MutexTypeOK /\ MutexInv
    OBVIOUS
  <2>1. MutexTypeOK
    <3>1. <<>> \in Seq(Threads \cup {Closed}) /\ 0 \in 0..MaxCalls
      BY MutexAssumption
    <3>2. QED
      BY <3>1, Zenon DEF MutexInit, QueueInit, MutexTypeOK, QueueTypeOK
  <2>2. QueueInv
    BY WaitQueueAssumption DEF MutexInit, QueueInit, QueueInv, NumWakersIsLen, WokenIsUnparked, InQueue, Popped, WakeSteps
  <2>3. QED
    BY <2>1, <2>2 DEF MutexInit, MutexInv, MutualExclusion
<1>2. MutexTypeOK /\ MutexInv /\ [MutexNext]_mutexVars => MutexTypeOK' /\ MutexInv'
  <2>1. ASSUME MutexTypeOK, MutexInv, MutexNext PROVE MutexTypeOK' /\ MutexInv'
    <3>1. \A s \in Threads : Asleep(s)' /\ ~locked' => \E u \in Threads : Responsible(u)'
      BY <2>1, ResponsibleKept
    <3>2. QED
      BY <2>1, <3>1, MutexQueueKept, MutexTypeKept, ExclusionKept DEF MutexInv, Asleep
  <2>2. ASSUME MutexTypeOK, MutexInv, UNCHANGED mutexVars PROVE MutexTypeOK' /\ MutexInv'
    BY <2>2 DEF MutexTypeOK, QueueTypeOK, MutexInv, MutualExclusion, Responsible, QueueInv, NumWakersIsLen,
                WokenIsUnparked, InQueue, Popped, mutexVars, wqVars
  <2>3. QED
    BY <2>1, <2>2
<1>3. QED
  BY <1>1, <1>2, PTL DEF MutexSpec

\* Every variable of the mutex and of its queue keeps its type.
THEOREM MutexTyped == MutexSpec => []MutexTypeOK
BY MutexInvHolds, PTL

\* At most one thread owns a guard.
THEOREM MutexExcludes == MutexSpec => []MutualExclusion
<1>1. MutexInv => MutualExclusion
  BY DEF MutexInv
<1>2. QED
  BY <1>1, MutexInvHolds, PTL

\* A wakeup is never lost: nobody sleeps on a free mutex unattended.
THEOREM NoWakeupIsLost == MutexSpec => []NoSleeperOnFreeMutex
<1>1. MutexTypeOK /\ MutexInv => NoSleeperOnFreeMutex
  BY DEF MutexTypeOK, MutexInv, QueueInv, WokenIsUnparked, Responsible, NoSleeperOnFreeMutex
<1>2. QED
  BY <1>1, MutexInvHolds, PTL

\* num_wakers is an exact copy of the queue's length outside its spin lock.
THEOREM LengthIsExact == MutexSpec => []NumWakersIsLen
<1>1. MutexInv => NumWakersIsLen
  BY DEF MutexInv, QueueInv
<1>2. QED
  BY <1>1, MutexInvHolds, PTL

\* A woken task does not stay parked.
THEOREM WakeupIsDelivered == MutexSpec => []WokenIsUnparked
<1>1. MutexInv => WokenIsUnparked
  BY DEF MutexInv, QueueInv
<1>2. QED
  BY <1>1, MutexInvHolds, PTL

=============================================================================
