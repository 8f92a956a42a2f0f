--------------------------- MODULE RwMutexProofs ---------------------------
(***************************************************************************)
(* Proof that no thread is left asleep on a free RwMutex.                  *)
(***************************************************************************)
EXTENDS RwMutexInvariant

\* t is inside wake_all, which goes on until the queue is empty.
WakingAll(t) == pc[t] \in WakeSteps /\ wake_kind[t] = "all"

\* Somebody writes, or is turning an upgradeable guard into a write guard.
Writing == \E t \in Threads : guard[t] = "write" \/ step[t] = "upgrade"

\* Nobody holds a guard.
Free == \A t \in Threads : guard[t] = "none"

\* t sleeps, or is about to, and nobody has woken it.
Waits(t) == waiter[t] /\ ~has_woken[t] /\ pc[t] \in {"undo", "wait", "park", "parked"}

\* t is bound to try the lock again, or to wake somebody who will.
Attending(t) ==
  \/ pc[t] \in {"wake", "pop", "pop_num", "wake_up", "enqueue", "enqueue_num", "cond"}
  \/ WakingAll(t)
  \/ has_woken[t] /\ pc[t] \in {"undo", "wait", "park", "parked"}
  \/ pc[t] = "undo" /\ ~waiter[t]

\* A waiter that undoes a failed attempt, and so may have been the reason why another
\* one failed, failed itself because of a writer that will wake everybody, has been
\* taken off the queue to be woken, or can rely on a running wake_all.
UndoAttended ==
  \A t \in Threads : pc[t] = "undo" /\ waiter[t] /\ ~has_woken[t]
    => Writing \/ Popped(t) \/ \E u \in Threads : WakingAll(u)

\* What is inductive with RwMutexInv: while the lock is free and somebody waits, some
\* thread is attending.
SleepInv ==
  /\ \A t \in Threads : op[t] \in Kinds \cup {"none"} /\ (pc[t] = "undo" => op[t] \in Sleeping)
  /\ UndoAttended
  /\ Free /\ (\E t \in Threads : Waits(t)) => \E u \in Threads : Attending(u)

\* What the last argument needs: every failed attempt is retried by its thread,
\* and there are not so many threads that a read fails because of the limit.
Retrying == Kinds \cap {"try_read", "try_upread"} = {} /\ Cardinality(Threads) <= MaxReader

\* Nobody takes another thread's responsibility away.
LEMMA OthersStayAttending ==
  ASSUME RwMutexInv, NEW t \in Threads, ClientStep(t) \/ QueueStep(t), NEW u \in Threads, u # t, Attending(u)
  PROVE  Attending(u)'
BY QueueFacts, OthersKept DEF Attending, WakingAll, WakeSteps

\* A step on the word changes the guard and the progress of its own thread only.
LEMMA OthersOnWord ==
  ASSUME RwMutexInv, NEW t \in Threads, Step(t) \/ \E kind \in Kinds : Call(t, kind), NEW u \in Threads, u # t
  PROVE  guard'[u] = guard[u] /\ step'[u] = step[u]
<1>0. guard \in [Threads -> {"none", "read", "upread", "write"}] /\ step \in [Threads -> LockSteps]
  BY DEF RwMutexInv, TypeOK, LockTypeOK
<1>1. QED
  BY <1>0, StepOnWord, Zenon DEF TryRead, UndoRead, DropRead, TryWrite, DropWrite, TryUpread, UndoUpread,
     DropUpread, Upgrade, TryUpgrade, UpgradeDrop, TryDowngrade, DowngradeDrop, rwVars, SetGuard, SetStep

\* A free lock whose word is not 0 is being left by an attempt that undoes.
LEMMA FreeWord ==
  ASSUME RwMutexInv, Free
  PROVE  /\ ~lock.w /\ ~lock.bu
         /\ lock # Bits(FALSE, FALSE, FALSE) \/ lock.u \/ lock.readers # 0 => \E v \in Threads : pc[v] = "undo"
<1>1. WOwners = {} /\ Upgraders = {}
  BY DEF RwMutexInv, Free, WordAccounted, WOwners, Upgraders
<1>2. ~lock.w /\ ~lock.bu
  BY <1>1 DEF RwMutexInv, WordAccounted
<1>3. ASSUME \A v \in Threads : pc[v] # "undo"
      PROVE  lock = Bits(FALSE, FALSE, FALSE) /\ ~lock.u /\ lock.readers = 0
  <2>1. \A v \in Threads : step[v] \notin {"undo_read", "undo_upread", "upgrade_drop"}
    BY <1>3 DEF RwMutexInv, ProtocolInv, Free, WordAccounted
  <2>2. Readers = {} /\ UOwners = {}
    BY <2>1 DEF Free, Readers, UOwners
  <2>3. ~lock.u /\ lock.readers = 0
    BY <2>2, FS_EmptySet DEF RwMutexInv, WordAccounted
  <2>4. lock = [w |-> lock.w, u |-> lock.u, bu |-> lock.bu, readers |-> lock.readers]
        /\ lock.w \in BOOLEAN /\ lock.u \in BOOLEAN /\ lock.bu \in BOOLEAN
    BY DEF RwMutexInv, TypeOK, LockTypeOK, Word
  <2>5. lock.w = FALSE /\ lock.u = FALSE /\ lock.bu = FALSE
    BY <1>2, <2>3, <2>4
  <2>6. QED
    BY <2>3, <2>4, <2>5 DEF Bits
<1>4. QED
  BY <1>2, <1>3

\* While the lock is free, one that undoes is responsible or someone wakes it.
LEMMA FreeUndo ==
  ASSUME UndoAttended, WordAccounted, Free, NEW v \in Threads, pc[v] = "undo"
  PROVE  \E u \in Threads : Attending(u) /\ pc[u] \in WakeSteps \cup {"undo"}
<1>1. ~Writing
  BY DEF Writing, Free, WordAccounted
<1>2. QED
  BY <1>1 DEF UndoAttended, Attending, Popped, WakeSteps, WakingAll

\* So on a free lock whose word is not 0 someone is responsible.
LEMMA FreeAttended ==
  RwMutexInv /\ UndoAttended /\ Free /\ lock # Bits(FALSE, FALSE, FALSE) => \E u \in Threads : Attending(u)
BY FreeWord, FreeUndo DEF RwMutexInv

\* With so many readers allowed, a read fails only because of a writer or of an
\* upgrade.
LEMMA ReadFails ==
  ASSUME RwMutexInv, Retrying, NEW t \in Threads, Idle(t, "none"), ~Readable
  PROVE  lock.w \/ lock.bu
<1>1. t \notin Readers /\ Readers \subseteq Threads
  BY DEF Idle, Readers
<1>2. IsFiniteSet(Threads) /\ IsFiniteSet(Readers)
  BY <1>1, ThreadsAssumption, FS_Subset
<1>3. Readers \cup {t} \subseteq Threads /\ IsFiniteSet(Readers \cup {t})
      /\ Cardinality(Readers \cup {t}) = Cardinality(Readers) + 1
  BY <1>1, <1>2, FS_AddElement
<1>4. Cardinality(Readers) + 1 <= Cardinality(Threads)
  BY <1>2, <1>3, FS_Subset
<1>5. Cardinality(Readers) \in Nat /\ Cardinality(Threads) \in Nat
  BY <1>2, FS_CardinalityType
<1>6. lock.readers < MaxReader
  BY <1>4, <1>5, RwLockAssumption DEF Retrying, RwMutexInv, WordAccounted
<1>7. QED
  BY <1>6 DEF Readable

\* First part of SleepInv: the calls in progress are those that are made, and the
\* ones that undo will try again.
LEMMA CallsKept ==
  ASSUME RwMutexInv, SleepInv, Retrying, NEW t \in Threads, Step(t) \/ \E kind \in Kinds : Call(t, kind),
         NEW u \in Threads
  PROVE  op'[u] \in Kinds \cup {"none"} /\ (pc'[u] = "undo" => op'[u] \in Sleeping)
<1>0. /\ op \in [Threads -> AllKinds \cup {"none"}] /\ pc \in [Threads -> QueueSteps \cup {"run", "cond", "undo"}]
      /\ op[u] \in Kinds \cup {"none"} /\ (pc[u] = "undo" => op[u] \in Sleeping)
  BY DEF RwMutexInv, TypeOK, SleepInv
<1>1. op'[u] \in Kinds \cup {"none"}
  BY <1>0 DEF Step, Call
<1>2. ASSUME pc'[u] = "undo" PROVE op'[u] \in Sleeping
  <2>1. CASE u # t
    <3>1. pc[u] = "undo"
      BY <1>2, <2>1, StepIsQueueStep, QueueFacts, OthersKept
    <3>2. op'[u] = op[u]
      BY <1>0, <2>1 DEF Step, Call
    <3>3. QED
      BY <1>0, <3>1, <3>2
  <2>2. CASE u = t
    <3>1. pc[t] = "cond" /\ op[t] \in {"read", "upread"}
      <4>1. step'[t] \in {"undo_read", "undo_upread"}
        BY <1>2, <2>2, UndoAndDropKept
      <4>2. CASE ReadCond(t) \/ UpreadCond(t)
        BY <1>0, <2>2, <4>2 DEF ReadCond, UpreadCond, Retrying
      <4>3. CASE UpgradeStep(t) \/ DowngradeStep(t)
        BY <1>0, <1>2, <2>2, <4>3 DEF UpgradeStep, DowngradeStep, CallWake, Goto
      <4>4. CASE WriteCond(t) \/ Undo(t)
        <5>1. CASE Failed(t)
          BY <1>2, <2>2, <4>4, <5>1, AfterFailed DEF WriteCond, Undo
        <5>2. CASE CondSome(t)
          BY <1>0, <1>2, <2>2, <5>2 DEF CondSome, Goto
        <5>3. QED
          BY <4>4, <5>1, <5>2 DEF WriteCond, Undo
      <4>5. CASE ReadGuardDrop(t) \/ WriteGuardDrop(t) \/ UpgradeableGuardDrop(t)
        BY <1>0, <1>2, <2>2, <4>5, Zenon DEF ReadGuardDrop, WriteGuardDrop, UpgradeableGuardDrop, CallWake, Goto
      <4>6. CASE Queue(t)
        BY <1>0, <1>2, <2>2, <4>6 DEF Queue, QueueStep, WaitStep, EnqueuePush, EnqueueNum, DoWait, ParkCurrent,
           DropWaiter, WakeStep, IsEmpty, PopFront, WakeReturns, PopNum, WakeUpFalse, WakeUpTrue, UnparkTarget, Goto
      <4>7. CASE \E kind \in Kinds : Call(t, kind)
        BY <1>0, <1>2, <2>2, <4>7 DEF Call, Goto
      <4>8. QED
        BY <4>2, <4>3, <4>4, <4>5, <4>6, <4>7 DEF Step
    <3>2. op'[t] = op[t]
      <4>1. ~\E kind \in Kinds : Call(t, kind)
        BY <3>1 DEF Call
      <4>2. QED
        BY <1>0, <1>2, <2>2, <4>1 DEF Step
    <3>3. QED
      BY <2>2, <3>1, <3>2 DEF Sleeping
  <2>3. QED
    BY <2>1, <2>2
<1>3. QED
  BY <1>1, <1>2

\* wake_all returns only when no waker is queued but those being enqueued.
LEMMA WakingAllKept ==
  ASSUME RwMutexInv, NEW t \in Threads, ClientStep(t) \/ QueueStep(t), NEW u \in Threads, WakingAll(u),
         NEW v \in Threads, v # t, pc[v] = "undo", waiter[v], ~has_woken[v], ~has_woken'[v]
  PROVE  WakingAll(u)' \/ Popped(v)'
<1>0. /\ pc \in [Threads -> QueueSteps \cup {"run", "cond", "undo"}]
      /\ wake_kind \in [Threads -> {"one", "all"}]
  BY DEF RwMutexInv, TypeOK, QueueTypeOK
<1>1. CASE u # t
  BY <1>1, QueueFacts, OthersKept DEF WakingAll, WakeSteps
<1>2. ASSUME u = t, ~WakingAll(t)'
      PROVE  Popped(v)
  <2>1. /\ pc[t] = "wake" => num_wakers = 0
        /\ pc[t] = "pop" => wakers = <<>>
        /\ pc[t] \in {"wake", "pop"}
    <3>1. CASE ClientStep(t)
      BY <1>2, <3>1 DEF ClientStep, WakingAll, WakeSteps, wqVars
    <3>2. CASE WaitStep(t)
      BY <1>2, <3>2 DEF WaitStep, EnqueuePush, EnqueueNum, DoWait, ParkCurrent, DropWaiter, WakingAll, WakeSteps
    <3>3. CASE WakeStep(t)
      BY <1>0, <1>2, <3>3 DEF WakeStep, IsEmpty, PopFront, PopNum, WakeUpFalse, WakeUpTrue, UnparkTarget,
         WakingAll, WakeSteps, Goto, wqVars
    <3>4. QED
      BY <3>1, <3>2, <3>3 DEF QueueStep
  <2>2. ASSUME InQueue(v), Len(wakers) = 1, NEW x \in Threads, pc[x] = "enqueue_num" PROVE FALSE
    <3>1. wakers[1] = v
      BY <2>2 DEF InQueue
    <3>2. wakers[1] = x
      BY <2>2 DEF RwMutexInv, ProtocolInv, LastWaker
    <3>3. QED
      BY <2>2, <3>1, <3>2
  <2>3. QED
    BY <2>1, <2>2, QueueFacts, NoneQueued
<1>3. QED
  BY <1>1, <1>2, QueueFacts, PoppedKept

\* A writer that stops writing wakes everybody, unless an attempt to undo is in
\* its way.
LEMMA WritingKept ==
  ASSUME RwMutexInv, NEW t \in Threads, Step(t) \/ \E kind \in Kinds : Call(t, kind), Writing,
         NEW v \in Threads, pc[v] = "undo"
  PROVE  Writing' \/ \E u \in Threads : WakingAll(u)'
<1>0. /\ guard \in [Threads -> {"none", "read", "upread", "write"}] /\ step \in [Threads -> LockSteps]
      /\ pc \in [Threads -> QueueSteps \cup {"run", "cond", "undo"}] /\ wake_kind \in [Threads -> {"one", "all"}]
  BY DEF RwMutexInv, TypeOK, QueueTypeOK, LockTypeOK
<1>1. PICK u \in Threads : guard[u] = "write" \/ step[u] = "upgrade"
  BY DEF Writing
<1>2. CASE u # t
  BY <1>1, <1>2, OthersOnWord DEF Writing
<1>3. CASE u = t
  <2>0. \/ DropWrite(t) \/ TryDowngrade(t)
        \/ Upgrade(t) \/ TryUpgrade(t) \/ UpgradeDrop(t) \/ UNCHANGED rwVars
        \/ DowngradeDrop(t) \/ UndoRead(t) \/ UndoUpread(t)
        \/ TryRead(t) \/ DropRead(t) \/ TryWrite(t) \/ TryUpread(t) \/ DropUpread(t)
    BY StepOnWord, Zenon
  <2>1. CASE DropWrite(t)
    <3>1. WriteGuardDrop(t)
      <4>1. guard[t] = "write" /\ step[t] = "run" /\ guard'[t] = "none"
        BY <1>0, <2>1 DEF DropWrite, Idle, SetGuard
      <4>2. CASE UpgradeStep(t) \/ DowngradeStep(t)
        BY <1>0, <4>1, <4>2 DEF UpgradeStep, DowngradeStep, Upgrade, TryUpgrade, UpgradeDrop, TryDowngrade,
           DowngradeDrop, Idle, SetGuard
      <4>3. CASE ReadCond(t) \/ WriteCond(t) \/ UpreadCond(t) \/ Undo(t)
        BY <1>0, <4>1, <4>3 DEF ReadCond, WriteCond, UpreadCond, Undo, TryRead, TryWrite, TryUpread, UndoRead,
           UndoUpread, rwVars, Idle
      <4>4. CASE ReadGuardDrop(t) \/ UpgradeableGuardDrop(t)
        BY <1>0, <4>1, <4>4 DEF ReadGuardDrop, UpgradeableGuardDrop, DropRead, DropUpread, Idle
      <4>5. CASE Queue(t) \/ \E kind \in Kinds : Call(t, kind)
        BY <1>0, <4>1, <4>5 DEF Queue, Call, rwVars
      <4>6. QED
        BY <4>2, <4>3, <4>4, <4>5 DEF Step
    <3>2. pc'[t] = "wake" /\ wake_kind'[t] = "all"
      BY <1>0, <3>1 DEF WriteGuardDrop, CallWake, Goto
    <3>3. QED
      BY <3>2 DEF WakingAll, WakeSteps
  <2>2. CASE TryDowngrade(t)
    <3>1. lock.readers = 0 /\ ~lock.u
      BY <2>2 DEF TryDowngrade, Bits
    <3>2. v \in Readers \/ v \in UOwners
      BY DEF RwMutexInv, ProtocolInv, Readers, UOwners
    <3>3. QED
      BY <3>1, <3>2, ReadersCount DEF RwMutexInv, TypeOK, WordAccounted
  <2>3. CASE Upgrade(t) \/ TryUpgrade(t) \/ UpgradeDrop(t) \/ UNCHANGED rwVars
    <3>1. step[t] = "upgrade_drop" => guard[t] = "write"
      BY DEF RwMutexInv, WordAccounted
    <3>2. guard'[t] = "write" \/ step'[t] = "upgrade"
      BY <1>0, <1>1, <1>3, <2>3, <3>1 DEF Upgrade, TryUpgrade, UpgradeDrop, rwVars, SetGuard, SetStep
    <3>3. QED
      BY <3>2 DEF Writing
  <2>4. CASE DowngradeDrop(t) \/ UndoRead(t) \/ UndoUpread(t)
    BY <1>1, <1>3, <2>4 DEF DowngradeDrop, UndoRead, UndoUpread, RwMutexInv, WordAccounted
  <2>5. CASE TryRead(t) \/ DropRead(t) \/ TryWrite(t) \/ TryUpread(t) \/ DropUpread(t)
    BY <1>1, <1>3, <2>5 DEF TryRead, DropRead, TryWrite, TryUpread, DropUpread, Idle
  <2>6. QED
    BY <2>0, <2>1, <2>2, <2>3, <2>4, <2>5, Zenon
<1>4. QED
  BY <1>2, <1>3

\* Second part of SleepInv: a thread that undoes without a wakeup is attended to.
LEMMA UndoAttendedKept ==
  ASSUME RwMutexInv, SleepInv, Retrying, NEW t \in Threads, Step(t) \/ \E kind \in Kinds : Call(t, kind)
  PROVE  UndoAttended'
<1> SUFFICES ASSUME NEW v \in Threads, pc'[v] = "undo", waiter'[v], ~has_woken'[v]
             PROVE  Writing' \/ Popped(v)' \/ \E u \in Threads : WakingAll(u)'
  BY DEF UndoAttended
<1>0. ClientStep(t) \/ QueueStep(t)
  BY StepIsQueueStep
<1>1. CASE v = t
  <2>1. pc[t] = "cond" /\ ((TryRead(t) /\ ~Readable) \/ (TryUpread(t) /\ lock.w))
    <3>0. pc \in [Threads -> QueueSteps \cup {"run", "cond", "undo"}]
      BY DEF RwMutexInv, TypeOK
    <3>1. CASE ReadCond(t) \/ UpreadCond(t)
      <4>1. ~CondSome(t)
        BY <1>1, <3>0 DEF CondSome, Goto
      <4>2. pc[t] = "cond"
        BY <3>1 DEF ReadCond, UpreadCond
      <4>3. ~Failed(t)
        BY <1>1, <4>2, AfterFailed, Zenon
      <4>4. CASE ReadCond(t)
        BY <4>1, <4>2, <4>4 DEF ReadCond
      <4>5. CASE UpreadCond(t)
        BY <4>1, <4>2, <4>3, <4>5 DEF UpreadCond
      <4>6. QED
        BY <3>1, <4>4, <4>5
    <3>2. CASE UpgradeStep(t) \/ DowngradeStep(t)
      BY <1>1, <3>0, <3>2 DEF UpgradeStep, DowngradeStep, CallWake, Goto
    <3>3. CASE WriteCond(t) \/ Undo(t)
      <4>1. CASE Failed(t)
        BY <1>1, <3>3, <4>1, AfterFailed, Zenon DEF WriteCond, Undo
      <4>2. CASE CondSome(t)
        BY <1>1, <3>0, <4>2 DEF CondSome, Goto
      <4>3. QED
        BY <3>3, <4>1, <4>2 DEF WriteCond, Undo
    <3>4. CASE ReadGuardDrop(t) \/ WriteGuardDrop(t) \/ UpgradeableGuardDrop(t)
      BY <1>1, <3>0, <3>4, Zenon DEF ReadGuardDrop, WriteGuardDrop, UpgradeableGuardDrop, CallWake, Goto
    <3>5. CASE Queue(t) /\ WaitStep(t)
      BY <1>1, <3>0, <3>5 DEF WaitStep, EnqueuePush, EnqueueNum, DoWait, ParkCurrent, DropWaiter, Goto
    <3>6. CASE Queue(t) /\ WakeStep(t)
      BY <1>1, <3>0, <3>6 DEF WakeStep, IsEmpty, PopFront, WakeReturns, PopNum, WakeUpFalse, WakeUpTrue,
         UnparkTarget, Goto
    <3>7. CASE \E kind \in Kinds : Call(t, kind)
      BY <1>1, <3>0, <3>7 DEF Call, Goto
    <3>8. QED
      BY <3>1, <3>2, <3>3, <3>4, <3>5, <3>6, <3>7, Zenon DEF Step, Queue, QueueStep
  <2>2. Idle(t, "none")
    BY <2>1 DEF TryRead, TryUpread
  <2>3. lock.w \/ lock.bu
    BY <2>1, <2>2, ReadFails
  <2>4. PICK u \in Threads : guard[u] = "write" \/ step[u] = "upgrade"
    BY <2>3 DEF RwMutexInv, WordAccounted, WOwners, Upgraders
  <2>5. u # t
    BY <2>2, <2>4 DEF Idle
  <2>6. QED
    BY <2>4, <2>5, OthersOnWord DEF Writing
<1>2. CASE v # t
  <2>1. pc[v] = "undo" /\ waiter[v] /\ ~has_woken[v]
    BY <1>0, <1>2, QueueFacts, OthersKept
  <2>2. Writing \/ Popped(v) \/ \E u \in Threads : WakingAll(u)
    BY <2>1 DEF SleepInv, UndoAttended
  <2>3. QED
    BY <1>0, <1>2, <2>1, <2>2, WritingKept, QueueFacts, PoppedKept, WakingAllKept
<1>3. QED
  BY <1>1, <1>2

\* A woken thread of a free lock will look at the lock again.
LEMMA WakersHandOn ==
  ASSUME RwMutexInv, Free, NEW t \in Threads, WakeStep(t), Attending(t), NEW s \in Threads, Waits(s), Waits(s)'
  PROVE  \E u \in Threads : Attending(u)'
<1>0. /\ pc \in [Threads -> QueueSteps \cup {"run", "cond", "undo"}]
      /\ wake_kind \in [Threads -> {"one", "all"}] /\ has_woken \in [Threads -> BOOLEAN]
  BY DEF RwMutexInv, TypeOK, QueueTypeOK
<1>1. ASSUME pc'[t] = "run", pc[t] \in {"wake", "pop"} PROVE \E u \in Threads \ {t} : Attending(u)
  <2>1. num_wakers = 0 \/ wakers = <<>>
    BY <1>0, <1>1 DEF WakeStep, IsEmpty, PopFront, PopNum, WakeUpFalse, WakeUpTrue, UnparkTarget, Goto
  <2>2. Popped(s) \/ \E u \in Threads : pc[u] = "enqueue_num"
    BY <2>1, QueueFacts, NoneQueued DEF Waits
  <2>3. QED
    BY <1>1, <2>2 DEF Popped, Attending
<1>2. CASE IsEmpty(t) \/ PopFront(t)
  <2>1. CASE pc'[t] = "run"
    <3>1. PICK u \in Threads \ {t} : Attending(u)
      BY <1>1, <1>2, <2>1 DEF IsEmpty, PopFront
    <3>2. QED
      BY <3>1, OthersStayAttending DEF QueueStep
  <2>2. CASE pc'[t] # "run"
    BY <1>0, <1>2, <2>2 DEF Attending, IsEmpty, PopFront, WakeReturns, Goto
  <2>3. QED
    BY <2>1, <2>2
<1>3. CASE PopNum(t) \/ WakeUpFalse(t)
  BY <1>0, <1>3 DEF Attending, PopNum, WakeUpFalse, Goto
<1>4. CASE WakeUpTrue(t)
  <2>1. PICK w \in Threads : waking[t] = w /\ has_woken' = [has_woken EXCEPT ![w] = TRUE]
    BY <1>4, Zenon DEF WakeUpTrue
  <2>2. pc[t] = "wake_up" /\ pc' = [pc EXCEPT ![t] = "unpark"]
    BY <1>4 DEF WakeUpTrue, Goto
  <2>3. waiter[w] /\ w # t
    BY <2>1, <2>2 DEF RwMutexInv, ProtocolInv, QueueInv, Popped, WakeSteps
  <2>4. pc[w] # "drop_waiter"
    BY DEF RwMutexInv, ProtocolInv, Free
  <2>5. pc[w] \in {"cond", "undo", "enqueue", "enqueue_num", "wait", "park", "parked"}
    BY <1>0, <2>3, <2>4 DEF RwMutexInv, ProtocolInv, QueueInv, QueueSteps, WakeSteps
  <2>6. pc'[w] = pc[w] /\ has_woken'[w]
    BY <1>0, <2>1, <2>2, <2>3
  <2>7. QED
    BY <2>5, <2>6 DEF Attending
<1>5. CASE UnparkTarget(t)
  <2>1. wake_kind[t] = "all"
    BY <1>5 DEF UnparkTarget, Attending, WakingAll
  <2>2. pc'[t] = "pop"
    BY <1>5, <2>1 DEF UnparkTarget
  <2>3. QED
    BY <2>2 DEF Attending
<1>6. QED
  BY <1>2, <1>3, <1>4, <1>5 DEF WakeStep

\* Third part of SleepInv, for the steps of the queue.
LEMMA QueueHandsOn ==
  ASSUME RwMutexInv, SleepInv, Free, NEW t \in Threads, QueueStep(t), NEW s \in Threads, Waits(s)'
  PROVE  \E u \in Threads : Attending(u)'
<1>0. /\ pc \in [Threads -> QueueSteps \cup {"run", "cond", "undo"}]
      /\ waiter \in [Threads -> BOOLEAN] /\ has_woken \in [Threads -> BOOLEAN]
  BY DEF RwMutexInv, TypeOK, QueueTypeOK
<1>1. CASE EnqueuePush(t) \/ EnqueueNum(t)
  BY <1>0, <1>1 DEF Attending, EnqueuePush, EnqueueNum, Goto
<1>2. CASE DropWaiter(t)
  BY <1>2 DEF DropWaiter, RwMutexInv, ProtocolInv, Free
<1>3. CASE (DoWait(t) \/ ParkCurrent(t)) /\ has_woken[t]
  BY <1>0, <1>3 DEF Attending, DoWait, ParkCurrent, wqVars, Goto
<1>4. CASE (DoWait(t) \/ ParkCurrent(t)) /\ ~has_woken[t]
  <2>1. Waits(s)
    <3>1. CASE s = t
      BY <1>0, <1>4, <3>1 DEF Waits, DoWait, ParkCurrent, RwMutexInv, ProtocolInv, QueueInv
    <3>2. CASE s # t
      BY <3>2, QueueFacts, OthersKept DEF Waits
    <3>3. QED
      BY <3>1, <3>2
  <2>2. PICK r \in Threads : Attending(r)
    BY <2>1 DEF SleepInv
  <2>3. r # t
    BY <1>4, <2>2 DEF Attending, WakingAll, WakeSteps, DoWait, ParkCurrent
  <2>4. QED
    BY <2>2, <2>3, OthersStayAttending
<1>5. CASE WakeStep(t)
  <2>1. Waits(s)
    <3>1. CASE s = t
      <4>1. pc[t] \in WakeSteps /\ waiter'[t] = waiter[t]
        BY <1>5 DEF WakeStep, IsEmpty, PopFront, WakeReturns, PopNum, WakeUpFalse, WakeUpTrue, UnparkTarget,
           WakeSteps, wqVars
      <4>2. QED
        BY <3>1, <4>1 DEF Waits, RwMutexInv, ProtocolInv, QueueInv
    <3>2. CASE s # t
      BY <3>2, QueueFacts, OthersKept DEF Waits
    <3>3. QED
      BY <3>1, <3>2
  <2>2. PICK r \in Threads : Attending(r)
    BY <2>1 DEF SleepInv
  <2>3. QED
    BY <1>5, <2>1, <2>2, OthersStayAttending, WakersHandOn
<1>6. QED
  BY <1>1, <1>2, <1>3, <1>4, <1>5 DEF QueueStep, WaitStep

\* A failed attempt on a free lock leaves someone responsible.
LEMMA FailureAttended ==
  ASSUME RwMutexInv, SleepInv, Free, NEW t \in Threads, pc[t] = "cond", ClientStep(t),
         lock # Bits(FALSE, FALSE, FALSE) \/ lock.u
  PROVE  \E u \in Threads : Attending(u)'
<1>1. PICK v \in Threads : pc[v] = "undo"
  BY FreeWord, Zenon
<1>2. PICK u \in Threads : Attending(u) /\ pc[u] \in WakeSteps \cup {"undo"}
  BY <1>1, FreeUndo DEF RwMutexInv, SleepInv
<1>3. u # t
  BY <1>2 DEF WakeSteps
<1>4. QED
  BY <1>2, <1>3, OthersStayAttending

\* Third part of SleepInv, for the steps that do not free the lock.
LEMMA FreeHandsOn ==
  ASSUME RwMutexInv, SleepInv, Retrying, NEW t \in Threads, Step(t) \/ \E kind \in Kinds : Call(t, kind),
         Free, Free', NEW s \in Threads, Waits(s)'
  PROVE  \E u \in Threads : Attending(u)'
<1>0. /\ pc \in [Threads -> QueueSteps \cup {"run", "cond", "undo"}]
      /\ guard \in [Threads -> {"none", "read", "upread", "write"}]
      /\ guard[t] = "none" /\ guard'[t] = "none"
  BY DEF RwMutexInv, TypeOK, LockTypeOK, Free
<1>1. CASE \E kind \in Kinds : Call(t, kind)
  BY <1>0, <1>1 DEF Call, Goto, Attending
<1>2. CASE ReadCond(t)
  <2>1. Readable
    BY <1>2, FreeWord, ReadFails DEF ReadCond, TryRead
  <2>2. guard'[t] = "read"
    BY <1>0, <1>2, <2>1 DEF ReadCond, TryRead, SetGuard
  <2>3. QED
    BY <1>0, <2>2
<1>3. CASE WriteCond(t)
  <2>1. ~TryWrite(t)
    BY <1>0 DEF TryWrite, SetGuard
  <2>2. pc[t] = "cond" /\ ~Writable /\ ClientStep(t)
    BY <1>3, <2>1, FailedIsClientStep DEF WriteCond
  <2>3. QED
    BY <2>2, FailureAttended, Zenon DEF Writable
<1>4. CASE UpreadCond(t)
  <2>1. lock.u
    BY <1>0, <1>4, FreeWord DEF UpreadCond, TryUpread, SetGuard
  <2>2. pc[t] = "cond" /\ ClientStep(t)
    BY <1>4, <2>1, FailedIsClientStep DEF UpreadCond
  <2>3. QED
    BY <2>1, <2>2, FailureAttended
<1>5. CASE Undo(t)
  <2>1. pc[t] = "undo" /\ Failed(t) /\ op[t] \in Sleeping
    BY <1>5 DEF Undo, SleepInv
  <2>2. ClientStep(t) /\ pc'[t] = IF waiter[t] THEN "wait" ELSE "enqueue"
    BY <2>1, FailedIsClientStep, AfterFailed, Zenon
  <2>3. CASE ~waiter[t]
    BY <2>2, <2>3 DEF Attending
  <2>4. CASE waiter[t] /\ has_woken[t]
    <3>1. has_woken'[t]
      BY <2>1, <2>4, AfterFailed, Zenon
    <3>2. QED
      BY <2>2, <2>4, <3>1 DEF Attending
  <2>5. CASE waiter[t] /\ ~has_woken[t]
    <3>1. PICK u \in Threads : Attending(u) /\ u # t
      <4>1. ~Writing
        BY DEF Writing, Free, RwMutexInv, WordAccounted
      <4>2. QED
        BY <2>1, <2>5, <4>1 DEF SleepInv, UndoAttended, Popped, WakingAll, Attending, WakeSteps
    <3>2. QED
      BY <2>2, <3>1, OthersStayAttending
  <2>6. QED
    BY <2>3, <2>4, <2>5
<1>6. CASE ReadGuardDrop(t) \/ WriteGuardDrop(t) \/ UpgradeableGuardDrop(t)
  BY <1>0, <1>6 DEF ReadGuardDrop, WriteGuardDrop, UpgradeableGuardDrop, DropRead, DropWrite, DropUpread, Idle
<1>7. CASE UpgradeStep(t) \/ DowngradeStep(t)
  BY <1>0, <1>7 DEF UpgradeStep, DowngradeStep, Upgrade, TryUpgrade, UpgradeDrop, TryDowngrade, DowngradeDrop,
     Idle, RwMutexInv, WordAccounted
<1>8. CASE Queue(t)
  BY <1>8, QueueHandsOn DEF Queue
<1>9. QED
  BY <1>1, <1>2, <1>3, <1>4, <1>5, <1>6, <1>7, <1>8, Zenon DEF Step

\* Third part of SleepInv, for the step that frees the lock: its thread wakes, or
\* leaves a word that is not 0.
LEMMA FreeingHandsOn ==
  ASSUME RwMutexInv, RwMutexInv', UndoAttended', NEW t \in Threads, Step(t) \/ \E kind \in Kinds : Call(t, kind),
         ~Free, Free'
  PROVE  \E u \in Threads : Attending(u)'
<1>0. /\ pc \in [Threads -> QueueSteps \cup {"run", "cond", "undo"}]
      /\ guard \in [Threads -> {"none", "read", "upread", "write"}]
      /\ lock \in [w : BOOLEAN, u : BOOLEAN, bu : BOOLEAN, readers : Nat]
  BY DEF RwMutexInv, TypeOK, LockTypeOK, Word
<1>1. guard[t] # "none" /\ guard'[t] = "none"
  <2>1. PICK u \in Threads : guard[u] # "none"
    BY DEF Free
  <2>2. guard'[u] = "none"
    BY DEF Free
  <2>3. u = t
    BY <2>1, <2>2, OthersOnWord
  <2>4. QED
    BY <2>1, <2>2, <2>3
<1>2. (RwMutexInv /\ UndoAttended /\ Free /\ lock # Bits(FALSE, FALSE, FALSE) => \E u \in Threads : Attending(u))'
  BY FreeAttended, PTL
<1>3. CASE ReadGuardDrop(t) \/ WriteGuardDrop(t) \/ UpgradeableGuardDrop(t)
  <2>1. CASE pc'[t] = "wake"
    BY <2>1 DEF Attending
  <2>2. CASE pc'[t] # "wake"
    <3>0. \A kind \in {"one", "all"} : ~CallWake(t, kind)
      BY <1>0, <2>2 DEF CallWake, Goto
    <3>1. \/ DropRead(t) /\ lock # [Bits(FALSE, FALSE, FALSE) EXCEPT !.readers = 1]
          \/ DropUpread(t) /\ lock # Bits(FALSE, TRUE, FALSE)
      BY <1>3, <3>0, Zenon DEF ReadGuardDrop, WriteGuardDrop, UpgradeableGuardDrop
    <3>2. lock' # Bits(FALSE, FALSE, FALSE)
      <4>1. CASE DropRead(t) /\ lock # [Bits(FALSE, FALSE, FALSE) EXCEPT !.readers = 1]
        BY <1>0, <4>1 DEF DropRead, Bits
      <4>2. CASE DropUpread(t) /\ lock # Bits(FALSE, TRUE, FALSE)
        <5>1. lock.u
          BY <4>2 DEF DropUpread, Idle, RwMutexInv, WordAccounted, UOwners
        <5>2. QED
          BY <1>0, <4>2, <5>1 DEF DropUpread, Bits
      <4>3. QED
        BY <3>1, <4>1, <4>2, Zenon
    <3>3. QED
      BY <1>2, <3>2 DEF Bits
  <2>3. QED
    BY <2>1, <2>2
<1>4. CASE ~(ReadGuardDrop(t) \/ WriteGuardDrop(t) \/ UpgradeableGuardDrop(t))
  <2>1. CASE UpgradeStep(t) \/ DowngradeStep(t)
    BY <1>0, <1>1, <2>1 DEF UpgradeStep, DowngradeStep, Upgrade, TryUpgrade, UpgradeDrop, TryDowngrade,
       DowngradeDrop, SetGuard
  <2>2. CASE ReadCond(t) \/ WriteCond(t) \/ UpreadCond(t) \/ Undo(t)
    BY <1>0, <1>1, <2>2 DEF ReadCond, WriteCond, UpreadCond, Undo, TryRead, TryWrite, TryUpread, UndoRead,
       UndoUpread, SetGuard, rwVars
  <2>3. CASE Queue(t) \/ \E kind \in Kinds : Call(t, kind)
    BY <1>1, <2>3 DEF Queue, Call, rwVars
  <2>4. QED
    BY <1>4, <2>1, <2>2, <2>3 DEF Step
<1>5. QED
  BY <1>3, <1>4

\* The inductive invariant behind NoStrandedSleeper.
LEMMA SleepInvKept ==
  ASSUME RwMutexInv, SleepInv, Retrying, NEW t \in Threads, Step(t) \/ \E kind \in Kinds : Call(t, kind)
  PROVE  SleepInv'
<1>1. \A u \in Threads : op'[u] \in Kinds \cup {"none"} /\ (pc'[u] = "undo" => op'[u] \in Sleeping)
  BY CallsKept
<1>2. RwMutexInv' /\ UndoAttended'
  BY RwMutexInvKept, UndoAttendedKept
<1>3. ASSUME Free', NEW s \in Threads, Waits(s)' PROVE \E u \in Threads : Attending(u)'
  BY <1>2, <1>3, FreeHandsOn, FreeingHandsOn
<1>4. QED
  BY <1>1, <1>2, <1>3 DEF SleepInv

\* No sleeper is stranded on a free RwMutex, for any number of threads below the
\* reader limit, as long as every attempt that fails is retried by its thread.
THEOREM NoSleeperStranded ==
  ASSUME Retrying
  PROVE  Spec => []NoStrandedSleeper
<1>1. Init => SleepInv
  BY DEF Init, QueueInit, SleepInv, UndoAttended, Waits
<1>2. RwMutexInv /\ SleepInv /\ [Next]_vars => SleepInv'
  <2>1. ASSUME RwMutexInv, SleepInv, UNCHANGED vars PROVE SleepInv'
    BY <2>1 DEF SleepInv, UndoAttended, Free, Waits, Attending, WakingAll, Writing, Popped, vars, wqVars, rwVars
  <2>2. QED
    BY <2>1, SleepInvKept DEF Next, Done
<1>3. RwMutexInv /\ SleepInv => NoStrandedSleeper
  <2> SUFFICES ASSUME RwMutexInv, SleepInv, NEW t \in Threads, pc[t] = "parked", Writable
               PROVE  \E u \in Threads : pc[u] \notin {"run", "parked"}
    BY DEF NoStrandedSleeper
  <2>1. ~lock.w /\ ~lock.u /\ lock.readers = 0
    BY DEF Writable, Bits
  <2>2. Readers = {} /\ UOwners = {} /\ WOwners = {}
    BY <2>1, ReadersCount DEF RwMutexInv, TypeOK, WordAccounted
  <2>3. Free
    BY <2>2 DEF Free, RwMutexInv, TypeOK, LockTypeOK, Readers, UOwners, WOwners
  <2>4. CASE has_woken[t]
    BY <2>4 DEF RwMutexInv, ProtocolInv, QueueInv, WokenIsUnparked
  <2>5. CASE ~has_woken[t]
    <3>1. Waits(t)
      BY <2>5 DEF Waits, RwMutexInv, ProtocolInv, QueueInv
    <3>2. PICK u \in Threads : Attending(u)
      BY <2>3, <3>1 DEF SleepInv
    <3>3. CASE pc[u] \notin {"run", "parked"}
      BY <3>3
    <3>4. CASE pc[u] \in {"run", "parked"}
      <4>1. pc[u] = "parked" /\ has_woken[u]
        BY <3>2, <3>4 DEF Attending, WakingAll, WakeSteps
      <4>2. QED
        BY <4>1 DEF RwMutexInv, ProtocolInv, QueueInv, WokenIsUnparked
    <3>5. QED
      BY <3>3, <3>4
  <2>6. QED
    BY <2>4, <2>5
<1>4. QED
  BY <1>1, <1>2, <1>3, RwMutexInvHolds, PTL DEF Spec

=============================================================================
