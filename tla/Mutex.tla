------------------------------- MODULE Mutex -------------------------------
(***************************************************************************)
(* The sleeping mutex of osxtd/src/sync/mutex.rs on top of the wait queue. *)
(***************************************************************************)
EXTENDS WaitQueue

CONSTANT MaxCalls   \* bound: the lock and try_lock calls of all threads together

ASSUME MutexAssumption == MaxCalls \in Nat

VARIABLES locked,  \* the AtomicBool lock
          owns,    \* owns[t]: t owns a MutexGuard
          calls    \* the calls started so far

mutexVars == <<pc, wqVars, locked, owns, calls>>

MutexTypeOK == /\ QueueTypeOK
               /\ pc \in [Threads -> QueueSteps \cup {"run", "cond"}]
               /\ locked \in BOOLEAN
               /\ owns \in [Threads -> BOOLEAN]
               /\ calls \in 0..MaxCalls

MutexInit == /\ QueueInit
             /\ pc = [t \in Threads |-> "run"]
             /\ locked = FALSE
             /\ owns = [t \in Threads |-> FALSE]
             /\ calls = 0

StartCall(t) == /\ pc[t] = "run"
                /\ ~owns[t]
                /\ calls < MaxCalls
                /\ calls' = calls + 1

\* lock: enter wait_until.
Lock(t) == /\ StartCall(t)
           /\ Goto(t, "cond")
           /\ UNCHANGED <<wqVars, locked, owns>>

\* A mutant: a plain store instead of the compare_exchange.
AcquireLockAnyway(t) == /\ locked' = TRUE
                        /\ owns' = [owns EXCEPT ![t] = TRUE]

\* acquire_lock succeeds: the compare_exchange from false to true.
AcquireLock(t) == /\ ~locked
                  /\ locked' = TRUE
                  /\ owns' = [owns EXCEPT ![t] = TRUE]

\* One evaluation of the closure || self.try_lock() by wait_until.
LockCond(t) == /\ pc[t] = "cond"
               /\ \/ AcquireLock(t) /\ CondSome(t)
                  \/ locked /\ CondNone(t) /\ UNCHANGED <<locked, owns>>
               /\ UNCHANGED calls

\* try_lock called directly.
TryLock(t) == /\ StartCall(t)
              /\ \/ AcquireLock(t)
                 \/ locked /\ UNCHANGED <<locked, owns>>
              /\ UNCHANGED <<pc, wqVars>>

\* unlock, by MutexGuard::drop: release_lock, then wake_one.
Unlock(t) == /\ pc[t] = "run"
             /\ owns[t]
             /\ locked' = FALSE
             /\ owns' = [owns EXCEPT ![t] = FALSE]
             /\ CallWake(t, "one")
             /\ UNCHANGED calls

MutexQueue(t) == QueueStep(t) /\ UNCHANGED <<locked, owns, calls>>

MutexStep(t) == LockCond(t) \/ Unlock(t) \/ MutexQueue(t)

MutexDone == /\ \A t \in Threads : pc[t] = "run" /\ ~owns[t]
             /\ calls = MaxCalls
             /\ UNCHANGED mutexVars

MutexNext == (\E t \in Threads : Lock(t) \/ TryLock(t) \/ MutexStep(t)) \/ MutexDone

MutexSpec == MutexInit /\ [][MutexNext]_mutexVars

\* A thread inside the lock code keeps running, and drops its guard some day;
\* nothing obliges it to call lock again.
MutexFairness == \A t \in Threads : WF_mutexVars(MutexStep(t))

MutexFairSpec == MutexSpec /\ MutexFairness

-----------------------------------------------------------------------------
\* At most one MutexGuard exists, and while one does the word says locked.
MutualExclusion ==
  /\ \A t, u \in Threads : owns[t] /\ owns[u] => t = u
  /\ (\E t \in Threads : owns[t]) => locked

\* unlock releases before it wakes: nobody is asleep on a free mutex unless
\* some other thread is still awake inside the lock or the wake code.
NoSleeperOnFreeMutex ==
  \A t \in Threads : pc[t] = "parked" /\ ~locked
                       => \E u \in Threads : pc[u] \notin {"run", "parked"}

\* A thread that will still look at the lock or at the queue.
Responsible(t) == \/ pc[t] \in {"wake", "pop", "pop_num", "wake_up", "enqueue", "enqueue_num", "cond"}
                  \/ has_woken[t] /\ pc[t] \in {"wait", "park", "parked"}

\* The inductive invariant behind MutualExclusion and NoStrandedSleeper: while
\* the mutex is free, a thread on its way to sleep without a wakeup is never
\* the only one left; somebody else is responsible for it.
MutexInv ==
  /\ QueueInv
  /\ MutualExclusion
  /\ \A t \in Threads : pc[t] = "drop_waiter" => owns[t]
  /\ \A t \in Threads : pc[t] \in {"wait", "park", "parked"} /\ ~has_woken[t] /\ ~locked
                            => \E u \in Threads : Responsible(u)

\* Every lock call returns once the competing calls are finitely many.
LockReturns == \A t \in Threads : pc[t] = "cond" ~> owns[t]

=============================================================================
