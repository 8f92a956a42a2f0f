------------------------------ MODULE RwMutex ------------------------------
(***************************************************************************)
(* The sleeping reader-writer lock of osxtd/src/sync/rwmutex.rs: the lock  *)
(* word of RwLock composed with the wait queue of WaitQueue.               *)
(***************************************************************************)
EXTENDS WaitQueue, RwLock

CONSTANTS Kinds,    \* the calls threads make: "read", "write", "upread" sleep,
                    \* "try_read", "try_write", "try_upread" return at once
          MaxOps    \* bound: the calls of all threads together

AllKinds == {"read", "write", "upread", "try_read", "try_write", "try_upread"}

Sleeping == {"read", "write", "upread"}

ASSUME RwMutexAssumption == Kinds \subseteq AllKinds /\ MaxOps \in Nat

VARIABLES op,   \* op[t]: the acquiring call t is in
          ops   \* the calls started so far

vars == <<pc, wqVars, rwVars, op, ops>>

TypeOK == /\ QueueTypeOK
          /\ LockTypeOK
          /\ pc \in [Threads -> QueueSteps \cup {"run", "cond", "undo"}]
          /\ op \in [Threads -> AllKinds \cup {"none"}]
          /\ ops \in 0..MaxOps

Init == /\ QueueInit
        /\ LockInit
        /\ pc = [t \in Threads |-> "run"]
        /\ op = [t \in Threads |-> "none"]
        /\ ops = 0

\* read, write, upread and their try_ forms.
Call(t, kind) == /\ pc[t] = "run"
                 /\ Idle(t, "none")
                 /\ ops < MaxOps
                 /\ ops' = ops + 1
                 /\ op' = [op EXCEPT ![t] = kind]
                 /\ Goto(t, "cond")
                 /\ UNCHANGED <<wqVars, rwVars>>

\* What follows an attempt that failed: wait_until's reaction to None, or the
\* return of None to the caller of the try_ form.
Failed(t) == \/ op[t] \in Sleeping /\ CondNone(t)
             \/ op[t] \notin Sleeping /\ Goto(t, "run") /\ UNCHANGED wqVars

\* One evaluation of the closure: the first instruction of the try_ function.
ReadCond(t) == /\ pc[t] = "cond"
               /\ op[t] \in {"read", "try_read"}
               /\ TryRead(t)
               /\ \/ Readable /\ CondSome(t)
                  \/ ~Readable /\ Goto(t, "undo") /\ UNCHANGED wqVars

WriteCond(t) == /\ pc[t] = "cond"
                /\ op[t] \in {"write", "try_write"}
                /\ \/ TryWrite(t) /\ CondSome(t)
                   \/ ~Writable /\ Failed(t) /\ UNCHANGED rwVars

UpreadCond(t) == /\ pc[t] = "cond"
                 /\ op[t] \in {"upread", "try_upread"}
                 /\ TryUpread(t)
                 /\ \/ ~lock.w /\ ~lock.u /\ CondSome(t)
                    \/ lock.w /\ ~lock.u /\ Goto(t, "undo") /\ UNCHANGED wqVars
                    \/ lock.u /\ Failed(t)

\* The undoing instruction wakes nobody.
Undo(t) == /\ pc[t] = "undo"
           /\ UndoRead(t) \/ UndoUpread(t)
           /\ Failed(t)

\* A mutant: the last reader wakes nobody.
ReadGuardDropNoWake(t) == pc[t] = "run" /\ DropRead(t) /\ UNCHANGED <<pc, wqVars>>

\* RwMutexReadGuard::drop wakes one sleeper when the word becomes 0.
ReadGuardDrop(t) == /\ pc[t] = "run"
                    /\ DropRead(t)
                    /\ \/ lock = [Bits(FALSE, FALSE, FALSE) EXCEPT !.readers = 1] /\ CallWake(t, "one")
                       \/ lock # [Bits(FALSE, FALSE, FALSE) EXCEPT !.readers = 1] /\ UNCHANGED <<pc, wqVars>>

\* A mutant: one sleeper is woken instead of all.
WriteGuardDropOne(t) == pc[t] = "run" /\ DropWrite(t) /\ CallWake(t, "one")

\* RwMutexWriteGuard::drop wakes all sleepers.
WriteGuardDrop(t) == pc[t] = "run" /\ DropWrite(t) /\ CallWake(t, "all")

\* RwMutexUpgradeableGuard::drop wakes all sleepers when the word becomes 0.
UpgradeableGuardDrop(t) ==
  /\ pc[t] = "run"
  /\ DropUpread(t)
  /\ \/ lock = Bits(FALSE, TRUE, FALSE) /\ CallWake(t, "all")
     \/ lock # Bits(FALSE, TRUE, FALSE) /\ UNCHANGED <<pc, wqVars>>

\* A call made while holding a guard, counted like the others.
Counted == ops < MaxOps /\ ops' = ops + 1

\* upgrade: the drop of the old guard finds WRITER set and wakes nobody.
UpgradeStep(t) == /\ pc[t] = "run"
                  /\ \/ Upgrade(t) /\ Counted
                     \/ (TryUpgrade(t) \/ UpgradeDrop(t)) /\ UNCHANGED ops
                  /\ UNCHANGED <<pc, wqVars>>

\* A mutant: downgrade stores the new word instead of exchanging it.
DowngradeStore(t) == /\ pc[t] = "run"
                     /\ \/ /\ Idle(t, "write")
                           /\ lock' = Bits(FALSE, TRUE, FALSE)
                           /\ SetGuard(t, "upread")
                           /\ SetStep(t, "downgrade_drop")
                           /\ Counted /\ UNCHANGED <<pc, wqVars>>
                        \/ DowngradeDrop(t) /\ CallWake(t, "all") /\ UNCHANGED ops

\* downgrade: dropping the write guard wakes all sleepers.
DowngradeStep(t) == /\ pc[t] = "run"
                    /\ \/ TryDowngrade(t) /\ Counted /\ UNCHANGED <<pc, wqVars>>
                       \/ DowngradeDrop(t) /\ CallWake(t, "all") /\ UNCHANGED ops

Queue(t) == QueueStep(t) /\ UNCHANGED rwVars

\* What a thread inside the lock's code, or holding a guard, goes on to do.
Step(t) == /\ \/ UpgradeStep(t) \/ DowngradeStep(t)
              \/ /\ \/ ReadCond(t) \/ WriteCond(t) \/ UpreadCond(t) \/ Undo(t)
                    \/ ReadGuardDrop(t) \/ WriteGuardDrop(t) \/ UpgradeableGuardDrop(t)
                    \/ Queue(t)
                 /\ UNCHANGED ops
           /\ op' = [op EXCEPT ![t] = IF pc'[t] = "run" THEN "none" ELSE @]

Done == /\ \A t \in Threads : pc[t] = "run" /\ Idle(t, "none")
        /\ ops = MaxOps
        /\ UNCHANGED vars

Next == (\E t \in Threads : Step(t) \/ \E kind \in Kinds : Call(t, kind)) \/ Done

Spec == Init /\ [][Next]_vars

\* A thread inside the lock's code keeps running, and a guard is given up some
\* day; nothing obliges a thread to make another call.
Fairness == \A t \in Threads : WF_vars(Step(t))

FairSpec == Spec /\ Fairness

-----------------------------------------------------------------------------
\* "The calling thread will sleep until there are no writers, upreaders, or
\* readers present": no sleeper is left behind on a free lock, unless some
\* other thread is still awake inside the lock or the wake code.
NoStrandedSleeper ==
  \A t \in Threads : pc[t] = "parked" /\ Writable
                       => \E u \in Threads : pc[u] \notin {"run", "parked"}

\* "Wakes up all waiting threads": wake_one and wake_all return.
WakeReturnsEventually == \A t \in Threads : pc[t] = "wake" ~> pc[t] \notin WakeSteps

\* Every sleeping call returns with its guard once competing calls are finitely
\* many and every call of wake_all returns.
CallReturns ==
  (\A t \in Threads : []<>(pc[t] \notin WakeSteps))
    => \A t \in Threads : pc[t] = "cond" /\ op[t] \in Sleeping ~> guard[t] # "none"

\* The sleeping lock changes the word only as the shared protocol allows, so
\* what is proved of RwLock holds of it.
ImplementsRwLock == LockSpec

=============================================================================
