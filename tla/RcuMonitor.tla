----------------------------- MODULE RcuMonitor -----------------------------
(***************************************************************************)
(* RCU slots (osxtd/src/sync/rcu/mod.rs), the monitor that ends grace      *)
(* periods (osxtd/src/sync/rcu/monitor.rs) and the quiescent states it     *)
(* hears of from switch_to_task (osxtd/src/task/processor.rs).             *)
(*                                                                         *)
(* The monitor's state is guarded by a spin lock, so one critical section  *)
(* is one step.  Between the steps tasks can be preempted and moved: an    *)
(* update that has swapped the slot, a task that has passed the lock-free  *)
(* test of finish_grace_period, and callbacks taken but not yet invoked    *)
(* wait in sets of their own, tied to no CPU.                              *)
(***************************************************************************)
EXTENDS Naturals, FiniteSets

CONSTANTS Cpus, Objects, Null

ASSUME RcuAssumption == IsFiniteSet(Cpus) /\ Null \notin Objects

VARIABLES ptr, reading, status,  \* as in Rcu
          unregistered,    \* objects swapped out of the slot by updates that
                           \* have not called after_grace_period yet
          is_monitoring,   \* the AtomicBool of the monitor
          is_complete, cpu_mask, callbacks,  \* current_gp; a callback is the
                                             \* object it drops
          next_callbacks,
          checked,         \* CPUs that passed the test of is_monitoring
          invoking         \* callbacks taken by finish_grace_period

slotVars == <<ptr, reading, status>>
monVars == <<is_monitoring, is_complete, cpu_mask, callbacks, next_callbacks>>
rcuVars == <<slotVars, monVars, unregistered, checked, invoking>>

RcuTypeOK == /\ ptr \in Objects \cup {Null}
             /\ reading \in [Cpus -> SUBSET Objects]
             /\ status \in [Objects -> {"free", "live", "retired"}]
             /\ unregistered \subseteq Objects
             /\ is_monitoring \in BOOLEAN
             /\ is_complete \in BOOLEAN
             /\ cpu_mask \subseteq Cpus
             /\ callbacks \subseteq Objects
             /\ next_callbacks \subseteq Objects
             /\ checked \subseteq Cpus
             /\ invoking \subseteq Objects

RcuInit == /\ ptr = Null
           /\ reading = [c \in Cpus |-> {}]
           /\ status = [o \in Objects |-> "free"]
           /\ unregistered = {}
           /\ is_monitoring = FALSE
           /\ is_complete = TRUE
           /\ cpu_mask = {}
           /\ callbacks = {}
           /\ next_callbacks = {}
           /\ checked = {}
           /\ invoking = {}

-----------------------------------------------------------------------------
\* read: preemption is off until every guard on the CPU is dropped.
Read(c) == /\ ptr # Null
           /\ reading' = [reading EXCEPT ![c] = @ \cup {ptr}]
           /\ UNCHANGED <<ptr, status, monVars, unregistered, checked, invoking>>

ReadEnd(c) == /\ reading[c] # {}
              /\ reading' = [reading EXCEPT ![c] = {}]
              /\ UNCHANGED <<ptr, status, monVars, unregistered, checked, invoking>>

\* A mutant: a null pointer is handed to delay_drop too.
SwapNullToo(new) == /\ new = Null \/ (new \in Objects /\ status[new] = "free")
                    /\ ptr' = new
                    /\ status' = [o \in Objects |-> CASE o = new -> "live"
                                                     [] o = ptr -> "retired"
                                                     [] OTHER -> status[o]]
                    /\ unregistered' = unregistered \cup {ptr}
                    /\ UNCHANGED <<reading, monVars, checked, invoking>>

\* The swap of the slot.
Swap(new) == /\ new = Null \/ (new \in Objects /\ status[new] = "free")
             /\ ptr' = new
             /\ status' = [o \in Objects |-> CASE o = new -> "live"
                                              [] o = ptr -> "retired"
                                              [] OTHER -> status[o]]
             /\ unregistered' = unregistered \cup ({ptr} \ {Null})
             /\ UNCHANGED <<reading, monVars, checked, invoking>>

\* RcuInner::update, by any task.
Update(new) == Swap(new)

\* compare_exchange succeeds: what the guard read is still in the slot.  When
\* it fails, the new object goes back to the caller and nothing has changed.
CompareExchange(c, new) == ptr \in reading[c] \cup {Null} /\ Swap(new)

\* RcuInner::drop: the object in the slot goes with it, with no grace period;
\* the guards borrow the slot, so none is left.
DropInner == /\ ptr # Null
             /\ \A c \in Cpus : ptr \notin reading[c]
             /\ ptr' = Null
             /\ status' = [status EXCEPT ![ptr] = "free"]
             /\ UNCHANGED <<reading, monVars, unregistered, checked, invoking>>

-----------------------------------------------------------------------------
\* A mutant: the mask of the last grace period is kept.
RestartKeepMask(cbs) == /\ is_complete' = FALSE
                        /\ cpu_mask' = cpu_mask
                        /\ callbacks' = cbs

\* GracePeriod::restart.
Restart(cbs) == /\ is_complete' = FALSE
                /\ cpu_mask' = {}
                /\ callbacks' = cbs

\* A mutant: the callback joins the grace period that is already running.
JoinRunning(o) ==
  /\ o \in unregistered
  /\ unregistered' = unregistered \ {o}
  /\ \/ /\ ~is_complete
        /\ callbacks' = callbacks \cup {o}
        /\ UNCHANGED <<is_monitoring, is_complete, cpu_mask, next_callbacks>>
     \/ /\ is_complete
        /\ Restart(next_callbacks \cup {o})
        /\ next_callbacks' = {}
        /\ is_monitoring' = TRUE
  /\ UNCHANGED <<slotVars, checked, invoking>>

\* A mutant: the monitor is not told that a grace period runs.
ForgetMonitoring(o) ==
  /\ o \in unregistered
  /\ unregistered' = unregistered \ {o}
  /\ \/ /\ ~is_complete
        /\ next_callbacks' = next_callbacks \cup {o}
        /\ UNCHANGED <<is_monitoring, is_complete, cpu_mask, callbacks>>
     \/ /\ is_complete
        /\ Restart(next_callbacks \cup {o})
        /\ next_callbacks' = {}
        /\ is_monitoring' = is_monitoring
  /\ UNCHANGED <<slotVars, checked, invoking>>

\* after_grace_period, called by delay_drop and RcuDrop::drop: the callback
\* joins the next grace period, which starts now if none is running.
AfterGracePeriod(o) ==
  /\ o \in unregistered
  /\ unregistered' = unregistered \ {o}
  /\ \/ /\ ~is_complete
        /\ next_callbacks' = next_callbacks \cup {o}
        /\ UNCHANGED <<is_monitoring, is_complete, cpu_mask, callbacks>>
     \/ /\ is_complete
        /\ Restart(next_callbacks \cup {o})
        /\ next_callbacks' = {}
        /\ is_monitoring' = TRUE
  /\ UNCHANGED <<slotVars, checked, invoking>>

\* switch_to_task calls finish_grace_period outside critical sections: first
\* the lock-free test ...
CheckMonitoring(c) ==
  /\ reading[c] = {}
  /\ is_monitoring
  /\ checked' = checked \cup {c}
  /\ UNCHANGED <<slotVars, monVars, unregistered, invoking>>

\* ... then, under the lock, the CPU passes its quiescent state; the last one
\* takes the callbacks and starts the next grace period if one is wanted.
FinishGracePeriod(c) ==
  LET mask == cpu_mask \cup {c}
  IN  /\ c \in checked
      /\ reading[c] = {}
      /\ checked' = checked \ {c}
      /\ \/ /\ is_complete
            /\ UNCHANGED <<monVars, invoking>>
         \/ /\ ~is_complete
            /\ mask # Cpus
            /\ cpu_mask' = mask
            /\ UNCHANGED <<is_monitoring, is_complete, callbacks, next_callbacks, invoking>>
         \/ /\ ~is_complete
            /\ mask = Cpus
            /\ invoking' = invoking \cup callbacks
            /\ next_callbacks' = {}
            /\ \/ /\ next_callbacks # {}
                  /\ Restart(next_callbacks)
                  /\ UNCHANGED is_monitoring
               \/ /\ next_callbacks = {}
                  /\ is_complete' = TRUE
                  /\ cpu_mask' = mask
                  /\ callbacks' = {}
                  /\ is_monitoring' = FALSE
      /\ UNCHANGED <<slotVars, unregistered>>

\* One callback runs, after the lock is released: the object is dropped.
Invoke(o) == /\ o \in invoking
             /\ invoking' = invoking \ {o}
             /\ status' = [status EXCEPT ![o] = "free"]
             /\ UNCHANGED <<ptr, reading, monVars, unregistered, checked>>

RcuNext == \/ \E c \in Cpus : \/ Read(c) \/ ReadEnd(c)
                              \/ CheckMonitoring(c) \/ FinishGracePeriod(c)
                              \/ \E new \in Objects \cup {Null} : CompareExchange(c, new)
           \/ \E new \in Objects \cup {Null} : Update(new)
           \/ DropInner
           \/ \E o \in Objects : AfterGracePeriod(o) \/ Invoke(o)

RcuSpec == RcuInit /\ [][RcuNext]_rcuVars

\* Critical sections end, updates go on to register their callback, callbacks
\* that were taken run, and a task that has passed the test of is_monitoring
\* gets back to its CPU between critical sections and takes the lock.
RcuFairness == /\ \A c \in Cpus : WF_rcuVars(ReadEnd(c)) /\ SF_rcuVars(FinishGracePeriod(c))
               /\ \A o \in Objects : WF_rcuVars(AfterGracePeriod(o)) /\ WF_rcuVars(Invoke(o))

RcuFairSpec == RcuSpec /\ RcuFairness

-----------------------------------------------------------------------------
\* The inductive invariant.  A retired object waits in exactly one place, and
\* an object in the slot in none; a CPU counted in the mask has left every
\* critical section that could hold an object of the running grace period;
\* an unfinished grace period is always announced to the CPUs.
GracePeriodInv ==
  /\ \A o \in Objects : status[o] = "live" <=> o = ptr
  /\ \A o \in Objects : status[o] = "retired"
       <=> o \in unregistered \cup next_callbacks \cup callbacks \cup invoking
  /\ unregistered \cap (next_callbacks \cup callbacks \cup invoking) = {}
  /\ next_callbacks \cap (callbacks \cup invoking) = {}
  /\ callbacks \cap invoking = {}
  /\ \A c \in Cpus : \A o \in reading[c] :
       /\ status[o] # "free"
       /\ o \notin invoking
       /\ o \in callbacks => c \notin cpu_mask
  /\ is_complete => callbacks = {} /\ next_callbacks = {}
  /\ is_monitoring <=> ~is_complete

\* "The pointer won't be used anymore since the grace period has finished":
\* no read-side critical section holds an object that a callback has dropped.
NoUseAfterDrop == \A c \in Cpus : \A o \in reading[c] : status[o] # "free"

\* The CPU calls switch_to_task again and again while a grace period runs.
\* Nothing in the code makes a CPU do so whose run queue holds only its idle
\* task, so this is a hypothesis of the next property and not in RcuFairness.
KeepsSwitching(c) == []<>(c \in checked \/ ~is_monitoring)

\* If every CPU keeps switching tasks, every object that an update removed is
\* dropped in the end, however updates, readers and grace periods overlap: no
\* callback is left behind in next_callbacks or in an unannounced grace period.
EventuallyDropped ==
  (\A c \in Cpus : KeepsSwitching(c))
    => \A o \in Objects : status[o] = "retired" ~> status[o] = "free"

\* Every step of the slot and the monitor is a step of the abstract RCU (or
\* none): the callbacks drop only retired objects that nobody is reading.
R == INSTANCE Rcu
ImplementsRcu == R!Spec

=============================================================================
