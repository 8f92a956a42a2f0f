----------------------------- MODULE Scheduler -----------------------------
(***************************************************************************)
(* The task scheduler: the framework of osxtd/src/task (park, unpark, exit,*)
(* yield, preemption, context switch, halt), over the class scheduler of   *)
(* kernel/src/sched/sched_class with one run queue per CPU.                *)
(*                                                                         *)
(* pc[t] is where task t is in its own code; only the task a CPU is running*)
(* takes steps there.  enq[c] is the enqueue CPU c is executing, for its   *)
(* task or for an interrupt handler: while it lasts the task of c does not *)
(* move.  The critical sections of a run queue's spin lock, which disables *)
(* interrupts, are single steps.                                           *)
(***************************************************************************)
EXTENDS Naturals

CONSTANTS Tasks, Cpus, NoTask, NoCpu,
          Policy,     \* Policy[t]: the SchedPolicyKind, 0 (Stop) to 3 (Idle)
          Affinity,   \* Affinity[t]: the CPUs t may be placed on
          IdleTask,   \* IdleTask[c]: the idle thread of CPU c
          Sleepers,   \* bound: the tasks that use a Waiter
          Bsp         \* the CPU whose idle thread spawns the first task

IdleTasks == {IdleTask[c] : c \in Cpus}

ASSUME SchedulerAssumption ==
  /\ NoTask \notin Tasks
  /\ NoCpu \notin Cpus
  /\ Bsp \in Cpus
  /\ Sleepers \subseteq Tasks \ IdleTasks
  /\ Policy \in [Tasks -> 0..3]
  /\ Affinity \in [Tasks -> (SUBSET Cpus) \ {{}}]
  /\ IdleTask \in [Cpus -> Tasks]
  /\ \A c, d \in Cpus : c # d => IdleTask[c] # IdleTask[d]
  /\ \A t \in Tasks : Policy[t] = 3 <=> t \in IdleTasks
  /\ \A t, u \in Tasks : Policy[t] = 0 /\ Policy[u] = 0 => t = u

VARIABLES current,          \* current[c]: the current task of c's run queue
          queue,            \* queue[c][t]: how often t is in the queues of c
          cpu,              \* cpu[t]: the AtomicCpuId of t's TaskScheduleInfo
          last_cpu,         \* last_cpu[t]: the one of its SchedAttr
          need_preempt,     \* need_preempt[c]: bit 31 of PREEMPT_INFO, inverted
          ipi,              \* ipi[c]: an inter-processor call waits on c
          running,          \* running[c]: CURRENT_TASK_PTR
          previous,         \* previous[c]: PREVIOUS_TASK_PTR
          switched_to_cpu,  \* switched_to_cpu[t]
          pc,               \* pc[t]: where task t is
          call,             \* call[t]: the function that called reschedule
          waiter,           \* waiter[t]: t owns a Waiter
          has_woken,        \* has_woken[t]: the flag of its waker
          enq               \* enq[c]: the enqueue that c is executing

rqVars == <<current, queue, cpu, last_cpu>>
flagVars == <<need_preempt, ipi>>
switchVars == <<running, previous, switched_to_cpu>>
waitVars == <<waiter, has_woken>>
vars == <<rqVars, flagVars, switchVars, pc, call, waitVars, enq>>

Steps == {"unborn", "new", "run", "wait", "clear", "decide", "retry", "switch",
          "switched", "halt", "halted", "preempt_point", "panicked"}

NoEnqueue == [step |-> "none", task |-> NoTask, cpu |-> NoCpu, still |-> FALSE,
              spawn |-> FALSE]

Enqueues == [step : {"none", "claim", "lock", "flag"}, task : Tasks \cup {NoTask},
             cpu : Cpus \cup {NoCpu}, still : BOOLEAN, spawn : BOOLEAN]

\* The type invariant.
TypeOK == /\ current \in [Cpus -> Tasks \cup {NoTask}]
          /\ queue \in [Cpus -> [Tasks -> Nat]]
          /\ cpu \in [Tasks -> Cpus \cup {NoCpu}]
          /\ last_cpu \in [Tasks -> Cpus \cup {NoCpu}]
          /\ need_preempt \in [Cpus -> BOOLEAN]
          /\ ipi \in [Cpus -> BOOLEAN]
          /\ running \in [Cpus -> Tasks]
          /\ previous \in [Cpus -> Tasks \cup {NoTask}]
          /\ switched_to_cpu \in [Tasks -> BOOLEAN]
          /\ pc \in [Tasks -> Steps]
          /\ call \in [Tasks -> {"none", "preempt", "park", "yield", "exit"}]
          /\ waiter \in [Tasks -> BOOLEAN]
          /\ has_woken \in [Tasks -> BOOLEAN]
          /\ enq \in [Cpus -> Enqueues]

\* Every CPU has entered its idle thread and nothing else exists yet.
Init == /\ current = IdleTask
        /\ queue = [c \in Cpus |-> [t \in Tasks |-> 0]]
        /\ cpu = [t \in Tasks |-> IF t \in IdleTasks
                                    THEN CHOOSE c \in Cpus : IdleTask[c] = t ELSE NoCpu]
        /\ last_cpu = cpu
        /\ need_preempt = [c \in Cpus |-> FALSE]
        /\ ipi = [c \in Cpus |-> FALSE]
        /\ running = IdleTask
        /\ previous = [c \in Cpus |-> NoTask]
        /\ switched_to_cpu = [t \in Tasks |-> t \in IdleTasks]
        /\ pc = [t \in Tasks |-> IF t \in IdleTasks THEN "run" ELSE "unborn"]
        /\ call = [t \in Tasks |-> "none"]
        /\ waiter = [t \in Tasks |-> FALSE]
        /\ has_woken = [t \in Tasks |-> TRUE]
        /\ enq = [c \in Cpus |-> NoEnqueue]

-----------------------------------------------------------------------------
(* The run queue of a CPU.                                                 *)

Queued(c) == {t \in Tasks : queue[c][t] > 0}

Higher(c, k) == \E t \in Queued(c) : Policy[t] < k

Same(c, k) == \E t \in Queued(c) : Policy[t] = k

\* The Stop and Idle queues have one slot, which enqueue replaces.
EnqueueEntity(q, t) ==
  [u \in Tasks |-> CASE Policy[t] \in {0, 3} /\ Policy[u] = Policy[t]
                          -> IF u = t THEN 1 ELSE 0
                     [] OTHER -> IF u = t THEN q[u] + 1 ELSE q[u]]

\* What pick_next_entity may take: the queues are tried in the order of the
\* classes; the order within a class is left open.
PickNextEntity(c) == {t \in Queued(c) : \A u \in Queued(c) : Policy[t] <= Policy[u]}

\* The values update_current may return.  Within a class the answer depends on
\* time slices and virtual run times.
UpdateCurrent(c, flags) ==
  LET k == Policy[current[c]] IN
  CASE flags \in {"wait", "exit"} -> {Queued(c) # {}}
    [] flags \in {"tick", "yield"} /\ Higher(c, k) -> {TRUE}
    [] OTHER -> IF Same(c, k) THEN CASE k = 0 -> {FALSE}
                                     [] k = 3 -> {TRUE}
                                     [] OTHER -> BOOLEAN
                              ELSE {FALSE}

\* A mutant: the old current task is forgotten.
SupersedeDropping(c, next) ==
  /\ queue' = [queue EXCEPT ![c][next] = @ - 1]
  /\ current' = [current EXCEPT ![c] = next]

\* try_pick_next finds next: the old current task goes back to its queue.
Supersede(c, next) ==
  LET rest == [queue[c] EXCEPT ![next] = @ - 1]
  IN  /\ queue' = [queue EXCEPT ![c] = IF current[c] = NoTask THEN rest
                                         ELSE EnqueueEntity(rest, current[c])]
      /\ current' = [current EXCEPT ![c] = next]

-----------------------------------------------------------------------------
(* The steps of the task that CPU c is running.                            *)

\* A mutant: the CPU is halted before interrupts are enabled.
HaltedIrqsOff == {"unborn", "new", "switched", "halt", "halted", "panicked"}

IrqsOff == {"unborn", "new", "switched", "halt", "panicked"}

IrqEnabled(c) == pc[running[c]] \notin IrqsOff

\* The CPU executes its task: it is at step, and no enqueue is under way.
At(c, step) == enq[c].step = "none" /\ pc[running[c]] = step

Goto(c, step) == pc' = [pc EXCEPT ![running[c]] = step]

Reschedule(c, f) == /\ Goto(c, "clear")
                    /\ call' = [call EXCEPT ![running[c]] = f]

\* Where reschedule returns to.
Return(t) == CASE call[t] = "park" -> "wait"
               [] call[t] = "exit" -> "panicked"
               [] OTHER -> "run"

\* Waiter::new_pair; the wakers become reachable.
NewWaiter(c) ==
  /\ At(c, "run")
  /\ running[c] \in Sleepers
  /\ ~waiter[running[c]]
  /\ waiter' = [waiter EXCEPT ![running[c]] = TRUE]
  /\ has_woken' = [has_woken EXCEPT ![running[c]] = FALSE]
  /\ UNCHANGED <<rqVars, flagVars, switchVars, pc, call, enq>>

\* Drop of the Waiter: close the waker.
DropWaiter(c) ==
  /\ At(c, "run")
  /\ waiter[running[c]]
  /\ waiter' = [waiter EXCEPT ![running[c]] = FALSE]
  /\ has_woken' = [has_woken EXCEPT ![running[c]] = TRUE]
  /\ UNCHANGED <<rqVars, flagVars, switchVars, pc, call, enq>>

\* Waiter::wait.
Wait(c) ==
  /\ At(c, "run")
  /\ waiter[running[c]]
  /\ Goto(c, "wait")
  /\ UNCHANGED <<rqVars, flagVars, switchVars, call, waitVars, enq>>

\* One test of do_wait: has_woken.swap(false), and park_current when it was not set.
DoWait(c) ==
  /\ At(c, "wait")
  /\ IF has_woken[running[c]]
       THEN Goto(c, "run") /\ UNCHANGED call
       ELSE Reschedule(c, "park")
  /\ has_woken' = [has_woken EXCEPT ![running[c]] = FALSE]
  /\ UNCHANGED <<rqVars, flagVars, switchVars, waiter, enq>>

\* Task::yield_now.
YieldNow(c) ==
  /\ At(c, "run")
  /\ running[c] \notin IdleTasks
  /\ Reschedule(c, "yield")
  /\ UNCHANGED <<rqVars, flagVars, switchVars, waitVars, enq>>

\* The end of kernel_task_entry: the task function has returned.
ExitCurrent(c) ==
  /\ At(c, "run")
  /\ running[c] \notin IdleTasks
  /\ ~waiter[running[c]]
  /\ Reschedule(c, "exit")
  /\ UNCHANGED <<rqVars, flagVars, switchVars, waitVars, enq>>

\* A task on its way back to user mode calls might_preempt.
ReturnToUser(c) ==
  /\ At(c, "run")
  /\ running[c] \notin IdleTasks
  /\ need_preempt[c]
  /\ Reschedule(c, "preempt")
  /\ UNCHANGED <<rqVars, flagVars, switchVars, waitVars, enq>>

\* might_preempt at the end of halt_cpu and of run_new_task.
MightPreempt(c) ==
  /\ At(c, "preempt_point")
  /\ IF need_preempt[c] THEN Reschedule(c, "preempt")
                        ELSE Goto(c, "run") /\ UNCHANGED call
  /\ UNCHANGED <<rqVars, flagVars, switchVars, waitVars, enq>>

\* halt_cpu, called by the idle loops: with interrupts disabled, look at the flag ...
HaltCpu(c) ==
  /\ At(c, "run")
  /\ running[c] \in IdleTasks
  /\ Goto(c, IF need_preempt[c] THEN "preempt_point" ELSE "halt")
  /\ UNCHANGED <<rqVars, flagVars, switchVars, call, waitVars, enq>>

\* ... and enable interrupts and halt, in one instruction.
EnableLocalAndHalt(c) ==
  /\ At(c, "halt")
  /\ Goto(c, "halted")
  /\ UNCHANGED <<rqVars, flagVars, switchVars, call, waitVars, enq>>

\* reschedule clears the flag before it takes the lock of the run queue.
ClearNeedPreempt(c) ==
  /\ At(c, "clear")
  /\ need_preempt' = [need_preempt EXCEPT ![c] = FALSE]
  /\ Goto(c, "decide")
  /\ UNCHANGED <<rqVars, ipi, switchVars, call, waitVars, enq>>

Deciding(c, f) == At(c, "decide") /\ call[running[c]] = f

\* ReschedAction::DoNothing.
DoNothing(c) == /\ Goto(c, Return(running[c]))
                /\ call' = [call EXCEPT ![running[c]] = "none"]
                /\ UNCHANGED rqVars

\* ReschedAction::SwitchTo(next), next being the new current task of the queue.
SwitchTo(c, next) == /\ Supersede(c, next)
                     /\ Goto(c, "switch")
                     /\ UNCHANGED <<cpu, last_cpu, call>>

\* The closure of might_preempt: whatever try_pick_next finds.
DecidePreempt(c) ==
  /\ Deciding(c, "preempt")
  /\ IF Queued(c) = {} THEN DoNothing(c)
                       ELSE \E next \in PickNextEntity(c) : SwitchTo(c, next)
  /\ UNCHANGED <<flagVars, switchVars, waitVars, enq>>

\* The closure of yield_now; pick_next unwraps the result of try_pick_next.
DecideYield(c) ==
  /\ Deciding(c, "yield")
  /\ \E should_pick_next \in UpdateCurrent(c, "yield") :
       IF should_pick_next THEN \E next \in PickNextEntity(c) : SwitchTo(c, next)
                           ELSE DoNothing(c)
  /\ UNCHANGED <<flagVars, switchVars, waitVars, enq>>

\* update_current, dequeue_current, pick_next; with nothing to pick the loop of
\* reschedule goes on with try_pick_next ("retry").
DequeueAndPick(c) ==
  /\ cpu' = [cpu EXCEPT ![current[c]] = NoCpu]
  /\ \E next \in IF Queued(c) = {} THEN {NoTask} ELSE PickNextEntity(c) :
       /\ current' = [current EXCEPT ![c] = next]
       /\ queue' = IF next = NoTask THEN queue ELSE [queue EXCEPT ![c][next] = @ - 1]
       /\ Goto(c, IF next = NoTask THEN "retry" ELSE "switch")
  /\ UNCHANGED <<last_cpu, call>>

\* A mutant: park_current does not ask has_unparked under the lock.
DecideParkUnchecked(c) ==
  /\ Deciding(c, "park")
  /\ DequeueAndPick(c)
  /\ UNCHANGED <<flagVars, switchVars, waitVars, enq>>

\* The closure of park_current; has_unparked is read under the lock.
DecidePark(c) ==
  /\ Deciding(c, "park")
  /\ IF has_woken[running[c]] THEN DoNothing(c) ELSE DequeueAndPick(c)
  /\ UNCHANGED <<flagVars, switchVars, waitVars, enq>>

\* The closure of exit_current.
DecideExit(c) ==
  /\ Deciding(c, "exit")
  /\ DequeueAndPick(c)
  /\ UNCHANGED <<flagVars, switchVars, waitVars, enq>>

\* switch_to_task: interrupts go off, before_switching_to spins until it has
\* set switched_to_cpu, and the context is switched.
SwitchToTask(c) ==
  /\ At(c, "switch")
  /\ ~switched_to_cpu[current[c]]
  /\ switched_to_cpu' = [switched_to_cpu EXCEPT ![current[c]] = TRUE]
  /\ previous' = [previous EXCEPT ![c] = running[c]]
  /\ running' = [running EXCEPT ![c] = current[c]]
  /\ Goto(c, "switched")
  /\ UNCHANGED <<rqVars, flagVars, call, waitVars, enq>>

\* A mutant: the previous task is not released.
AfterSwitchingToKeeping(c) ==
  /\ At(c, "switched") \/ At(c, "new")
  /\ previous' = [previous EXCEPT ![c] = NoTask]
  /\ Goto(c, IF pc[running[c]] = "new" THEN "run" ELSE Return(running[c]))
  /\ call' = [call EXCEPT ![running[c]] = "none"]
  /\ UNCHANGED <<rqVars, flagVars, running, switched_to_cpu, waitVars, enq>>

\* after_switching_to, by the task switched to: it releases the previous task
\* and goes on where it had called reschedule; a new task enters its function.
AfterSwitchingTo(c) ==
  /\ At(c, "switched") \/ At(c, "new")
  /\ switched_to_cpu' = [switched_to_cpu EXCEPT ![previous[c]] = FALSE]
  /\ previous' = [previous EXCEPT ![c] = NoTask]
  /\ Goto(c, IF pc[running[c]] = "new" THEN "run" ELSE Return(running[c]))
  /\ call' = [call EXCEPT ![running[c]] = "none"]
  /\ UNCHANGED <<rqVars, flagVars, running, waitVars, enq>>

-----------------------------------------------------------------------------
(* Interrupts and enqueues.                                                *)

\* An interrupt arrives between two steps of the task and ends a halt.
Interrupt(c) == /\ enq[c].step = "none"
                /\ IrqEnabled(c)
                /\ Goto(c, IF pc[running[c]] = "halted" THEN "preempt_point" ELSE pc[running[c]])

\* The timer callback that enable_preemption_on_cpu registers.
Tick(c) ==
  /\ Interrupt(c)
  /\ \E should_pick_next \in IF current[c] = NoTask THEN {Queued(c) # {}}
                                                    ELSE UpdateCurrent(c, "tick") :
       need_preempt' = [need_preempt EXCEPT ![c] = @ \/ should_pick_next]
  /\ UNCHANGED <<rqVars, ipi, switchVars, call, waitVars, enq>>

\* do_inter_processor_call, with the calls set_need_preempt has queued.
DoInterProcessorCall(c) ==
  /\ ipi[c]
  /\ Interrupt(c)
  /\ ipi' = [ipi EXCEPT ![c] = FALSE]
  /\ need_preempt' = [need_preempt EXCEPT ![c] = TRUE]
  /\ UNCHANGED <<rqVars, switchVars, call, waitVars, enq>>

\* wake_up, by the task or an interrupt handler: has_woken.swap(true) returned
\* false, so unpark_target is called.
WakeUp(c, t) ==
  /\ Interrupt(c)
  /\ ~has_woken[t]
  /\ has_woken' = [has_woken EXCEPT ![t] = TRUE]
  /\ enq' = [enq EXCEPT ![c] = [NoEnqueue EXCEPT !.step = "claim", !.task = t]]
  /\ UNCHANGED <<rqVars, flagVars, switchVars, call, waiter>>

\* The running task calls run_new_task; of the idle threads only the boot CPU's does.
RunNewTask(c, t) ==
  /\ At(c, "run")
  /\ c = Bsp \/ running[c] \notin IdleTasks
  /\ pc[t] = "unborn"
  /\ pc' = [pc EXCEPT ![t] = "new"]
  /\ enq' = [enq EXCEPT ![c] = [NoEnqueue EXCEPT !.step = "claim", !.task = t,
                                                 !.spawn = TRUE]]
  /\ UNCHANGED <<rqVars, flagVars, switchVars, call, waitVars>>

\* select_cpu: the last CPU; for a new task the least loaded one of its affinity, any here.
SelectCpu(t) == IF last_cpu[t] = NoCpu THEN Affinity[t] ELSE {last_cpu[t]}

\* enqueue, before the lock: claim the task if its cpu is none.
EnqueueClaim(c) ==
  LET t == enq[c].task IN
  /\ enq[c].step = "claim"
  /\ \E selected \in SelectCpu(t) :
       IF cpu[t] = NoCpu
         THEN /\ cpu' = [cpu EXCEPT ![t] = selected]
              /\ enq' = [enq EXCEPT ![c].step = "lock", ![c].cpu = selected]
         ELSE /\ enq' = [enq EXCEPT ![c].step = "lock", ![c].cpu = cpu[t],
                                    ![c].still = TRUE]
              /\ UNCHANGED cpu
  /\ UNCHANGED <<current, queue, last_cpu, flagVars, switchVars, pc, call, waitVars>>

\* The enqueue is over; run_new_task goes on with might_preempt.
EndEnqueue(c) == /\ enq' = [enq EXCEPT ![c] = NoEnqueue]
                 /\ IF enq[c].spawn THEN Goto(c, "preempt_point") ELSE UNCHANGED pc

\* Whether the new task may preempt the current one: by policy, and within a
\* class by the priority or nice value, which is left open.
ShouldPreempt(t, cur) ==
  CASE cur = NoTask -> {TRUE}
    [] cur # NoTask /\ Policy[t] # Policy[cur] -> {Policy[t] < Policy[cur]}
    [] OTHER -> IF Policy[t] \in {1, 2} THEN BOOLEAN ELSE {FALSE}

\* enqueue, under the lock of rqs[cpu]: the task was still in a run queue and
\* is so at the second look.
EnqueueStillIn(c) ==
  /\ enq[c].step = "lock"
  /\ enq[c].still
  /\ cpu[enq[c].task] # NoCpu
  /\ EndEnqueue(c)
  /\ UNCHANGED <<rqVars, flagVars, switchVars, call, waitVars>>

\* A mutant: the task is pushed without a second look at its cpu.
EnqueuePushAnyway(c) ==
  LET t == enq[c].task
      target == enq[c].cpu
  IN
  /\ enq[c].step = "lock"
  /\ cpu' = [cpu EXCEPT ![t] = target]
  /\ last_cpu' = [last_cpu EXCEPT ![t] = target]
  /\ queue' = [queue EXCEPT ![target] = EnqueueEntity(@, t)]
  /\ enq' = [enq EXCEPT ![c] = NoEnqueue]
  /\ UNCHANGED <<current, flagVars, switchVars, pc, call, waitVars>>

\* Otherwise the task, now claimed, goes into the queue of its class.
EnqueuePush(c) ==
  LET t == enq[c].task
      target == enq[c].cpu
  IN
  /\ enq[c].step = "lock"
  /\ enq[c].still => cpu[t] = NoCpu
  /\ cpu' = [cpu EXCEPT ![t] = target]
  /\ last_cpu' = [last_cpu EXCEPT ![t] = target]
  /\ queue' = [queue EXCEPT ![target] = EnqueueEntity(@, t)]
  /\ \E should_preempt \in ShouldPreempt(t, current[target]) :
       IF should_preempt THEN enq' = [enq EXCEPT ![c].step = "flag"] /\ UNCHANGED pc
                         ELSE EndEnqueue(c)
  /\ UNCHANGED <<current, flagVars, switchVars, call, waitVars>>

\* set_need_preempt: the local flag, or an inter-processor call.
SetNeedPreempt(c) ==
  /\ enq[c].step = "flag"
  /\ IF enq[c].cpu = c
       THEN need_preempt' = [need_preempt EXCEPT ![c] = TRUE] /\ UNCHANGED ipi
       ELSE ipi' = [ipi EXCEPT ![enq[c].cpu] = TRUE] /\ UNCHANGED need_preempt
  /\ EndEnqueue(c)
  /\ UNCHANGED <<rqVars, switchVars, call, waitVars>>

-----------------------------------------------------------------------------
\* What a CPU does of itself, once its task or a handler has started something.
TaskStep(c) == \/ DoWait(c) \/ MightPreempt(c)
               \/ HaltCpu(c) \/ EnableLocalAndHalt(c)
               \/ ClearNeedPreempt(c)
               \/ DecidePreempt(c) \/ DecideYield(c) \/ DecidePark(c) \/ DecideExit(c)
               \/ SwitchToTask(c) \/ AfterSwitchingTo(c)

EnqueueStep(c) == \/ EnqueueClaim(c) \/ EnqueueStillIn(c) \/ EnqueuePush(c)
                  \/ SetNeedPreempt(c)

\* What the code of a task may choose to do.
TaskChoice(c) == \/ NewWaiter(c) \/ DropWaiter(c) \/ Wait(c)
                 \/ YieldNow(c) \/ ExitCurrent(c) \/ ReturnToUser(c)
                 \/ \E t \in Tasks : WakeUp(c, t) \/ RunNewTask(c, t)

\* exit_current has returned: unreachable!() stops the kernel.
Panicked == \E t \in Tasks : pc[t] = "panicked"

Next == /\ ~Panicked
        /\ \E c \in Cpus : \/ TaskStep(c) \/ EnqueueStep(c) \/ TaskChoice(c)
                           \/ Tick(c) \/ DoInterProcessorCall(c)

Spec == Init /\ [][Next]_vars

\* A CPU keeps executing; the timer and inter-processor interrupts, which the
\* interrupt controller holds while they are masked, are delivered some day.
FairSpec == /\ Spec
            /\ \A c \in Cpus : /\ SF_vars(~Panicked /\ TaskStep(c))
                               /\ WF_vars(~Panicked /\ EnqueueStep(c))
                               /\ SF_vars(~Panicked /\ Tick(c))
                               /\ SF_vars(~Panicked /\ DoInterProcessorCall(c))

-----------------------------------------------------------------------------
InRunQueue(t) == \E c \in Cpus : current[c] = t \/ queue[c][t] > 0

Claims(c, t) == enq[c].step = "lock" /\ enq[c].task = t /\ ~enq[c].still

\* try_pick_next relies on it ("a task can appear at once in a PerCpuClassRqSet")
\* and so do the two calls of set_if_is_none in enqueue: a task is in at most one
\* place of one run queue, the one its cpu names, and once claimed by an enqueue
\* that has not taken the lock yet it is in none and claimed by no other.
SingleResidence ==
  \A t \in Tasks :
    /\ \A c \in Cpus : /\ current[c] = t => cpu[t] = c /\ queue[c][t] = 0
                       /\ queue[c][t] > 0 => cpu[t] = c /\ queue[c][t] = 1
                       /\ Claims(c, t) => /\ cpu[t] = enq[c].cpu
                                          /\ ~InRunQueue(t)
                                          /\ \A d \in Cpus : Claims(d, t) => d = c
    /\ cpu[t] # NoCpu => InRunQueue(t) \/ \E c \in Cpus : Claims(c, t)

\* The race park_current's comment describes: a waiter that was woken and has
\* left the run queue is on its way back, whatever the order of the has_unparked
\* test, dequeue_current, the waker's swap and its enqueue.
NoLostWakeup ==
  \A t \in Tasks :
    waiter[t] /\ has_woken[t] /\ ~InRunQueue(t)
      => \E c \in Cpus : enq[c].task = t /\ enq[c].step \in {"claim", "lock"}

\* before_switching_to never finds the next task still on a CPU, although the
\* decision and the switch are not atomic: no CPU spins there with interrupts
\* disabled, no task runs on two CPUs.  And a task that parks or exits always
\* finds a successor: with an idle thread that never sleeps in every run queue
\* the retry loop of reschedule is not entered, and pick_next does not panic.
SwitchProceeds ==
  \A c \in Cpus :
    /\ pc[running[c]] # "retry"
    /\ pc[running[c]] = "switch" => /\ current[c] \in Tasks
                                    /\ ~switched_to_cpu[current[c]]
    /\ \A d \in Cpus : running[c] = running[d] => c = d

\* The refinement: the place of every task, and the CPU it keeps.
Place(t) == IF \E c \in Cpus : current[c] = t THEN "current"
            ELSE IF \E c \in Cpus : queue[c][t] > 0 THEN "ready"
            ELSE IF cpu[t] # NoCpu THEN "claimed" ELSE "absent"

TP == INSTANCE TaskPlaces WITH place <- [t \in Tasks |-> Place(t)], home <- last_cpu

\* The scheduler implements the task places.
ImplementsTaskPlaces == TP!PlacesSpec

\* An idle CPU takes up the work in its run queue: the flag, the interrupt that
\* ends the halt and the tick together never leave it halted over a ready task.
IdleGivesWay ==
  \A c \in Cpus : current[c] = IdleTask[c] /\ Queued(c) # {}
                    ~> current[c] # IdleTask[c] \/ Panicked
=============================================================================
