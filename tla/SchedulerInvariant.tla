------------------------ MODULE SchedulerInvariant -------------------------
(***************************************************************************)
(* The inductive invariant of the scheduler, for any number of CPUs and    *)
(* tasks: where a task may be (the run queues) depends on what the running *)
(* tasks are doing (the switches), and on which enqueues are under way.  It*)
(* holds initially, and these steps keep it: what a task does by itself,   *)
(* interrupts, and the decisions of reschedule.                            *)
(***************************************************************************)
EXTENDS Scheduler, TLAPS

Enqueueing(c, t) == enq[c].step \in {"claim", "lock"} /\ enq[c].task = t

\* Where a task is: at most one place, on the CPU both its cpu fields name.
ResidenceInv ==
  /\ \A c \in Cpus, t \in Tasks :
       /\ current[c] = t => cpu[t] = c /\ last_cpu[t] = c /\ queue[c][t] = 0
       /\ queue[c][t] > 0 => cpu[t] = c /\ last_cpu[t] = c /\ queue[c][t] = 1
       /\ Claims(c, t) => /\ cpu[t] = enq[c].cpu
                          /\ ~InRunQueue(t)
                          /\ \A d \in Cpus : Claims(d, t) => d = c
  /\ \A t \in Tasks : cpu[t] # NoCpu => InRunQueue(t) \/ \E c \in Cpus : Claims(c, t)

\* An enqueue goes to the CPU the task has been on; a task that was not yet in
\* a run queue has one enqueue, that of run_new_task.
EnqueueInv ==
  \A c \in Cpus :
    LET t == enq[c].task IN
    /\ enq[c].step # "none" => t \in Tasks \ IdleTasks /\ pc[t] # "unborn"
    /\ enq[c].step = "claim" => ~enq[c].still
    /\ enq[c].step \in {"lock", "flag"} => enq[c].cpu \in Cpus
    /\ enq[c].step = "lock" /\ last_cpu[t] # NoCpu => enq[c].cpu = last_cpu[t]
    /\ enq[c].step \in {"claim", "lock"} /\ last_cpu[t] = NoCpu =>
         /\ ~enq[c].still
         /\ enq[c].step = "claim" => cpu[t] = NoCpu
         /\ \A d \in Cpus : Enqueueing(d, t) => d = c
    /\ enq[c].step # "none" /\ enq[c].spawn => pc[running[c]] = "run"

\* What the CPUs execute: the current task, except between the decision to
\* switch and the switch.  The tasks a CPU runs and has just run belong to it.
RunInv ==
  /\ \A c \in Cpus :
       /\ current[c] \in Tasks
       /\ last_cpu[running[c]] = c
       /\ pc[running[c]] \notin {"unborn", "retry"}
       /\ pc[running[c]] = "switch" <=> current[c] # running[c]
       /\ previous[c] # NoTask <=> pc[running[c]] \in {"new", "switched"}
       /\ previous[c] # NoTask => last_cpu[previous[c]] = c /\ previous[c] # running[c]
  /\ \A t \in Tasks :
       /\ (\A c \in Cpus : running[c] # t) => pc[t] \in {"unborn", "new", "switched"}
       /\ switched_to_cpu[t] => \E c \in Cpus : running[c] = t \/ previous[c] = t

\* What tasks are doing: only a task with a Waiter parks, only one without exits,
\* an unborn task is nowhere, and the idle threads never leave their run queue.
TaskInv ==
  /\ \A t \in Tasks :
       /\ call[t] # "none" => pc[t] \in {"clear", "decide", "switch", "switched"}
       /\ call[t] = "exit" => ~waiter[t]
       /\ pc[t] = "wait" \/ call[t] = "park" => waiter[t]
       /\ ~has_woken[t] \/ waiter[t] => t \in Sleepers /\ last_cpu[t] # NoCpu
       /\ last_cpu[t] # NoCpu => pc[t] # "unborn"
       /\ pc[t] = "unborn" => cpu[t] = NoCpu
  /\ \A c \in Cpus : /\ cpu[IdleTask[c]] = c
                     /\ last_cpu[IdleTask[c]] = c
                     /\ call[IdleTask[c]] \in {"none", "preempt"}

\* The inductive invariant.
IInv == TypeOK /\ ResidenceInv /\ EnqueueInv /\ RunInv /\ TaskInv /\ NoLostWakeup

-----------------------------------------------------------------------------
\* The values that stand for no task and no CPU.
LEMMA NoneIsNone == NoTask \notin Tasks /\ NoCpu \notin Cpus
BY SchedulerAssumption

\* reschedule returns to a step of the caller.
LEMMA ReturnType ==
  ASSUME NEW t \in Tasks, TypeOK
  PROVE  Return(t) \in {"wait", "panicked", "run"}
BY DEF TypeOK, Return

\* A task that is in no queue gets a place; a task in the one slot of its class
\* is not pushed out.
LEMMA EnqueueEntityFits ==
  ASSUME NEW t \in Tasks, NEW q \in [Tasks -> Nat], q[t] = 0,
         \A u \in Tasks \ {t} : Policy[t] \in {0, 3} /\ Policy[u] = Policy[t] => q[u] = 0
  PROVE  EnqueueEntity(q, t) = [q EXCEPT ![t] = 1]
<1> DEFINE e == EnqueueEntity(q, t)
<1>1. CASE Policy[t] \in {0, 3}
  <2>1. \A u \in Tasks : e[u] = IF Policy[u] = Policy[t] THEN IF u = t THEN 1 ELSE 0
                               ELSE IF u = t THEN q[u] + 1 ELSE q[u]
    BY <1>1, Zenon DEF EnqueueEntity
  <2>2. \A u \in Tasks : e[u] = [q EXCEPT ![t] = 1][u]
    BY <1>1, <2>1, Zenon
  <2>3. QED
    BY <2>2, Zenon DEF EnqueueEntity
<1>2. CASE Policy[t] \notin {0, 3}
  <2>1. \A u \in Tasks : e[u] = IF u = t THEN q[u] + 1 ELSE q[u]
    BY <1>2, Zenon DEF EnqueueEntity
  <2>2. \A u \in Tasks : e[u] = [q EXCEPT ![t] = 1][u]
    <3>1. e[t] = 1 /\ \A u \in Tasks \ {t} : e[u] = q[u]
      BY <2>1
    <3>2. QED
      BY <3>1, Zenon
  <2>3. QED
    BY <2>2, Zenon DEF EnqueueEntity
<1>3. QED
  BY <1>1, <1>2

\* A CPU runs no task of another CPU.
LEMMA RunningUnique ==
  ASSUME RunInv, NEW c \in Cpus, NEW d \in Cpus, running[c] = running[d]
  PROVE  c = d
BY DEF RunInv

\* The invariant holds initially.
LEMMA InitIInv == Init => IInv
<1> USE SchedulerAssumption DEF Init
<1> SUFFICES ASSUME Init PROVE IInv
  OBVIOUS
<1>1. \A c \in Cpus : /\ cpu[IdleTask[c]] = c
                      /\ IdleTask[c] \in IdleTasks
  BY DEF IdleTasks
<1>2. TypeOK
  BY DEF TypeOK, Steps, Enqueues, NoEnqueue, IdleTasks
<1>3. ResidenceInv
  <2>1. \A c \in Cpus, t \in Tasks : ~Claims(c, t)
    BY Zenon DEF Claims, NoEnqueue
  <2>2. \A t \in IdleTasks : \E c \in Cpus : current[c] = t
    BY Zenon DEF IdleTasks
  <2>3. \A c \in Cpus, t \in Tasks : /\ current[c] = t => cpu[t] = c /\ last_cpu[t] = c
                                    /\ queue[c][t] = 0
    BY <1>1, Zenon
  <2>4. QED
    BY <2>1, <2>2, <2>3 DEF ResidenceInv, InRunQueue
<1>4. EnqueueInv
  BY DEF EnqueueInv, NoEnqueue
<1>5. RunInv
  <2>1. \A t \in IdleTasks : \E c \in Cpus : running[c] = t
    BY Zenon DEF IdleTasks
  <2>2. \A c \in Cpus : /\ pc[running[c]] = "run" /\ last_cpu[running[c]] = c
                       /\ previous[c] = NoTask /\ current[c] \in Tasks
    BY <1>1, Zenon
  <2>3. \A t \in Tasks : t \notin IdleTasks => pc[t] = "unborn" /\ ~switched_to_cpu[t]
    BY Zenon
  <2>4. current = running
    OBVIOUS
  <2>5. \A c \in Cpus : ~(previous[c] # NoTask) /\ ~(pc[running[c]] = "switch")
    BY <2>2, Zenon
  <2>6. \A t \in Tasks : switched_to_cpu[t] => t \in IdleTasks
    BY <2>3
  <2>7. \A t \in Tasks : (\A c \in Cpus : running[c] # t) => pc[t] = "unborn"
    BY <2>1, <2>3
  <2>8. \A t \in Tasks : switched_to_cpu[t] => \E c \in Cpus : running[c] = t
    BY <2>1, <2>6
  <2> HIDE DEF Init
  <2>9. QED
    BY <2>2, <2>4, <2>5, <2>7, <2>8 DEF RunInv
<1>6. TaskInv
  BY <1>1, Zenon DEF TaskInv, IdleTasks
<1>7. NoLostWakeup
  BY DEF NoLostWakeup
<1>8. QED
  BY <1>2, <1>3, <1>4, <1>5, <1>6, <1>7 DEF IInv

\* A step keeps what the invariant says of a task whose own state it does not
\* touch.
LEMMA TaskKept ==
  ASSUME TaskInv, NEW t \in Tasks, pc'[t] = pc[t], call'[t] = call[t], waiter'[t] = waiter[t],
         has_woken'[t] = has_woken[t], cpu'[t] = cpu[t], last_cpu'[t] = last_cpu[t]
  PROVE  TaskInv!1!(t)'
BY DEF TaskInv

\* The same for the idle thread of a CPU.
LEMMA IdleKept ==
  ASSUME TaskInv, NEW c \in Cpus, cpu'[IdleTask[c]] = cpu[IdleTask[c]],
         last_cpu'[IdleTask[c]] = last_cpu[IdleTask[c]], call'[IdleTask[c]] = call[IdleTask[c]]
  PROVE  TaskInv!2!(c)'
BY DEF TaskInv

\* A step keeps what the invariant says of the switch of a CPU whose current,
\* running and previous tasks it does not touch.
LEMMA RunKept ==
  ASSUME RunInv, NEW c \in Cpus, running'[c] = running[c], current'[c] = current[c],
         previous'[c] = previous[c], pc'[running[c]] = pc[running[c]], UNCHANGED last_cpu
  PROVE  RunInv!1!(c)'
BY DEF RunInv

\* A step that moves no enqueue keeps what the invariant says of that of a CPU,
\* unless it takes the task back to before its birth, moves the task that
\* enqueues, or claims a task that has not been in a run queue.
LEMMA EnqueueKept ==
  ASSUME EnqueueInv, NEW c \in Cpus, UNCHANGED <<enq, last_cpu>>,
         \A t \in Tasks : pc'[t] = "unborn" => pc[t] = "unborn",
         enq[c].step # "none" => pc'[running'[c]] = pc[running[c]],
         last_cpu[enq[c].task] = NoCpu => cpu'[enq[c].task] = cpu[enq[c].task]
  PROVE  EnqueueInv!(c)'
<1>1. EnqueueInv!(c)
  BY DEF EnqueueInv
<1>2. CASE enq[c].step = "none"
  BY <1>2
<1>3. CASE enq[c].step # "none"
  <2>1. enq'[c] = enq[c] /\ \A d \in Cpus : enq'[d] = enq[d]
    OBVIOUS
  <2>2. enq[c].task \in Tasks /\ pc'[enq[c].task] # "unborn"
    BY <1>1, <1>3
  <2>3. QED
    BY <1>1, <1>3, <2>1, <2>2 DEF Enqueueing
<1>4. QED
  BY <1>2, <1>3

\* A step that touches no run queue and no enqueue keeps every residence.
LEMMA ResidenceUnchanged ==
  ASSUME ResidenceInv, UNCHANGED <<current, queue, cpu, last_cpu, enq>>
  PROVE  ResidenceInv'
BY DEF ResidenceInv, Claims, InRunQueue

\* A step that touches no waiter, run queue or enqueue loses no wakeup.
LEMMA WaitersKept ==
  ASSUME NoLostWakeup, UNCHANGED <<waiter, has_woken, current, queue, enq>>
  PROVE  NoLostWakeup'
BY Zenon DEF NoLostWakeup, InRunQueue

\* The steps at which a task is on a CPU and that CPU is not switching.
Plain == Steps \ {"unborn", "new", "retry", "switch", "switched"}

\* A step that only moves the running task, from one plain step to another.
LEMMA PlainStep ==
  ASSUME IInv, NEW c \in Cpus, NEW p \in Steps,
         enq[c].step = "none",
         p = pc[running[c]] \/ {p, pc[running[c]]} \subseteq Plain,
         pc' = [pc EXCEPT ![running[c]] = p],
         UNCHANGED <<rqVars, switchVars, enq>>
  PROVE  /\ pc' \in [Tasks -> Steps]
         /\ ResidenceInv' /\ EnqueueInv' /\ RunInv'
<1> USE DEF IInv, rqVars, switchVars
<1>1. running[c] \in Tasks /\ pc \in [Tasks -> Steps]
  BY DEF TypeOK
<1>2. \A d \in Cpus : d # c => running[d] # running[c]
  BY RunningUnique
<1>3. ResidenceInv'
  BY DEF ResidenceInv, Claims, InRunQueue
<1>4. EnqueueInv'
  BY <1>1, <1>2 DEF EnqueueInv, Enqueueing, RunInv, TypeOK, Plain, Steps
<1>5. RunInv'
  BY <1>1, <1>2 DEF RunInv, TypeOK, Plain, Steps
<1>6. QED
  BY <1>1, <1>3, <1>4, <1>5

\* Task r, running on c, moves to step p; its caller of reschedule, its Waiter and
\* the flag of its waker become f, w and h.
Moves(c, r, p, f, w, h) ==
  /\ r = running[c] /\ enq[c].step = "none" /\ pc[r] \in Plain
  /\ pc' = [pc EXCEPT ![r] = p]
  /\ call' = [call EXCEPT ![r] = f]
  /\ waiter' = [waiter EXCEPT ![r] = w]
  /\ has_woken' = [has_woken EXCEPT ![r] = h]
  /\ need_preempt' \in [Cpus -> BOOLEAN]
  /\ UNCHANGED <<rqVars, ipi, switchVars, enq>>

\* The values a task may take on at a plain step.
Allowed(r, p, f, w, h) ==
  /\ p \in Plain /\ f \in {"none", "preempt", "park", "yield", "exit"}
  /\ w \in BOOLEAN /\ h \in BOOLEAN
  /\ f # "none" => p \in {"clear", "decide"}
  /\ f = "exit" => ~w
  /\ p = "wait" \/ f = "park" => w
  /\ ~h \/ w => r \in Sleepers
  /\ r \in IdleTasks => f \in {"none", "preempt"}

\* A step of the running task that touches neither the run queues nor a switch.
LEMMA OwnStep ==
  ASSUME IInv, NEW c \in Cpus, NEW r \in Tasks, NEW p, NEW f, NEW w, NEW h,
         Moves(c, r, p, f, w, h), Allowed(r, p, f, w, h)
  PROVE  IInv'
<1>1. TypeOK /\ RunInv /\ TaskInv /\ NoLostWakeup
  BY DEF IInv
<1>2. /\ pc \in [Tasks -> Steps]
      /\ call \in [Tasks -> {"none", "preempt", "park", "yield", "exit"}]
      /\ waiter \in [Tasks -> BOOLEAN] /\ has_woken \in [Tasks -> BOOLEAN]
  BY <1>1 DEF TypeOK
<1>3. /\ UNCHANGED <<current, queue, cpu, last_cpu>>
      /\ UNCHANGED <<running, previous, switched_to_cpu>>
      /\ UNCHANGED <<ipi, enq>>
  BY DEF Moves, rqVars, switchVars
<1>4. pc' \in [Tasks -> Steps] /\ ResidenceInv' /\ EnqueueInv' /\ RunInv'
  <2>1. p \in Steps /\ {p, pc[running[c]]} \subseteq Plain
    BY DEF Moves, Allowed, Plain
  <2>2. enq[c].step = "none" /\ pc' = [pc EXCEPT ![running[c]] = p]
    BY DEF Moves
  <2>3. UNCHANGED <<rqVars, switchVars, enq>>
    BY DEF Moves
  <2>4. QED
    BY <2>1, <2>2, <2>3, PlainStep, Zenon
<1>5. pc'[r] = p /\ \A t \in Tasks \ {r} : pc'[t] = pc[t]
  BY <1>2 DEF Moves
<1>6. call'[r] = f /\ \A t \in Tasks \ {r} : call'[t] = call[t]
  BY <1>2 DEF Moves
<1>7. waiter'[r] = w /\ \A t \in Tasks \ {r} : waiter'[t] = waiter[t]
  BY <1>2 DEF Moves
<1>8. has_woken'[r] = h /\ \A t \in Tasks \ {r} : has_woken'[t] = has_woken[t]
  BY <1>2 DEF Moves
<1>9. TypeOK'
  <2>1. call' \in [Tasks -> {"none", "preempt", "park", "yield", "exit"}]
    BY <1>2 DEF Moves, Allowed
  <2>2. waiter' \in [Tasks -> BOOLEAN] /\ has_woken' \in [Tasks -> BOOLEAN]
    BY <1>2 DEF Moves, Allowed
  <2>3. need_preempt' \in [Cpus -> BOOLEAN]
    BY DEF Moves
  <2>4. QED
    BY <1>1, <1>3, <1>4, <2>1, <2>2, <2>3 DEF TypeOK
<1>10. TaskInv'
  <2>1. ASSUME NEW t \in Tasks PROVE TaskInv!1!(t)'
    <3>1. TaskInv!1!(t)
      BY <1>1 DEF TaskInv
    <3>2. CASE t # r
      BY <1>3, <1>5, <1>6, <1>7, <1>8, <3>1, <3>2
    <3>3. CASE t = r
      <4>1. last_cpu[r] = c /\ pc[r] # "unborn" /\ p # "unborn"
        BY <1>1 DEF RunInv, Moves, Allowed, Plain
      <4>2. last_cpu'[r] # NoCpu
        BY <1>3, <4>1, SchedulerAssumption
      <4>3. QED
        BY <1>5, <1>6, <1>7, <1>8, <3>3, <4>1, <4>2 DEF Allowed
    <3>4. QED
      BY <3>2, <3>3
  <2>2. ASSUME NEW d \in Cpus PROVE TaskInv!2!(d)'
    <3>1. TaskInv!2!(d) /\ IdleTask[d] \in Tasks /\ IdleTask[d] \in IdleTasks
      BY <1>1, SchedulerAssumption DEF TaskInv, IdleTasks
    <3>2. PICK i \in Tasks : i = IdleTask[d]
      BY <3>1
    <3>3. call'[i] \in {"none", "preempt"}
      BY <1>6, <3>1, <3>2 DEF Allowed
    <3>4. QED
      BY <1>3, <3>1, <3>2, <3>3
  <2>3. QED
    BY <2>1, <2>2 DEF TaskInv
<1>11. NoLostWakeup'
  <2>1. current[c] = r
    BY <1>1 DEF RunInv, Moves, Plain
  <2>2. InRunQueue(r)' /\ \A t \in Tasks : InRunQueue(t) => InRunQueue(t)'
    BY <1>3, <2>1 DEF InRunQueue
  <2>3. QED
    BY <1>1, <1>3, <1>7, <1>8, <2>2 DEF NoLostWakeup
<1>12. QED
  BY <1>4, <1>9, <1>10, <1>11 DEF IInv

\* The steps of a task that do not touch the run queues.
LEMMA OwnSteps ==
  ASSUME IInv, NEW c \in Cpus,
         \/ NewWaiter(c) \/ DropWaiter(c) \/ Wait(c) \/ DoWait(c) \/ YieldNow(c)
         \/ ExitCurrent(c) \/ ReturnToUser(c) \/ MightPreempt(c) \/ HaltCpu(c)
         \/ EnableLocalAndHalt(c) \/ ClearNeedPreempt(c)
  PROVE  IInv'
<1>1. PICK r \in Tasks : r = running[c]
  BY DEF IInv, TypeOK
<1>2. /\ pc \in [Tasks -> Steps] /\ need_preempt \in [Cpus -> BOOLEAN]
      /\ waiter[r] \in BOOLEAN /\ has_woken[r] \in BOOLEAN
      /\ call[r] \in {"none", "preempt", "park", "yield", "exit"}
      /\ pc = [pc EXCEPT ![r] = pc[r]] /\ call = [call EXCEPT ![r] = call[r]]
      /\ waiter = [waiter EXCEPT ![r] = waiter[r]]
      /\ has_woken = [has_woken EXCEPT ![r] = has_woken[r]]
      /\ call[r] # "none" => pc[r] \in {"clear", "decide", "switch", "switched"}
      /\ call[r] = "exit" => ~waiter[r]
      /\ pc[r] = "wait" \/ call[r] = "park" => waiter[r]
      /\ ~has_woken[r] \/ waiter[r] => r \in Sleepers
      /\ r \in IdleTasks => call[r] \in {"none", "preempt"}
      /\ r \in Sleepers => r \notin IdleTasks
  <2>1. /\ pc \in [Tasks -> Steps] /\ need_preempt \in [Cpus -> BOOLEAN]
        /\ call \in [Tasks -> {"none", "preempt", "park", "yield", "exit"}]
        /\ waiter \in [Tasks -> BOOLEAN] /\ has_woken \in [Tasks -> BOOLEAN]
    BY ZenonT(30) DEF IInv, TypeOK
  <2>2. /\ call[r] # "none" => pc[r] \in {"clear", "decide", "switch", "switched"}
        /\ call[r] = "exit" => ~waiter[r]
        /\ pc[r] = "wait" \/ call[r] = "park" => waiter[r]
        /\ ~has_woken[r] \/ waiter[r] => r \in Sleepers
        /\ r \in IdleTasks => call[r] \in {"none", "preempt"}
    BY DEF IInv, TaskInv, IdleTasks
  <2>3. r \in Sleepers => r \notin IdleTasks
    BY SchedulerAssumption
  <2>4. QED
    BY <2>1, <2>2, <2>3
<1>3. /\ \A s : At(c, s) => enq[c].step = "none" /\ pc[r] = s
      /\ \A s : Goto(c, s) => pc' = [pc EXCEPT ![r] = s]
      /\ \A f : Reschedule(c, f) => pc' = [pc EXCEPT ![r] = "clear"] /\ call' = [call EXCEPT ![r] = f]
  BY <1>1 DEF At, Goto, Reschedule
<1>4. CASE NewWaiter(c)
  <2>1. Moves(c, r, "run", "none", TRUE, FALSE)
    BY <1>1, <1>2, <1>3, <1>4 DEF NewWaiter, Moves, Plain, Steps, flagVars, waitVars
  <2>2. Allowed(r, "run", "none", TRUE, FALSE)
    BY <1>1, <1>2, <1>3, <1>4 DEF NewWaiter, Allowed, Plain, Steps
  <2>3. QED
    BY <2>1, <2>2, OwnStep, Zenon
<1>5. CASE DropWaiter(c)
  <2>1. Moves(c, r, "run", "none", FALSE, TRUE)
    BY <1>1, <1>2, <1>3, <1>5 DEF DropWaiter, Moves, Plain, Steps, flagVars, waitVars
  <2>2. Allowed(r, "run", "none", FALSE, TRUE)
    BY <1>1, <1>2, <1>3, <1>5 DEF DropWaiter, Allowed, Plain, Steps
  <2>3. QED
    BY <2>1, <2>2, OwnStep, Zenon
<1>6. CASE Wait(c)
  <2>1. Moves(c, r, "wait", "none", TRUE, has_woken[r])
    BY <1>1, <1>2, <1>3, <1>6 DEF Wait, Moves, Plain, Steps, flagVars, waitVars
  <2>2. Allowed(r, "wait", "none", TRUE, has_woken[r])
    BY <1>1, <1>2, <1>3, <1>6 DEF Wait, Allowed, Plain, Steps
  <2>3. QED
    BY <2>1, <2>2, OwnStep, Zenon
<1>7. CASE DoWait(c)
  <2>1. CASE has_woken[r]
    <3>1. Moves(c, r, "run", "none", TRUE, FALSE)
      BY <1>1, <1>2, <1>3, <1>7, <2>1 DEF DoWait, Moves, Plain, Steps, flagVars, waitVars
    <3>2. Allowed(r, "run", "none", TRUE, FALSE)
      BY <1>1, <1>2, <1>3, <1>7, <2>1, Zenon DEF DoWait, Allowed, Plain, Steps
    <3>3. QED
      BY <3>1, <3>2, OwnStep, Zenon
  <2>2. CASE ~has_woken[r]
    <3>1. Moves(c, r, "clear", "park", TRUE, FALSE)
      BY <1>1, <1>2, <1>3, <1>7, <2>2 DEF DoWait, Moves, Plain, Steps, flagVars, waitVars
    <3>2. Allowed(r, "clear", "park", TRUE, FALSE)
      BY <1>1, <1>2, <1>3, <1>7, <2>2 DEF DoWait, Allowed, Plain, Steps
    <3>3. QED
      BY <3>1, <3>2, OwnStep, Zenon
  <2>3. QED
    BY <2>1, <2>2
<1>8. CASE YieldNow(c)
  <2>1. Moves(c, r, "clear", "yield", waiter[r], has_woken[r])
    BY <1>1, <1>2, <1>3, <1>8 DEF YieldNow, Moves, Plain, Steps, flagVars, waitVars
  <2>2. Allowed(r, "clear", "yield", waiter[r], has_woken[r])
    BY <1>1, <1>2, <1>3, <1>8 DEF YieldNow, Allowed, Plain, Steps
  <2>3. QED
    BY <2>1, <2>2, OwnStep, Zenon
<1>9. CASE ExitCurrent(c)
  <2>1. Moves(c, r, "clear", "exit", FALSE, has_woken[r])
    BY <1>1, <1>2, <1>3, <1>9 DEF ExitCurrent, Moves, Plain, Steps, flagVars, waitVars
  <2>2. Allowed(r, "clear", "exit", FALSE, has_woken[r])
    BY <1>1, <1>2, <1>3, <1>9 DEF ExitCurrent, Allowed, Plain, Steps
  <2>3. QED
    BY <2>1, <2>2, OwnStep, Zenon
<1>10. CASE ReturnToUser(c)
  <2>1. Moves(c, r, "clear", "preempt", waiter[r], has_woken[r])
    BY <1>1, <1>2, <1>3, <1>10 DEF ReturnToUser, Moves, Plain, Steps, flagVars, waitVars
  <2>2. Allowed(r, "clear", "preempt", waiter[r], has_woken[r])
    BY <1>1, <1>2, <1>3, <1>10 DEF ReturnToUser, Allowed, Plain, Steps
  <2>3. QED
    BY <2>1, <2>2, OwnStep, Zenon
<1>11. CASE MightPreempt(c)
  <2>1. CASE need_preempt[c]
    <3>1. Moves(c, r, "clear", "preempt", waiter[r], has_woken[r])
      BY <1>1, <1>2, <1>3, <1>11, <2>1 DEF MightPreempt, Moves, Plain, Steps, flagVars, waitVars
    <3>2. Allowed(r, "clear", "preempt", waiter[r], has_woken[r])
      BY <1>1, <1>2, <1>3, <1>11, <2>1 DEF MightPreempt, Allowed, Plain, Steps
    <3>3. QED
      BY <3>1, <3>2, OwnStep, Zenon
  <2>2. CASE ~need_preempt[c]
    <3>1. Moves(c, r, "run", "none", waiter[r], has_woken[r])
      BY <1>1, <1>2, <1>3, <1>11, <2>2 DEF MightPreempt, Moves, Plain, Steps, flagVars, waitVars
    <3>2. Allowed(r, "run", "none", waiter[r], has_woken[r])
      BY <1>1, <1>2, <1>3, <1>11, <2>2 DEF MightPreempt, Allowed, Plain, Steps
    <3>3. QED
      BY <3>1, <3>2, OwnStep, Zenon
  <2>3. QED
    BY <2>1, <2>2
<1>12. CASE HaltCpu(c)
  <2>1. CASE need_preempt[c]
    <3>1. Moves(c, r, "preempt_point", "none", waiter[r], has_woken[r])
      BY <1>1, <1>2, <1>3, <1>12, <2>1 DEF HaltCpu, Moves, Plain, Steps, flagVars, waitVars
    <3>2. Allowed(r, "preempt_point", "none", waiter[r], has_woken[r])
      BY <1>1, <1>2, <1>3, <1>12, <2>1 DEF HaltCpu, Allowed, Plain, Steps
    <3>3. QED
      BY <3>1, <3>2, OwnStep, Zenon
  <2>2. CASE ~need_preempt[c]
    <3>1. Moves(c, r, "halt", "none", waiter[r], has_woken[r])
      BY <1>1, <1>2, <1>3, <1>12, <2>2 DEF HaltCpu, Moves, Plain, Steps, flagVars, waitVars
    <3>2. Allowed(r, "halt", "none", waiter[r], has_woken[r])
      BY <1>1, <1>2, <1>3, <1>12, <2>2, Zenon DEF HaltCpu, Allowed, Plain, Steps
    <3>3. QED
      BY <3>1, <3>2, OwnStep, Zenon
  <2>3. QED
    BY <2>1, <2>2
<1>13. CASE EnableLocalAndHalt(c)
  <2>1. Moves(c, r, "halted", "none", waiter[r], has_woken[r])
    BY <1>1, <1>2, <1>3, <1>13 DEF EnableLocalAndHalt, Moves, Plain, Steps, flagVars, waitVars
  <2>2. Allowed(r, "halted", "none", waiter[r], has_woken[r])
    BY <1>1, <1>2, <1>3, <1>13 DEF EnableLocalAndHalt, Allowed, Plain, Steps
  <2>3. QED
    BY <2>1, <2>2, OwnStep, Zenon
<1>14. CASE ClearNeedPreempt(c)
  <2>1. Moves(c, r, "decide", call[r], waiter[r], has_woken[r])
    BY <1>1, <1>2, <1>3, <1>14 DEF ClearNeedPreempt, Moves, Plain, Steps, flagVars, waitVars
  <2>2. Allowed(r, "decide", call[r], waiter[r], has_woken[r])
    BY <1>1, <1>2, <1>3, <1>14 DEF ClearNeedPreempt, Allowed, Plain, Steps
  <2>3. QED
    BY <2>1, <2>2, OwnStep, Zenon
<1>15. QED
  BY <1>4, <1>5, <1>6, <1>7, <1>8, <1>9, <1>10, <1>11, <1>12, <1>13, <1>14

\* The answers of update_current.
LEMMA UpdateCurrentType ==
  ASSUME NEW c \in Cpus, NEW f PROVE UpdateCurrent(c, f) \subseteq BOOLEAN
BY Zenon DEF UpdateCurrent

\* An interrupt moves the task only out of a halt.
LEMMA InterruptMoves ==
  ASSUME IInv, NEW c \in Cpus, Interrupt(c)
  PROVE  /\ enq[c].step = "none"
         /\ \E p \in Steps : /\ p = pc[running[c]] \/ {p, pc[running[c]]} \subseteq Plain
                             /\ pc' = [pc EXCEPT ![running[c]] = p]
         /\ \A t \in Tasks : \/ pc'[t] = pc[t]
                             \/ pc[t] = "halted" /\ pc'[t] = "preempt_point"
<1>1. pc \in [Tasks -> Steps] /\ running[c] \in Tasks
  BY DEF IInv, TypeOK
<1>2. CASE pc[running[c]] = "halted"
  <2>1. enq[c].step = "none" /\ pc' = [pc EXCEPT ![running[c]] = "preempt_point"]
    BY <1>2, ZenonT(30) DEF Interrupt, Goto
  <2>2. "preempt_point" \in Steps /\ {"preempt_point", pc[running[c]]} \subseteq Plain
    BY <1>2 DEF Plain, Steps
  <2>3. \A t \in Tasks : \/ pc'[t] = pc[t]
                         \/ pc[t] = "halted" /\ pc'[t] = "preempt_point"
    BY <1>1, <1>2, <2>1
  <2>4. \E p \in Steps : /\ {p, pc[running[c]]} \subseteq Plain
                         /\ pc' = [pc EXCEPT ![running[c]] = p]
    BY <2>1, <2>2, Zenon
  <2>5. QED
    BY <2>1, <2>3, <2>4, Zenon
<1>3. CASE pc[running[c]] # "halted"
  <2>1. enq[c].step = "none" /\ pc' = [pc EXCEPT ![running[c]] = pc[running[c]]]
    BY <1>3 DEF Interrupt, Goto
  <2>2. pc' = pc
    BY <1>1, <2>1
  <2>3. \E p \in Steps : p = pc[running[c]] /\ pc' = [pc EXCEPT ![running[c]] = p]
    BY <1>1, <2>1, Zenon
  <2>4. QED
    BY <2>1, <2>2, <2>3, Zenon
<1>4. QED
  BY <1>2, <1>3

\* Interrupts that enqueue nothing.
LEMMA InterruptSteps ==
  ASSUME IInv, NEW c \in Cpus, Tick(c) \/ DoInterProcessorCall(c)
  PROVE  IInv'
<1> USE DEF IInv
<1>1. Interrupt(c) /\ UNCHANGED <<rqVars, switchVars, call, waitVars, enq>>
  BY DEF Tick, DoInterProcessorCall
<1>2. PICK p \in Steps : /\ enq[c].step = "none"
                         /\ p = pc[running[c]] \/ {p, pc[running[c]]} \subseteq Plain
                         /\ pc' = [pc EXCEPT ![running[c]] = p]
                         /\ \A t \in Tasks : \/ pc'[t] = pc[t]
                                             \/ pc[t] = "halted" /\ pc'[t] = "preempt_point"
  BY <1>1, InterruptMoves
<1>3. pc' \in [Tasks -> Steps] /\ ResidenceInv' /\ EnqueueInv' /\ RunInv'
  BY <1>1, <1>2, PlainStep, Zenon
<1>4. need_preempt' \in [Cpus -> BOOLEAN] /\ ipi' \in [Cpus -> BOOLEAN]
  <2>1. CASE Tick(c)
    <3>1. PICK b \in BOOLEAN : need_preempt' = [need_preempt EXCEPT ![c] = @ \/ b]
      BY <2>1, UpdateCurrentType, Zenon DEF Tick
    <3>2. QED
      BY <2>1, <3>1 DEF Tick, TypeOK
  <2>2. CASE DoInterProcessorCall(c)
    BY <2>2 DEF DoInterProcessorCall, TypeOK
  <2>3. QED
    BY <2>1, <2>2
<1>5. TypeOK'
  BY <1>1, <1>3, <1>4 DEF TypeOK, rqVars, switchVars, waitVars
<1>6. TaskInv'
  BY <1>1, <1>2, SMTT(30) DEF TypeOK, TaskInv, rqVars, waitVars
<1>7. NoLostWakeup'
  BY <1>1 DEF NoLostWakeup, InRunQueue, rqVars, waitVars
<1>8. QED
  BY <1>3, <1>5, <1>6, <1>7

-----------------------------------------------------------------------------
(* The decisions of reschedule leave the run queue alone or replace its    *)
(* current task by one of its queues.                                      *)

\* What a CPU that decides about its current task finds: it runs that task, and
\* when the task is to leave, the idle thread is in the queue.
LEMMA DecidingState ==
  ASSUME IInv, NEW c \in Cpus, At(c, "decide")
  PROVE  /\ current[c] = running[c] /\ running[c] \in Tasks
         /\ enq[c].step = "none" /\ queue[c][running[c]] = 0 /\ cpu[running[c]] = c
         /\ running[c] \notin IdleTasks => IdleTask[c] \in Queued(c)
<1> USE NoneIsNone DEF IInv
<1>1. current[c] = running[c] /\ running[c] \in Tasks /\ enq[c].step = "none"
  BY DEF At, RunInv, TypeOK
<1>2. queue[c][running[c]] = 0 /\ cpu[running[c]] = c
  BY <1>1, Zenon DEF ResidenceInv
<1>3. ASSUME running[c] \notin IdleTasks PROVE IdleTask[c] \in Queued(c)
  <2> DEFINE i == IdleTask[c]
  <2>1. i \in Tasks /\ i \in IdleTasks /\ cpu[i] = c
    BY SchedulerAssumption DEF IdleTasks, TaskInv
  <2>2. \A d \in Cpus : ~Claims(d, i)
    BY <2>1 DEF Claims, EnqueueInv
  <2>3. PICK d \in Cpus : current[d] = i \/ queue[d][i] > 0
    BY <2>1, <2>2 DEF ResidenceInv, InRunQueue
  <2>4. d = c
    BY <2>1, <2>3 DEF ResidenceInv
  <2>5. current[c] # i
    BY <1>1, <1>3, <2>1
  <2>6. QED
    BY <2>1, <2>3, <2>4, <2>5 DEF Queued
<1>4. QED
  BY <1>1, <1>2, <1>3

\* The decision not to switch.
LEMMA DoNothingStep ==
  ASSUME IInv, NEW c \in Cpus, At(c, "decide"), DoNothing(c), call[running[c]] # "exit",
         UNCHANGED <<flagVars, switchVars, waitVars, enq>>
  PROVE  IInv'
<1>1. PICK r \in Tasks : r = running[c]
  BY DEF IInv, TypeOK
<1>2. PICK p \in {"wait", "run"} : p = Return(r) /\ (p = "wait" => call[r] = "park")
  BY <1>1, ReturnType DEF IInv, Return
<1>3. /\ waiter \in [Tasks -> BOOLEAN] /\ has_woken \in [Tasks -> BOOLEAN]
      /\ need_preempt \in [Cpus -> BOOLEAN]
  BY DEF IInv, TypeOK
<1>4. Moves(c, r, p, "none", waiter[r], has_woken[r])
  <2>1. enq[c].step = "none" /\ pc[r] = "decide"
    BY <1>1 DEF At
  <2>2. pc' = [pc EXCEPT ![r] = p] /\ call' = [call EXCEPT ![r] = "none"]
    BY <1>1, <1>2 DEF DoNothing, Goto
  <2>3. /\ waiter' = [waiter EXCEPT ![r] = waiter[r]]
        /\ has_woken' = [has_woken EXCEPT ![r] = has_woken[r]]
    BY <1>3 DEF waitVars
  <2>4. need_preempt' \in [Cpus -> BOOLEAN] /\ UNCHANGED <<rqVars, ipi, switchVars, enq>>
    BY <1>3 DEF DoNothing, flagVars
  <2>5. QED
    BY <1>1, <2>1, <2>2, <2>3, <2>4 DEF Moves, Plain, Steps
<1>5. Allowed(r, p, "none", waiter[r], has_woken[r])
  <2>1. /\ call[r] = "park" => waiter[r]
        /\ ~has_woken[r] \/ waiter[r] => r \in Sleepers
    BY DEF IInv, TaskInv
  <2>2. QED
    BY <1>2, <1>3, <2>1 DEF Allowed, Plain, Steps
<1>6. QED
  BY <1>4, <1>5, OwnStep, Zenon

\* What the decision to switch does to the queues: next takes the place of the
\* running task, which stays in the queue or, when it parks or exits, leaves it.
Replaces(c, next, leaves) ==
  /\ current' = [current EXCEPT ![c] = next]
  /\ queue' = [queue EXCEPT ![c] = [[@ EXCEPT ![next] = 0]
                                      EXCEPT ![running[c]] = IF leaves THEN 0 ELSE 1]]
  /\ cpu' = IF leaves THEN [cpu EXCEPT ![running[c]] = NoCpu] ELSE cpu
  /\ pc' = [pc EXCEPT ![running[c]] = "switch"]
  /\ UNCHANGED <<last_cpu, call>>

\* SwitchTo replaces the running task, which stays ready.
LEMMA SwitchToEffect ==
  ASSUME IInv, NEW c \in Cpus, At(c, "decide"), NEW next \in PickNextEntity(c),
         SwitchTo(c, next)
  PROVE  next \in Queued(c) /\ Replaces(c, next, FALSE)
<1> USE NoneIsNone DEF IInv
<1> DEFINE r == running[c]
           rest == [queue[c] EXCEPT ![next] = @ - 1]
<1>1. /\ current[c] = r /\ r \in Tasks /\ queue[c][r] = 0 /\ cpu[r] = c
      /\ next \in Queued(c) /\ next \in Tasks
  BY DecidingState DEF PickNextEntity, Queued
<1>2. queue[c] \in [Tasks -> Nat] /\ queue \in [Cpus -> [Tasks -> Nat]] /\ r # NoTask
  BY <1>1 DEF TypeOK
<1>3. queue[c][next] = 1 /\ next # r
  BY <1>1 DEF ResidenceInv, Queued
<1>4. rest = [queue[c] EXCEPT ![next] = 0] /\ rest \in [Tasks -> Nat] /\ rest[r] = 0
  BY <1>1, <1>2, <1>3
<1>5. \A u \in Tasks \ {r} : Policy[r] \in {0, 3} /\ Policy[u] = Policy[r] => rest[u] = 0
  <2>1. SUFFICES ASSUME NEW u \in Tasks \ {r}, Policy[u] = Policy[r], Policy[r] \in {0, 3},
                        queue[c][u] > 0
                 PROVE  FALSE
    BY <1>1, <1>2, <1>4
  <2>2. u \in IdleTasks /\ r \in IdleTasks
    BY <1>1, <2>1, SchedulerAssumption
  <2>3. cpu[u] = c
    BY <2>1 DEF ResidenceInv
  <2>4. u = IdleTask[c] /\ r = IdleTask[c]
    BY <1>1, <2>2, <2>3 DEF IdleTasks, TaskInv
  <2>5. QED
    BY <2>1, <2>4
<1>6. EnqueueEntity(rest, r) = [rest EXCEPT ![r] = 1]
  <2>1. PICK q \in [Tasks -> Nat] : q = rest
    BY <1>4
  <2> HIDE DEF rest
  <2>2. q[r] = 0 /\ \A u \in Tasks \ {r} : Policy[r] \in {0, 3} /\ Policy[u] = Policy[r] => q[u] = 0
    BY <1>4, <1>5, <2>1
  <2>3. EnqueueEntity(q, r) = [q EXCEPT ![r] = 1]
    BY <1>1, <2>2, EnqueueEntityFits, Zenon
  <2>4. QED
    BY <2>1, <2>3
<1>7. /\ queue' = [queue EXCEPT ![c] = EnqueueEntity(rest, r)]
      /\ current' = [current EXCEPT ![c] = next]
      /\ pc' = [pc EXCEPT ![r] = "switch"]
      /\ UNCHANGED <<cpu, last_cpu, call>>
  BY <1>1, <1>2 DEF SwitchTo, Supersede, Goto
<1>8. QED
  BY <1>1, <1>2, <1>4, <1>6, <1>7, Zenon DEF Replaces

\* A task that parks or exits is replaced and leaves: the idle thread is in the
\* queue when no other task is.
LEMMA DequeueAndPickEffect ==
  ASSUME IInv, NEW c \in Cpus, At(c, "decide"), call[running[c]] \in {"park", "exit"},
         DequeueAndPick(c)
  PROVE  \E next \in Queued(c) : Replaces(c, next, TRUE)
<1> USE NoneIsNone DEF IInv
<1> DEFINE r == running[c]
<1>1. r \notin IdleTasks
  BY DEF IdleTasks, TaskInv
<1>2. /\ current[c] = r /\ r \in Tasks /\ queue[c][r] = 0
      /\ Queued(c) # {}
  BY <1>1, DecidingState
<1>3. PICK next \in PickNextEntity(c) :
        /\ current' = [current EXCEPT ![c] = next]
        /\ queue' = IF next = NoTask THEN queue ELSE [queue EXCEPT ![c][next] = @ - 1]
        /\ Goto(c, IF next = NoTask THEN "retry" ELSE "switch")
  BY <1>2, Zenon DEF DequeueAndPick
<1>4. next \in Queued(c) /\ next \in Tasks /\ next # NoTask /\ queue[c][next] = 1 /\ next # r
  BY <1>2, <1>3 DEF PickNextEntity, Queued, ResidenceInv
<1>5. queue \in [Cpus -> [Tasks -> Nat]]
  BY DEF TypeOK
<1>6. queue' = [queue EXCEPT ![c] = [[@ EXCEPT ![next] = 0] EXCEPT ![r] = 0]]
  <2>1. queue' = [queue EXCEPT ![c] = [queue[c] EXCEPT ![next] = 0]]
    BY <1>3, <1>4, <1>5
  <2>2. [queue[c] EXCEPT ![next] = 0] = [[queue[c] EXCEPT ![next] = 0] EXCEPT ![r] = 0]
    BY <1>2, <1>4, <1>5, Zenon
  <2>3. QED
    BY <2>1, <2>2, Zenon
<1>7. Replaces(c, next, TRUE)
  BY <1>2, <1>3, <1>4, <1>6, Zenon DEF Replaces, DequeueAndPick, Goto
<1>8. QED
  BY <1>4, <1>7, Zenon

\* A decision to switch keeps the invariant, if no task leaves that was woken.
LEMMA ReplacesStep ==
  ASSUME IInv, NEW c \in Cpus, At(c, "decide"), NEW next \in Queued(c), NEW leaves \in BOOLEAN,
         Replaces(c, next, leaves),
         leaves => /\ running[c] \notin IdleTasks
                   /\ ~(waiter[running[c]] /\ has_woken[running[c]]),
         UNCHANGED <<flagVars, switchVars, waitVars, enq>>
  PROVE  IInv'
<1>1. PICK r \in Tasks : r = running[c]
  BY DEF IInv, TypeOK
<1>2. /\ current[c] = r /\ enq[c].step = "none" /\ queue[c][r] = 0 /\ cpu[r] = c
      /\ pc[r] = "decide" /\ last_cpu[r] = c
  BY <1>1, DecidingState, Zenon DEF IInv, At, RunInv
<1>3. next \in Tasks /\ queue[c][next] = 1 /\ next # r /\ cpu[next] = c /\ last_cpu[next] = c
  <2>1. next \in Tasks /\ queue[c][next] > 0
    BY DEF Queued
  <2>2. ResidenceInv!1!(c, next)
    BY <2>1 DEF IInv, ResidenceInv
  <2>3. QED
    BY <1>2, <2>1, <2>2
<1>4. UNCHANGED <<need_preempt, ipi, running, previous, switched_to_cpu, waiter, has_woken, enq,
                  last_cpu, call>>
  BY DEF Replaces, flagVars, switchVars, waitVars
<1>5. /\ current' = [current EXCEPT ![c] = next]
      /\ queue' = [queue EXCEPT ![c] = [[@ EXCEPT ![next] = 0] EXCEPT ![r] = IF leaves THEN 0 ELSE 1]]
      /\ cpu' = IF leaves THEN [cpu EXCEPT ![r] = NoCpu] ELSE cpu
      /\ pc' = [pc EXCEPT ![r] = "switch"]
  BY <1>1 DEF Replaces
<1>6. /\ current \in [Cpus -> Tasks \cup {NoTask}] /\ queue \in [Cpus -> [Tasks -> Nat]]
      /\ cpu \in [Tasks -> Cpus \cup {NoCpu}] /\ pc \in [Tasks -> Steps]
  BY DEF IInv, TypeOK
<1>7. /\ current'[c] = next /\ \A d \in Cpus \ {c} : current'[d] = current[d]
      /\ \A d \in Cpus \ {c} : queue'[d] = queue[d]
      /\ queue'[c][next] = 0 /\ queue'[c][r] = (IF leaves THEN 0 ELSE 1)
      /\ \A u \in Tasks \ {next, r} : queue'[c][u] = queue[c][u]
      /\ cpu'[r] = (IF leaves THEN NoCpu ELSE c)
      /\ \A u \in Tasks \ {r} : cpu'[u] = cpu[u]
      /\ pc'[r] = "switch" /\ \A u \in Tasks \ {r} : pc'[u] = pc[u]
  BY <1>2, <1>3, <1>5, <1>6
<1>8. TypeOK'
  <2>1. /\ current' \in [Cpus -> Tasks \cup {NoTask}]
        /\ queue' \in [Cpus -> [Tasks -> Nat]]
        /\ cpu' \in [Tasks -> Cpus \cup {NoCpu}]
        /\ pc' \in [Tasks -> Steps]
    BY <1>3, <1>5, <1>6 DEF Steps
  <2>2. QED
    BY <1>4, <2>1 DEF IInv, TypeOK
<1>9. ResidenceInv /\ EnqueueInv /\ RunInv /\ TaskInv /\ NoLostWakeup
  BY DEF IInv
<1>10. /\ \A d \in Cpus \ {c} : current[d] # r /\ ~(queue[d][r] > 0)
       /\ \A d \in Cpus \ {c} : current[d] # next /\ ~(queue[d][next] > 0)
       /\ \A d \in Cpus : ~Claims(d, r) /\ ~Claims(d, next)
  BY <1>2, <1>3, <1>9 DEF ResidenceInv, InRunQueue
<1>11. ASSUME NEW u \in Tasks, u \notin {r, next} PROVE InRunQueue(u)' <=> InRunQueue(u)
  BY <1>2, <1>7, <1>11 DEF InRunQueue
<1>12. InRunQueue(next)' /\ InRunQueue(r) /\ (InRunQueue(r)' <=> ~leaves)
  <2>1. InRunQueue(next)' /\ InRunQueue(r)
    BY <1>2, <1>7 DEF InRunQueue
  <2>2. CASE leaves
    <3>1. \A d \in Cpus : current'[d] # r /\ ~(queue'[d][r] > 0)
      BY <1>3, <1>7, <1>10, <2>2
    <3>2. QED
      BY <2>1, <2>2, <3>1 DEF InRunQueue
  <2>3. CASE ~leaves
    <3>1. queue'[c][r] = 1
      BY <1>7, <2>3, Zenon
    <3>2. queue'[c][r] > 0
      BY <3>1
    <3>3. QED
      BY <2>1, <2>3, <3>2 DEF InRunQueue
  <2>4. QED
    BY <2>2, <2>3
<1>13. ResidenceInv'
  <2>1. \A d \in Cpus, u \in Tasks : Claims(d, u)' <=> Claims(d, u)
    BY <1>4, ZenonT(30) DEF Claims
  <2>2. ASSUME NEW d \in Cpus, NEW u \in Tasks PROVE ResidenceInv!1!(d, u)'
    <3>1. ResidenceInv!1!(d, u)
      BY <1>9, ZenonT(30) DEF ResidenceInv
    <3>2. CASE u = r
      <4>1. current'[d] # r /\ ~Claims(d, r)'
        <5>1. CASE d = c
          BY <1>3, <1>7, <1>10, <2>1, <5>1, Zenon
        <5>2. CASE d # c
          BY <1>7, <1>10, <2>1, <5>2, Zenon
        <5>3. QED
          BY <5>1, <5>2, Zenon
      <4>2. queue'[d][r] > 0 => d = c /\ ~leaves /\ queue'[d][r] = 1
        <5>1. CASE d = c
          BY <1>7, <5>1
        <5>2. CASE d # c
          BY <1>7, <1>10, <5>2, Zenon
        <5>3. QED
          BY <5>1, <5>2, Zenon
      <4>3. QED
        BY <1>2, <1>4, <1>7, <3>2, <4>1, <4>2, ZenonT(30)
    <3>3. CASE u = next
      <4>1. ~(queue'[d][next] > 0) /\ ~Claims(d, next)' /\ (current'[d] = next => d = c)
        <5>1. CASE d = c
          <6>1. queue'[d][next] = 0 /\ ~Claims(d, next)'
            BY <1>7, <1>10, <2>1, <3>3, <5>1, Zenon
          <6>2. QED
            BY <5>1, <6>1
        <5>2. CASE d # c
          BY <1>7, <1>10, <2>1, <3>3, <5>2, Zenon
        <5>3. QED
          BY <5>1, <5>2, Zenon
      <4>2. cpu'[next] = c /\ last_cpu'[next] = c
        BY <1>3, <1>4, <1>7
      <4>3. QED
        BY <1>7, <3>3, <4>1, <4>2, ZenonT(30)
    <3>4. CASE u \notin {r, next}
      <4>1. InRunQueue(u)' <=> InRunQueue(u)
        BY <1>11, <3>4
      <4>2. cpu'[u] = cpu[u] /\ last_cpu'[u] = last_cpu[u] /\ enq'[d] = enq[d]
        BY <1>4, <1>7, <3>4, ZenonT(30)
      <4>3. queue'[d][u] = queue[d][u] /\ (current'[d] = u <=> current[d] = u)
        BY <1>2, <1>7, <3>4
      <4>4. QED
        BY <2>1, <3>1, <4>1, <4>2, <4>3
    <3>5. QED
      BY <3>2, <3>3, <3>4
  <2>3. ASSUME NEW u \in Tasks, cpu'[u] # NoCpu
        PROVE  InRunQueue(u)' \/ \E d \in Cpus : Claims(d, u)'
    <3>1. CASE u = r
      BY <1>7, <1>12, <2>3, <3>1
    <3>2. CASE u = next
      BY <1>12, <3>2
    <3>3. CASE u \notin {r, next}
      <4>1. InRunQueue(u) \/ \E d \in Cpus : Claims(d, u)
        BY <1>7, <1>9, <2>3, <3>3 DEF ResidenceInv
      <4>2. QED
        BY <1>11, <2>1, <3>3, <4>1, ZenonT(30)
    <3>4. QED
      BY <3>1, <3>2, <3>3
  <2>4. QED
    BY <2>2, <2>3 DEF ResidenceInv
<1>14. \A d \in Cpus \ {c} : running[d] # r /\ running[d] \in Tasks
  BY <1>1, <1>9, RunningUnique DEF IInv, TypeOK
<1>15. EnqueueInv'
  <2>1. \A u \in Tasks : pc'[u] = "unborn" => pc[u] = "unborn"
    BY <1>7, ZenonT(30)
  <2>2. ASSUME NEW d \in Cpus PROVE EnqueueInv!(d)'
    <3>1. CASE enq[d].step = "none"
      BY <1>4, <3>1, ZenonT(30)
    <3>2. CASE enq[d].step # "none"
      <4>1. pc'[running'[d]] = pc[running[d]]
        BY <1>2, <1>4, <1>7, <1>14, <3>2, ZenonT(30)
      <4>2. enq[d].task \in Tasks
        BY <1>9, <3>2 DEF EnqueueInv
      <4>3. last_cpu[enq[d].task] = NoCpu => cpu'[enq[d].task] = cpu[enq[d].task]
        BY <1>2, <1>7, <4>2, NoneIsNone, ZenonT(30)
      <4>4. UNCHANGED <<enq, last_cpu>>
        BY <1>4
      <4>5. QED
        BY <1>9, <2>1, <4>1, <4>3, <4>4, EnqueueKept
    <3>3. QED
      BY <3>1, <3>2
  <2>3. QED
    BY <2>2, Zenon DEF EnqueueInv
<1>16. RunInv'
  <2>1. ASSUME NEW d \in Cpus PROVE RunInv!1!(d)'
    <3>1. CASE d = c
      <4>1. RunInv!1!(c)
        BY <1>9, ZenonT(30) DEF RunInv
      <4>2. running'[c] = r /\ previous'[c] = previous[c] /\ last_cpu' = last_cpu
        BY <1>1, <1>4, ZenonT(30)
      <4>3. pc[running[c]] = "decide" /\ pc'[running'[c]] = "switch" /\ current'[c] = next
        BY <1>1, <1>2, <1>7, <4>2, ZenonT(30)
      <4>4. previous[c] = NoTask
        BY <4>1, <4>3, ZenonT(30)
      <4>5. QED
        BY <1>2, <1>3, <3>1, <4>2, <4>3, <4>4
    <3>2. CASE d # c
      <4>1. running'[d] = running[d] /\ previous'[d] = previous[d] /\ UNCHANGED last_cpu
        BY <1>4
      <4>2. current'[d] = current[d] /\ pc'[running[d]] = pc[running[d]]
        BY <1>7, <1>14, <3>2
      <4>3. QED
        BY <1>9, <4>1, <4>2, RunKept
    <3>3. QED
      BY <3>1, <3>2, ZenonT(30)
  <2>2. ASSUME NEW u \in Tasks PROVE RunInv!2!(u)'
    <3>1. RunInv!2!(u) /\ UNCHANGED <<running, previous, switched_to_cpu>>
      BY <1>4, <1>9, ZenonT(30) DEF RunInv
    <3>2. u = r => \E d \in Cpus : running[d] = u
      BY <1>1, ZenonT(30)
    <3>3. u # r => pc'[u] = pc[u]
      BY <1>7
    <3>4. QED
      BY <3>1, <3>2, <3>3, ZenonT(30)
  <2>3. QED
    BY <2>1, <2>2, ZenonT(30) DEF RunInv
<1>17. TaskInv'
  <2>1. ASSUME NEW u \in Tasks PROVE TaskInv!1!(u)'
    <3>1. CASE u = r
      <4>1. TaskInv!1!(r)
        BY <1>9 DEF TaskInv
      <4>2. UNCHANGED <<waiter, has_woken, last_cpu, call>> /\ pc'[r] = "switch"
        BY <1>4, <1>7
      <4>3. QED
        BY <1>2, <3>1, <4>1, <4>2, ZenonT(30)
    <3>2. CASE u # r
      <4>1. /\ pc'[u] = pc[u] /\ call'[u] = call[u] /\ waiter'[u] = waiter[u]
            /\ has_woken'[u] = has_woken[u] /\ cpu'[u] = cpu[u] /\ last_cpu'[u] = last_cpu[u]
        BY <1>4, <1>7, <3>2, ZenonT(30)
      <4>2. QED
        BY <1>9, <4>1, TaskKept, ZenonT(30)
    <3>3. QED
      BY <3>1, <3>2, ZenonT(30)
  <2>2. ASSUME NEW d \in Cpus PROVE TaskInv!2!(d)'
    <3>1. IdleTask[d] \in Tasks /\ IdleTask[d] \in IdleTasks
      BY SchedulerAssumption, ZenonT(30) DEF IdleTasks
    <3>2. cpu'[IdleTask[d]] = cpu[IdleTask[d]]
      <4>1. CASE leaves
        BY <1>1, <1>7, <3>1, <4>1
      <4>2. CASE ~leaves
        BY <1>5, <4>2
      <4>3. QED
        BY <4>1, <4>2, ZenonT(30)
    <3>3. UNCHANGED <<last_cpu, call>>
      BY <1>4
    <3>4. QED
      BY <1>9, <3>2, <3>3, IdleKept
  <2>3. QED
    BY <2>1, <2>2, Zenon DEF TaskInv
<1>18. NoLostWakeup'
  <2>1. ASSUME NEW u \in Tasks, waiter'[u], has_woken'[u], ~InRunQueue(u)'
        PROVE  \E d \in Cpus : enq'[d].task = u /\ enq'[d].step \in {"claim", "lock"}
    <3>1. waiter[u] /\ has_woken[u] /\ enq' = enq
      BY <1>4, <2>1, ZenonT(30)
    <3>2. u # r /\ u # next
      BY <1>1, <1>12, <2>1, <3>1
    <3>3. ~InRunQueue(u)
      BY <1>11, <2>1, <3>2
    <3>4. QED
      BY <1>9, <3>1, <3>3, ZenonT(30) DEF NoLostWakeup
  <2>2. QED
    BY <2>1, Zenon DEF NoLostWakeup
<1>19. QED
  BY <1>8, <1>13, <1>15, <1>16, <1>17, <1>18 DEF IInv

\* The closures that reschedule is called with.
LEMMA DecideSteps ==
  ASSUME IInv, NEW c \in Cpus,
         DecidePreempt(c) \/ DecideYield(c) \/ DecidePark(c) \/ DecideExit(c)
  PROVE  IInv'
<1> USE DEF IInv
<1> DEFINE r == running[c]
<1>1. At(c, "decide") /\ UNCHANGED <<flagVars, switchVars, waitVars, enq>> /\ r \in Tasks
  BY DEF DecidePreempt, DecideYield, DecidePark, DecideExit, Deciding, TypeOK
<1>2. CASE DoNothing(c) /\ call[r] # "exit"
  BY <1>1, <1>2, DoNothingStep, Zenon
<1>3. CASE \E next \in PickNextEntity(c) : SwitchTo(c, next)
  <2>1. PICK next \in PickNextEntity(c) : SwitchTo(c, next)
    BY <1>3
  <2>2. next \in Queued(c) /\ Replaces(c, next, FALSE)
    BY <1>1, <2>1, SwitchToEffect, Zenon
  <2>3. QED
    BY <1>1, <2>2, ReplacesStep, Zenon
<1>4. CASE DequeueAndPick(c) /\ call[r] \in {"park", "exit"} /\ ~(waiter[r] /\ has_woken[r])
  <2>1. PICK next \in Queued(c) : Replaces(c, next, TRUE)
    BY <1>1, <1>4, DequeueAndPickEffect, Zenon
  <2>2. r \notin IdleTasks
    BY <1>4, ZenonT(30) DEF TaskInv, IdleTasks
  <2>3. QED
    BY <1>1, <1>4, <2>1, <2>2, ReplacesStep, Zenon
<1>5. CASE DecidePreempt(c)
  BY <1>2, <1>3, <1>5, Zenon DEF DecidePreempt, Deciding
<1>6. CASE DecideYield(c)
  BY <1>2, <1>3, <1>6 DEF DecideYield, Deciding
<1>7. CASE DecidePark(c)
  <2>1. CASE has_woken[r]
    BY <1>2, <1>7, <2>1 DEF DecidePark, Deciding
  <2>2. CASE ~has_woken[r]
    BY <1>4, <1>7, <2>2, ZenonT(30) DEF DecidePark, Deciding
  <2>3. QED
    BY <2>1, <2>2, Zenon
<1>8. CASE DecideExit(c)
  <2>1. ~waiter[r]
    BY <1>1, <1>8 DEF DecideExit, Deciding, TaskInv
  <2>2. QED
    BY <1>4, <1>8, <2>1 DEF DecideExit, Deciding
<1>9. QED
  BY <1>5, <1>6, <1>7, <1>8

=============================================================================
