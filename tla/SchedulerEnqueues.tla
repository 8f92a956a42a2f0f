------------------------- MODULE SchedulerEnqueues -------------------------
(***************************************************************************)
(* Wake-ups, new tasks and the steps of an enqueue keep the invariant of   *)
(* the scheduler.                                                          *)
(***************************************************************************)
EXTENDS SchedulerInvariant

\* wake_up starts an enqueue of a task that has been in a run queue.
LEMMA WakeUpStep ==
  ASSUME IInv, NEW c \in Cpus, NEW t \in Tasks, WakeUp(c, t)
  PROVE  IInv'
<1> USE NoneIsNone DEF IInv
<1> DEFINE r == running[c]
<1>1. PICK p \in Steps : /\ enq[c].step = "none"
                         /\ p = pc[r] \/ {p, pc[r]} \subseteq Plain
                         /\ pc' = [pc EXCEPT ![r] = p]
                         /\ \A u \in Tasks : \/ pc'[u] = pc[u]
                                             \/ pc[u] = "halted" /\ pc'[u] = "preempt_point"
  BY InterruptMoves DEF WakeUp
<1>2. /\ enq' = [enq EXCEPT ![c] = [NoEnqueue EXCEPT !.step = "claim", !.task = t]]
      /\ has_woken' = [has_woken EXCEPT ![t] = TRUE]
      /\ UNCHANGED <<rqVars, flagVars, switchVars, call, waiter>>
      /\ ~has_woken[t]
  BY DEF WakeUp
<1>3. t \in Sleepers /\ t \notin IdleTasks /\ last_cpu[t] # NoCpu /\ pc[t] # "unborn"
  BY <1>2, SchedulerAssumption DEF TaskInv
<1>4. r \in Tasks /\ pc \in [Tasks -> Steps] /\ enq \in [Cpus -> Enqueues]
  BY DEF TypeOK
<1>5. /\ enq'[c].step = "claim" /\ enq'[c].task = t /\ ~enq'[c].spawn /\ ~enq'[c].still
      /\ \A d \in Cpus \ {c} : enq'[d] = enq[d]
  BY <1>2, <1>4 DEF NoEnqueue
<1>6. TypeOK'
  <2>1. [NoEnqueue EXCEPT !.step = "claim", !.task = t] \in Enqueues
    BY Zenon DEF Enqueues, NoEnqueue
  <2>2. enq' \in [Cpus -> Enqueues] /\ pc' \in [Tasks -> Steps]
    BY <1>1, <1>2, <1>4, <2>1
  <2>3. QED
    BY <1>2, <2>2, Zenon DEF TypeOK, rqVars, flagVars, switchVars
<1>7. ResidenceInv'
  <2>1. UNCHANGED <<current, queue, cpu, last_cpu>>
    BY <1>2 DEF rqVars
  <2>2. \A d \in Cpus : enq'[d].step = "lock" => enq'[d] = enq[d]
    BY <1>5
  <2>3. \A d \in Cpus : enq[d].step = "lock" => enq'[d] = enq[d]
    BY <1>1, <1>5
  <2>4. ResidenceInv!1'
    BY <2>1, <2>2, <2>3 DEF ResidenceInv, Claims, InRunQueue
  <2>5. ResidenceInv!2'
    <3>1. \A d \in Cpus, u \in Tasks : Claims(d, u) => Claims(d, u)'
      BY <2>3 DEF Claims
    <3>2. \A u \in Tasks : InRunQueue(u) => InRunQueue(u)'
      BY <2>1 DEF InRunQueue
    <3>3. ResidenceInv!2
      BY DEF ResidenceInv
    <3>4. QED
      BY <2>1, <3>1, <3>2, <3>3
  <2>6. QED
    BY <2>4, <2>5 DEF ResidenceInv
<1>8. EnqueueInv'
  <2>1. \A d \in Cpus : d # c => running[d] # r
    BY RunningUnique
  <2>2. \A u \in Tasks : pc'[u] = "unborn" => pc[u] = "unborn"
    BY <1>1, <1>4 DEF Plain
  <2>3. \A d \in Cpus : d # c => pc'[running[d]] = pc[running[d]]
    BY <1>1, <2>1 DEF TypeOK
  <2>4. QED
    BY <1>2, <1>3, <1>5, <2>2, <2>3 DEF EnqueueInv, Enqueueing, rqVars, switchVars
<1>9. RunInv'
  <2>1. \A d \in Cpus : d # c => running[d] # r
    BY RunningUnique
  <2>2. QED
    BY <1>1, <1>2, <1>4, <2>1 DEF RunInv, Plain, rqVars, switchVars, TypeOK
<1>10. TaskInv'
  <2>1. \A u \in Tasks : has_woken'[u] = has_woken[u] \/ u = t
    BY <1>2, Zenon DEF TypeOK
  <2>2. UNCHANGED <<call, waiter, cpu, last_cpu>>
    BY <1>2 DEF rqVars
  <2>3. QED
    BY <1>1, <1>3, <2>1, <2>2 DEF TaskInv
<1>11. NoLostWakeup'
  <2>1. \A u \in Tasks \ {t} : has_woken'[u] = has_woken[u]
    BY <1>2 DEF TypeOK
  <2>2. UNCHANGED <<waiter, current, queue>>
    BY <1>2 DEF rqVars
  <2>3. QED
    BY <1>1, <1>5, <2>1, <2>2 DEF NoLostWakeup, InRunQueue
<1>12. QED
  BY <1>6, <1>7, <1>8, <1>9, <1>10, <1>11

\* run_new_task starts the one enqueue of a task that was in no run queue yet.
LEMMA RunNewTaskStep ==
  ASSUME IInv, NEW c \in Cpus, NEW t \in Tasks, RunNewTask(c, t)
  PROVE  IInv'
<1> USE NoneIsNone DEF IInv
<1> DEFINE new == [NoEnqueue EXCEPT !.step = "claim", !.task = t, !.spawn = TRUE]
<1>1. /\ enq[c].step = "none" /\ pc[running[c]] = "run" /\ pc[t] = "unborn"
      /\ pc' = [pc EXCEPT ![t] = "new"]
      /\ enq' = [enq EXCEPT ![c] = new]
      /\ UNCHANGED <<current, queue, cpu, last_cpu, need_preempt, ipi, running, previous,
                     switched_to_cpu, call, waiter, has_woken>>
  BY DEF RunNewTask, At, rqVars, flagVars, switchVars, waitVars
<1>2. /\ pc \in [Tasks -> Steps] /\ enq \in [Cpus -> Enqueues] /\ running \in [Cpus -> Tasks]
      /\ new \in Enqueues
      /\ "new" \in Steps
  BY Zenon DEF TypeOK, Enqueues, NoEnqueue, Steps
<1>3. /\ t \notin IdleTasks /\ last_cpu[t] = NoCpu /\ cpu[t] = NoCpu
      /\ \A d \in Cpus : running[d] # t /\ (enq[d].step # "none" => enq[d].task # t)
  <2>1. last_cpu[t] = NoCpu /\ cpu[t] = NoCpu
    BY <1>1 DEF TaskInv
  <2>2. \A d \in Cpus : running[d] # t /\ (enq[d].step # "none" => enq[d].task # t)
    BY <1>1 DEF RunInv, EnqueueInv
  <2>3. t \notin IdleTasks
    BY <2>1 DEF TaskInv, IdleTasks
  <2>4. QED
    BY <2>1, <2>2, <2>3
<1>4. /\ enq'[c].step = "claim" /\ enq'[c].task = t /\ enq'[c].still = FALSE
      /\ \A d \in Cpus \ {c} : enq'[d] = enq[d]
      /\ pc'[t] = "new"
      /\ \A u \in Tasks \ {t} : pc'[u] = pc[u]
  BY <1>1, <1>2 DEF NoEnqueue
<1>5. TypeOK'
  BY <1>1, <1>2 DEF TypeOK
<1>6. ResidenceInv'
  <2>1. \A d \in Cpus : enq'[d].step = "lock" => enq'[d] = enq[d]
    BY <1>4
  <2>2. \A d \in Cpus : enq[d].step = "lock" => enq'[d] = enq[d]
    BY <1>1, <1>4
  <2>3. ResidenceInv!1'
    BY <1>1, <2>1, <2>2 DEF ResidenceInv, Claims, InRunQueue
  <2>4. ResidenceInv!2'
    <3>1. \A d \in Cpus, u \in Tasks : Claims(d, u) => Claims(d, u)'
      BY <2>2 DEF Claims
    <3>2. \A u \in Tasks : InRunQueue(u) => InRunQueue(u)'
      BY <1>1 DEF InRunQueue
    <3>3. ResidenceInv!2
      BY DEF ResidenceInv
    <3>4. QED
      BY <1>1, <3>1, <3>2, <3>3
  <2>5. QED
    BY <2>3, <2>4 DEF ResidenceInv
<1>7. EnqueueInv'
  BY <1>1, <1>2, <1>3, <1>4 DEF EnqueueInv, Enqueueing
<1>8. RunInv'
  BY <1>1, <1>2, <1>3, <1>4 DEF RunInv
<1>9. TaskInv'
  BY <1>1, <1>3, <1>4 DEF TaskInv
<1>10. NoLostWakeup'
  BY <1>1, <1>3, <1>4 DEF NoLostWakeup, InRunQueue
<1>11. QED
  BY <1>5, <1>6, <1>7, <1>8, <1>9, <1>10

\* An enqueue whose task has no cpu claims it: nobody else has it or claims it.
LEMMA EnqueueClaimStep ==
  ASSUME IInv, NEW c \in Cpus, EnqueueClaim(c)
  PROVE  IInv'
<1> USE NoneIsNone DEF IInv
<1> DEFINE t == enq[c].task
<1>1. /\ enq[c].step = "claim"
      /\ UNCHANGED <<current, queue, last_cpu, need_preempt, ipi, running, previous,
                     switched_to_cpu, pc, call, waiter, has_woken>>
  BY DEF EnqueueClaim, flagVars, switchVars, waitVars
<1>2. t \in Tasks /\ t \notin IdleTasks /\ enq \in [Cpus -> Enqueues] /\ cpu \in [Tasks -> Cpus \cup {NoCpu}]
  BY <1>1 DEF EnqueueInv, TypeOK
<1>3. PICK target \in Cpus :
        /\ last_cpu[t] # NoCpu => target = last_cpu[t]
        /\ \/ /\ cpu[t] = NoCpu
              /\ cpu' = [cpu EXCEPT ![t] = target]
              /\ enq' = [enq EXCEPT ![c].step = "lock", ![c].cpu = target]
           \/ /\ cpu[t] = target /\ last_cpu[t] # NoCpu
              /\ cpu' = cpu
              /\ enq' = [enq EXCEPT ![c].step = "lock", ![c].cpu = target, ![c].still = TRUE]
  <2>1. PICK selected \in SelectCpu(t) :
          IF cpu[t] = NoCpu
            THEN /\ cpu' = [cpu EXCEPT ![t] = selected]
                 /\ enq' = [enq EXCEPT ![c].step = "lock", ![c].cpu = selected]
            ELSE /\ enq' = [enq EXCEPT ![c].step = "lock", ![c].cpu = cpu[t],
                                       ![c].still = TRUE]
                 /\ UNCHANGED cpu
    BY DEF EnqueueClaim
  <2>2. selected \in Cpus /\ (last_cpu[t] # NoCpu => selected = last_cpu[t])
    BY <1>2, SchedulerAssumption DEF SelectCpu, TypeOK
  <2>3. CASE cpu[t] = NoCpu
    BY <2>1, <2>2, <2>3, Zenon
  <2>4. CASE cpu[t] # NoCpu
    <3>1. last_cpu[t] # NoCpu
      BY <1>1, <2>4 DEF EnqueueInv
    <3>2. ~ \E d \in Cpus : Claims(d, t) /\ last_cpu[t] # enq[d].cpu
      BY <3>1 DEF EnqueueInv, Claims
    <3>3. InRunQueue(t) \/ \E d \in Cpus : Claims(d, t)
      BY <1>2, <2>4 DEF ResidenceInv
    <3>4. cpu[t] = last_cpu[t]
      <4>1. CASE InRunQueue(t)
        BY <1>2, <4>1 DEF ResidenceInv, InRunQueue
      <4>2. CASE \E d \in Cpus : Claims(d, t)
        BY <1>2, <3>2, <4>2 DEF ResidenceInv
      <4>3. QED
        BY <3>3, <4>1, <4>2
    <3>5. cpu[t] \in Cpus
      BY <1>2, <2>4
    <3>6. QED
      BY <2>1, <2>4, <3>1, <3>4, <3>5, Zenon
  <2>5. QED
    BY <2>3, <2>4, Zenon
<1>4. /\ enq'[c].step = "lock" /\ enq'[c].task = t /\ enq'[c].cpu = target
      /\ enq'[c].spawn = enq[c].spawn
      /\ enq'[c].still = (cpu[t] # NoCpu)
      /\ \A d \in Cpus \ {c} : enq'[d] = enq[d]
      /\ cpu'[t] = target
      /\ \A u \in Tasks \ {t} : cpu'[u] = cpu[u]
  <2>1. enq[c].still = FALSE
    BY <1>1, <1>2 DEF EnqueueInv, Enqueues
  <2>2. QED
    BY <1>2, <1>3, <2>1 DEF Enqueues
<1>5. TypeOK'
  <2>1. enq' \in [Cpus -> Enqueues]
    <3>1. enq[c] \in Enqueues
      BY <1>2
    <3>2. enq'[c] \in Enqueues
      BY <1>2, <1>3, <3>1 DEF Enqueues
    <3>3. QED
      BY <1>2, <1>3, <3>2
  <2>2. cpu' \in [Tasks -> Cpus \cup {NoCpu}]
    BY <1>2, <1>3
  <2>3. QED
    BY <1>1, <2>1, <2>2 DEF TypeOK
<1>6. ResidenceInv'
  <2>1. \A d \in Cpus : cpu[t] = NoCpu => ~InRunQueue(t) /\ ~Claims(d, t)
    <3>1. cpu[t] = NoCpu => ~InRunQueue(t)
      BY <1>2 DEF ResidenceInv, InRunQueue
    <3>2. \A d \in Cpus : Claims(d, t) => cpu[t] = enq[d].cpu /\ enq[d].cpu \in Cpus
      BY <1>2 DEF ResidenceInv, EnqueueInv, Claims
    <3>3. QED
      BY <3>1, <3>2
  <2>2. \A d \in Cpus, u \in Tasks :
          Claims(d, u)' <=> Claims(d, u) \/ (d = c /\ u = t /\ cpu[t] = NoCpu)
    BY <1>1, <1>4, Zenon DEF Claims
  <2>3. \A u \in Tasks : InRunQueue(u)' <=> InRunQueue(u)
    BY <1>1 DEF InRunQueue
  <2>4. \A d \in Cpus, u \in Tasks : Claims(d, u) => enq'[d] = enq[d]
    BY <1>1, <1>4 DEF Claims
  <2>5. cpu[t] # NoCpu => cpu' = cpu
    BY <1>3
  <2>6. ResidenceInv!1'
    BY <1>1, <1>4, <2>1, <2>2, <2>3, <2>4, <2>5 DEF ResidenceInv
  <2>7. ResidenceInv!2'
    BY <1>1, <1>4, <2>2, <2>3, <2>5, SMTT(30) DEF ResidenceInv
  <2>8. QED
    BY <2>6, <2>7 DEF ResidenceInv
<1>7. EnqueueInv'
  <2>1. \A d \in Cpus : enq'[d].task = enq[d].task /\ enq'[d].spawn = enq[d].spawn
    BY <1>4
  <2>2. \A d \in Cpus, u \in Tasks : Enqueueing(d, u)' <=> Enqueueing(d, u)
    BY <1>1, <1>4 DEF Enqueueing
  <2>3. EnqueueInv!(c)'
    <3>1. /\ pc[t] # "unborn"
          /\ last_cpu[t] = NoCpu => /\ cpu[t] = NoCpu
                                    /\ \A d \in Cpus : Enqueueing(d, t) => d = c
          /\ enq[c].spawn => pc[running[c]] = "run"
      BY <1>1 DEF EnqueueInv
    <3>2. last_cpu'[t] = NoCpu => ~enq'[c].still /\ \A d \in Cpus : Enqueueing(d, t)' => d = c
      BY <1>1, <1>2, <1>4, <2>2, <3>1, ZenonT(30)
    <3>3. QED
      BY <1>1, <1>2, <1>3, <1>4, <3>1, <3>2 DEF Enqueueing
  <2>4. ASSUME NEW d \in Cpus, d # c PROVE EnqueueInv!(d)'
    <3>1. enq'[d] = enq[d]
      BY <1>4, <2>4, ZenonT(30)
    <3>2. enq[d].step = "claim" /\ last_cpu[enq[d].task] = NoCpu => enq[d].task # t
      BY <1>1, <2>4 DEF EnqueueInv, Enqueueing
    <3>3. QED
      BY <1>1, <1>4, <2>2, <3>1, <3>2 DEF EnqueueInv
  <2>5. QED
    BY <2>3, <2>4 DEF EnqueueInv
<1>8. RunInv'
  BY <1>1 DEF RunInv
<1>9. TaskInv'
  <2>1. TaskInv /\ pc[t] # "unborn" /\ \A u \in Tasks \ {t} : cpu'[u] = cpu[u]
    BY <1>1, <1>2, <1>3 DEF EnqueueInv
  <2>2. ASSUME NEW u \in Tasks PROVE TaskInv!1!(u)'
    <3>1. CASE u # t
      BY <1>1, <2>1, <3>1, TaskKept, SMTT(30)
    <3>2. CASE u = t
      <4>1. TaskInv!1!(u)
        BY <2>1 DEF TaskInv
      <4>2. QED
        BY <1>1, <2>1, <3>2, <4>1
    <3>3. QED
      BY <3>1, <3>2
  <2>3. ASSUME NEW d \in Cpus PROVE TaskInv!2!(d)'
    <3>1. IdleTask[d] \in Tasks /\ IdleTask[d] # t
      BY <1>2, SchedulerAssumption DEF IdleTasks
    <3>2. QED
      BY <1>1, <2>1, <3>1, IdleKept
  <2>4. QED
    BY <2>2, <2>3 DEF TaskInv
<1>10. NoLostWakeup'
  <2>1. \A d \in Cpus : enq[d].step \in {"claim", "lock"}
                       => enq'[d].step \in {"claim", "lock"} /\ enq'[d].task = enq[d].task
    BY <1>4
  <2>2. QED
    BY <1>1, <2>1 DEF NoLostWakeup, InRunQueue
<1>11. QED
  BY <1>5, <1>6, <1>7, <1>8, <1>9, <1>10

\* The end of an enqueue, other than what it changes elsewhere: run_new_task
\* goes on.
LEMMA EndEnqueueMoves ==
  ASSUME IInv, NEW c \in Cpus, EndEnqueue(c), enq[c].step # "none"
  PROVE  /\ enq'[c] = NoEnqueue
         /\ \A d \in Cpus \ {c} : enq'[d] = enq[d]
         /\ enq' \in [Cpus -> Enqueues]
         /\ pc' \in [Tasks -> Steps]
         /\ \A t \in Tasks : \/ pc'[t] = pc[t]
                             \/ pc[t] = "run" /\ pc'[t] = "preempt_point"
         /\ \A d \in Cpus \ {c} : pc'[running[d]] = pc[running[d]]
<1> USE DEF IInv
<1>1. /\ enq \in [Cpus -> Enqueues] /\ pc \in [Tasks -> Steps] /\ running[c] \in Tasks
      /\ NoEnqueue \in Enqueues /\ "preempt_point" \in Steps
  BY DEF TypeOK, Enqueues, NoEnqueue, Steps
<1>2. enq' = [enq EXCEPT ![c] = NoEnqueue]
  BY DEF EndEnqueue
<1>3. \A d \in Cpus \ {c} : running[d] # running[c] /\ running[d] \in Tasks
  BY RunningUnique DEF TypeOK
<1>4. CASE enq[c].spawn
  <2>1. pc[running[c]] = "run" /\ pc' = [pc EXCEPT ![running[c]] = "preempt_point"]
    BY <1>4 DEF EndEnqueue, Goto, EnqueueInv
  <2>2. QED
    BY <1>1, <1>2, <1>3, <2>1
<1>5. CASE ~enq[c].spawn
  BY <1>1, <1>2, <1>5 DEF EndEnqueue
<1>6. QED
  BY <1>4, <1>5

\* An enqueue that has nothing left to do for the queues ends.
LEMMA EndSteps ==
  ASSUME IInv, NEW c \in Cpus, EnqueueStillIn(c) \/ SetNeedPreempt(c)
  PROVE  IInv'
<1> USE NoneIsNone DEF IInv
<1>1. /\ enq[c].step \in {"lock", "flag"} /\ EndEnqueue(c)
      /\ UNCHANGED <<current, queue, cpu, last_cpu, running, previous, switched_to_cpu, call,
                     waiter, has_woken>>
      /\ enq[c].step = "lock" => enq[c].still /\ cpu[enq[c].task] # NoCpu
  BY DEF EnqueueStillIn, SetNeedPreempt, rqVars, switchVars, waitVars
<1>2. /\ enq'[c] = NoEnqueue
      /\ \A d \in Cpus \ {c} : enq'[d] = enq[d]
      /\ enq' \in [Cpus -> Enqueues]
      /\ pc' \in [Tasks -> Steps]
      /\ \A t \in Tasks : \/ pc'[t] = pc[t]
                          \/ pc[t] = "run" /\ pc'[t] = "preempt_point"
      /\ \A d \in Cpus \ {c} : pc'[running[d]] = pc[running[d]]
  BY <1>1, EndEnqueueMoves
<1>3. TypeOK'
  <2>1. need_preempt' \in [Cpus -> BOOLEAN] /\ ipi' \in [Cpus -> BOOLEAN]
    <3>1. need_preempt \in [Cpus -> BOOLEAN] /\ ipi \in [Cpus -> BOOLEAN]
      BY DEF TypeOK
    <3>2. CASE EnqueueStillIn(c)
      BY <3>1, <3>2 DEF EnqueueStillIn, flagVars
    <3>3. CASE SetNeedPreempt(c)
      BY <3>1, <3>3, Zenon DEF SetNeedPreempt
    <3>4. QED
      BY <3>2, <3>3
  <2>2. QED
    BY <1>1, <1>2, <2>1 DEF TypeOK
<1>4. ResidenceInv'
  <2>1. \A d \in Cpus, u \in Tasks : Claims(d, u)' <=> Claims(d, u)
    BY <1>1, <1>2 DEF Claims, NoEnqueue
  <2>2. \A u \in Tasks : InRunQueue(u)' <=> InRunQueue(u)
    BY <1>1, ZenonT(30) DEF InRunQueue
  <2>3. \A d \in Cpus, u \in Tasks : Claims(d, u) => enq'[d] = enq[d]
    BY <1>1, <1>2, ZenonT(30) DEF Claims
  <2>4. ResidenceInv!1'
    BY <1>1, <2>1, <2>2, <2>3 DEF ResidenceInv
  <2>5. ResidenceInv!2'
    BY <1>1, <2>1, <2>2, SMTT(30) DEF ResidenceInv
  <2>6. QED
    BY <2>4, <2>5, Zenon DEF ResidenceInv
<1>5. EnqueueInv'
  BY <1>1, <1>2, SMTT(30) DEF EnqueueInv, Enqueueing, NoEnqueue
<1>6. RunInv'
  <2>1. \A t \in Tasks, s \in {"unborn", "new", "retry", "switch", "switched"} :
          pc'[t] = s <=> pc[t] = s
    BY <1>2
  <2>2. running \in [Cpus -> Tasks]
    BY ZenonT(30) DEF TypeOK
  <2>3. QED
    BY <1>1, <2>1, <2>2 DEF RunInv
<1>7. TaskInv'
  BY <1>1, <1>2 DEF TaskInv
<1>8. NoLostWakeup'
  <2>1. SUFFICES ASSUME NEW t \in Tasks, waiter[t], has_woken[t], ~InRunQueue(t)
                 PROVE  \E d \in Cpus : enq'[d].task = t /\ enq'[d].step \in {"claim", "lock"}
    BY <1>1, ZenonT(30) DEF NoLostWakeup, InRunQueue
  <2>2. PICK d \in Cpus : enq[d].task = t /\ enq[d].step \in {"claim", "lock"}
    BY <2>1, Zenon DEF NoLostWakeup
  <2>3. CASE d # c
    BY <1>2, <2>2, <2>3
  <2>4. CASE d = c
    <3>1. PICK e \in Cpus : Claims(e, t)
      BY <1>1, <2>1, <2>2, <2>4 DEF ResidenceInv
    <3>2. e # c
      BY <1>1, <2>2, <2>4, <3>1 DEF Claims
    <3>3. QED
      BY <1>2, <3>1, <3>2 DEF Claims
  <2>5. QED
    BY <2>3, <2>4
<1>9. QED
  BY <1>3, <1>4, <1>5, <1>6, <1>7, <1>8

\* enqueue puts a task that is nowhere else in the queue of the CPU it claimed,
\* and pushes nobody out: the idle threads are not enqueued.
LEMMA EnqueuePushEffect ==
  ASSUME IInv, NEW c \in Cpus, EnqueuePush(c)
  PROVE  LET t == enq[c].task
             target == enq[c].cpu
         IN  /\ t \in Tasks \ IdleTasks /\ target \in Cpus /\ pc[t] # "unborn"
             /\ ~InRunQueue(t) /\ \A d \in Cpus \ {c} : ~Claims(d, t)
             /\ last_cpu[t] \in {NoCpu, target}
             /\ queue' = [queue EXCEPT ![target] = [@ EXCEPT ![t] = 1]]
<1> USE NoneIsNone DEF IInv
<1> DEFINE t == enq[c].task
           target == enq[c].cpu
<1>1. /\ enq[c].step = "lock" /\ (enq[c].still => cpu[t] = NoCpu)
      /\ queue' = [queue EXCEPT ![target] = EnqueueEntity(@, t)]
  BY ZenonT(30) DEF EnqueuePush
<1>2. /\ t \in Tasks \ IdleTasks /\ target \in Cpus /\ pc[t] # "unborn"
      /\ last_cpu[t] \in {NoCpu, target}
  BY <1>1 DEF EnqueueInv, TypeOK
<1>3. ~InRunQueue(t) /\ \A d \in Cpus \ {c} : ~Claims(d, t)
  <2>1. CASE ~enq[c].still
    <3>1. Claims(c, t)
      BY <1>1, <2>1 DEF Claims
    <3>2. QED
      BY <1>2, <3>1 DEF ResidenceInv
  <2>2. CASE enq[c].still
    <3>1. cpu[t] = NoCpu
      BY <1>1, <2>2
    <3>2. ~InRunQueue(t)
      BY <1>2, <3>1, SMTT(30) DEF ResidenceInv, InRunQueue
    <3>3. \A d \in Cpus : Claims(d, t) => cpu[t] = enq[d].cpu /\ enq[d].cpu \in Cpus
      BY <1>2 DEF ResidenceInv, EnqueueInv, Claims
    <3>4. QED
      BY <3>1, <3>2, <3>3
  <2>3. QED
    BY <2>1, <2>2
<1>4. queue[target] \in [Tasks -> Nat] /\ queue[target][t] = 0
  BY <1>2, <1>3 DEF TypeOK, InRunQueue
<1>5. \A u \in Tasks \ {t} : ~(Policy[t] \in {0, 3} /\ Policy[u] = Policy[t])
  BY <1>2, SchedulerAssumption
<1>6. EnqueueEntity(queue[target], t) = [queue[target] EXCEPT ![t] = 1]
  BY <1>2, <1>4, <1>5, EnqueueEntityFits
<1>7. queue' = [queue EXCEPT ![target] = [@ EXCEPT ![t] = 1]]
  BY <1>1, <1>6
<1>8. QED
  BY <1>2, <1>3, <1>7

\* An enqueue that pushes the task gives it its one place.
LEMMA EnqueuePushStep ==
  ASSUME IInv, NEW c \in Cpus, EnqueuePush(c)
  PROVE  IInv'
<1> USE NoneIsNone DEF IInv
<1> DEFINE t == enq[c].task
           target == enq[c].cpu
<1>1. /\ t \in Tasks \ IdleTasks /\ target \in Cpus /\ pc[t] # "unborn"
      /\ ~InRunQueue(t) /\ \A d \in Cpus \ {c} : ~Claims(d, t)
      /\ last_cpu[t] \in {NoCpu, target}
      /\ queue' = [queue EXCEPT ![target] = [@ EXCEPT ![t] = 1]]
  BY EnqueuePushEffect
<1>2. /\ enq[c].step = "lock"
      /\ cpu' = [cpu EXCEPT ![t] = target] /\ last_cpu' = [last_cpu EXCEPT ![t] = target]
      /\ UNCHANGED <<current, need_preempt, ipi, running, previous, switched_to_cpu, call,
                     waiter, has_woken>>
      /\ \/ enq' = [enq EXCEPT ![c].step = "flag"] /\ UNCHANGED pc
         \/ EndEnqueue(c)
  BY DEF EnqueuePush, flagVars, switchVars, waitVars
<1>3. /\ enq'[c].step \in {"none", "flag"}
      /\ enq'[c].step = "flag" => /\ enq'[c].task = t /\ enq'[c].cpu = target
                                  /\ enq'[c].spawn = enq[c].spawn /\ UNCHANGED pc
      /\ \A d \in Cpus \ {c} : enq'[d] = enq[d]
      /\ enq' \in [Cpus -> Enqueues]
      /\ pc' \in [Tasks -> Steps]
      /\ \A u \in Tasks : \/ pc'[u] = pc[u]
                          \/ pc[u] = "run" /\ pc'[u] = "preempt_point"
      /\ \A d \in Cpus \ {c} : pc'[running[d]] = pc[running[d]]
  <2>1. CASE EndEnqueue(c)
    <3>1. enq'[c].step = "none"
      BY <1>2, <2>1, EndEnqueueMoves DEF NoEnqueue
    <3>2. QED
      BY <1>2, <2>1, <3>1, EndEnqueueMoves
  <2>2. CASE enq' = [enq EXCEPT ![c].step = "flag"] /\ UNCHANGED pc
    <3>1. enq \in [Cpus -> Enqueues] /\ pc \in [Tasks -> Steps] /\ enq[c] \in Enqueues
      BY DEF TypeOK
    <3>2. enq'[c] = [enq[c] EXCEPT !.step = "flag"] /\ \A d \in Cpus \ {c} : enq'[d] = enq[d]
      BY <2>2, <3>1
    <3>3. enq'[c] \in Enqueues
      BY <3>1, <3>2 DEF Enqueues
    <3>4. enq' \in [Cpus -> Enqueues]
      BY <2>2, <3>1, <3>3
    <3>5. /\ enq'[c].step = "flag" /\ enq'[c].task = t /\ enq'[c].cpu = target
          /\ enq'[c].spawn = enq[c].spawn
      BY <3>1, <3>2 DEF Enqueues
    <3>6. QED
      BY <2>2, <3>1, <3>2, <3>4, <3>5
  <2>3. QED
    BY <1>2, <2>1, <2>2
<1>4. /\ queue \in [Cpus -> [Tasks -> Nat]] /\ cpu \in [Tasks -> Cpus \cup {NoCpu}]
      /\ last_cpu \in [Tasks -> Cpus \cup {NoCpu}]
  BY DEF TypeOK
<1>5. TypeOK'
  <2>1. queue' \in [Cpus -> [Tasks -> Nat]] /\ cpu' \in [Tasks -> Cpus \cup {NoCpu}]
    BY <1>1, <1>2, <1>4
  <2>2. last_cpu' \in [Tasks -> Cpus \cup {NoCpu}]
    BY <1>1, <1>2, <1>4
  <2>3. QED
    BY <1>2, <1>3, <2>1, <2>2 DEF TypeOK
<1>6. /\ queue'[target][t] = 1 /\ cpu'[t] = target /\ last_cpu'[t] = target
      /\ \A d \in Cpus, u \in Tasks : d # target \/ u # t => queue'[d][u] = queue[d][u]
      /\ \A u \in Tasks \ {t} : cpu'[u] = cpu[u] /\ last_cpu'[u] = last_cpu[u]
  BY <1>1, <1>2, <1>4
<1>7. \A u \in Tasks : last_cpu[u] # NoCpu => last_cpu'[u] = last_cpu[u]
  BY <1>1, <1>6
<1>8. /\ \A u \in Tasks : InRunQueue(u)' <=> InRunQueue(u) \/ u = t
      /\ \A d \in Cpus, u \in Tasks : Claims(d, u)' <=> d # c /\ Claims(d, u)
      /\ \A d \in Cpus, u \in Tasks : Enqueueing(d, u)' <=> d # c /\ Enqueueing(d, u)
  <2>1. \A u \in Tasks : InRunQueue(u)' <=> InRunQueue(u) \/ u = t
    BY <1>1, <1>2, <1>6 DEF InRunQueue
  <2>2. /\ \A d \in Cpus, u \in Tasks : Claims(d, u)' <=> d # c /\ Claims(d, u)
        /\ \A d \in Cpus, u \in Tasks : Enqueueing(d, u)' <=> d # c /\ Enqueueing(d, u)
    BY <1>3, ZenonT(30) DEF Claims, Enqueueing
  <2>3. QED
    BY <2>1, <2>2, ZenonT(30)
<1>9. ResidenceInv'
  <2>1. \A d \in Cpus : current[d] # t /\ queue[d][t] = 0
    BY <1>1, <1>4, SMTT(30) DEF InRunQueue
  <2>2. ResidenceInv!1'
    <3>1. SUFFICES ASSUME NEW d \in Cpus, NEW u \in Tasks PROVE ResidenceInv!1!(d, u)'
      OBVIOUS
    <3>2. ResidenceInv!1!(d, u)
      BY ZenonT(30) DEF ResidenceInv
    <3>3. CASE u = t
      BY <1>1, <1>2, <1>4, <1>6, <1>8, <2>1, <3>3
    <3>4. CASE u # t
      BY <1>2, <1>3, <1>6, <1>8, <3>2, <3>4 DEF Claims
    <3>5. QED
      BY <3>3, <3>4, ZenonT(30)
  <2>3. ResidenceInv!2'
    <3>1. SUFFICES ASSUME NEW u \in Tasks, cpu'[u] # NoCpu, u # t
                   PROVE  InRunQueue(u)' \/ \E d \in Cpus : Claims(d, u)'
      BY <1>8, ZenonT(30)
    <3>2. InRunQueue(u) \/ \E d \in Cpus : Claims(d, u)
      BY <1>6, <3>1 DEF ResidenceInv
    <3>3. \A d \in Cpus : Claims(d, u) => d # c
      BY <3>1, SMTT(30) DEF Claims
    <3>4. QED
      BY <1>8, <3>2, <3>3
  <2>4. QED
    BY <2>2, <2>3, ZenonT(30) DEF ResidenceInv
<1>10. EnqueueInv'
  <2>1. ASSUME NEW d \in Cpus, d # c PROVE EnqueueInv!(d)'
    <3>1. EnqueueInv!(d) /\ enq'[d] = enq[d] /\ running' = running
      BY <1>2, <1>3, <2>1, ZenonT(30) DEF EnqueueInv
    <3>2. CASE enq[d].step = "none"
      BY <3>1, <3>2, ZenonT(30)
    <3>3. CASE enq[d].step # "none"
      <4>1. enq[d].task \in Tasks /\ pc'[enq[d].task] # "unborn"
        BY <1>3, <3>1, <3>3, Zenon
      <4>2. last_cpu'[enq[d].task] = NoCpu => /\ enq[d].task # t
                                              /\ last_cpu[enq[d].task] = NoCpu
        BY <1>1, <1>6, <4>1
      <4>3. enq[d].step = "lock" /\ last_cpu'[enq[d].task] # NoCpu
              => enq[d].cpu = last_cpu'[enq[d].task]
        <5>1. CASE last_cpu[enq[d].task] # NoCpu
          BY <1>7, <3>1, <4>1, <5>1, Zenon
        <5>2. CASE last_cpu[enq[d].task] = NoCpu
          <6>1. enq[d].step = "lock" => enq[d].task # t
            BY <1>1, <1>2, <2>1, <5>2, ZenonT(30) DEF EnqueueInv, Enqueueing
          <6>2. QED
            BY <1>6, <4>1, <5>2, <6>1
        <5>3. QED
          BY <5>1, <5>2
      <4>4. pc'[running'[d]] = pc[running[d]]
        BY <1>3, <2>1, <3>1, ZenonT(30)
      <4>5. last_cpu'[enq[d].task] = NoCpu => cpu'[enq[d].task] = cpu[enq[d].task]
        BY <1>6, <4>1, <4>2, ZenonT(30)
      <4>6. last_cpu'[enq[d].task] = NoCpu
              => \A f \in Cpus : enq'[f].step \in {"claim", "lock"} /\ enq'[f].task = enq[d].task
                                 => f = d \/ enq[d].step \notin {"claim", "lock"}
        <5>1. SUFFICES ASSUME last_cpu'[enq[d].task] = NoCpu, NEW f \in Cpus,
                              enq'[f].step \in {"claim", "lock"}, enq'[f].task = enq[d].task
                       PROVE  f = d \/ enq[d].step \notin {"claim", "lock"}
          OBVIOUS
        <5>2. enq'[f] = enq[f]
          BY <1>3, <5>1, ZenonT(30)
        <5>3. QED
          BY <3>1, <4>2, <5>1, <5>2, ZenonT(30) DEF Enqueueing
      <4>7. QED
        BY <3>1, <3>3, <4>1, <4>2, <4>3, <4>4, <4>5, <4>6 DEF Enqueueing
    <3>4. QED
      BY <3>2, <3>3
  <2>2. EnqueueInv!(c)'
    <3>1. EnqueueInv!(c)
      BY Zenon DEF EnqueueInv
    <3>2. CASE enq'[c].step = "none"
      BY <3>2, Zenon
    <3>3. CASE enq'[c].step = "flag"
      <4>1. /\ enq'[c].task = t /\ enq'[c].cpu = target /\ enq'[c].spawn = enq[c].spawn
            /\ pc' = pc /\ running' = running
        BY <1>2, <1>3, <3>3, SMTT(30)
      <4>2. QED
        BY <1>1, <1>2, <3>1, <3>3, <4>1
    <3>4. QED
      BY <1>3, <3>2, <3>3, SMTT(30)
  <2>3. QED
    BY <2>1, <2>2, ZenonT(30) DEF EnqueueInv
<1>11. RunInv'
  <2>1. \A u \in Tasks, s \in {"unborn", "new", "retry", "switch", "switched"} :
          pc'[u] = s <=> pc[u] = s
    BY <1>3
  <2>2. running \in [Cpus -> Tasks] /\ previous \in [Cpus -> Tasks \cup {NoTask}]
    BY SMTT(30) DEF TypeOK
  <2>3. \A d \in Cpus : last_cpu'[running[d]] = d
    <3>1. \A d \in Cpus : running[d] \in Tasks /\ last_cpu[running[d]] = d
      BY <2>2, ZenonT(30) DEF RunInv
    <3>2. QED
      BY <1>7, <3>1, SMTT(30)
  <2>4. \A d \in Cpus : previous[d] # NoTask => last_cpu'[previous[d]] = d
    <3>1. SUFFICES ASSUME NEW d \in Cpus, previous[d] # NoTask PROVE last_cpu'[previous[d]] = d
      OBVIOUS
    <3>2. previous[d] \in Tasks /\ last_cpu[previous[d]] = d
      BY <2>2, <3>1 DEF RunInv
    <3>3. QED
      BY <1>7, <3>2
  <2>5. RunInv!1'
    BY <1>2, <2>1, <2>2, <2>3, <2>4 DEF RunInv
  <2>6. RunInv!2'
    BY <1>2, <2>1, SMTT(30) DEF RunInv
  <2>7. QED
    BY <2>5, <2>6, ZenonT(30) DEF RunInv
<1>12. TaskInv'
  <2>1. TaskInv!1'
    <3>1. \A u \in Tasks : pc'[u] \in {"clear", "decide", "switch", "switched", "wait", "unborn"}
                           \/ pc[u] \in {"clear", "decide", "switch", "switched", "wait", "unborn"}
                           => pc'[u] = pc[u]
      BY <1>3
    <3>2. SUFFICES ASSUME NEW u \in Tasks PROVE TaskInv!1!(u)'
      OBVIOUS
    <3>3. TaskInv!1!(u)
      BY DEF TaskInv
    <3>4. QED
      BY <1>1, <1>2, <1>6, <1>7, <3>1, <3>3, ZenonT(30)
  <2>2. TaskInv!2'
    BY <1>1, <1>2, <1>6 DEF TaskInv, IdleTasks
  <2>3. QED
    BY <2>1, <2>2 DEF TaskInv
<1>13. NoLostWakeup'
  <2>1. SUFFICES ASSUME NEW u \in Tasks, waiter[u], has_woken[u], ~InRunQueue(u), u # t
                 PROVE  \E d \in Cpus : enq'[d].task = u /\ enq'[d].step \in {"claim", "lock"}
    BY <1>2, <1>8 DEF NoLostWakeup
  <2>2. PICK d \in Cpus : enq[d].task = u /\ enq[d].step \in {"claim", "lock"}
    BY <2>1 DEF NoLostWakeup
  <2>3. d # c
    BY <2>1, <2>2
  <2>4. QED
    BY <1>3, <2>2, <2>3
<1>14. QED
  BY <1>5, <1>9, <1>10, <1>11, <1>12, <1>13
=============================================================================
