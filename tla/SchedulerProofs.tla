-------------------------- MODULE SchedulerProofs --------------------------
(***************************************************************************)
(* SingleResidence, NoLostWakeup and SwitchProceeds for any number of CPUs *)
(* and tasks: the context switch keeps the invariant as the other steps do,*)
(* so it holds throughout.  From it and from the effect of each step on the*)
(* run queues follows that the scheduler implements TaskPlaces.            *)
(***************************************************************************)
EXTENDS SchedulerEnqueues

\* The context switch: the new current task is on no CPU.
LEMMA SwitchToTaskStep ==
  ASSUME IInv, NEW c \in Cpus, SwitchToTask(c)
  PROVE  IInv'
<1> USE NoneIsNone DEF IInv
<1>1. PICK r \in Tasks, next \in Tasks : r = running[c] /\ next = current[c]
  BY DEF TypeOK, RunInv
<1>2. /\ pc[r] = "switch" /\ enq[c].step = "none"
      /\ switched_to_cpu' = [switched_to_cpu EXCEPT ![next] = TRUE]
      /\ previous' = [previous EXCEPT ![c] = r]
      /\ running' = [running EXCEPT ![c] = next]
      /\ pc' = [pc EXCEPT ![r] = "switched"]
      /\ UNCHANGED <<current, queue, cpu, last_cpu, need_preempt, ipi, call, waiter, has_woken, enq>>
  BY <1>1 DEF SwitchToTask, At, Goto, rqVars, flagVars, waitVars
<1>3. /\ next # r /\ last_cpu[next] = c /\ last_cpu[r] = c /\ previous[c] = NoTask
      /\ \A d \in Cpus : running[d] # next
      /\ pc[next] \in {"new", "switched"}
  <2>1. next # r /\ last_cpu[r] = c /\ previous[c] = NoTask
    BY <1>1, <1>2 DEF RunInv
  <2>2. last_cpu[next] = c
    BY <1>1, Zenon DEF ResidenceInv
  <2>3. \A d \in Cpus : running[d] # next
    BY <1>1, <2>1, <2>2 DEF RunInv
  <2>4. pc[next] # "unborn"
    BY <2>2 DEF TaskInv
  <2>5. QED
    BY <2>1, <2>2, <2>3, <2>4 DEF RunInv
<1>4. /\ pc'[r] = "switched" /\ \A u \in Tasks \ {r} : pc'[u] = pc[u]
      /\ running'[c] = next /\ \A d \in Cpus \ {c} : running'[d] = running[d]
      /\ previous'[c] = r /\ \A d \in Cpus \ {c} : previous'[d] = previous[d]
      /\ \A u \in Tasks \ {next} : switched_to_cpu'[u] = switched_to_cpu[u]
  BY <1>2 DEF TypeOK
<1>5. TypeOK'
  BY <1>2 DEF TypeOK, Steps
<1>6. ResidenceInv'
  BY <1>2, ResidenceUnchanged, Zenon
<1>7. \A d \in Cpus \ {c} : running[d] # r /\ running[d] \in Tasks
  BY <1>1, RunningUnique DEF TypeOK
<1>8. EnqueueInv'
  <2>1. \A u \in Tasks : pc'[u] = "unborn" => pc[u] = "unborn"
    BY <1>2, <1>4
  <2>2. ASSUME NEW d \in Cpus PROVE EnqueueInv!(d)'
    <3>1. UNCHANGED <<enq, last_cpu, cpu>>
      BY <1>2
    <3>2. CASE d = c
      BY <1>2, <3>1, <3>2, ZenonT(30)
    <3>3. CASE d # c
      <4>1. pc'[running'[d]] = pc[running[d]]
        <5>1. running'[d] = running[d]
          BY <1>4, <3>3
        <5>2. QED
          BY <1>4, <1>7, <3>3, <5>1
      <4>2. QED
        BY <2>1, <3>1, <4>1, EnqueueKept, SMTT(30)
    <3>4. QED
      BY <3>2, <3>3, Zenon
  <2>3. QED
    BY <2>2, Zenon DEF EnqueueInv
<1>9. RunInv'
  <2>1. RunInv!1'
    <3>1. SUFFICES ASSUME NEW d \in Cpus PROVE RunInv!1!(d)'
      BY ZenonT(30)
    <3>2. RunInv!1!(d)
      BY DEF RunInv
    <3>3. CASE d = c
      BY <1>1, <1>2, <1>3, <1>4, <3>3
    <3>4. CASE d # c
      <4>1. running'[d] = running[d] /\ previous'[d] = previous[d] /\ UNCHANGED last_cpu
        BY <1>2, <1>4, <3>4
      <4>2. current'[d] = current[d] /\ pc'[running[d]] = pc[running[d]]
        BY <1>2, <1>4, <1>7, <3>4
      <4>3. QED
        BY <4>1, <4>2, RunKept, SMTT(30)
    <3>5. QED
      BY <3>3, <3>4, Zenon
  <2>2. RunInv!2'
    <3>1. SUFFICES ASSUME NEW u \in Tasks PROVE RunInv!2!(u)'
      OBVIOUS
    <3>2. RunInv!2!(u)
      BY Zenon DEF RunInv
    <3>3. (\A d \in Cpus : running'[d] # u) => pc'[u] \in {"unborn", "new", "switched"}
      BY <1>1, <1>3, <1>4, <3>2
    <3>4. switched_to_cpu'[u] => \E d \in Cpus : running'[d] = u \/ previous'[d] = u
      <4>1. CASE u = next
        BY <1>4, <4>1, Zenon
      <4>2. CASE u # next
        BY <1>1, <1>3, <1>4, <3>2, <4>2
      <4>3. QED
        BY <4>1, <4>2
    <3>5. QED
      BY <3>3, <3>4
  <2>3. QED
    BY <2>1, <2>2 DEF RunInv
<1>10. TaskInv'
  <2>1. UNCHANGED <<cpu, last_cpu, waiter, has_woken>>
    BY <1>2
  <2>2. ASSUME NEW u \in Tasks PROVE TaskInv!1!(u)'
    <3>1. CASE u = r
      <4>1. TaskInv!1!(r)
        BY DEF TaskInv
      <4>2. QED
        BY <1>2, <1>4, <2>1, <3>1, <4>1, SMTT(30)
    <3>2. CASE u # r
      <4>1. pc'[u] = pc[u] /\ call'[u] = call[u]
        BY <1>2, <1>4, <3>2, SMTT(30)
      <4>2. QED
        BY <2>1, <4>1, TaskKept, SMTT(30)
    <3>3. QED
      BY <3>1, <3>2, Zenon
  <2>3. ASSUME NEW d \in Cpus PROVE TaskInv!2!(d)'
    <3>1. UNCHANGED call
      BY <1>2
    <3>2. QED
      BY <2>1, <3>1, IdleKept, SMTT(30)
  <2>4. QED
    BY <2>2, <2>3, ZenonT(30) DEF TaskInv
<1>11. NoLostWakeup'
  BY <1>2, WaitersKept
<1>12. QED
  BY <1>5, <1>6, <1>8, <1>9, <1>10, <1>11

\* The end of the switch, on the other side.
LEMMA AfterSwitchingToStep ==
  ASSUME IInv, NEW c \in Cpus, AfterSwitchingTo(c)
  PROVE  IInv'
<1> USE NoneIsNone DEF IInv
<1>1. PICK r \in Tasks : r = running[c]
  BY DEF TypeOK
<1>2. PICK p \in Steps :
        /\ pc[r] \in {"new", "switched"} /\ enq[c].step = "none"
        /\ p \in {"run", "wait", "panicked"} /\ (p = "wait" => call[r] = "park")
        /\ pc' = [pc EXCEPT ![r] = p]
        /\ call' = [call EXCEPT ![r] = "none"]
        /\ switched_to_cpu' = [switched_to_cpu EXCEPT ![previous[c]] = FALSE]
        /\ previous' = [previous EXCEPT ![c] = NoTask]
        /\ UNCHANGED <<current, queue, cpu, last_cpu, need_preempt, ipi, running, waiter,
                       has_woken, enq>>
  <2>1. /\ pc[r] \in {"new", "switched"} /\ enq[c].step = "none"
        /\ pc' = [pc EXCEPT ![r] = IF pc[r] = "new" THEN "run" ELSE Return(r)]
        /\ call' = [call EXCEPT ![r] = "none"]
        /\ switched_to_cpu' = [switched_to_cpu EXCEPT ![previous[c]] = FALSE]
        /\ previous' = [previous EXCEPT ![c] = NoTask]
        /\ UNCHANGED <<current, queue, cpu, last_cpu, need_preempt, ipi, running, waiter,
                       has_woken, enq>>
    BY <1>1, Zenon DEF AfterSwitchingTo, At, Goto, rqVars, flagVars, waitVars
  <2>2. /\ Return(r) \in {"wait", "panicked", "run"}
        /\ Return(r) = "wait" => call[r] = "park"
    BY ReturnType DEF Return, TypeOK
  <2>3. {"run", "wait", "panicked"} \subseteq Steps
    BY DEF Steps
  <2>4. CASE pc[r] = "new"
    BY <2>1, <2>3, <2>4, Zenon
  <2>5. CASE pc[r] # "new"
    BY <2>1, <2>2, <2>3, <2>5, ZenonT(30)
  <2>6. QED
    BY <2>4, <2>5, Zenon
<1>3. previous[c] \in Tasks /\ previous[c] # r
  BY <1>1, <1>2 DEF RunInv, TypeOK
<1>4. /\ pc'[r] = p /\ \A u \in Tasks \ {r} : pc'[u] = pc[u]
      /\ call'[r] = "none" /\ \A u \in Tasks \ {r} : call'[u] = call[u]
      /\ previous'[c] = NoTask /\ \A d \in Cpus \ {c} : previous'[d] = previous[d]
      /\ ~switched_to_cpu'[previous[c]]
      /\ \A u \in Tasks \ {previous[c]} : switched_to_cpu'[u] = switched_to_cpu[u]
  BY <1>2, <1>3 DEF TypeOK
<1>5. TypeOK'
  BY <1>2, <1>3 DEF TypeOK
<1>6. ResidenceInv'
  BY <1>2, ResidenceUnchanged
<1>7. \A d \in Cpus \ {c} : running[d] # r /\ running[d] \in Tasks
  BY <1>1, RunningUnique DEF TypeOK
<1>8. EnqueueInv'
  <2>1. \A u \in Tasks : pc'[u] = "unborn" => pc[u] = "unborn"
    BY <1>2, <1>4
  <2>2. ASSUME NEW d \in Cpus PROVE EnqueueInv!(d)'
    <3>1. UNCHANGED <<enq, last_cpu, cpu>>
      BY <1>2
    <3>2. CASE d = c
      BY <1>2, <3>1, <3>2, ZenonT(30)
    <3>3. CASE d # c
      <4>1. pc'[running'[d]] = pc[running[d]]
        <5>1. running'[d] = running[d]
          BY <1>2, Zenon
        <5>2. QED
          BY <1>4, <1>7, <3>3, <5>1, ZenonT(30)
      <4>2. QED
        BY <2>1, <3>1, <4>1, EnqueueKept, ZenonT(30)
    <3>4. QED
      BY <3>2, <3>3, Zenon
  <2>3. QED
    BY <2>2, Zenon DEF EnqueueInv
<1>9. RunInv'
  <2>1. RunInv!1'
    <3>1. SUFFICES ASSUME NEW d \in Cpus PROVE RunInv!1!(d)'
      OBVIOUS
    <3>2. RunInv!1!(d)
      BY DEF RunInv
    <3>3. CASE d = c
      BY <1>1, <1>2, <1>4, <3>2, <3>3, ZenonT(30)
    <3>4. CASE d # c
      <4>1. running'[d] = running[d] /\ previous'[d] = previous[d] /\ UNCHANGED last_cpu
        BY <1>2, <1>4, <3>4
      <4>2. current'[d] = current[d] /\ pc'[running[d]] = pc[running[d]]
        BY <1>2, <1>4, <1>7, <3>4
      <4>3. QED
        BY <4>1, <4>2, RunKept
    <3>5. QED
      BY <3>3, <3>4, Zenon
  <2>2. RunInv!2'
    <3>1. SUFFICES ASSUME NEW u \in Tasks PROVE RunInv!2!(u)'
      OBVIOUS
    <3>2. RunInv!2!(u)
      BY DEF RunInv
    <3>3. (\A d \in Cpus : running'[d] # u) => pc'[u] \in {"unborn", "new", "switched"}
      BY <1>1, <1>2, <1>4, <3>2, ZenonT(30)
    <3>4. switched_to_cpu'[u] => \E d \in Cpus : running'[d] = u \/ previous'[d] = u
      BY <1>2, <1>4, <3>2, ZenonT(30)
    <3>5. QED
      BY <3>3, <3>4
  <2>3. QED
    BY <2>1, <2>2, Zenon DEF RunInv
<1>10. TaskInv'
  <2>1. UNCHANGED <<cpu, last_cpu, waiter, has_woken>>
    BY <1>2
  <2>2. ASSUME NEW u \in Tasks PROVE TaskInv!1!(u)'
    <3>1. CASE u = r
      <4>1. TaskInv!1!(r)
        BY ZenonT(30) DEF TaskInv
      <4>2. QED
        BY <1>2, <1>4, <2>1, <3>1, <4>1
    <3>2. CASE u # r
      <4>1. pc'[u] = pc[u] /\ call'[u] = call[u]
        BY <1>2, <1>4, <3>2, ZenonT(30)
      <4>2. QED
        BY <2>1, <4>1, TaskKept, SMTT(30)
    <3>3. QED
      BY <3>1, <3>2, Zenon
  <2>3. ASSUME NEW d \in Cpus PROVE TaskInv!2!(d)'
    <3>1. TaskInv!2!(d) /\ IdleTask[d] \in Tasks
      BY SchedulerAssumption, SMTT(30) DEF TaskInv
    <3>2. call'[IdleTask[d]] \in {"none", "preempt"}
      BY <1>4, <3>1, ZenonT(30)
    <3>3. QED
      BY <2>1, <3>1, <3>2, ZenonT(30)
  <2>4. QED
    BY <2>2, <2>3, Zenon DEF TaskInv
<1>11. NoLostWakeup'
  BY <1>2, WaitersKept, Zenon
<1>12. QED
  BY <1>5, <1>6, <1>8, <1>9, <1>10, <1>11

-----------------------------------------------------------------------------
\* Every step keeps the invariant.
LEMMA NextIInv == IInv /\ [Next]_vars => IInv'
<1> SUFFICES ASSUME IInv, [Next]_vars PROVE IInv'
  OBVIOUS
<1>1. CASE UNCHANGED vars
  <2>1. UNCHANGED <<current, queue, cpu, last_cpu, need_preempt, ipi, running, previous,
                    switched_to_cpu, pc, call, waiter, has_woken, enq>>
    BY <1>1 DEF vars, rqVars, flagVars, switchVars, waitVars
  <2>2. TypeOK'
    BY <2>1 DEF IInv, TypeOK
  <2>3. ResidenceInv'
    BY <2>1, ResidenceUnchanged DEF IInv
  <2>4. EnqueueInv'
    <3>1. ASSUME NEW d \in Cpus PROVE EnqueueInv!(d)'
      BY <2>1, EnqueueKept, ZenonT(30) DEF IInv
    <3>2. QED
      BY <3>1, ZenonT(30) DEF EnqueueInv
  <2>5. RunInv'
    <3>1. UNCHANGED <<current, running, previous, last_cpu, pc, switched_to_cpu>>
      BY <2>1
    <3>2. QED
      BY <3>1 DEF IInv, RunInv
  <2>6. TaskInv'
    <3>1. UNCHANGED <<pc, call, waiter, has_woken, cpu, last_cpu>>
      BY <2>1
    <3>2. QED
      BY <3>1 DEF IInv, TaskInv
  <2>7. NoLostWakeup'
    BY <2>1, WaitersKept DEF IInv
  <2>8. QED
    BY <2>2, <2>3, <2>4, <2>5, <2>6, <2>7 DEF IInv
<1>2. CASE Next
  <2>1. PICK c \in Cpus : \/ TaskStep(c) \/ EnqueueStep(c) \/ TaskChoice(c)
                          \/ Tick(c) \/ DoInterProcessorCall(c)
    BY <1>2 DEF Next
  <2>2. CASE TaskStep(c)
    BY <2>2, OwnSteps, DecideSteps, SwitchToTaskStep, AfterSwitchingToStep DEF TaskStep
  <2>3. CASE EnqueueStep(c)
    BY <2>3, EnqueueClaimStep, EndSteps, EnqueuePushStep DEF EnqueueStep
  <2>4. CASE TaskChoice(c)
    BY <2>4, OwnSteps, WakeUpStep, RunNewTaskStep DEF TaskChoice
  <2>5. CASE Tick(c) \/ DoInterProcessorCall(c)
    BY <2>5, InterruptSteps
  <2>6. QED
    BY <2>1, <2>2, <2>3, <2>4, <2>5
<1>3. QED
  BY <1>1, <1>2

\* The run queues, the running tasks and the enqueues stay consistent.
THEOREM InvariantHolds == Spec => []IInv
<1>1. QED
  BY InitIInv, NextIInv, PTL DEF Spec

\* A task is in at most one place of one run queue, for any number of CPUs that
\* wake, park, preempt and enqueue at the same time.
THEOREM ResidenceHolds == Spec => [](TypeOK /\ SingleResidence)
<1>1. IInv => TypeOK /\ SingleResidence
  BY Zenon DEF IInv, ResidenceInv, SingleResidence
<1>2. QED
  BY <1>1, InvariantHolds, PTL

\* No wake-up is lost between the has_unparked test, dequeue_current and enqueue.
THEOREM NoWakeupIsLost == Spec => []NoLostWakeup
<1>1. IInv => NoLostWakeup
  BY DEF IInv
<1>2. QED
  BY <1>1, InvariantHolds, PTL

\* switch_to_task never waits for another CPU and always has a task to switch to.
THEOREM SwitchesProceed == Spec => []SwitchProceeds
<1>1. IInv => SwitchProceeds
  <2> SUFFICES ASSUME IInv, NEW c \in Cpus
               PROVE  /\ pc[running[c]] # "retry"
                      /\ pc[running[c]] = "switch" => /\ current[c] \in Tasks
                                                      /\ ~switched_to_cpu[current[c]]
                      /\ \A d \in Cpus : running[c] = running[d] => c = d
    BY DEF SwitchProceeds
  <2> USE NoneIsNone DEF IInv
  <2>1. pc[running[c]] # "retry" /\ current[c] \in Tasks
    BY DEF RunInv
  <2>2. \A d \in Cpus : running[c] = running[d] => c = d
    BY RunningUnique
  <2>3. ASSUME pc[running[c]] = "switch", switched_to_cpu[current[c]] PROVE FALSE
    <3>1. current[c] # running[c] /\ previous[c] = NoTask
      BY <2>3 DEF RunInv
    <3>2. last_cpu[current[c]] = c
      BY <2>1 DEF ResidenceInv
    <3>3. PICK d \in Cpus : running[d] = current[c] \/ previous[d] = current[c]
      BY <2>1, <2>3 DEF RunInv
    <3>4. previous[d] = current[c] => previous[d] # NoTask
      BY <2>1
    <3>5. last_cpu[current[c]] = d
      BY <3>3, <3>4 DEF RunInv
    <3>6. QED
      BY <2>1, <3>1, <3>2, <3>3, <3>5
  <2>4. QED
    BY <2>1, <2>2, <2>3
<1>2. QED
  BY <1>1, InvariantHolds, PTL

-----------------------------------------------------------------------------
(* The refinement: every step claims a task, inserts one, replaces the     *)
(* current task of a CPU, or leaves all places as they are.                *)

\* Whether t is the current task of a CPU, and whether it is in a queue.
IsCurrent(t) == \E c \in Cpus : current[c] = t

IsReady(t) == \E c \in Cpus : queue[c][t] > 0

\* The place of a task is told by these two and by its cpu.
LEMMA PlaceCases ==
  ASSUME NEW t
  PROVE  /\ IsCurrent(t) => Place(t) = "current"
         /\ ~IsCurrent(t) /\ IsReady(t) => Place(t) = "ready"
         /\ ~IsCurrent(t) /\ ~IsReady(t) /\ cpu[t] # NoCpu => Place(t) = "claimed"
         /\ ~IsCurrent(t) /\ ~IsReady(t) /\ cpu[t] = NoCpu => Place(t) = "absent"
BY DEF Place, IsCurrent, IsReady

\* The same for the next state.
LEMMA PlaceCasesNext ==
  ASSUME NEW t
  PROVE  /\ IsCurrent(t)' => Place(t)' = "current"
         /\ ~IsCurrent(t)' /\ IsReady(t)' => Place(t)' = "ready"
         /\ ~IsCurrent(t)' /\ ~IsReady(t)' /\ cpu'[t] # NoCpu => Place(t)' = "claimed"
         /\ ~IsCurrent(t)' /\ ~IsReady(t)' /\ cpu'[t] = NoCpu => Place(t)' = "absent"
BY DEF Place, IsCurrent, IsReady

\* A step that touches no run queue moves no task.
LEMMA PlacesUnchanged ==
  ASSUME UNCHANGED <<current, queue, cpu, last_cpu>>
  PROVE  UNCHANGED TP!placeVars
BY DEF TP!placeVars, Place

-----------------------------------------------------------------------------
\* Initially the idle threads are current, each on its own CPU, and all other
\* tasks are absent.
LEMMA InitRefines == Init => TP!PlacesInit
<1> SUFFICES ASSUME Init PROVE TP!PlacesInit
  OBVIOUS
<1> USE SchedulerAssumption
<1>1. TypeOK /\ ResidenceInv /\ TaskInv
  BY InitIInv DEF IInv
<1>2. \A t \in Tasks : Place(t) \in {"absent", "claimed", "ready", "current"}
  BY ZenonT(30) DEF Place
<1>3. \A t \in Tasks : t \in IdleTasks => Place(t) = "current" /\ last_cpu[t] \in Cpus
  <2>1. SUFFICES ASSUME NEW c \in Cpus
                 PROVE  Place(IdleTask[c]) = "current" /\ last_cpu[IdleTask[c]] = c
    BY DEF IdleTasks
  <2>2. IsCurrent(IdleTask[c])
    BY DEF Init, IsCurrent
  <2>3. QED
    BY <1>1, <2>2, PlaceCases DEF TaskInv
<1>4. \A t \in Tasks : t \notin IdleTasks => Place(t) = "absent" /\ last_cpu[t] = NoCpu
  <2>1. SUFFICES ASSUME NEW t \in Tasks, t \notin IdleTasks
                 PROVE  Place(t) = "absent" /\ last_cpu[t] = NoCpu
    OBVIOUS
  <2>2. cpu[t] = NoCpu /\ last_cpu[t] = NoCpu
    BY <2>1 DEF Init
  <2>3. ~IsCurrent(t) /\ ~IsReady(t)
    BY <2>1 DEF Init, IsCurrent, IsReady, IdleTasks
  <2>4. QED
    BY <2>2, <2>3, PlaceCases
<1>5. \A t, u \in IdleTasks : t # u => last_cpu[t] # last_cpu[u]
  BY <1>1 DEF IdleTasks, TaskInv
<1>6. last_cpu \in [Tasks -> Cpus \cup {NoCpu}]
  BY <1>1 DEF TypeOK
<1>7. QED
  BY <1>2, <1>3, <1>4, <1>5, <1>6 DEF TP!PlacesInit, TP!PlacesTypeOK, TP!Places

-----------------------------------------------------------------------------
\* An enqueue that finds the task in no run queue claims it; one that finds it
\* in a run queue changes nothing.
LEMMA ClaimRefines ==
  ASSUME IInv, NEW c \in Cpus, EnqueueClaim(c)
  PROVE  [TP!PlacesNext]_(TP!placeVars)
<1>1. UNCHANGED <<current, queue, last_cpu>>
  BY DEF EnqueueClaim
<1> PICK t \in Tasks : t = enq[c].task
  BY DEF EnqueueClaim, IInv, EnqueueInv
<1>2. CASE UNCHANGED cpu
  BY <1>1, <1>2, PlacesUnchanged
<1>3. CASE cpu[t] = NoCpu
  <2>1. PICK target \in Cpus : cpu' = [cpu EXCEPT ![t] = target]
    <3>1. PICK selected \in SelectCpu(t) : cpu' = [cpu EXCEPT ![t] = selected]
      BY <1>3 DEF EnqueueClaim
    <3>2. selected \in Cpus
      BY SchedulerAssumption DEF SelectCpu, IInv, TypeOK
    <3>3. QED
      BY <3>1, <3>2, Zenon
  <2>2. cpu'[t] # NoCpu /\ \A u \in Tasks \ {t} : cpu'[u] = cpu[u]
    BY <1>1, <2>1, SchedulerAssumption, ZenonT(30) DEF IInv, TypeOK
  <2>3. ~IsCurrent(t) /\ ~IsReady(t)
    BY <1>1, <1>3, SchedulerAssumption, SMTT(30) DEF IsCurrent, IsReady, IInv, ResidenceInv
  <2>4. \A u \in Tasks : IsCurrent(u)' = IsCurrent(u) /\ IsReady(u)' = IsReady(u)
    BY <1>1 DEF IsCurrent, IsReady
  <2>5. Place(t) = "absent" /\ Place(t)' = "claimed"
    BY <1>1, <1>3, <2>2, <2>3, <2>4, PlaceCases, PlaceCasesNext
  <2>6. \A u \in Tasks \ {t} : Place(u)' = Place(u)
    BY <1>1, <2>2 DEF Place
  <2>7. TP!Claim(t)
    BY <1>1, <2>5, <2>6 DEF TP!Claim
  <2>8. QED
    BY <1>1, <2>7 DEF TP!PlacesNext
<1>4. QED
  BY <1>2, <1>3 DEF EnqueueClaim

\* An enqueue that pushes the task inserts it, on the CPU it has been on.
LEMMA PushRefines ==
  ASSUME IInv, NEW c \in Cpus, EnqueuePush(c)
  PROVE  TP!PlacesNext
<1> USE SchedulerAssumption
<1>1. PICK t \in Tasks, target \in Cpus :
        /\ t = enq[c].task /\ target = enq[c].cpu /\ ~InRunQueue(t)
        /\ last_cpu[t] \in {NoCpu, target}
        /\ queue' = [queue EXCEPT ![target] = [@ EXCEPT ![t] = 1]]
  <2>1. /\ enq[c].task \in Tasks /\ enq[c].cpu \in Cpus /\ ~InRunQueue(enq[c].task)
        /\ last_cpu[enq[c].task] \in {NoCpu, enq[c].cpu}
        /\ queue' = [queue EXCEPT ![enq[c].cpu] = [@ EXCEPT ![enq[c].task] = 1]]
    BY EnqueuePushEffect, ZenonT(30)
  <2>2. QED
    BY <2>1, Zenon
<1>2. /\ cpu' = [cpu EXCEPT ![t] = target]
      /\ last_cpu' = [last_cpu EXCEPT ![t] = target]
      /\ UNCHANGED current
  BY <1>1 DEF EnqueuePush
<1>3. /\ queue'[target][t] = 1
      /\ \A d \in Cpus, u \in Tasks \ {t} : queue'[d][u] = queue[d][u]
      /\ \A u \in Tasks \ {t} : cpu'[u] = cpu[u]
  BY <1>1, <1>2 DEF IInv, TypeOK
<1>4. Place(t) \in {"absent", "claimed"}
  <2>1. ~IsCurrent(t) /\ ~IsReady(t)
    BY <1>1 DEF InRunQueue, IsCurrent, IsReady
  <2>2. QED
    BY <2>1, PlaceCases
<1>5. Place(t)' = "ready"
  <2>1. ~IsCurrent(t)' /\ IsReady(t)'
    BY <1>1, <1>2, <1>3 DEF InRunQueue, IsCurrent, IsReady
  <2>2. QED
    BY <2>1, PlaceCasesNext, ZenonT(30)
<1>6. \A u \in Tasks \ {t} : Place(u)' = Place(u)
  <2>1. SUFFICES ASSUME NEW u \in Tasks \ {t} PROVE Place(u)' = Place(u)
    OBVIOUS
  <2>2. (IsCurrent(u)' <=> IsCurrent(u)) /\ (IsReady(u)' <=> IsReady(u)) /\ cpu'[u] = cpu[u]
    BY <1>2, <1>3 DEF IsCurrent, IsReady
  <2>3. QED
    BY <2>2, PlaceCases, PlaceCasesNext, Zenon
<1>7. TP!Insert(t, target)
  BY <1>1, <1>2, <1>4, <1>5, <1>6 DEF TP!Insert
<1>8. QED
  BY <1>1, <1>7 DEF TP!PlacesNext

\* A decision to switch replaces the current task by a ready one of the CPU.
LEMMA ReplacesRefines ==
  ASSUME IInv, NEW c \in Cpus, At(c, "decide"), NEW next \in Queued(c), NEW leaves \in BOOLEAN,
         Replaces(c, next, leaves)
  PROVE  TP!PlacesNext
<1>1. PICK r \in Tasks : r = running[c]
  BY DecidingState, SMTT(30)
<1>2. /\ current[c] = r /\ queue[c][r] = 0 /\ cpu[r] = c /\ last_cpu[r] = c
  BY <1>1, DecidingState, ZenonT(30) DEF IInv, ResidenceInv
<1>3. next \in Tasks /\ queue[c][next] = 1 /\ next # r /\ cpu[next] = c /\ last_cpu[next] = c
  BY <1>2, SMTT(30) DEF Queued, IInv, ResidenceInv
<1>4. /\ current'[c] = next /\ \A d \in Cpus \ {c} : current'[d] = current[d]
      /\ \A d \in Cpus \ {c} : queue'[d] = queue[d]
      /\ queue'[c][r] = (IF leaves THEN 0 ELSE 1)
      /\ \A u \in Tasks \ {next, r} : queue'[c][u] = queue[c][u]
      /\ cpu'[r] = (IF leaves THEN NoCpu ELSE c)
      /\ \A u \in Tasks \ {r} : cpu'[u] = cpu[u]
      /\ last_cpu' = last_cpu
  BY <1>1, <1>2, <1>3, ZenonT(30) DEF Replaces, IInv, TypeOK
<1>5. \A d \in Cpus \ {c} : current[d] # r /\ current[d] # next
                            /\ ~(queue[d][r] > 0) /\ ~(queue[d][next] > 0)
  <2>1. \A d \in Cpus, u \in Tasks : current[d] = u \/ queue[d][u] > 0 => cpu[u] = d
    BY ZenonT(30) DEF IInv, ResidenceInv
  <2>2. QED
    BY <1>2, <1>3, <2>1
<1>6. Place(r) = "current" /\ Place(next) = "ready"
  <2>1. IsCurrent(r) /\ ~IsCurrent(next) /\ IsReady(next)
    BY <1>2, <1>3, <1>5 DEF IsCurrent, IsReady
  <2>2. QED
    BY <2>1, PlaceCases
<1>7. Place(next)' = "current"
  <2>1. IsCurrent(next)'
    BY <1>4 DEF IsCurrent
  <2>2. QED
    BY <2>1, PlaceCasesNext
<1>8. Place(r)' = IF leaves THEN "absent" ELSE "ready"
  <2>1. ~IsCurrent(r)'
    BY <1>3, <1>4, <1>5, ZenonT(30) DEF IsCurrent
  <2>2. CASE leaves
    <3>1. ~IsReady(r)'
      BY <1>4, <1>5, <2>2 DEF IsReady
    <3>2. cpu'[r] = NoCpu
      BY <1>4, <2>2, Zenon
    <3>3. Place(r)' = "absent"
      BY <2>1, <3>1, <3>2, PlaceCasesNext, Zenon
    <3>4. QED
      BY <2>2, <3>3, Zenon
  <2>3. CASE ~leaves
    <3>1. IsReady(r)'
      BY <1>4, <2>3 DEF IsReady
    <3>2. Place(r)' = "ready"
      BY <2>1, <3>1, PlaceCasesNext, Zenon
    <3>3. QED
      BY <2>3, <3>2, Zenon
  <2>4. QED
    BY <2>2, <2>3, Zenon
<1>9. \A u \in Tasks \ {r, next} : Place(u)' = Place(u)
  <2>1. SUFFICES ASSUME NEW u \in Tasks \ {r, next} PROVE Place(u)' = Place(u)
    BY SMTT(30)
  <2>2. IsCurrent(u)' <=> IsCurrent(u)
    BY <1>2, <1>4, SMTT(30) DEF IsCurrent
  <2>3. IsReady(u)' <=> IsReady(u)
    BY <1>4 DEF IsReady
  <2>4. cpu'[u] = cpu[u]
    BY <1>4, SMTT(30)
  <2>5. QED
    BY <2>2, <2>3, <2>4, PlaceCases, PlaceCasesNext
<1>10. TP!Replace(r, next)
  <2>1. \E p \in {"ready", "absent"} :
          [t \in Tasks |-> Place(t)]' = [[t \in Tasks |-> Place(t)] EXCEPT ![r] = p,
                                                                           ![next] = "current"]
    BY <1>3, <1>7, <1>8, <1>9, ZenonT(30)
  <2>2. QED
    BY <1>2, <1>3, <1>4, <1>6, <2>1, Zenon DEF TP!Replace
<1>11. QED
  BY <1>3, <1>10 DEF TP!PlacesNext

\* The four decisions of reschedule switch or leave the run queue alone.
LEMMA DecideRefines ==
  ASSUME IInv, NEW c \in Cpus,
         DecidePreempt(c) \/ DecideYield(c) \/ DecidePark(c) \/ DecideExit(c)
  PROVE  [TP!PlacesNext]_(TP!placeVars)
<1> DEFINE r == running[c]
<1>1. At(c, "decide")
  BY DEF DecidePreempt, DecideYield, DecidePark, DecideExit, Deciding
<1>2. CASE DoNothing(c)
  BY <1>2, PlacesUnchanged DEF DoNothing, rqVars
<1>3. CASE \E next \in PickNextEntity(c) : SwitchTo(c, next)
  <2>1. PICK next \in PickNextEntity(c) : SwitchTo(c, next)
    BY <1>3
  <2>2. next \in Queued(c) /\ Replaces(c, next, FALSE)
    BY <1>1, <2>1, SwitchToEffect, Zenon
  <2>3. QED
    BY <1>1, <2>2, ReplacesRefines, Zenon
<1>4. CASE DequeueAndPick(c) /\ call[r] \in {"park", "exit"}
  <2>1. PICK next \in Queued(c) : Replaces(c, next, TRUE)
    BY <1>1, <1>4, DequeueAndPickEffect, Zenon
  <2>2. QED
    BY <1>1, <2>1, ReplacesRefines, Zenon
<1>5. QED
  BY <1>2, <1>3, <1>4, ZenonT(30) DEF DecidePreempt, DecideYield, DecidePark, DecideExit, Deciding

\* Every step of the scheduler is a step of the task places or a stutter.
LEMMA NextRefines == IInv /\ [Next]_vars => [TP!PlacesNext]_(TP!placeVars)
<1> SUFFICES ASSUME IInv, [Next]_vars PROVE [TP!PlacesNext]_(TP!placeVars)
  OBVIOUS
<1>1. CASE UNCHANGED vars
  BY <1>1, PlacesUnchanged DEF vars, rqVars
<1>2. CASE Next
  <2>1. PICK c \in Cpus : \/ TaskStep(c) \/ EnqueueStep(c) \/ TaskChoice(c)
                          \/ Tick(c) \/ DoInterProcessorCall(c)
    BY <1>2 DEF Next
  <2>2. CASE TaskStep(c)
    <3>1. CASE DecidePreempt(c) \/ DecideYield(c) \/ DecidePark(c) \/ DecideExit(c)
      BY <3>1, DecideRefines, ZenonT(30)
    <3>2. CASE \/ DoWait(c) \/ MightPreempt(c) \/ HaltCpu(c) \/ EnableLocalAndHalt(c)
               \/ ClearNeedPreempt(c) \/ SwitchToTask(c) \/ AfterSwitchingTo(c)
      BY <3>2, PlacesUnchanged, Zenon DEF DoWait, MightPreempt, HaltCpu, EnableLocalAndHalt,
         ClearNeedPreempt, SwitchToTask, AfterSwitchingTo, rqVars
    <3>3. QED
      BY <2>2, <3>1, <3>2 DEF TaskStep
  <2>3. CASE EnqueueStep(c)
    <3>1. CASE EnqueueStillIn(c) \/ SetNeedPreempt(c)
      BY <3>1, PlacesUnchanged, SMTT(30) DEF EnqueueStillIn, SetNeedPreempt, rqVars
    <3>2. QED
      BY <2>3, <3>1, ClaimRefines, PushRefines, SMTT(30) DEF EnqueueStep
  <2>4. CASE TaskChoice(c)
    BY <2>4, PlacesUnchanged, Zenon DEF TaskChoice, NewWaiter, DropWaiter, Wait, YieldNow, ExitCurrent,
       ReturnToUser, WakeUp, RunNewTask, rqVars
  <2>5. CASE Tick(c) \/ DoInterProcessorCall(c)
    BY <2>5, PlacesUnchanged DEF Tick, DoInterProcessorCall, rqVars
  <2>6. QED
    BY <2>1, <2>2, <2>3, <2>4, <2>5
<1>3. QED
  BY <1>1, <1>2

\* The scheduler implements the task places, whatever CPUs, tasks, policies
\* and affinities there are.
THEOREM SchedulerRefines == Spec => ImplementsTaskPlaces
<1>1. Spec => TP!PlacesInit
  BY InitRefines DEF Spec
<1>2. Spec => [][TP!PlacesNext]_(TP!placeVars)
  BY InvariantHolds, NextRefines, PTL DEF Spec
<1>3. QED
  BY <1>1, <1>2 DEF ImplementsTaskPlaces, TP!PlacesSpec
=============================================================================
