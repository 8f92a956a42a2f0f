--------------------------- MODULE LifetimeProofs ---------------------------
(***************************************************************************)
(* Proofs about what has to stay until nobody needs it any more: an object *)
(* under RCU, for any CPUs and objects; a snapshot of the edit journal,    *)
(* for any ring and any number of crashes; a frame, for any finite set of  *)
(* handles and any limit of the reference count.                           *)
(***************************************************************************)
EXTENDS RcuMonitor, EditJournal, Frame, FiniteSetTheorems, TLAPS

-----------------------------------------------------------------------------
(* RcuMonitor.                                                             *)

\* The steps of the slot keep the invariant.
LEMMA SlotSteps ==
  ASSUME RcuTypeOK, GracePeriodInv,
         \/ \E c \in Cpus : Read(c) \/ ReadEnd(c)
         \/ \E new \in Objects \cup {Null} : Swap(new)
         \/ DropInner
  PROVE  RcuTypeOK' /\ GracePeriodInv'
<1> USE RcuAssumption
<1>1. CASE \E c \in Cpus : Read(c)
  BY <1>1 DEF RcuTypeOK, GracePeriodInv, Read, monVars
<1>2. CASE \E c \in Cpus : ReadEnd(c)
  BY <1>2 DEF RcuTypeOK, GracePeriodInv, ReadEnd, monVars
<1>3. CASE \E new \in Objects \cup {Null} : Swap(new)
  <2>1. PICK new \in Objects \cup {Null} : Swap(new)
    BY <1>3
  <2>2. RcuTypeOK'
    BY <2>1 DEF RcuTypeOK, Swap, monVars
  <2>3. QED
    BY <2>1, <2>2 DEF RcuTypeOK, GracePeriodInv, Swap, monVars
<1>4. CASE DropInner
  BY <1>4 DEF RcuTypeOK, GracePeriodInv, DropInner, monVars
<1>5. QED
  BY <1>1, <1>2, <1>3, <1>4

\* The steps of the monitor keep the invariant.
LEMMA MonitorSteps ==
  ASSUME RcuTypeOK, GracePeriodInv,
         \/ \E c \in Cpus : CheckMonitoring(c) \/ FinishGracePeriod(c)
         \/ \E o \in Objects : AfterGracePeriod(o) \/ Invoke(o)
  PROVE  RcuTypeOK' /\ GracePeriodInv'
<1>1. CASE \E c \in Cpus : CheckMonitoring(c)
  BY <1>1 DEF RcuTypeOK, GracePeriodInv, CheckMonitoring, monVars, slotVars
<1>2. CASE \E c \in Cpus : FinishGracePeriod(c)
  <2>1. PICK c \in Cpus : FinishGracePeriod(c)
    BY <1>2
  <2>2. RcuTypeOK'
    BY <2>1 DEF RcuTypeOK, FinishGracePeriod, Restart, monVars, slotVars
  <2>3. /\ UNCHANGED <<ptr, reading, status, unregistered>>
        /\ reading[c] = {}
    BY <2>1 DEF FinishGracePeriod, slotVars
  <2>4. CASE is_complete
    <3>1. UNCHANGED <<is_monitoring, is_complete, cpu_mask, callbacks, next_callbacks, invoking>>
      BY <2>1, <2>4 DEF FinishGracePeriod, monVars
    <3> QED
      BY <2>2, <2>3, <3>1 DEF GracePeriodInv
  <2>5. CASE ~is_complete /\ cpu_mask \cup {c} # Cpus
    <3>1. /\ cpu_mask' = cpu_mask \cup {c}
          /\ UNCHANGED <<is_monitoring, is_complete, callbacks, next_callbacks, invoking>>
      BY <2>1, <2>5 DEF FinishGracePeriod
    <3> QED
      BY <2>2, <2>3, <3>1 DEF GracePeriodInv
  <2>6. CASE ~is_complete /\ cpu_mask \cup {c} = Cpus
    <3>1. /\ invoking' = invoking \cup callbacks /\ next_callbacks' = {}
          /\ callbacks' = next_callbacks
          /\ \/ cpu_mask' = {} /\ ~is_complete' /\ is_monitoring' = is_monitoring
             \/ next_callbacks = {} /\ is_complete' /\ ~is_monitoring'
      BY <2>1, <2>6 DEF FinishGracePeriod, Restart
    <3>2. \A d \in Cpus : \A o \in reading[d] : o \notin callbacks
      BY <2>3, <2>6 DEF GracePeriodInv
    <3>3. \A d \in Cpus : \A o \in reading'[d] :
            status'[o] # "free" /\ o \notin invoking' /\ (o \in callbacks' => d \notin cpu_mask')
      BY <2>3, <3>1, <3>2 DEF GracePeriodInv
    <3>4. is_monitoring' <=> ~is_complete'
      BY <2>2, <2>6, <3>1 DEF GracePeriodInv, RcuTypeOK
    <3> QED
      BY <2>2, <2>3, <3>1, <3>3, <3>4 DEF GracePeriodInv
  <2>7. QED
    BY <2>4, <2>5, <2>6
<1>3. CASE \E o \in Objects : AfterGracePeriod(o)
  <2>1. PICK o \in Objects : AfterGracePeriod(o)
    BY <1>3
  <2>2. CASE is_complete
    <3>1. callbacks = {} /\ next_callbacks = {}
      BY <2>2 DEF GracePeriodInv
    <3>2. /\ callbacks' = {o} /\ next_callbacks' = {} /\ cpu_mask' = {}
          /\ is_complete' = FALSE /\ is_monitoring' = TRUE
      BY <2>1, <2>2, <3>1 DEF AfterGracePeriod, Restart
    <3>3. RcuTypeOK'
      BY <2>1, <3>2 DEF RcuTypeOK, AfterGracePeriod, slotVars
    <3>4. QED
      BY <2>1, <3>1, <3>2, <3>3 DEF RcuTypeOK, GracePeriodInv, AfterGracePeriod, slotVars
  <2>3. CASE ~is_complete
    BY <2>1, <2>3 DEF RcuTypeOK, GracePeriodInv, AfterGracePeriod, slotVars
  <2>4. QED
    BY <2>2, <2>3
<1>4. CASE \E o \in Objects : Invoke(o)
  BY <1>4 DEF RcuTypeOK, GracePeriodInv, Invoke, monVars
<1>5. QED
  BY <1>1, <1>2, <1>3, <1>4

\* Grace periods are accounted for as GracePeriodInv says, in every behaviour.
THEOREM GracePeriodsHold == RcuSpec => [](RcuTypeOK /\ GracePeriodInv)
<1>1. RcuInit => RcuTypeOK /\ GracePeriodInv
  BY RcuAssumption DEF RcuInit, RcuTypeOK, GracePeriodInv
<1>2. RcuTypeOK /\ GracePeriodInv /\ [RcuNext]_rcuVars => RcuTypeOK' /\ GracePeriodInv'
  <2>1. ASSUME RcuTypeOK, GracePeriodInv, RcuNext PROVE RcuTypeOK' /\ GracePeriodInv'
    BY <2>1, SlotSteps, MonitorSteps DEF RcuNext, Update, CompareExchange
  <2>2. ASSUME RcuTypeOK, GracePeriodInv, UNCHANGED rcuVars PROVE RcuTypeOK' /\ GracePeriodInv'
    BY <2>2 DEF RcuTypeOK, GracePeriodInv, rcuVars, slotVars, monVars
  <2>3. QED
    BY <2>1, <2>2
<1>3. QED
  BY <1>1, <1>2, PTL DEF RcuSpec

\* The monitor's sets stay sets of objects and of CPUs.
THEOREM RcuTyped == RcuSpec => []RcuTypeOK
  BY GracePeriodsHold, PTL

\* No read-side critical section holds a dropped object.
THEOREM ReadersAreSafe == RcuSpec => []NoUseAfterDrop
<1>1. GracePeriodInv => NoUseAfterDrop
  BY DEF GracePeriodInv, NoUseAfterDrop
<1>2. QED
  BY <1>1, GracePeriodsHold, PTL

\* The monitor implements the abstract RCU.
THEOREM MonitorImplementsRcu == RcuSpec => ImplementsRcu
<1>1. RcuInit => R!Init
  BY DEF RcuInit, R!Init
<1>2. RcuTypeOK /\ GracePeriodInv /\ [RcuNext]_rcuVars => [R!Next]_(R!vars)
  <2> SUFFICES ASSUME RcuTypeOK, GracePeriodInv, [RcuNext]_rcuVars
               PROVE  [R!Next]_(R!vars)
    OBVIOUS
  <2>1. CASE \E c \in Cpus : Read(c) \/ ReadEnd(c)
    BY <2>1 DEF Read, ReadEnd, R!Next, R!Read, R!ReadEnd
  <2>2. CASE \E new \in Objects \cup {Null} : Swap(new)
    <3>1. PICK new \in Objects \cup {Null} : Swap(new)
      BY <2>2
    <3>2. R!Replace(new)
      BY <3>1 DEF Swap, R!Replace
    <3>3. QED
      BY <3>2 DEF R!Next
  <2>3. CASE DropInner
    BY <2>3 DEF DropInner, R!Next, R!DropInner
  <2>4. CASE \E o \in Objects : Invoke(o)
    BY <2>4 DEF RcuTypeOK, GracePeriodInv, Invoke, R!Next, R!Reclaim
  <2>5. CASE UNCHANGED slotVars
    BY <2>5 DEF slotVars, R!vars
  <2>6. QED
    BY <2>1, <2>2, <2>3, <2>4, <2>5
       DEF RcuNext, Update, CompareExchange, CheckMonitoring, FinishGracePeriod, AfterGracePeriod, rcuVars, slotVars
<1>3. QED
  BY <1>1, <1>2, GracePeriodsHold, PTL DEF RcuSpec, ImplementsRcu, R!Spec

-----------------------------------------------------------------------------
(* EditJournal: on a disk that keeps its writes in order a crash leaves a  *)
(* snapshot that recover accepts.                                          *)

\* The header and the payload of a snapshot area, readable or not.
IsBlob(b) == /\ b = [key |-> b.key, version |-> b.version, state |-> b.state,
                     recover_from |-> b.recover_from]
             /\ b.version \in Nat \cup {-1}

\* The versions of areas 0 and 1 that validity checks of recover accept.
InStep(b0, b1) == b1.version \in {b0.version, b0.version + 1}

\* The two snapshot areas hold blobs, the last one written included.
AreasTyped ==
  /\ write_cache \in BOOLEAN
  /\ latest_index \in Indices
  /\ blob = [i \in Indices |-> blob[i]]
  /\ old_blob = [i \in Indices |-> old_blob[i]]
  /\ \A i \in Indices : IsBlob(blob[i]) /\ \A o \in old_blob[i] : IsBlob(o)

\* While the journal runs both areas are readable, latest_index names the newer,
\* at most one write is under way, and before that write the areas were in step.
AreasInStep ==
  /\ \A i \in Indices : Readable(i)
  /\ blob[1].version = blob[0].version + latest_index
  /\ \E i \in Indices : old_blob[i] = {}
  /\ \A o \in old_blob[0] : o.version = -1 \/ InStep(o, blob[1])
  /\ \A o \in old_blob[1] : o.version = -1 \/ InStep(blob[0], o)

\* What a crash leaves.
AreasRecoverable ==
  /\ \E i \in Indices : Readable(i)
  /\ (\A i \in Indices : Readable(i)) => InStep(blob[0], blob[1])

\* The inductive invariant behind RecoverySucceeds.
JournalInv ==
  /\ AreasTyped
  /\ ~write_cache => /\ phase # "failed"
                     /\ phase # "down" => AreasInStep
                     /\ phase = "down" => AreasRecoverable

\* It holds of a freshly created journal.
LEMMA JournalInvInit == JournalInit => JournalInv
<1> SUFFICES ASSUME JournalInit PROVE JournalInv
  OBVIOUS
<1>1. \A i \in Indices : /\ blob[i] = [key |-> i, version |-> 0, state |-> <<>>,
                                       recover_from |-> 0]
                         /\ old_blob[i] = {}
  BY DEF JournalInit, BadBlob, Indices
<1>2. AreasTyped
  BY <1>1, JournalAssumption DEF JournalInit, AreasTyped, IsBlob, Indices
<1>3. AreasInStep
  BY <1>1 DEF JournalInit, AreasInStep, Readable, Indices
<1> QED
  BY <1>2, <1>3 DEF JournalInit, JournalInv

\* A step that leaves the areas alone or settles their writes.
LEMMA AreasKept ==
  ASSUME JournalInv, phase \notin {"down", "failed"}, phase' \notin {"down", "failed"},
         UNCHANGED <<blob, latest_index, write_cache>>,
         old_blob' = old_blob \/ old_blob' = [i \in Indices |-> {}]
  PROVE  JournalInv'
<1>1. AreasTyped'
  BY DEF JournalInv, AreasTyped
<1>2. ASSUME ~write_cache PROVE AreasInStep'
  <2>1. AreasInStep
    BY <1>2 DEF JournalInv
  <2>2. \A i \in Indices : Readable(i)' /\ old_blob'[i] \subseteq old_blob[i]
    BY <2>1 DEF AreasInStep, Readable
  <2> QED
    BY <2>1, <2>2 DEF AreasInStep, InStep, Indices
<1> QED
  BY <1>1, <1>2 DEF JournalInv

\* append of a block of the chain.
LEMMA AppendKeepsAreas ==
  ASSUME JournalInv, NEW records, AppendBlock(records)
  PROVE  /\ UNCHANGED <<blob, write_cache>>
         /\ old_blob' = old_blob \/ old_blob' = [i \in Indices |-> {}]
<1>1. DOMAIN old_blob = Indices
  BY DEF JournalInv, AreasTyped
<1> QED
  BY <1>1 DEF AppendBlock, WriteBlock, StillOld

\* compact: the older area gets the next version, and until that write is done
\* it may still hold the one before.
LEMMA PersistKeepsAreas ==
  ASSUME JournalInv, Persist
  PROVE  JournalInv'
<1> DEFINE index == (latest_index + 1) % 2
           new == [key |-> index, version |-> blob[index].version + 1,
                   state |-> state, recover_from |-> range.end]
<1>1. /\ index \in Indices /\ index = 1 - latest_index
      /\ latest_index \in Indices /\ latest_index' = index
      /\ phase = "persist" /\ phase' = "version" /\ write_cache' = write_cache
      /\ write_cache \in BOOLEAN
  BY DEF Persist, WriteBlob, JournalInv, AreasTyped, Indices
<1>2. blob' = [blob EXCEPT ![index] = new]
  BY DEF Persist, WriteBlob
<1>3. old_blob' = [StillOld(old_blob) EXCEPT ![index] = @ \cup {blob[index], BadBlob(index)}]
  BY DEF Persist, WriteBlob
<1>4. /\ \A i \in Indices : IsBlob(blob[i]) /\ \A o \in old_blob[i] : IsBlob(o)
      /\ DOMAIN blob = Indices /\ DOMAIN old_blob = Indices
  BY DEF JournalInv, AreasTyped
<1> HIDE DEF index
<1>5. IsBlob(new) /\ IsBlob(BadBlob(index)) /\ BadBlob(index).version = -1
  <2>1. blob[index].version + 1 \in Nat
    BY <1>1, <1>4 DEF IsBlob
  <2> QED
    BY <2>1 DEF IsBlob, BadBlob
<1>6. /\ DOMAIN StillOld(old_blob) = Indices
      /\ \A i \in Indices : StillOld(old_blob)[i] \subseteq old_blob[i]
      /\ ~write_cache => \A i \in Indices : StillOld(old_blob)[i] = {}
  BY <1>4 DEF StillOld
<1> HIDE DEF new
<1>7. /\ blob' = [i \in Indices |-> blob'[i]] /\ blob'[index] = new
      /\ blob'[latest_index] = blob[latest_index]
  <2>1. latest_index # index
    BY <1>1 DEF Indices
  <2> QED
    BY <1>1, <1>2, <1>4, <2>1, Zenon
<1>8. /\ old_blob' = [i \in Indices |-> old_blob'[i]]
      /\ old_blob'[index] = StillOld(old_blob)[index] \cup {blob[index], BadBlob(index)}
      /\ old_blob'[latest_index] = StillOld(old_blob)[latest_index]
  <2>1. latest_index # index
    BY <1>1 DEF Indices
  <2> QED
    BY <1>1, <1>3, <1>6, <2>1, Zenon
<1>9. AreasTyped'
  <2>1. ASSUME NEW i \in Indices PROVE IsBlob(blob'[i]) /\ \A o \in old_blob'[i] : IsBlob(o)
    <3>1. i = index \/ i = latest_index
      BY <1>1 DEF Indices
    <3> QED
      BY <3>1, <1>1, <1>4, <1>5, <1>6, <1>7, <1>8, Zenon
  <2> QED
    BY <1>1, <1>7, <1>8, <2>1, Zenon DEF AreasTyped
<1>10. ASSUME ~write_cache PROVE AreasInStep'
  <2>1. AreasInStep
    BY <1>1, <1>10 DEF JournalInv
  <2>2. \A i \in Indices : blob[i].version \in Nat
    BY <2>1, <1>4 DEF AreasInStep, Readable, IsBlob
  <2>3. new.version = blob[index].version + 1
    BY DEF new
  <2>4. old_blob'[index] = {blob[index], BadBlob(index)} /\ old_blob'[latest_index] = {}
    BY <1>1, <1>6, <1>8, <1>10
  <2>5. CASE latest_index = 0
    <3>1. /\ index = 1 /\ blob'[1].version = blob[1].version + 1 /\ blob'[0] = blob[0]
          /\ old_blob'[1] = {blob[1], BadBlob(1)} /\ old_blob'[0] = {}
          /\ latest_index' = 1
      BY <1>1, <1>7, <2>3, <2>4, <2>5
    <3>2. blob[1].version = blob[0].version /\ blob[0].version \in Nat
      BY <2>1, <2>2, <2>5 DEF AreasInStep, Indices
    <3> QED
      BY <3>1, <3>2, <1>5 DEF AreasInStep, InStep, Readable, Indices
  <2>6. CASE latest_index = 1
    <3>1. /\ index = 0 /\ blob'[0].version = blob[0].version + 1 /\ blob'[1] = blob[1]
          /\ old_blob'[0] = {blob[0], BadBlob(0)} /\ old_blob'[1] = {}
          /\ latest_index' = 0
      BY <1>1, <1>7, <2>3, <2>4, <2>6
    <3>2. blob[1].version = blob[0].version + 1 /\ blob[0].version \in Nat
      BY <2>1, <2>2, <2>6 DEF AreasInStep, Indices
    <3> QED
      BY <3>1, <3>2, <1>5 DEF AreasInStep, InStep, Readable, Indices
  <2> QED
    BY <1>1, <2>5, <2>6 DEF Indices
<1> QED
  BY <1>1, <1>9, <1>10 DEF JournalInv

\* A crash in any phase: the area that was being written may be torn or old, the
\* other one is as it was.
LEMMA CrashLeavesSnapshot ==
  ASSUME JournalInv, Crash
  PROVE  JournalInv'
<1>1. /\ blob' \in Survivors(blob, old_blob)
      /\ old_blob' = [i \in Indices |-> {}] /\ latest_index' = 0
      /\ phase \notin {"down", "failed"} /\ phase' = "down" /\ write_cache' = write_cache
      /\ write_cache \in BOOLEAN
  BY DEF Crash, JournalInv, AreasTyped
<1>2. /\ \A i \in Indices : IsBlob(blob[i]) /\ \A o \in old_blob[i] : IsBlob(o)
      /\ DOMAIN blob = Indices
  BY DEF JournalInv, AreasTyped
<1>3. /\ blob' = [i \in Indices |-> blob'[i]]
      /\ \A i \in Indices : blob'[i] = blob[i] \/ blob'[i] \in old_blob[i]
  BY <1>1, <1>2 DEF Survivors
<1>4. AreasTyped'
  <2>1. \A i \in Indices : IsBlob(blob'[i]) /\ old_blob'[i] = {}
    BY <1>1, <1>2, <1>3, Zenon
  <2> QED
    BY <1>1, <1>3, <2>1 DEF AreasTyped, Indices
<1>5. ASSUME ~write_cache PROVE AreasRecoverable'
  <2>1. AreasInStep
    BY <1>1, <1>5 DEF JournalInv
  <2>2. \A i \in Indices : blob[i].version \in Nat
    BY <2>1, <1>2 DEF AreasInStep, Readable, IsBlob
  <2>3. blob[1].version = blob[0].version + latest_index /\ latest_index \in Indices
    BY <2>1 DEF AreasInStep, JournalInv, AreasTyped
  <2>4. CASE old_blob[0] = {}
    <3>1. blob'[0] = blob[0] /\ (blob'[1] = blob[1] \/ blob'[1] \in old_blob[1])
      BY <1>3, <2>4 DEF Indices
    <3>2. InStep(blob[0], blob[1])
      BY <2>2, <2>3 DEF InStep, Indices
    <3>3. blob'[1].version = -1 \/ InStep(blob[0], blob'[1])
      BY <3>1, <3>2, <2>1, Zenon DEF AreasInStep
    <3> QED
      BY <3>1, <3>3, <2>2 DEF AreasRecoverable, Readable, InStep, Indices
  <2>5. CASE old_blob[1] = {}
    <3>1. blob'[1] = blob[1] /\ (blob'[0] = blob[0] \/ blob'[0] \in old_blob[0])
      BY <1>3, <2>5 DEF Indices
    <3>2. InStep(blob[0], blob[1])
      BY <2>2, <2>3 DEF InStep, Indices
    <3>3. blob'[0].version = -1 \/ InStep(blob'[0], blob[1])
      BY <3>1, <3>2, <2>1, Zenon DEF AreasInStep
    <3> QED
      BY <3>1, <3>3, <2>2 DEF AreasRecoverable, Readable, InStep, Indices
  <2> QED
    BY <2>1, <2>4, <2>5 DEF AreasInStep, Indices
<1> QED
  BY <1>1, <1>4, <1>5 DEF JournalInv

\* What the repair of recover makes of the two areas.
LEMMA RepairedAreas ==
  ASSUME AreasTyped
  PROVE  /\ Repaired = [i \in Indices |-> Repaired[i]]
         /\ \A i \in Indices : IsBlob(Repaired[i])
         /\ \A i \in Indices :
              Repaired[i].version = IF Readable(i) THEN blob[i].version
                                                   ELSE blob[1 - i].version
<1>1. \A i \in Indices : IsBlob(blob[i]) /\ 1 - i \in Indices
  BY DEF AreasTyped, Indices
<1>2. \A i \in Indices :
        Repaired[i] = IF Readable(i) THEN blob[i] ELSE [blob[1 - i] EXCEPT !.key = i]
  BY DEF Repaired
<1>3. Repaired = [i \in Indices |-> Repaired[i]]
  BY DEF Repaired
<1> HIDE DEF Repaired
<1>4. ASSUME NEW i \in Indices
      PROVE  /\ IsBlob(Repaired[i])
             /\ Repaired[i].version = IF Readable(i) THEN blob[i].version
                                                     ELSE blob[1 - i].version
  <2>1. CASE Readable(i)
    BY <2>1, <1>1, <1>2, Zenon
  <2>2. CASE ~Readable(i)
    <3>1. Repaired[i] = [blob[1 - i] EXCEPT !.key = i]
      BY <2>2, <1>2
    <3>2. IsBlob(blob[1 - i])
      BY <1>1
    <3>3. Repaired[i] = [key |-> i, version |-> blob[1 - i].version,
                         state |-> blob[1 - i].state,
                         recover_from |-> blob[1 - i].recover_from]
      BY <3>1, <3>2 DEF IsBlob
    <3> QED
      BY <2>2, <3>2, <3>3 DEF IsBlob
  <2> QED
    BY <2>1, <2>2
<1> QED
  BY <1>3, <1>4

\* Recovery repairs the areas and so keeps the invariant.
LEMMA RecoverKeepsAreas ==
  ASSUME JournalInv, Recover
  PROVE  JournalInv'
<1>1. /\ blob' = Repaired
      /\ old_blob' = [i \in Indices |-> IF Readable(i) THEN {} ELSE {blob[i]}]
      /\ latest_index' = Latest
      /\ phase = "down" /\ phase' = "idle" /\ write_cache' = write_cache
      /\ \E i \in Indices : Readable(i)
      /\ Versions[1] <= Versions[2] /\ Versions[2] <= Versions[1] + 1
  BY Zenon DEF Recover
<1>2. /\ blob' = [i \in Indices |-> blob'[i]]
      /\ \A i \in Indices : IsBlob(blob'[i])
      /\ \A i \in Indices : blob'[i].version = IF Readable(i) THEN blob[i].version
                                                              ELSE blob[1 - i].version
  BY <1>1, RepairedAreas DEF JournalInv
<1>3. \A i \in Indices : IsBlob(blob[i]) /\ (~Readable(i) => blob[i].version = -1)
  BY DEF JournalInv, AreasTyped, IsBlob, Readable
<1>4. Latest \in Indices
  BY DEF Latest, Indices
<1>5. AreasTyped'
  <2>1. \A i \in Indices : \A o \in old_blob'[i] : IsBlob(o)
    BY <1>1, <1>3
  <2> QED
    BY <1>1, <1>2, <1>4, <2>1 DEF AreasTyped, JournalInv
<1>6. AreasInStep'
  <2>1. \A i \in Indices : blob'[i].version \in Nat
    <3>1. \A i \in Indices : 1 - i \in Indices /\ blob[i].version \in Nat \cup {-1}
      BY <1>3 DEF Indices, IsBlob
    <3>2. \A i \in Indices : Readable(i) \/ Readable(1 - i)
      BY <1>1 DEF Indices
    <3> QED
      BY <1>2, <3>1, <3>2 DEF Readable
  <2>2. Versions[1] = blob'[0].version /\ Versions[2] = blob'[1].version
    BY <1>1 DEF Versions
  <2>3. blob'[1].version = blob'[0].version + latest_index'
    BY <1>1, <2>1, <2>2 DEF Latest, Indices
  <2>4. \A i \in Indices : \A o \in old_blob'[i] : o.version = -1
    BY <1>1, <1>3
  <2>5. \E i \in Indices : old_blob'[i] = {}
    BY <1>1
  <2> QED
    BY <2>1, <2>3, <2>4, <2>5 DEF AreasInStep, Readable, Indices
<1> QED
  BY <1>1, <1>5, <1>6 DEF JournalInv

\* Without a write cache recover never returns an error.
LEMMA NoFailure ==
  ASSUME JournalInv, RecoverFails
  PROVE  JournalInv'
<1>1. AreasTyped' /\ phase = "down" /\ phase' = "failed" /\ write_cache' = write_cache
  BY DEF RecoverFails, JournalInv, AreasTyped, disk
<1>2. ASSUME ~write_cache PROVE FALSE
  <2>1. AreasRecoverable /\ AreasTyped
    BY <1>1, <1>2 DEF JournalInv
  <2>2. \A i \in Indices : IsBlob(blob[i]) /\ (~Readable(i) => blob[i].version = -1)
    BY <2>1 DEF AreasTyped, IsBlob, Readable
  <2>3. /\ Versions[1] = IF Readable(0) THEN blob[0].version ELSE blob[1].version
        /\ Versions[2] = IF Readable(1) THEN blob[1].version ELSE blob[0].version
    BY <2>1, RepairedAreas DEF Versions, Indices
  <2>4. Versions[2] \in {Versions[1], Versions[1] + 1}
    BY <2>1, <2>3 DEF AreasRecoverable, InStep, Indices
  <2> QED
    BY <2>1, <2>4 DEF RecoverFails, AreasRecoverable
<1> QED
  BY <1>1, <1>2 DEF JournalInv

\* Every step keeps the inductive invariant, a crash included.
LEMMA JournalInvStep == JournalInv /\ [JournalNext]_journalVars => JournalInv'
<1> SUFFICES ASSUME JournalInv, [JournalNext]_journalVars PROVE JournalInv'
  OBVIOUS
<1>1. CASE UNCHANGED journalVars
  BY <1>1 DEF journalVars, memory, disk, JournalInv, AreasTyped, AreasInStep,
              AreasRecoverable, Readable
<1>2. CASE Commit
  BY <1>2, AreasKept DEF Commit, disk
<1>3. CASE Flush
  BY <1>3, AreasKept DEF Flush, disk
<1>4. CASE AppendWriteBufToJournal
  <2>1. AppendBlock(write_buf) /\ phase = "append" /\ UNCHANGED latest_index
    BY <1>4 DEF AppendWriteBufToJournal
  <2>2. phase' \in {"persist", "finish"}
    BY <1>4 DEF AppendWriteBufToJournal
  <2> QED
    BY <2>1, <2>2, AppendKeepsAreas, AreasKept
<1>5. CASE AppendVersion
  <2>1. /\ AppendBlock(<<Version(blob[latest_index])>>) /\ phase = "version"
        /\ phase' = "finish" /\ UNCHANGED latest_index
    BY <1>5 DEF AppendVersion
  <2> QED
    BY <2>1, AppendKeepsAreas, AreasKept
<1>6. CASE FinishCommit
  BY <1>6, AreasKept DEF FinishCommit, disk
<1>7. CASE FinishFlush
  BY <1>7, AreasKept DEF FinishFlush, FlushDisk
<1> QED
  BY <1>1, <1>2, <1>3, <1>4, <1>5, <1>6, <1>7, PersistKeepsAreas, CrashLeavesSnapshot,
     RecoverKeepsAreas, NoFailure DEF JournalNext

\* RecoverySucceeds: however often the machine crashes, in whatever phase of an
\* append or a compaction and also between recovery's repair of an area and its
\* completion, the next recover finds a snapshot it accepts, as long as a
\* completed write of the disk is not lost.
THEOREM SnapshotSurvives == JournalSpec => []RecoverySucceeds
<1>1. JournalInv => RecoverySucceeds
  BY DEF JournalInv, RecoverySucceeds
<1> QED
  BY <1>1, JournalInvInit, JournalInvStep, PTL DEF JournalSpec

-----------------------------------------------------------------------------
(* Frame.                                                                  *)

\* The numbers of the reference count are far enough apart.
LEMMA Numbers ==
  /\ RefCountMax \in Nat /\ RefCountMax > 0
  /\ UNIQUE \in Nat /\ UNUSED = UNIQUE + 1 /\ UNIQUE > 1 /\ UNIQUE > RefCountMax
BY FrameAssumption DEF UNIQUE, UNUSED

\* There are never so many sharers that their count looks unique or unused.
LEMMA SharersCount ==
  /\ IsFiniteSet(Sharers)
  /\ Cardinality(Sharers) \in Nat
  /\ Cardinality(Sharers) < UNIQUE
  /\ Sharers # {} <=> Cardinality(Sharers) # 0
<1>1. IsFiniteSet(Sharers) /\ Cardinality(Sharers) <= Cardinality(Handles)
  BY FS_Subset, FrameAssumption DEF Sharers
<1>2. Cardinality(Handles) \in Nat /\ Cardinality(Sharers) \in Nat
  BY <1>1, FS_CardinalityType, FrameAssumption
<1>3. QED
  BY <1>1, <1>2, FS_EmptySet, FrameAssumption, Numbers DEF UNIQUE

\* A count of 1 means a single sharer.
LEMMA OneSharer ==
  ASSUME NEW h \in Sharers, Cardinality(Sharers) = 1
  PROVE  Sharers = {h}
BY SharersCount, FS_Singleton

USE DEF Constructing, Destructing, Exclusive, Goto

\* What the invariant comes to after a step that leaves the frame to one handle ...
LEMMA OwnedByOne ==
  ASSUME NEW h \in Handles, pc'[h] \in Exclusive, Sharers' = {}, ~in_pool',
         pc'[h] \in {"taken", "freed"} => ref_count' = UNUSED,
         pc'[h] \in {"writing", "written", "last", "cleared"} => ref_count' = 0,
         pc'[h] \in {"unique", "repurposing"} => ref_count' = UNIQUE,
         meta_init' <=> pc'[h] \in {"written", "unique", "last"},
         \A g \in Handles : /\ pc'[g] \in Exclusive => g = h
                            /\ pc'[g] = "loaded" => seen'[g] \in 1..(RefCountMax - 1)
                            /\ pc'[g] # "failed"
  PROVE  RefCountInv'
BY DEF RefCountInv

\* ... or to sharers.
LEMMA OwnedBySharers ==
  ASSUME Sharers' # {}, ref_count' = Cardinality(Sharers'), ~in_pool', meta_init',
         \A g \in Handles : /\ pc'[g] \notin Exclusive
                            /\ pc'[g] = "loaded" => seen'[g] \in 1..(RefCountMax - 1)
                            /\ pc'[g] # "failed"
  PROVE  RefCountInv'
BY DEF RefCountInv

\* Steps that change neither the sharers nor the count.
LEMMA ExclusiveSteps ==
  ASSUME TypeOK, RefCountInv, NEW h \in Handles,
         \/ Alloc(h) \/ ClaimUnused(h) \/ WriteMeta(h)
         \/ DropUnique(h) \/ DropMeta(h) \/ MarkUnused(h) \/ Dealloc(h)
         \/ RepurposeDrop(h) \/ RepurposeWrite(h)
  PROVE  TypeOK' /\ RefCountInv'
<1> USE Numbers
<1>1. Sharers' = Sharers
  BY DEF TypeOK, Sharers, Alloc, ClaimUnused, WriteMeta, DropUnique, DropMeta, MarkUnused,
         Dealloc, RepurposeDrop, RepurposeWrite
<1>2. TypeOK'
  <2>1. CASE Alloc(h)
    BY <2>1 DEF TypeOK, Alloc
  <2>2. CASE ClaimUnused(h) \/ DropUnique(h) \/ MarkUnused(h)
    BY <2>2 DEF TypeOK, ClaimUnused, DropUnique, MarkUnused
  <2>3. CASE WriteMeta(h) \/ DropMeta(h) \/ RepurposeDrop(h) \/ RepurposeWrite(h)
    BY <2>3 DEF TypeOK, WriteMeta, DropMeta, RepurposeDrop, RepurposeWrite
  <2>4. CASE Dealloc(h)
    BY <2>4 DEF TypeOK, Dealloc
  <2>5. QED
    BY <2>1, <2>2, <2>3, <2>4
<1>3. CASE Alloc(h)
  BY <1>1, <1>2, <1>3 DEF TypeOK, RefCountInv, Alloc
<1>4. CASE ClaimUnused(h)
  BY <1>1, <1>2, <1>4 DEF TypeOK, RefCountInv, ClaimUnused
<1>5. CASE WriteMeta(h)
  BY <1>1, <1>2, <1>5 DEF TypeOK, RefCountInv, WriteMeta
<1>6. CASE DropUnique(h)
  BY <1>1, <1>2, <1>6 DEF TypeOK, RefCountInv, DropUnique
<1>7. CASE DropMeta(h)
  BY <1>1, <1>2, <1>7 DEF TypeOK, RefCountInv, DropMeta
<1>8. CASE MarkUnused(h)
  BY <1>1, <1>2, <1>8 DEF TypeOK, RefCountInv, MarkUnused
<1>9. CASE Dealloc(h)
  BY <1>1, <1>2, <1>9 DEF TypeOK, RefCountInv, Dealloc
<1>10. CASE RepurposeDrop(h)
  BY <1>1, <1>2, <1>10 DEF TypeOK, RefCountInv, RepurposeDrop
<1>11. CASE RepurposeWrite(h)
  BY <1>1, <1>2, <1>11 DEF TypeOK, RefCountInv, RepurposeWrite
<1>12. QED
  BY <1>3, <1>4, <1>5, <1>6, <1>7, <1>8, <1>9, <1>10, <1>11

\* Steps of the lock-free lookup that leave the count alone, and the abort.
LEMMA LookupSteps ==
  ASSUME TypeOK, RefCountInv, NEW h \in Handles,
         \/ LoadInUse(h) \/ Abort(h) \/ (ClaimInUse(h) /\ UNCHANGED ref_count)
  PROVE  TypeOK' /\ RefCountInv'
<1> USE Numbers
<1>1. CASE LoadInUse(h)
  <2>1. Sharers' = Sharers
    BY <1>1 DEF TypeOK, Sharers, LoadInUse
  <2>2. CASE ref_count >= RefCountMax
    <3>1. UNCHANGED <<ref_count, meta_init, in_pool, pc, seen, as_unique>> /\ aborted' = TRUE
      BY <1>1, <2>2 DEF TypeOK, LoadInUse
    <3>2. QED
      BY <2>1, <3>1 DEF TypeOK, RefCountInv
  <2>3. CASE ref_count < RefCountMax
    <3>1. /\ pc[h] = "none" /\ pc' = [pc EXCEPT ![h] = "loaded"]
          /\ seen' = [seen EXCEPT ![h] = ref_count]
          /\ ref_count \in 1..(RefCountMax - 1)
          /\ UNCHANGED <<ref_count, meta_init, in_pool, as_unique, aborted>>
      BY <1>1, <2>3 DEF TypeOK, LoadInUse
    <3>2. TypeOK'
      BY <3>1 DEF TypeOK
    <3>3. QED
      BY <2>1, <3>1, <3>2 DEF TypeOK, RefCountInv
  <2>4. QED
    BY <2>2, <2>3 DEF TypeOK
<1>2. CASE Abort(h)
  BY <1>2 DEF TypeOK, RefCountInv, Sharers, Abort
<1>3. CASE ClaimInUse(h) /\ UNCHANGED ref_count
  <2>1. pc[h] = "loaded" /\ pc' = [pc EXCEPT ![h] = "none"]
    BY <1>3 DEF TypeOK, RefCountInv, ClaimInUse
  <2>2. Sharers' = Sharers
    BY <2>1 DEF TypeOK, Sharers
  <2>3. QED
    BY <1>3, <2>1, <2>2 DEF TypeOK, RefCountInv, ClaimInUse
<1>4. QED
  BY <1>1, <1>2, <1>3

\* A new sharer joins the others: the count goes up by one and does not wrap.
LEMMA JoinSteps ==
  ASSUME TypeOK, RefCountInv, NEW h \in Handles, NEW k \in Handles,
         Clone(h, k) \/ (ClaimInUse(k) /\ ~UNCHANGED ref_count)
  PROVE  TypeOK' /\ RefCountInv'
<1> USE Numbers
<1>1. Sharers # {} /\ ref_count = Cardinality(Sharers)
  <2>1. CASE Clone(h, k)
    BY <2>1 DEF TypeOK, RefCountInv, Sharers, Clone
  <2>2. CASE ClaimInUse(k) /\ ~UNCHANGED ref_count
    <3>1. ref_count \in 1..(RefCountMax - 1)
      BY <2>2 DEF RefCountInv, ClaimInUse
    <3>2. QED
      BY <3>1 DEF TypeOK, RefCountInv
  <2>3. QED
    BY <2>1, <2>2
<1>2. k \notin Sharers /\ Sharers' = Sharers \cup {k}
  BY DEF TypeOK, Sharers, Clone, ClaimInUse
<1>3. Cardinality(Sharers') = ref_count + 1 /\ Cardinality(Sharers') \in Nat
  BY <1>1, <1>2, SharersCount, FS_AddElement
<1>4. Cardinality(Sharers') < UNIQUE
  <2>1. Sharers' \subseteq Handles
    BY <1>2 DEF Sharers
  <2>2. QED
    BY <2>1, <1>3, FS_Subset, FS_CardinalityType, FrameAssumption DEF UNIQUE
<1>5. ref_count' = ref_count + 1
  BY <1>1, <1>3, <1>4, SharersCount DEF TypeOK, RefCountInv, Clone, ClaimInUse
<1>6. TypeOK'
  BY <1>3, <1>4, <1>5 DEF TypeOK, Clone, ClaimInUse
<1>7. \A g \in Handles : pc[g] \notin Exclusive /\ pc'[g] \notin Exclusive
  BY <1>1 DEF TypeOK, RefCountInv, Clone, ClaimInUse
<1>8. ~in_pool /\ ~in_pool' /\ meta_init /\ meta_init'
  BY <1>1 DEF RefCountInv, Clone, ClaimInUse
<1>9. \A g \in Handles : (pc'[g] = "loaded" => seen'[g] \in 1..(RefCountMax - 1)) /\ pc'[g] # "failed"
  BY DEF TypeOK, RefCountInv, Clone, ClaimInUse
<1>10. QED
  <2>1. Sharers' # {}
    BY <1>2
  <2>2. ref_count' = Cardinality(Sharers')
    BY <1>3, <1>5
  <2>3. QED
    BY <1>6, <1>7, <1>8, <1>9, <2>1, <2>2, OwnedBySharers, Zenon

\* A sharer leaves: the last one becomes the exclusive destructor.
LEMMA LeaveSteps ==
  ASSUME TypeOK, RefCountInv, NEW h \in Handles, DropShared(h) \/ TryIntoUnique(h)
  PROVE  TypeOK' /\ RefCountInv'
<1> USE Numbers
<1>1. h \in Sharers /\ ref_count = Cardinality(Sharers) /\ ref_count # 0
  BY SharersCount DEF TypeOK, RefCountInv, Sharers, DropShared, TryIntoUnique
<1>2. Sharers' = Sharers \ {h}
  BY DEF TypeOK, Sharers, DropShared, TryIntoUnique
<1>3. \A g \in Handles : pc[g] \notin Exclusive
  BY <1>1 DEF TypeOK, RefCountInv
<1>4. ~in_pool /\ meta_init
  BY <1>1 DEF RefCountInv
<1>5. TypeOK'
  BY <1>1, SharersCount DEF TypeOK, DropShared, TryIntoUnique
<1>6. CASE ref_count = 1
  <2>1. Sharers' = {} /\ ~in_pool' /\ meta_init'
    <3>1. Sharers = {h}
      BY <1>1, <1>6, OneSharer
    <3>2. UNCHANGED <<in_pool, meta_init>>
      BY DEF DropShared, TryIntoUnique
    <3>3. QED
      BY <1>2, <1>4, <3>1, <3>2
  <2>2. \/ pc' = [pc EXCEPT ![h] = "last"] /\ ref_count' = 0
        \/ pc' = [pc EXCEPT ![h] = "unique"] /\ ref_count' = UNIQUE
    BY <1>6 DEF DropShared, TryIntoUnique
  <2>3. \/ pc'[h] = "last" /\ ref_count' = 0
        \/ pc'[h] = "unique" /\ ref_count' = UNIQUE
    BY <2>2 DEF TypeOK
  <2>4. ASSUME NEW g \in Handles
        PROVE  /\ pc'[g] \in Exclusive => g = h
               /\ pc'[g] = "loaded" => seen'[g] \in 1..(RefCountMax - 1)
               /\ pc'[g] # "failed"
    <3>1. CASE g = h
      BY <2>3, <3>1
    <3>2. CASE g # h
      <4>1. pc'[g] = pc[g] /\ seen' = seen
        BY <2>2, <3>2 DEF TypeOK, DropShared, TryIntoUnique
      <4>2. QED
        BY <1>3, <4>1 DEF RefCountInv
    <3>3. QED
      BY <3>1, <3>2
  <2>5. RefCountInv'
    BY <2>1, <2>3, <2>4, OwnedByOne
  <2>6. QED
    BY <1>5, <2>5
<1>7. CASE ref_count # 1
  <2>1. Cardinality(Sharers') = ref_count - 1 /\ ref_count' = ref_count - 1
    BY <1>1, <1>2, <1>7, SharersCount, FS_RemoveElement DEF DropShared, TryIntoUnique
  <2>2. Sharers' # {}
    BY <1>1, <1>7, <2>1, SharersCount, FS_EmptySet
  <2>3. pc' = [pc EXCEPT ![h] = "none"] /\ UNCHANGED <<meta_init, in_pool, seen>>
    BY <1>7 DEF DropShared, TryIntoUnique
  <2>4. ASSUME NEW g \in Handles
        PROVE  /\ pc'[g] \notin Exclusive
               /\ pc'[g] = "loaded" => seen'[g] \in 1..(RefCountMax - 1)
               /\ pc'[g] # "failed"
    <3>1. pc'[g] \in {"none", pc[g]} /\ seen' = seen
      BY <2>3 DEF TypeOK
    <3>2. QED
      BY <1>3, <3>1 DEF RefCountInv
  <2>5. ref_count' = Cardinality(Sharers') /\ ~in_pool' /\ meta_init'
    BY <1>4, <2>1, <2>3
  <2>6. QED
    BY <1>5, <2>2, <2>4, <2>5, OwnedBySharers, Zenon
<1>8. QED
  BY <1>6, <1>7

\* An exclusive handle becomes the first sharer, or a published unique one.
LEMMA PublishSteps ==
  ASSUME TypeOK, RefCountInv, NEW h \in Handles, Publish(h) \/ IntoShared(h)
  PROVE  TypeOK' /\ RefCountInv'
<1> USE Numbers
<1>1. pc[h] \in {"written", "unique"} /\ Sharers = {} /\ meta_init /\ ~in_pool
  BY DEF TypeOK, RefCountInv, Publish, IntoShared
<1>2. TypeOK'
  <2>1. CASE Publish(h)
    BY <2>1 DEF TypeOK, Publish
  <2>2. CASE IntoShared(h)
    BY <2>2 DEF TypeOK, IntoShared
  <2>3. QED
    BY <2>1, <2>2
<1>3. /\ ~in_pool' /\ meta_init' /\ seen' = seen
      /\ pc' = [pc EXCEPT ![h] = "shared"] \/ pc' = [pc EXCEPT ![h] = "unique"]
  <2>1. UNCHANGED <<in_pool, meta_init, seen>>
    BY DEF Publish, IntoShared
  <2>2. pc' = [pc EXCEPT ![h] = "shared"] \/ pc' = [pc EXCEPT ![h] = "unique"]
    BY DEF Publish, IntoShared
  <2>3. QED
    BY <1>1, <2>1, <2>2
<1>4. \A g \in Handles \ {h} : pc[g] \notin Exclusive \cup {"failed"}
  BY <1>1 DEF RefCountInv
<1>5. CASE pc'[h] = "shared"
  <2>1. Sharers' = {h} /\ ref_count' = 1
    BY <1>1, <1>5 DEF TypeOK, Sharers, Publish, IntoShared
  <2>2. Cardinality(Sharers') = 1
    BY <2>1, FS_Singleton
  <2>3. ~in_pool' /\ meta_init' /\ seen' = seen /\ pc' = [pc EXCEPT ![h] = "shared"]
    BY <1>3, <1>5 DEF TypeOK
  <2>4. ASSUME NEW g \in Handles
        PROVE  /\ pc'[g] \notin Exclusive
               /\ pc'[g] = "loaded" => seen'[g] \in 1..(RefCountMax - 1)
               /\ pc'[g] # "failed"
    <3>1. CASE g = h
      BY <1>5, <3>1
    <3>2. CASE g # h
      BY <1>4, <2>3, <3>2 DEF TypeOK, RefCountInv
    <3>3. QED
      BY <3>1, <3>2
  <2>5. Sharers' # {} /\ ref_count' = Cardinality(Sharers')
    BY <2>1, <2>2
  <2>6. QED
    BY <1>2, <2>3, <2>4, <2>5, OwnedBySharers, Zenon
<1>6. CASE pc'[h] # "shared"
  <2>1. Sharers' = {} /\ ref_count' = UNIQUE /\ pc'[h] = "unique"
    BY <1>1, <1>6 DEF TypeOK, Sharers, Publish, IntoShared
  <2>2. ~in_pool' /\ meta_init' /\ seen' = seen /\ pc' = [pc EXCEPT ![h] = "unique"]
    BY <1>3, <1>6 DEF TypeOK
  <2>3. ASSUME NEW g \in Handles
        PROVE  /\ pc'[g] \in Exclusive => g = h
               /\ pc'[g] = "loaded" => seen'[g] \in 1..(RefCountMax - 1)
               /\ pc'[g] # "failed"
    <3>1. CASE g = h
      BY <2>1, <3>1
    <3>2. CASE g # h
      BY <1>4, <2>2, <3>2 DEF TypeOK, RefCountInv
    <3>3. QED
      BY <3>1, <3>2
  <2>4. QED
    BY <1>2, <2>1, <2>2, <2>3, OwnedByOne
<1>7. QED
  BY <1>5, <1>6

\* The reference count means in every reachable state what its documentation
\* says, whatever handles race for the frame.
THEOREM RefCountHolds == Spec => [](TypeOK /\ RefCountInv)
<1>1. Init => TypeOK /\ RefCountInv
  <2> SUFFICES ASSUME Init PROVE TypeOK /\ RefCountInv
    OBVIOUS
  <2>1. TypeOK
    <3>1. UNUSED \in 0..UNUSED /\ 0 \in 0..RefCountMax
      BY Numbers
    <3>2. QED
      BY <3>1 DEF Init, TypeOK
  <2>2. Sharers = {}
    BY DEF Init, Sharers
  <2>3. QED
    BY <2>1, <2>2 DEF Init, RefCountInv
<1>2. TypeOK /\ RefCountInv /\ [Next]_vars => TypeOK' /\ RefCountInv'
  <2>1. ASSUME TypeOK, RefCountInv, Next PROVE TypeOK' /\ RefCountInv'
    BY <2>1, ExclusiveSteps, LookupSteps, JoinSteps, LeaveSteps, PublishSteps DEF Next
  <2>2. ASSUME TypeOK, RefCountInv, UNCHANGED vars PROVE TypeOK' /\ RefCountInv'
    <3>1. UNCHANGED <<ref_count, meta_init, in_pool, pc, seen, as_unique, aborted>>
      BY <2>2 DEF vars
    <3>2. Sharers' = Sharers
      BY <3>1 DEF Sharers
    <3>3. TypeOK'
      BY <2>2, <3>1 DEF TypeOK
    <3>4. RefCountInv'
      BY <2>2, <3>1, <3>2 DEF RefCountInv
    <3>5. QED
      BY <3>3, <3>4
  <2>3. QED
    BY <2>1, <2>2
<1>3. QED
  BY <1>1, <1>2, PTL DEF Spec

\* The variables of a frame keep their types: the reference count never goes below 0
\* or past its largest value, whatever handles race.
THEOREM FrameTyped == Spec => []TypeOK
  BY RefCountHolds, PTL

\* Readers of the metadata find it initialised, writers are alone.
THEOREM MetaIsSafe == Spec => []MetaAccess
<1>1. TypeOK /\ RefCountInv => MetaAccess
  BY DEF TypeOK, RefCountInv, MetaAccess, Sharers
<1>2. QED
  BY <1>1, RefCountHolds, PTL

\* Building a frame from what the allocator handed out never panics.
THEOREM UnwrapNeverPanics == Spec => []UnwrapSucceeds
<1>1. RefCountInv => UnwrapSucceeds
  BY DEF RefCountInv, UnwrapSucceeds
<1>2. QED
  BY <1>1, RefCountHolds, PTL

\* No racing lookup revives a dying frame.
THEOREM DeadStaysDead == Spec => NoRevival
<1>1. TypeOK /\ RefCountInv /\ [Next]_vars
        => [(\E h \in Handles : pc[h] \in {"last", "cleared"}) => ref_count' \in {0, UNUSED}]_vars
  <2> SUFFICES ASSUME TypeOK, RefCountInv, Next, NEW d \in Handles, pc[d] \in {"last", "cleared"}
               PROVE  ref_count' \in {0, UNUSED}
    OBVIOUS
  <2>1. ref_count = 0 /\ \A h \in Handles \ {d} : pc[h] \notin {"shared", "excess"} \cup Exclusive
    BY DEF TypeOK, RefCountInv, Sharers
  <2>2. \A h \in Handles : pc[h] = "loaded" => ref_count # seen[h]
    BY <2>1, Numbers DEF RefCountInv
  <2>3. QED
    BY <2>1, <2>2, Numbers
       DEF TypeOK, Next, Alloc, ClaimUnused, WriteMeta, Publish, LoadInUse, ClaimInUse, Clone, Abort,
           DropShared, DropUnique, DropMeta, MarkUnused, Dealloc, RepurposeDrop, RepurposeWrite,
           IntoShared, TryIntoUnique
<1>2. QED
  BY <1>1, RefCountHolds, PTL DEF Spec, NoRevival

=============================================================================
