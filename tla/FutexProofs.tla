---------------------------- MODULE FutexProofs ----------------------------
(***************************************************************************)
(* Proofs about Futex: a wait says truthfully whether it was woken, and no *)
(* waiter sleeps through the wake that its change of value calls for.  The *)
(* invariant says where a waiter's item is at every point of its wait.     *)
(***************************************************************************)
EXTENDS Futex, FiniteSetTheorems, TLAPS

-----------------------------------------------------------------------------
(* Futex: what a wait returns, and that no wake is missed.                 *)

\* From add_item to remove_by_waker.
Waits == {"pause", "check", "wait", "remove"}

\* The arguments of a wait.
WaitArgs == [addr : Addrs, expect : Nat, bitset : (SUBSET Bits) \ {{}}]

\* The arguments of a call on two futexes.
PairArgs == [op : {"wake_op", "requeue"}, addr1 : Addrs, addr2 : Addrs]

\* Types of the words, the buckets, the items and the events.
DataTyped ==
  /\ word \in [Addrs -> Nat]
  /\ stale \in [Addrs -> BOOLEAN]
  /\ items \in [Buckets -> SUBSET Item]
  /\ has_woken \in [Threads -> BOOLEAN]
  /\ counted \in [Threads -> BOOLEAN]
  /\ moved \in [Threads -> {"no", "within", "across"}]
  /\ result \in [Threads -> {"none", "ok", "err"}]

\* Types of a thread's call: its arguments and what it read of the word.
CallsTyped ==
  /\ pc \in [Threads -> {"run", "load", "pair", "drop"} \cup Waits]
  /\ args \in [Threads -> WaitArgs \cup PairArgs \cup {<<>>}]
  /\ \A t \in Threads : /\ pc[t] \in {"load", "drop"} \cup Waits => args[t] \in WaitArgs
                        /\ pc[t] = "pair" => args[t] \in PairArgs

\* The types of all variables, with the arguments that belong to each step.
FutexTyped == DataTyped /\ CallsTyped

\* t's item is in some bucket.
Queued(t) == \E b \in Buckets : \E i \in items[b] : i.waker = t

\* Where the item of thread t is: there is at most one, from add_item until it is
\* taken by a wake or by t itself, in the bucket of t's address unless a requeue
\* has moved it, and with t's key unless a requeue has changed that.
ItemInv(t) ==
  /\ \A b, c \in Buckets : \A i \in items[b], j \in items[c] :
       i.waker = t /\ j.waker = t => b = c /\ i = j
  /\ pc[t] \in {"run", "load", "pair"} => ~counted[t] /\ moved[t] = "no" /\ ~Queued(t)
  /\ counted[t] => ~Queued(t)
  /\ pc[t] \in Waits => counted[t] \/ Queued(t)
  /\ \A b \in Buckets : \A i \in items[b] : i.waker = t =>
       /\ moved[t] # "across" => b = Bucket(args[t].addr)
       /\ moved[t] = "no" => MatchUp(i, Hash[args[t].addr], Bits)

\* The result of t's wait.
ResultInv(t) ==
  pc[t] = "drop" => /\ counted[t] => result[t] = "ok"
                    /\ result[t] = "ok" => counted[t] \/ moved[t] = "across"
                    /\ Queued(t) => result[t] = "ok"

\* t sleeps on the value of the word, or the wakes for its change are to come.
ValueInv(t) ==
  pc[t] \in Waits \ {"remove"} /\ Queued(t) /\ ~stale[args[t].addr] /\ ~has_woken[t]
    /\ moved[t] = "no" => word[args[t].addr] = args[t].expect

\* What holds of each thread.
ThreadInv(t) == ItemInv(t) /\ ResultInv(t) /\ ValueInv(t)

\* The inductive invariant.
FutexInv == FutexTyped /\ \A t \in Threads : ThreadInv(t)

\* get_bucket finds a bucket for every address.
LEMMA BucketExists == \A a \in Addrs : Bucket(a) \in Buckets
  BY FutexAssumption DEF Bucket, Buckets

\* It holds when no call has started.
LEMMA FutexInvInit == Init => FutexInv
<1> SUFFICES ASSUME Init PROVE FutexInv
  OBVIOUS
<1>1. FutexTyped
  BY DEF Init, FutexTyped, DataTyped, CallsTyped, Waits, WaitArgs, PairArgs
<1>2. \A t \in Threads : ~Queued(t) /\ pc[t] = "run" /\ ~counted[t] /\ moved[t] = "no"
  BY DEF Init, Queued
<1>3. \A t \in Threads : ThreadInv(t)
  BY <1>2 DEF ThreadInv, ItemInv, ResultInv, ValueInv, Queued, Waits
<1> QED
  BY <1>1, <1>3 DEF FutexInv

\* A step to another label keeps the types, with arguments that fit the label.
LEMMA GotoTyped ==
  ASSUME CallsTyped, NEW t \in Threads, NEW label, NEW arg,
         Goto(t, label), args' = [args EXCEPT ![t] = arg],
         \/ label = "run" /\ arg = <<>>
         \/ label = "pair" /\ arg \in PairArgs
         \/ label \in {"load", "drop"} \cup Waits /\ arg \in WaitArgs
  PROVE  CallsTyped'
<1>1. pc' \in [Threads -> {"run", "load", "pair", "drop"} \cup Waits]
  BY DEF CallsTyped, Goto
<1>2. args' \in [Threads -> WaitArgs \cup PairArgs \cup {<<>>}]
  BY DEF CallsTyped
<1>3. ASSUME NEW u \in Threads
      PROVE  /\ pc'[u] \in {"load", "drop"} \cup Waits => args'[u] \in WaitArgs
             /\ pc'[u] = "pair" => args'[u] \in PairArgs
  <2>1. CASE u = t
    <3>1. pc'[u] = label /\ args'[u] = arg
      BY <2>1 DEF CallsTyped, Goto
    <3> QED
      BY <3>1 DEF Waits
  <2>2. CASE u # t
    BY <2>2 DEF CallsTyped, Goto
  <2> QED
    BY <2>1, <2>2
<1> QED
  BY <1>1, <1>2, <1>3 DEF CallsTyped

\* Moving on inside futex_wait keeps the types.
LEMMA WaitGotoTyped ==
  ASSUME CallsTyped, NEW t \in Threads, NEW label \in {"drop"} \cup Waits,
         Goto(t, label), UNCHANGED args, pc[t] \in {"load", "drop"} \cup Waits
  PROVE  CallsTyped'
<1>1. args' = [args EXCEPT ![t] = args[t]] /\ args[t] \in WaitArgs
  BY DEF CallsTyped
<1> QED
  BY <1>1, GotoTyped, Zenon

\* The item that t adds.
LEMMA NewItemTyped ==
  ASSUME CallsTyped, NEW t \in Threads, pc[t] \in {"load", "drop"} \cup Waits
  PROVE  /\ args[t].addr \in Addrs /\ Bucket(args[t].addr) \in Buckets
         /\ [hash |-> Hash[args[t].addr], bitset |-> args[t].bitset, waker |-> t] \in Item
         /\ args[t].bitset \cap Bits # {}
<1>1. args[t] \in WaitArgs
  BY DEF CallsTyped
<1>2. args[t].addr \in Addrs /\ args[t].bitset \in (SUBSET Bits) \ {{}}
  BY <1>1 DEF WaitArgs
<1> QED
  BY <1>2, BucketExists DEF Item

\* The steps of a wait keep the types.
LEMMA WaitTyped ==
  ASSUME FutexTyped, NEW t \in Threads,
         \/ LoadAndAddItem(t) \/ SetSignalledWaker(t) \/ CheckPending(t)
         \/ WaiterWait(t) \/ RemoveByWaker(t) \/ DropWaiter(t)
  PROVE  FutexTyped'
<1> USE DEF FutexTyped
<1>1. CASE LoadAndAddItem(t)
  <2>1. pc[t] = "load" /\ UNCHANGED <<word, stale, has_woken, counted, moved, args>>
    BY <1>1 DEF LoadAndAddItem, ghostVars
  <2>2. CallsTyped'
    <3>1. Goto(t, "drop") \/ Goto(t, "pause")
      BY <1>1 DEF LoadAndAddItem
    <3> QED
      BY <2>1, <3>1, WaitGotoTyped DEF Waits
  <2>3. items' \in [Buckets -> SUBSET Item]
    BY <1>1, <2>1, NewItemTyped DEF LoadAndAddItem, DataTyped
  <2>4. result' \in [Threads -> {"none", "ok", "err"}]
    BY <1>1 DEF LoadAndAddItem, DataTyped
  <2> QED
    BY <2>1, <2>2, <2>3, <2>4 DEF DataTyped
<1>2. CASE SetSignalledWaker(t)
  <2>1. CallsTyped'
    <3>1. (Goto(t, "remove") \/ Goto(t, "check")) /\ pc[t] = "pause" /\ UNCHANGED args
      BY <1>2 DEF SetSignalledWaker
    <3> QED
      BY <3>1, WaitGotoTyped DEF Waits
  <2> QED
    BY <1>2, <2>1 DEF DataTyped, SetSignalledWaker, ghostVars, bucketVars
<1>3. CASE CheckPending(t)
  <2>1. CallsTyped'
    <3>1. (Goto(t, "remove") \/ Goto(t, "wait")) /\ pc[t] = "check" /\ UNCHANGED args
      BY <1>3 DEF CheckPending
    <3> QED
      BY <3>1, WaitGotoTyped DEF Waits
  <2> QED
    BY <1>3, <2>1 DEF DataTyped, CheckPending, ghostVars, bucketVars
<1>4. CASE WaiterWait(t)
  <2>1. CallsTyped'
    <3>1. Goto(t, "remove") /\ pc[t] = "wait" /\ UNCHANGED args
      BY <1>4 DEF WaiterWait
    <3> QED
      BY <3>1, WaitGotoTyped DEF Waits
  <2> QED
    BY <1>4, <2>1 DEF DataTyped, WaiterWait, ghostVars, bucketVars
<1>5. CASE RemoveByWaker(t)
  <2>1. CallsTyped'
    <3>1. Goto(t, "drop") /\ pc[t] = "remove" /\ UNCHANGED args
      BY <1>5 DEF RemoveByWaker
    <3> QED
      BY <3>1, WaitGotoTyped DEF Waits
  <2> QED
    BY <1>5, <2>1 DEF DataTyped, RemoveByWaker, ghostVars
<1>6. CASE DropWaiter(t)
  <2>1. CallsTyped'
    BY <1>6, GotoTyped DEF DropWaiter
  <2>2. items' \in [Buckets -> SUBSET Item]
    <3>1. \A i \in Item : [i EXCEPT !.waker = Closed] \in Item
      BY DEF Item
    <3> QED
      BY <1>6, <3>1 DEF DropWaiter, DataTyped
  <2> QED
    BY <1>6, <2>1, <2>2 DEF DataTyped, DropWaiter
<1> QED
  BY <1>1, <1>2, <1>3, <1>4, <1>5, <1>6

\* The steps that leave items and calls alone keep the types.
LEMMA SignalTyped ==
  ASSUME FutexTyped, NEW t \in Threads,
         \/ EnqueueSignal(t) \/ WakeSignalledWaker(t) \/ HandleSignal(t) \/ Expire(t)
  PROVE  FutexTyped'
<1>1. UNCHANGED <<word, stale, items, counted, moved, result, pc, args>>
  BY DEF EnqueueSignal, WakeSignalledWaker, HandleSignal, Expire, bucketVars, pauseVars, ghostVars
<1>2. has_woken' = has_woken \/ has_woken' = [has_woken EXCEPT ![t] = TRUE]
  BY DEF EnqueueSignal, WakeSignalledWaker, HandleSignal, Expire, WakeUp
<1>3. DataTyped'
  BY <1>1, <1>2 DEF FutexTyped, DataTyped
<1> QED
  BY <1>1, <1>3 DEF FutexTyped, CallsTyped

\* A store by user code keeps the types.
LEMMA StoreTyped ==
  ASSUME FutexTyped, NEW a \in Words, Store(a)
  PROVE  FutexTyped'
<1>1. UNCHANGED <<items, has_woken, counted, moved, result, pc, args>>
  BY DEF Store, bucketVars, pauseVars
<1>2. a \in Addrs
  BY FutexAssumption
<1>3. word' \in [Addrs -> Nat] /\ stale' \in [Addrs -> BOOLEAN]
  BY <1>2 DEF FutexTyped, DataTyped, Store
<1>4. DataTyped'
  BY <1>1, <1>3 DEF FutexTyped, DataTyped
<1> QED
  BY <1>1, <1>4 DEF FutexTyped, CallsTyped

\* A wake with n = All takes all the matching live items of a bucket, for a live
\* item is its thread's only one.
LEMMA AllAreWoken ==
  ASSUME FutexInv, NEW b \in Buckets, NEW bucket \in SUBSET items[b], NEW h, NEW bits,
         NEW S \in WokenItems(bucket, h, bits, All)
  PROVE  \A i \in bucket : MatchUp(i, h, bits) /\ i.waker # Closed /\ ~has_woken[i.waker]
                             => i \in S
<1> DEFINE live == {i \in bucket : /\ MatchUp(i, h, bits)
                                   /\ i.waker # Closed
                                   /\ ~has_woken[i.waker]}
           f == [i \in live |-> i.waker]
<1>1. \A i \in live : i \in items[b] /\ i.waker \in Threads
  <2>1. items[b] \subseteq Item
    BY DEF FutexInv, FutexTyped, DataTyped
  <2> QED
    BY <2>1 DEF Item
<1>2. \A i, j \in live : i.waker = j.waker => i = j
  BY <1>1 DEF FutexInv, ThreadInv, ItemInv
<1>3. f \in Injection(live, Threads)
  BY <1>1, <1>2 DEF Injection, IsInjective
<1>4. Cardinality(live) <= All
  <2> HIDE DEF f, live
  <2> QED
    BY <1>3, FS_Injection, FutexAssumption DEF All
<1>5. FirstOf(live, All) = {live}
  BY <1>4 DEF FirstOf
<1> QED
  BY <1>5 DEF WokenItems

\* So does waking a set of items.
LEMMA WakeTyped ==
  ASSUME DataTyped, NEW S, Wake(S)
  PROVE  has_woken' \in [Threads -> BOOLEAN] /\ counted' \in [Threads -> BOOLEAN]
  BY DEF Wake, DataTyped

\* futex_wake_bitset keeps the types.
LEMMA FutexWakeBitsetTyped ==
  ASSUME FutexTyped, NEW t \in Threads, NEW a \in Addrs, NEW bits, NEW n,
         FutexWakeBitset(t, a, bits, n)
  PROVE  FutexTyped'
<1>1. UNCHANGED <<word, pc, args, result, moved>>
  BY DEF FutexWakeBitset, pauseVars
<1>2. PICK S : items' = [items EXCEPT ![Bucket(a)] = @ \ S] /\ Wake(S)
  BY DEF FutexWakeBitset
<1>3. items' \in [Buckets -> SUBSET Item]
  BY <1>2, BucketExists DEF FutexTyped, DataTyped
<1>4. stale' \in [Addrs -> BOOLEAN]
  BY DEF FutexWakeBitset, FutexTyped, DataTyped
<1>5. DataTyped'
  BY <1>1, <1>2, <1>3, <1>4, WakeTyped DEF FutexTyped, DataTyped
<1> QED
  BY <1>1, <1>5 DEF FutexTyped, CallsTyped

\* Starting a call keeps the types.
LEMMA StartTyped ==
  ASSUME FutexTyped, NEW t \in Threads,
         \/ \E a \in Words, bits \in BitSets, expect \in 0..MaxWord :
              FutexWaitBitset(t, a, expect, bits)
         \/ \E op \in {"wake_op", "requeue"}, p \in Pairs : LockFirstBucket(t, op, p[1], p[2])
  PROVE  FutexTyped'
<1>1. CASE \E a \in Words, bits \in BitSets, expect \in 0..MaxWord :
             FutexWaitBitset(t, a, expect, bits)
  <2>1. PICK a \in Words, bits \in BitSets, expect \in 0..MaxWord :
          FutexWaitBitset(t, a, expect, bits)
    BY <1>1
  <2> DEFINE arg == [addr |-> a, expect |-> expect, bitset |-> bits]
  <2>2. arg \in WaitArgs
    BY FutexAssumption DEF WaitArgs
  <2>3. Goto(t, "load") /\ args' = [args EXCEPT ![t] = arg]
    BY <2>1 DEF FutexWaitBitset
  <2> HIDE DEF arg
  <2>4. CallsTyped'
    BY <2>2, <2>3, GotoTyped DEF FutexTyped
  <2> QED
    BY <2>1, <2>4 DEF FutexTyped, DataTyped, FutexWaitBitset, bucketVars, pauseVars, ghostVars
<1>2. CASE \E op \in {"wake_op", "requeue"}, p \in Pairs : LockFirstBucket(t, op, p[1], p[2])
  <2>1. PICK op \in {"wake_op", "requeue"}, p \in Pairs : LockFirstBucket(t, op, p[1], p[2])
    BY <1>2
  <2> DEFINE arg == [op |-> op, addr1 |-> p[1], addr2 |-> p[2]]
  <2>2. arg \in PairArgs
    BY FutexAssumption DEF PairArgs
  <2>3. Goto(t, "pair") /\ args' = [args EXCEPT ![t] = arg]
    BY <2>1 DEF LockFirstBucket
  <2> HIDE DEF arg
  <2>4. CallsTyped'
    BY <2>2, <2>3, GotoTyped DEF FutexTyped
  <2> QED
    BY <2>1, <2>4 DEF FutexTyped, DataTyped, LockFirstBucket, pauseVars, ghostVars
<1> QED
  BY <1>1, <1>2

\* Releasing the buckets keeps the types.
LEMMA UnlockTyped ==
  ASSUME CallsTyped, NEW t \in Threads, UnlockBoth(t)
  PROVE  CallsTyped'
  BY GotoTyped DEF UnlockBoth

\* The two addresses of a call on a pair are addresses.
LEMMA PairAddrs ==
  ASSUME CallsTyped, NEW t \in Threads, pc[t] = "pair"
  PROVE  /\ args[t].addr1 \in Addrs /\ args[t].addr2 \in Addrs
         /\ Bucket(args[t].addr1) \in Buckets /\ Bucket(args[t].addr2) \in Buckets
<1>1. args[t] \in PairArgs
  BY DEF CallsTyped
<1> QED
  BY <1>1, BucketExists DEF PairArgs

\* What FutexWakeOp does once its operation has given bump and should_wake.
WakeOpWith(t, bump, should_wake, n1, n2) ==
  LET a1 == args[t].addr1
      a2 == args[t].addr2
  IN
  /\ bump => a2 \in Words /\ word[a2] < MaxWord
  /\ word' = [word EXCEPT ![a2] = IF bump THEN @ + 1 ELSE @]
  /\ \E S1 \in WokenItems(items[Bucket(a1)], Hash[a1], Bits, n1) :
     \E S2 \in IF should_wake
                 THEN WokenItems(items[Bucket(a2)] \ S1, Hash[a2], Bits, n2)
                 ELSE {{}} :
       /\ items' = [b \in Buckets |-> items[b] \ (S1 \cup S2)]
       /\ Wake(S1 \cup S2)
  /\ stale' = [a \in Addrs |->
       /\ stale[a] \/ (a = a2 /\ bump)
       /\ ~(a = a1 /\ n1 = All)
       /\ ~(a = a2 /\ should_wake /\ n2 = All)]

\* futex_wake_op does that, for some outcome of the operation and the comparison.
LEMMA WakeOpEffect ==
  ASSUME NEW t \in Threads, FutexWakeOp(t)
  PROVE  \E bump, should_wake \in BOOLEAN, n1, n2 \in Counts :
           WakeOpWith(t, bump, should_wake, n1, n2)
  BY Zenon DEF FutexWakeOp, WakeOpWith

\* futex_wake_op keeps the types.
LEMMA FutexWakeOpTyped ==
  ASSUME FutexTyped, NEW t \in Threads, FutexWakeOp(t)
  PROVE  FutexTyped'
<1>1. UNCHANGED <<result, moved>> /\ pc[t] = "pair" /\ UnlockBoth(t)
  BY DEF FutexWakeOp, pauseVars, BothLocked
<1>2. PICK bump, should_wake \in BOOLEAN, n1, n2 \in Counts :
        WakeOpWith(t, bump, should_wake, n1, n2)
  BY WakeOpEffect, Zenon
<1>3. word' \in [Addrs -> Nat]
  BY <1>1, <1>2, PairAddrs DEF FutexTyped, DataTyped, WakeOpWith
<1>4. PICK S : items' = [b \in Buckets |-> items[b] \ S] /\ Wake(S)
  BY <1>2 DEF WakeOpWith
<1>5. items' \in [Buckets -> SUBSET Item]
  BY <1>4 DEF FutexTyped, DataTyped
<1>6. stale' \in [Addrs -> BOOLEAN]
  BY <1>2 DEF FutexTyped, DataTyped, WakeOpWith
<1>7. DataTyped'
  BY <1>1, <1>3, <1>4, <1>5, <1>6, WakeTyped DEF FutexTyped, DataTyped
<1> QED
  BY <1>1, <1>7, UnlockTyped DEF FutexTyped

\* An item with another key.
Rekeyed(i, a) == [i EXCEPT !.hash = Hash[a], !.bitset = Bits]

\* A requeued item is an item, and keeps its waker.
LEMMA RekeyedItem ==
  ASSUME NEW i \in Item, NEW a \in Addrs
  PROVE  Rekeyed(i, a) \in Item /\ Rekeyed(i, a).waker = i.waker
  BY DEF Item, Rekeyed

\* What FutexRequeue does once it has found the items S1 to wake and S2 to move.
RequeueWith(t, n, S1, S2) ==
  LET a1 == args[t].addr1
      a2 == args[t].addr2
      b1 == Bucket(a1)
      b2 == Bucket(a2)
  IN
  /\ items' = [b \in Buckets |-> (items[b] \ (S1 \cup S2))
                                 \cup (IF b = b2 THEN {Rekeyed(i, a2) : i \in S2} ELSE {})]
  /\ Wake(S1)
  /\ moved' = [u \in Threads |-> IF u \in Wakers(S2) /\ moved[u] # "across"
                                  THEN IF b1 = b2 THEN "within" ELSE "across"
                                  ELSE moved[u]]
  /\ stale' = [stale EXCEPT ![a1] = @ /\ n # All]

\* futex_requeue does that, for some items of the first bucket.
LEMMA RequeueEffect ==
  ASSUME NEW t \in Threads, FutexRequeue(t)
  PROVE  \E n \in Counts :
         \E S1 \in WokenItems(items[Bucket(args[t].addr1)], Hash[args[t].addr1], Bits, n) :
         \E S2 \in SUBSET (items[Bucket(args[t].addr1)] \ S1) : RequeueWith(t, n, S1, S2)
<1> DEFINE a1 == args[t].addr1
           b1 == Bucket(a1)
           b2 == Bucket(args[t].addr2)
           Match(S1) == {i \in items[b1] \ S1 : MatchUp(i, Hash[a1], Bits)}
<1>1. PICK n \in Counts, max_nrequeues \in {0, 1, All} :
      \E S1 \in WokenItems(items[b1], Hash[a1], Bits, n) :
      \E S2 \in IF b1 = b2 THEN RekeyedItems(items[b1] \ S1, Match(S1), max_nrequeues)
                           ELSE FirstOf(Match(S1), max_nrequeues) :
        RequeueWith(t, n, S1, S2)
  BY Zenon DEF FutexRequeue, Rekeyed, RequeueWith
<1>2. PICK S1 \in WokenItems(items[b1], Hash[a1], Bits, n) :
      \E S2 \in IF b1 = b2 THEN RekeyedItems(items[b1] \ S1, Match(S1), max_nrequeues)
                           ELSE FirstOf(Match(S1), max_nrequeues) :
        RequeueWith(t, n, S1, S2)
  BY <1>1, Zenon
<1>3. PICK S2 \in IF b1 = b2 THEN RekeyedItems(items[b1] \ S1, Match(S1), max_nrequeues)
                             ELSE FirstOf(Match(S1), max_nrequeues) :
        RequeueWith(t, n, S1, S2)
  BY <1>2, Zenon
<1>4. S2 \in SUBSET (items[b1] \ S1)
  BY <1>3 DEF RekeyedItems, FirstOf
<1> QED
  BY <1>3, <1>4, Zenon

\* futex_requeue keeps the types.
LEMMA FutexRequeueTyped ==
  ASSUME FutexTyped, NEW t \in Threads, FutexRequeue(t)
  PROVE  FutexTyped'
<1>1. UNCHANGED <<word, result>> /\ pc[t] = "pair" /\ UnlockBoth(t)
  BY DEF FutexRequeue, pauseVars, BothLocked
<1> DEFINE a1 == args[t].addr1
           a2 == args[t].addr2
<1>2. PICK n, S1, S2 : S2 \subseteq items[Bucket(a1)] /\ RequeueWith(t, n, S1, S2)
  BY RequeueEffect
<1>3. items[Bucket(a1)] \subseteq Item /\ a2 \in Addrs
  BY <1>1, PairAddrs DEF FutexTyped, DataTyped
<1>4. items' \in [Buckets -> SUBSET Item]
  <2>1. \A i \in S2 : Rekeyed(i, a2) \in Item
    BY <1>2, <1>3, RekeyedItem, Zenon
  <2> QED
    BY <1>2, <2>1 DEF FutexTyped, DataTyped, RequeueWith
<1>5. moved' \in [Threads -> {"no", "within", "across"}] /\ stale' \in [Addrs -> BOOLEAN]
  BY <1>2 DEF FutexTyped, DataTyped, RequeueWith
<1>6. DataTyped'
  BY <1>1, <1>2, <1>4, <1>5, WakeTyped DEF FutexTyped, DataTyped, RequeueWith
<1> QED
  BY <1>1, <1>6, UnlockTyped DEF FutexTyped

-----------------------------------------------------------------------------

\* The steps at which a thread has no item.
Idle == {"run", "load", "pair"}

\* The step leaves the items of thread u where they are.
ItemsKept(u) == \A b \in Buckets : \A i \in Item :
                  i.waker = u => (i \in items'[b] <=> i \in items[b])

\* If u still sleeps unwoken, its word has not changed or is stale now.
ValueKept(u) ==
  pc[u] \in Waits /\ Queued(u) /\ ~has_woken[u] /\ moved[u] = "no" =>
    LET a == args[u].addr IN stale'[a] \/ (~stale[a] /\ word'[a] = word[a])

\* If a step keeps u's items, u stays queued, or stays off the queues.
LEMMA QueuedKept ==
  ASSUME DataTyped, DataTyped', NEW u, ItemsKept(u)
  PROVE  /\ Queued(u)' <=> Queued(u)
         /\ \A b \in Buckets : \A i \in items'[b] : i.waker = u => i \in items[b]
<1>1. \A b \in Buckets : items[b] \subseteq Item /\ items'[b] \subseteq Item
  BY DEF DataTyped
<1> QED
  BY <1>1 DEF Queued, ItemsKept

\* What holds of a thread goes on to hold when the step does not concern it, or
\* takes it from one label without an item to another.
LEMMA ThreadKept ==
  ASSUME FutexTyped, FutexTyped', NEW u \in Threads, ThreadInv(u), ItemsKept(u), ValueKept(u),
         UNCHANGED <<counted[u], moved[u], result[u]>>,
         \/ pc[u] \in Idle /\ pc'[u] \in Idle
         \/ UNCHANGED <<pc[u], args[u]>> /\ (has_woken[u] => has_woken'[u])
  PROVE  ThreadInv(u)'
<1>1. /\ Queued(u)' <=> Queued(u)
      /\ \A b \in Buckets : \A i \in items'[b] : i.waker = u => i \in items[b]
  BY QueuedKept, Zenon DEF FutexTyped
<1>2. CASE pc[u] \in Idle /\ pc'[u] \in Idle
  <2>1. ~counted[u] /\ moved[u] = "no" /\ ~Queued(u)'
    BY <1>1, <1>2 DEF ThreadInv, ItemInv, Idle
  <2>2. \A b \in Buckets : \A i \in items'[b] : i.waker # u
    BY <2>1 DEF Queued
  <2> QED
    BY <1>2, <2>1, <2>2 DEF ThreadInv, ItemInv, ResultInv, ValueInv, Idle, Waits
<1>3. CASE UNCHANGED <<pc[u], args[u]>> /\ (has_woken[u] => has_woken'[u])
  <2>1. ItemInv(u)'
    <3>1. \A b, c \in Buckets : \A i \in items'[b], j \in items'[c] :
            i.waker = u /\ j.waker = u => b = c /\ i = j
      BY <1>1 DEF ThreadInv, ItemInv
    <3>2. \A b \in Buckets : \A i \in items'[b] : i.waker = u =>
            /\ moved'[u] # "across" => b = Bucket(args'[u].addr)
            /\ moved'[u] = "no" => MatchUp(i, Hash[args'[u].addr], Bits)
      BY <1>1, <1>3 DEF ThreadInv, ItemInv
    <3> QED
      BY <1>1, <1>3, <3>1, <3>2, Zenon DEF ThreadInv, ItemInv, MatchUp, Bucket
  <2>2. ResultInv(u)'
    BY <1>1, <1>3, Zenon DEF ThreadInv, ResultInv
  <2>3. ValueInv(u)'
    BY <1>1, <1>3 DEF ThreadInv, ValueInv, ValueKept
  <2> QED
    BY <2>1, <2>2, <2>3 DEF ThreadInv
<1> QED
  BY <1>2, <1>3

\* A thread whose item a wake takes is counted, and has it no more.
LEMMA WokenKept ==
  ASSUME NEW u \in Threads, ThreadInv(u), Queued(u), ~Queued(u)', counted'[u], has_woken'[u],
         UNCHANGED <<pc[u], args[u], moved[u], result[u]>>
  PROVE  ThreadInv(u)'
<1>1. \A b \in Buckets : \A i \in items'[b] : i.waker # u
  BY DEF Queued
<1>2. pc[u] \notin {"run", "load", "pair"}
  BY DEF ThreadInv, ItemInv
<1> QED
  BY <1>1, <1>2 DEF ThreadInv, ItemInv, ResultInv, ValueInv

\* The wakes of S: they take the items of S out of the buckets.
LEMMA TakenKept ==
  ASSUME FutexInv, FutexTyped', NEW u \in Threads, NEW S, Wake(S),
         \A i \in S : \E b \in Buckets : i \in items[b],
         \A b \in Buckets : \A i \in Item :
           i.waker = u => (i \in items'[b] <=> i \in items[b] /\ i \notin S),
         u \notin Wakers(S) => ValueKept(u),
         UNCHANGED <<moved[u], result[u]>>,
         \/ pc[u] \in Idle /\ pc'[u] \in Idle
         \/ UNCHANGED <<pc[u], args[u]>>
  PROVE  ThreadInv(u)'
<1>1. ThreadInv(u) /\ FutexTyped
  BY DEF FutexInv
<1>2. /\ has_woken'[u] = (has_woken[u] \/ u \in Wakers(S))
      /\ counted'[u] = (counted[u] \/ u \in Wakers(S))
  BY DEF Wake
<1>3. CASE u \in Wakers(S)
  <2>1. PICK i \in S, b \in Buckets : i.waker = u /\ i \in items[b]
    BY <1>3 DEF Wakers
  <2>2. Queued(u)
    BY <2>1 DEF Queued
  <2>3. ~Queued(u)'
    <3>1. ASSUME NEW c \in Buckets, NEW j \in items'[c], j.waker = u PROVE FALSE
      <4>1. j \in Item
        BY <3>1 DEF FutexTyped, DataTyped
      <4>2. j \in items[c] /\ j \notin S
        BY <3>1, <4>1
      <4>3. j = i
        BY <1>1, <2>1, <3>1, <4>2 DEF ThreadInv, ItemInv
      <4> QED
        BY <2>1, <4>2, <4>3
    <3> QED
      BY <3>1 DEF Queued
  <2>4. UNCHANGED <<pc[u], args[u]>>
    BY <1>1, <2>2 DEF ThreadInv, ItemInv, Idle
  <2> QED
    BY <1>1, <1>2, <1>3, <2>2, <2>3, <2>4, WokenKept, Zenon
<1>4. CASE u \notin Wakers(S)
  <2>1. ItemsKept(u)
    BY <1>4 DEF ItemsKept, Wakers
  <2>2. counted'[u] = counted[u] /\ (has_woken[u] => has_woken'[u])
    BY <1>1, <1>2, <1>4, Zenon DEF FutexTyped, DataTyped
  <2> QED
    BY <1>1, <1>4, <2>1, <2>2, ThreadKept, Zenon
<1> QED
  BY <1>3, <1>4

\* A thread whose item a requeue moves from bucket b1 to b2.
LEMMA RequeuedKept ==
  ASSUME FutexInv, FutexTyped', NEW u \in Threads, NEW b1 \in Buckets, NEW b2 \in Buckets,
         \E i \in items[b1] : i.waker = u,
         \E k \in items'[b2] :
           k.waker = u /\ \A b \in Buckets : \A j \in items'[b] : j.waker = u => b = b2 /\ j = k,
         UNCHANGED <<pc[u], args[u], counted[u], result[u]>>,
         moved'[u] = IF moved[u] # "across" THEN IF b1 = b2 THEN "within" ELSE "across"
                                            ELSE moved[u]
  PROVE  ThreadInv(u)'
<1>1. ThreadInv(u) /\ Queued(u) /\ Queued(u)'
  BY DEF FutexInv, Queued
<1>2. pc[u] \notin Idle /\ ~counted[u]
  BY <1>1 DEF ThreadInv, ItemInv, Idle
<1>3. moved[u] # "across" => b1 = Bucket(args[u].addr)
  BY <1>1 DEF ThreadInv, ItemInv
<1>4. ItemInv(u)'
  <2>1. \A b, c \in Buckets : \A j \in items'[b], l \in items'[c] :
          j.waker = u /\ l.waker = u => b = c /\ j = l
    OBVIOUS
  <2>2. \A b \in Buckets : \A j \in items'[b] : j.waker = u =>
            /\ moved'[u] # "across" => b = Bucket(args'[u].addr)
            /\ moved'[u] # "no"
    BY <1>3
  <2> QED
    BY <1>1, <1>2, <2>1, <2>2, Zenon DEF ItemInv, Idle, Bucket
<1>5. ResultInv(u)'
  BY <1>1, <1>2 DEF ThreadInv, ResultInv
<1>6. ValueInv(u)'
  BY DEF ValueInv
<1> QED
  BY <1>4, <1>5, <1>6 DEF ThreadInv

\* A thread that sleeps under its own key is among the waiters a full wake takes.
LEMMA SleeperIsWoken ==
  ASSUME FutexInv, NEW u \in Threads, pc[u] \in Waits, Queued(u), ~has_woken[u],
         moved[u] = "no", NEW T, u \notin Wakers(T), NEW a, a = args[u].addr,
         NEW S \in WokenItems(items[Bucket(a)] \ T, Hash[a], Bits, All)
  PROVE  u \in Wakers(S)
<1>1. PICK b \in Buckets : \E i \in items[b] : i.waker = u
  BY DEF Queued
<1>2. PICK i \in items[b] : i.waker = u
  BY <1>1
<1>3. b = Bucket(a) /\ MatchUp(i, Hash[a], Bits)
  BY <1>2 DEF FutexInv, ThreadInv, ItemInv
<1>4. i \in items[Bucket(a)] \ T /\ i.waker # Closed
  BY <1>2, <1>3, FutexAssumption DEF Wakers
<1>5. i \in S
  <2>1. items[b] \ T \in SUBSET items[b] /\ S \in WokenItems(items[b] \ T, Hash[a], Bits, All)
    BY <1>3
  <2> QED
    BY <1>2, <1>3, <1>4, <2>1, AllAreWoken, Zenon
<1> QED
  BY <1>2, <1>5 DEF Wakers

\* futex_wake_bitset keeps the invariant of every thread.
LEMMA FutexWakeBitsetKeeps ==
  ASSUME FutexInv, FutexTyped', NEW t \in Threads, NEW a \in Addrs, NEW bits, NEW n,
         FutexWakeBitset(t, a, bits, n), NEW u \in Threads
  PROVE  ThreadInv(u)'
<1>1. UNCHANGED <<word, pc, args, result, moved>>
  BY DEF FutexWakeBitset, pauseVars
<1>2. PICK S \in WokenItems(items[Bucket(a)], Hash[a], bits, n) :
        items' = [items EXCEPT ![Bucket(a)] = @ \ S] /\ Wake(S)
  BY DEF FutexWakeBitset
<1>3. stale' = [stale EXCEPT ![a] = @ /\ ~(n = All /\ bits = Bits)]
  BY DEF FutexWakeBitset
<1>4. Bucket(a) \in Buckets /\ \A i \in S : i \in items[Bucket(a)]
  BY <1>2, BucketExists DEF WokenItems, FirstOf
<1>5. \A b \in Buckets : \A i \in Item :
        i.waker = u => (i \in items'[b] <=> i \in items[b] /\ i \notin S)
  <2>1. ASSUME NEW b \in Buckets, NEW i \in Item, i.waker = u, i \in S, b # Bucket(a)
        PROVE  i \notin items[b]
    BY <1>4, <2>1 DEF FutexInv, ThreadInv, ItemInv
  <2>2. /\ items'[Bucket(a)] = items[Bucket(a)] \ S
        /\ \A b \in Buckets : b # Bucket(a) => items'[b] = items[b]
    BY <1>2, <1>4 DEF FutexInv, FutexTyped, DataTyped
  <2> QED
    BY <2>1, <2>2, Zenon
<1>6. ASSUME u \notin Wakers(S) PROVE ValueKept(u)
  <2> SUFFICES ASSUME pc[u] \in Waits, Queued(u), ~has_woken[u], moved[u] = "no",
                      ~stale'[args[u].addr]
               PROVE  ~stale[args[u].addr]
    BY <1>1 DEF ValueKept
  <2>1. args[u].addr \in Addrs
    BY NewItemTyped DEF FutexInv, FutexTyped
  <2>2. CASE args[u].addr = a /\ n = All /\ bits = Bits
    <3>1. S \in WokenItems(items[Bucket(a)] \ {}, Hash[a], Bits, All)
      BY <1>2, <2>2
    <3> QED
      BY <1>6, <2>2, <3>1, SleeperIsWoken DEF Wakers
  <2>3. CASE ~(args[u].addr = a /\ n = All /\ bits = Bits)
    BY <1>3, <2>1, <2>3 DEF FutexInv, FutexTyped, DataTyped
  <2> QED
    BY <2>2, <2>3
<1> QED
  BY <1>1, <1>2, <1>4, <1>5, <1>6, TakenKept, Zenon

\* The thread of a call on two addresses is without an item, before and after.
LEMMA OthersUnlocked ==
  ASSUME FutexTyped, NEW t \in Threads, pc[t] = "pair", UnlockBoth(t), NEW u \in Threads
  PROVE  \/ pc[u] \in Idle /\ pc'[u] \in Idle
         \/ UNCHANGED <<pc[u], args[u]>>
  BY DEF FutexTyped, CallsTyped, UnlockBoth, Goto, Idle

\* futex_wake_op keeps the invariant of every thread.
LEMMA FutexWakeOpKeeps ==
  ASSUME FutexInv, FutexTyped', NEW t \in Threads, FutexWakeOp(t), NEW u \in Threads
  PROVE  ThreadInv(u)'
<1> DEFINE a1 == args[t].addr1
           a2 == args[t].addr2
<1>1. UNCHANGED <<result, moved>> /\ pc[t] = "pair" /\ UnlockBoth(t) /\ FutexTyped
  BY DEF FutexWakeOp, pauseVars, BothLocked, FutexInv
<1>2. PICK bump, should_wake \in BOOLEAN, n1, n2 \in Counts :
        WakeOpWith(t, bump, should_wake, n1, n2)
  BY WakeOpEffect, Zenon
<1>3. PICK S1 \in WokenItems(items[Bucket(a1)], Hash[a1], Bits, n1) :
      \E S2 \in IF should_wake
                  THEN WokenItems(items[Bucket(a2)] \ S1, Hash[a2], Bits, n2)
                  ELSE {{}} :
        /\ items' = [b \in Buckets |-> items[b] \ (S1 \cup S2)]
        /\ Wake(S1 \cup S2)
  BY <1>2, Zenon DEF WakeOpWith
<1>4. PICK S2 \in IF should_wake
                    THEN WokenItems(items[Bucket(a2)] \ S1, Hash[a2], Bits, n2)
                    ELSE {{}} :
        /\ items' = [b \in Buckets |-> items[b] \ (S1 \cup S2)]
        /\ Wake(S1 \cup S2)
  BY <1>3, Zenon
<1>5. a1 \in Addrs /\ a2 \in Addrs /\ Bucket(a1) \in Buckets /\ Bucket(a2) \in Buckets
  BY <1>1, PairAddrs DEF FutexTyped
<1> DEFINE S == S1 \cup S2
<1>6. \A i \in S : \E b \in Buckets : i \in items[b]
  <2>1. \A i \in S1 : i \in items[Bucket(a1)]
    BY <1>3 DEF WokenItems, FirstOf
  <2>2. CASE should_wake
    <3>1. \A i \in S2 : i \in items[Bucket(a2)] \ S1
      BY <1>4, <2>2 DEF WokenItems, FirstOf
    <3> QED
      BY <1>5, <2>1, <3>1
  <2>3. CASE ~should_wake
    BY <1>4, <1>5, <2>1, <2>3
  <2> QED
    BY <2>2, <2>3
<1>7. \A b \in Buckets : \A i \in Item :
        i.waker = u => (i \in items'[b] <=> i \in items[b] /\ i \notin S)
  BY <1>4
<1>8. ASSUME u \notin Wakers(S) PROVE ValueKept(u)
  <2> SUFFICES ASSUME pc[u] \in Waits, Queued(u), ~has_woken[u], moved[u] = "no",
                      ~stale'[args[u].addr]
               PROVE  ~stale[args[u].addr] /\ word'[args[u].addr] = word[args[u].addr]
    BY DEF ValueKept
  <2>1. args[u].addr \in Addrs
    BY NewItemTyped DEF FutexInv, FutexTyped
  <2>2. u \notin Wakers(S1) /\ u \notin Wakers(S2)
    BY <1>8 DEF Wakers
  <2>3. CASE args[u].addr = a1 /\ n1 = All
    <3>1. S1 \in WokenItems(items[Bucket(a1)] \ {}, Hash[a1], Bits, All)
      BY <1>3, <2>3
    <3> QED
      BY <2>2, <2>3, <3>1, SleeperIsWoken DEF Wakers
  <2>4. CASE args[u].addr = a2 /\ should_wake /\ n2 = All
    <3>1. S2 \in WokenItems(items[Bucket(a2)] \ S1, Hash[a2], Bits, All)
      BY <1>4, <2>4
    <3> QED
      BY <2>2, <2>4, <3>1, SleeperIsWoken, Zenon
  <2>5. CASE ~(args[u].addr = a1 /\ n1 = All) /\ ~(args[u].addr = a2 /\ should_wake /\ n2 = All)
    <3>1. ~(stale[args[u].addr] \/ (args[u].addr = a2 /\ bump))
      BY <1>2, <2>1, <2>5 DEF WakeOpWith
    <3> QED
      BY <1>1, <1>2, <1>5, <2>1, <3>1 DEF WakeOpWith, FutexTyped, DataTyped
  <2> QED
    BY <2>3, <2>4, <2>5
<1>9. \/ pc[u] \in Idle /\ pc'[u] \in Idle
      \/ UNCHANGED <<pc[u], args[u]>>
  BY <1>1, OthersUnlocked
<1> HIDE DEF S
<1> QED
  BY <1>1, <1>4, <1>6, <1>7, <1>8, <1>9, TakenKept, Zenon DEF S

\* futex_requeue keeps the invariant of every thread.
LEMMA FutexRequeueKeeps ==
  ASSUME FutexInv, FutexTyped', NEW t \in Threads, FutexRequeue(t), NEW u \in Threads
  PROVE  ThreadInv(u)'
<1> DEFINE a1 == args[t].addr1
           a2 == args[t].addr2
           b1 == Bucket(a1)
           b2 == Bucket(a2)
<1>1. UNCHANGED <<word, result>> /\ pc[t] = "pair" /\ UnlockBoth(t) /\ FutexTyped
  BY DEF FutexRequeue, pauseVars, BothLocked, FutexInv
<1>2. PICK n \in Counts : \E S1 \in WokenItems(items[b1], Hash[a1], Bits, n) :
        \E S2 \in SUBSET (items[b1] \ S1) : RequeueWith(t, n, S1, S2)
  BY RequeueEffect, Zenon
<1>3. PICK S1 \in WokenItems(items[b1], Hash[a1], Bits, n) :
        \E S2 \in SUBSET (items[b1] \ S1) : RequeueWith(t, n, S1, S2)
  BY <1>2, Zenon
<1>4. PICK S2 \in SUBSET (items[b1] \ S1) : RequeueWith(t, n, S1, S2)
  BY <1>3
<1>5. a1 \in Addrs /\ a2 \in Addrs /\ b1 \in Buckets /\ b2 \in Buckets
  BY <1>1, PairAddrs DEF FutexTyped
<1>6. \A i \in S1 : i \in items[b1]
  BY <1>3 DEF WokenItems, FirstOf
<1>7. \A i \in S2 : i \in items[b1] /\ i \in Item /\ i \notin S1
  BY <1>1, <1>4, <1>5 DEF FutexTyped, DataTyped
<1>8. \A i \in S2 : Rekeyed(i, a2) \in Item /\ Rekeyed(i, a2).waker = i.waker
  BY <1>5, <1>7, RekeyedItem, Zenon
<1>9. \A b \in Buckets : \A i : i \in items'[b] <=>
        \/ i \in items[b] /\ i \notin S1 /\ i \notin S2
        \/ b = b2 /\ \E k \in S2 : i = Rekeyed(k, a2)
  BY <1>4 DEF RequeueWith
<1>10. Wake(S1) /\ stale' = [stale EXCEPT ![a1] = @ /\ n # All]
  BY <1>4 DEF RequeueWith
<1>11. moved'[u] = IF u \in Wakers(S2) /\ moved[u] # "across"
                     THEN IF b1 = b2 THEN "within" ELSE "across"
                     ELSE moved[u]
  BY <1>4 DEF RequeueWith
<1>12. \/ pc[u] \in Idle /\ pc'[u] \in Idle
       \/ UNCHANGED <<pc[u], args[u]>>
  BY <1>1, OthersUnlocked
<1> HIDE DEF b1, b2, a1, a2
<1>13. CASE u \in Wakers(S2)
  <2>1. PICK i \in S2 : i.waker = u
    BY <1>13 DEF Wakers
  <2>2. i \in items[b1] /\ ThreadInv(u)
    BY <1>7 DEF FutexInv
  <2>3. \A b \in Buckets : \A j \in items[b] : j.waker = u => b = b1 /\ j = i
    BY <1>5, <2>1, <2>2 DEF ThreadInv, ItemInv
  <2>4. u \notin Wakers(S1)
    BY <1>5, <1>6, <1>7, <2>1, <2>3 DEF Wakers
  <2>5. counted'[u] = counted[u]
    BY <1>1, <1>10, <2>4 DEF Wake, FutexTyped, DataTyped
  <2>6. \E k \in items'[b2] :
          k.waker = u /\ \A b \in Buckets : \A j \in items'[b] : j.waker = u => b = b2 /\ j = k
    <3>1. Rekeyed(i, a2) \in items'[b2] /\ Rekeyed(i, a2).waker = u
      BY <1>5, <1>8, <1>9, <2>1, Zenon
    <3>2. ASSUME NEW b \in Buckets, NEW j \in items'[b], j.waker = u
          PROVE  b = b2 /\ j = Rekeyed(i, a2)
      <4>1. CASE j \in items[b] /\ j \notin S1 /\ j \notin S2
        BY <2>1, <2>3, <3>2, <4>1
      <4>2. CASE b = b2 /\ \E k \in S2 : j = Rekeyed(k, a2)
        <5>1. PICK k \in S2 : j = Rekeyed(k, a2)
          BY <4>2
        <5>2. k.waker = u
          BY <1>8, <3>2, <5>1
        <5> QED
          BY <1>5, <1>7, <2>3, <4>2, <5>1, <5>2
      <4> QED
        BY <1>9, <3>2, <4>1, <4>2, Zenon
    <3> QED
      BY <3>1, <3>2, Zenon
  <2>7. UNCHANGED <<pc[u], args[u], counted[u], result[u]>>
    BY <1>1, <1>5, <1>12, <2>1, <2>2, <2>5 DEF ThreadInv, ItemInv, Idle, Queued
  <2>8. moved'[u] = IF moved[u] # "across" THEN IF b1 = b2 THEN "within" ELSE "across"
                                           ELSE moved[u]
    BY <1>11, <1>13
  <2> QED
    <3>1. \E j \in items[b1] : j.waker = u
      BY <2>1, <2>2
    <3> QED
      BY <1>5, <2>6, <2>7, <2>8, <3>1, RequeuedKept, Zenon
<1>14. CASE u \notin Wakers(S2)
  <2>1. \A b \in Buckets : \A i \in Item :
          i.waker = u => (i \in items'[b] <=> i \in items[b] /\ i \notin S1)
    BY <1>8, <1>9, <1>14 DEF Wakers
  <2>2. moved'[u] = moved[u] /\ result'[u] = result[u]
    BY <1>1, <1>11, <1>14
  <2>3. ASSUME u \notin Wakers(S1) PROVE ValueKept(u)
    <3> SUFFICES ASSUME pc[u] \in Waits, Queued(u), ~has_woken[u], moved[u] = "no",
                        ~stale'[args[u].addr]
                 PROVE  ~stale[args[u].addr]
      BY <1>1 DEF ValueKept
    <3>1. args[u].addr \in Addrs
      BY NewItemTyped DEF FutexInv, FutexTyped
    <3>2. CASE args[u].addr = a1 /\ n = All
      <4>1. S1 \in WokenItems(items[Bucket(a1)] \ {}, Hash[a1], Bits, All)
        BY <1>3, <3>2 DEF b1
      <4> QED
        BY <2>3, <3>2, <4>1, SleeperIsWoken DEF Wakers
    <3>3. CASE ~(args[u].addr = a1 /\ n = All)
      BY <1>1, <1>5, <1>10, <3>1, <3>3 DEF FutexTyped, DataTyped
    <3> QED
      BY <3>2, <3>3
  <2> QED
    BY <1>5, <1>6, <1>10, <1>12, <2>1, <2>2, <2>3, TakenKept, Zenon
<1> QED
  BY <1>13, <1>14

\* A step that changes neither buckets nor words.
LEMMA StillKept ==
  ASSUME FutexTyped, FutexTyped', NEW u \in Threads, ThreadInv(u),
         UNCHANGED <<items, word, stale>>, UNCHANGED <<counted[u], moved[u], result[u]>>,
         \/ pc[u] \in Idle /\ pc'[u] \in Idle
         \/ UNCHANGED <<pc[u], args[u]>> /\ (has_woken[u] => has_woken'[u])
  PROVE  ThreadInv(u)'
<1>1. ItemsKept(u) /\ ValueKept(u)
  BY DEF ItemsKept, ValueKept
<1> QED
  BY <1>1, ThreadKept, Zenon

\* Starting a call keeps the invariant of every thread.
LEMMA StartKeeps ==
  ASSUME FutexInv, FutexTyped', NEW t \in Threads, NEW u \in Threads,
         \/ \E a \in Words, bits \in BitSets, expect \in 0..MaxWord :
              FutexWaitBitset(t, a, expect, bits)
         \/ \E op \in {"wake_op", "requeue"}, p \in Pairs : LockFirstBucket(t, op, p[1], p[2])
  PROVE  ThreadInv(u)'
<1>1. /\ UNCHANGED <<items, word, stale, counted, moved, result>>
      /\ pc[t] = "run" /\ (Goto(t, "load") \/ Goto(t, "pair"))
      /\ \E arg : args' = [args EXCEPT ![t] = arg]
      /\ \E woken : has_woken' = [has_woken EXCEPT ![t] = woken]
  <2>1. CASE \E a \in Words, bits \in BitSets, expect \in 0..MaxWord :
               FutexWaitBitset(t, a, expect, bits)
    BY <2>1 DEF FutexWaitBitset, Call, bucketVars, pauseVars, ghostVars
  <2>2. CASE \E op \in {"wake_op", "requeue"}, p \in Pairs : LockFirstBucket(t, op, p[1], p[2])
    <3>1. has_woken' = [has_woken EXCEPT ![t] = has_woken[t]]
      BY <2>2 DEF LockFirstBucket, FutexInv, FutexTyped, DataTyped
    <3> QED
      BY <2>2, <3>1 DEF LockFirstBucket, Call, pauseVars, ghostVars
  <2> QED
    BY <2>1, <2>2
<1>2. /\ UNCHANGED <<items, word, stale>> /\ UNCHANGED <<counted[u], moved[u], result[u]>>
      /\ FutexTyped /\ ThreadInv(u)
  BY <1>1 DEF FutexInv
<1>3. CASE u = t
  <2>1. pc[u] \in Idle /\ pc'[u] \in Idle
    BY <1>1, <1>2, <1>3 DEF Goto, Idle, FutexTyped, CallsTyped
  <2> QED
    BY <1>2, <2>1, StillKept, Zenon
<1>4. CASE u # t
  <2>1. UNCHANGED <<pc[u], args[u]>> /\ (has_woken[u] => has_woken'[u])
    BY <1>1, <1>2, <1>4 DEF Goto, FutexTyped, CallsTyped, DataTyped
  <2> QED
    BY <1>2, <2>1, StillKept, Zenon
<1> QED
  BY <1>3, <1>4

\* A signal keeps the invariant of every thread.
LEMMA SignalKeeps ==
  ASSUME FutexInv, FutexTyped', NEW t \in Threads, NEW u \in Threads,
         \/ EnqueueSignal(t) \/ WakeSignalledWaker(t) \/ HandleSignal(t) \/ Expire(t)
  PROVE  ThreadInv(u)'
<1>1. UNCHANGED <<word, stale, items, counted, moved, result, pc, args>>
  BY DEF EnqueueSignal, WakeSignalledWaker, HandleSignal, Expire, bucketVars, pauseVars, ghostVars
<1>2. has_woken' = has_woken \/ has_woken' = [has_woken EXCEPT ![t] = TRUE]
  BY DEF EnqueueSignal, WakeSignalledWaker, HandleSignal, Expire, WakeUp
<1>3. FutexTyped /\ ThreadInv(u) /\ (has_woken[u] => has_woken'[u])
  BY <1>2 DEF FutexInv, FutexTyped, DataTyped
<1>4. UNCHANGED <<items, word, stale>> /\ UNCHANGED <<counted[u], moved[u], result[u]>>
  BY <1>1
<1>5. UNCHANGED <<pc[u], args[u]>>
  BY <1>1
<1> QED
  BY <1>3, <1>4, <1>5, StillKept, Zenon

\* A store by user code keeps the invariant of every thread.
LEMMA StoreKeeps ==
  ASSUME FutexInv, FutexTyped', NEW a \in Words, Store(a), NEW u \in Threads
  PROVE  ThreadInv(u)'
<1>1. UNCHANGED <<items, has_woken, counted, moved, result, pc, args>>
  BY DEF Store, bucketVars, pauseVars
<1>2. FutexTyped /\ ThreadInv(u) /\ ItemsKept(u)
  BY <1>1 DEF FutexInv, ItemsKept
<1>3. ValueKept(u)
  <2> SUFFICES ASSUME pc[u] \in Waits
               PROVE  LET x == args[u].addr
                      IN  stale'[x] \/ (~stale[x] /\ word'[x] = word[x])
    BY DEF ValueKept
  <2>1. args[u].addr \in Addrs
    BY <1>2, NewItemTyped DEF FutexTyped
  <2> QED
    BY <1>2, <2>1 DEF Store, FutexTyped, DataTyped
<1>4. UNCHANGED <<counted[u], moved[u], result[u]>> /\ UNCHANGED <<pc[u], args[u]>>
      /\ (has_woken[u] => has_woken'[u])
  BY <1>1
<1> QED
  BY <1>2, <1>3, <1>4, ThreadKept, Zenon

\* pause_timeout: t goes on with its item, and with has_woken as it is until it
\* is done with sleeping.
LEMMA PauseKeeps ==
  ASSUME FutexInv, FutexTyped', NEW t \in Threads, NEW u \in Threads,
         SetSignalledWaker(t) \/ CheckPending(t) \/ WaiterWait(t)
  PROVE  ThreadInv(u)'
<1>1. /\ UNCHANGED <<word, stale, items, counted, moved, args>>
      /\ pc[t] \in {"pause", "check", "wait"}
      /\ \/ (Goto(t, "check") \/ Goto(t, "wait")) /\ UNCHANGED <<has_woken, result>>
         \/ /\ Goto(t, "remove")
            /\ \E woken : has_woken' = [has_woken EXCEPT ![t] = woken]
            /\ \E res : result' = [result EXCEPT ![t] = res]
  <2>1. has_woken = [has_woken EXCEPT ![t] = has_woken[t]]
    BY DEF FutexInv, FutexTyped, DataTyped
  <2>2. CASE SetSignalledWaker(t)
    BY <2>1, <2>2 DEF SetSignalledWaker, bucketVars, ghostVars
  <2>3. CASE CheckPending(t)
    BY <2>1, <2>3 DEF CheckPending, bucketVars, ghostVars
  <2>4. CASE WaiterWait(t)
    BY <2>4 DEF WaiterWait, bucketVars, ghostVars
  <2> QED
    BY <2>2, <2>3, <2>4
<1>2. FutexTyped /\ ThreadInv(u)
  BY DEF FutexInv
<1>3. CASE u = t
  <2>1. /\ pc[u] \in Waits \ {"remove"} /\ pc'[u] \in Waits
        /\ pc'[u] = "remove" \/ has_woken'[u] = has_woken[u]
    BY <1>1, <1>2, <1>3 DEF Goto, Waits, FutexTyped, CallsTyped
  <2>2. ItemInv(u)'
    BY <1>1, <1>2, <2>1 DEF ThreadInv, ItemInv, Queued, Waits
  <2>3. ResultInv(u)' /\ ValueInv(u)'
    BY <1>1, <1>2, <2>1 DEF ThreadInv, ResultInv, ValueInv, Queued, Waits
  <2> QED
    BY <2>2, <2>3 DEF ThreadInv
<1>4. CASE u # t
  <2>1. UNCHANGED <<pc[u], args[u]>> /\ (has_woken[u] => has_woken'[u])
    BY <1>1, <1>2, <1>4 DEF Goto, FutexTyped, CallsTyped, DataTyped
  <2>2. UNCHANGED <<items, word, stale>> /\ UNCHANGED <<counted[u], moved[u], result[u]>>
    BY <1>1, <1>2, <1>4 DEF FutexTyped, DataTyped
  <2> QED
    BY <1>2, <2>1, <2>2, StillKept, Zenon
<1> QED
  BY <1>3, <1>4

\* Whoever is not t keeps its view when only items of t come, go or are closed.
LEMMA OthersKept ==
  ASSUME FutexInv, FutexTyped', NEW t \in Threads, NEW u \in Threads, u # t,
         UNCHANGED <<word, stale>>, ItemsKept(u),
         \E label : Goto(t, label),
         UNCHANGED args \/ \E arg : args' = [args EXCEPT ![t] = arg],
         UNCHANGED has_woken \/ \E w : has_woken' = [has_woken EXCEPT ![t] = w],
         UNCHANGED result \/ \E r : result' = [result EXCEPT ![t] = r],
         UNCHANGED counted \/ \E c : counted' = [counted EXCEPT ![t] = c],
         UNCHANGED moved \/ \E m : moved' = [moved EXCEPT ![t] = m]
  PROVE  ThreadInv(u)'
<1>1. FutexTyped /\ ThreadInv(u) /\ ValueKept(u)
  BY DEF FutexInv, ValueKept
<1>2. UNCHANGED <<pc[u], args[u]>> /\ (has_woken[u] => has_woken'[u])
  BY <1>1 DEF FutexTyped, CallsTyped, DataTyped, Goto
<1>3. UNCHANGED <<counted[u], moved[u], result[u]>>
  BY <1>1 DEF FutexTyped, DataTyped
<1> QED
  BY <1>1, <1>2, <1>3, ThreadKept, Zenon

\* futex_wait_bitset: t looks at the word and adds its only item.
LEMMA LoadAndAddItemKeeps ==
  ASSUME FutexInv, FutexTyped', NEW t \in Threads, LoadAndAddItem(t), NEW u \in Threads
  PROVE  ThreadInv(u)'
<1> DEFINE a == args[t].addr
           new == [hash |-> Hash[a], bitset |-> args[t].bitset, waker |-> t]
<1>1. /\ pc[t] = "load" /\ UNCHANGED <<word, stale, has_woken, counted, moved, args>>
      /\ FutexTyped
  BY DEF LoadAndAddItem, ghostVars, FutexInv
<1>2. /\ ~counted[t] /\ moved[t] = "no"
      /\ \A b \in Buckets : \A i \in items[b] : i.waker # t
  BY <1>1 DEF FutexInv, ThreadInv, ItemInv, Queued
<1>3. /\ a \in Addrs /\ Bucket(a) \in Buckets /\ new \in Item /\ args[t].bitset \cap Bits # {}
  BY <1>1, NewItemTyped DEF FutexTyped
<1>4. CASE word[a] # args[t].expect
  <2>1. Goto(t, "drop") /\ UNCHANGED items /\ result' = [result EXCEPT ![t] = "err"]
    BY <1>4 DEF LoadAndAddItem
  <2>2. CASE u = t
    <3>1. pc'[u] = "drop" /\ result'[u] = "err"
      BY <1>1, <2>1, <2>2 DEF Goto, FutexTyped, CallsTyped, DataTyped
    <3> QED
      BY <1>1, <1>2, <2>1, <2>2, <3>1
         DEF ThreadInv, ItemInv, ResultInv, ValueInv, Queued, Waits
  <2>3. CASE u # t
    <3>1. ItemsKept(u)
      BY <2>1 DEF ItemsKept
    <3> QED
      BY <1>1, <2>1, <2>3, <3>1, OthersKept, Zenon
  <2> QED
    BY <2>2, <2>3
<1>5. CASE word[a] = args[t].expect
  <2>1. Goto(t, "pause") /\ UNCHANGED result
        /\ items' = [items EXCEPT ![Bucket(a)] = @ \cup {new}]
    BY <1>5 DEF LoadAndAddItem
  <2>2. /\ items'[Bucket(a)] = items[Bucket(a)] \cup {new}
        /\ \A b \in Buckets : b # Bucket(a) => items'[b] = items[b]
    BY <1>1, <1>3, <2>1 DEF FutexTyped, DataTyped
  <2>3. new.waker = t /\ MatchUp(new, Hash[a], Bits)
    BY <1>3 DEF MatchUp
  <2> HIDE DEF new
  <2>4. CASE u = t
    <3>1. pc'[u] = "pause"
      BY <1>1, <2>1, <2>4 DEF Goto, FutexTyped, CallsTyped
    <3>2. \A b \in Buckets : \A i \in items'[b] : i.waker = u => b = Bucket(a) /\ i = new
      BY <1>2, <2>2, <2>4
    <3>3. Queued(u)'
      BY <1>3, <2>2, <2>3, <2>4 DEF Queued
    <3>4. ItemInv(u)'
      <4>1. \A b, c \in Buckets : \A i \in items'[b], j \in items'[c] :
              i.waker = u /\ j.waker = u => b = c /\ i = j
        BY <3>2
      <4>2. \A b \in Buckets : \A i \in items'[b] : i.waker = u =>
              b = Bucket(args'[u].addr) /\ MatchUp(i, Hash[args'[u].addr], Bits)
        BY <1>1, <2>3, <2>4, <3>2
      <4> QED
        BY <1>1, <1>2, <2>4, <3>1, <3>3, <4>1, <4>2 DEF ItemInv, MatchUp
    <3> QED
      BY <1>1, <1>5, <2>4, <3>1, <3>4 DEF ThreadInv, ResultInv, ValueInv
  <2>5. CASE u # t
    <3>1. ItemsKept(u)
      BY <2>2, <2>3, <2>5 DEF ItemsKept
    <3> QED
      BY <1>1, <2>1, <2>5, <3>1, OthersKept, Zenon
  <2> QED
    BY <2>4, <2>5
<1> QED
  BY <1>4, <1>5

\* remove_by_waker: what is left of t's items is in another bucket.
LEMMA RemoveByWakerKeeps ==
  ASSUME FutexInv, FutexTyped', NEW t \in Threads, RemoveByWaker(t), NEW u \in Threads
  PROVE  ThreadInv(u)'
<1> DEFINE c == Bucket(args[t].addr)
           own == {i \in items[c] : i.waker = t}
<1>1. /\ pc[t] = "remove" /\ Goto(t, "drop")
      /\ UNCHANGED <<word, stale, has_woken, counted, moved, args>> /\ FutexTyped
  BY DEF RemoveByWaker, ghostVars, FutexInv
<1>2. items' = [items EXCEPT ![c] = @ \ own]
  BY DEF RemoveByWaker
<1>3. result' = [result EXCEPT ![t] = IF own = {} THEN "ok" ELSE "err"]
  BY DEF RemoveByWaker
<1>4. c \in Buckets
  BY <1>1, NewItemTyped DEF FutexTyped, Waits
<1>5. /\ items'[c] = items[c] \ own
      /\ \A b \in Buckets : b # c => items'[b] = items[b]
  BY <1>1, <1>2, <1>4 DEF FutexTyped, DataTyped
<1>6. CASE u = t
  <2>1. pc'[u] = "drop" /\ result'[u] = IF own = {} THEN "ok" ELSE "err"
    BY <1>1, <1>3, <1>6 DEF Goto, FutexTyped, CallsTyped, DataTyped
  <2>2. ThreadInv(u) /\ (counted[u] \/ Queued(u)) /\ (counted[u] => ~Queued(u))
    BY <1>1, <1>6 DEF FutexInv, ThreadInv, ItemInv, Waits
  <2>3. \A b \in Buckets : \A i \in items'[b] : i.waker = u => b # c /\ i \in items[b]
    BY <1>5, <1>6
  <2>4. Queued(u)' => Queued(u)
    BY <2>3 DEF Queued
  <2>5. own # {} => Queued(u) /\ ~Queued(u)'
    <3> SUFFICES ASSUME own # {} PROVE Queued(u) /\ ~Queued(u)'
      OBVIOUS
    <3>1. PICK i \in items[c] : i.waker = u
      BY <1>6
    <3>2. \A b \in Buckets : \A j \in items[b] : j.waker = u => b = c
      BY <1>4, <2>2, <3>1 DEF ThreadInv, ItemInv
    <3> QED
      BY <1>4, <2>3, <3>1, <3>2 DEF Queued
  <2>6. own = {} /\ Queued(u) => moved[u] = "across"
    <3> SUFFICES ASSUME own = {}, Queued(u) PROVE moved[u] = "across"
      OBVIOUS
    <3>1. PICK b \in Buckets : \E i \in items[b] : i.waker = u
      BY DEF Queued
    <3>2. b # c
      BY <1>6, <3>1
    <3> QED
      BY <1>6, <2>2, <3>1, <3>2 DEF ThreadInv, ItemInv
  <2> HIDE DEF own
  <2>7. ResultInv(u)' /\ ValueInv(u)'
    BY <1>1, <2>1, <2>2, <2>4, <2>5, <2>6 DEF ResultInv, ValueInv, Waits
  <2>8. ItemInv(u)'
    <3>1. \A b, d \in Buckets : \A i \in items'[b], j \in items'[d] :
            i.waker = u /\ j.waker = u => b = d /\ i = j
      BY <2>2, <2>3 DEF ThreadInv, ItemInv
    <3>2. \A b \in Buckets : \A i \in items'[b] : i.waker = u =>
            /\ moved[u] # "across" => b = Bucket(args[u].addr)
            /\ moved[u] = "no" => MatchUp(i, Hash[args[u].addr], Bits)
      BY <2>2, <2>3 DEF ThreadInv, ItemInv
    <3> QED
      BY <1>1, <2>1, <2>2, <2>4, <3>1, <3>2 DEF ItemInv, Waits, MatchUp
  <2> QED
    BY <2>7, <2>8 DEF ThreadInv
<1>7. CASE u # t
  <2>1. ItemsKept(u)
    BY <1>5, <1>7 DEF ItemsKept
  <2> QED
    BY <1>1, <1>3, <1>7, <2>1, OthersKept, Zenon
<1> QED
  BY <1>6, <1>7

\* Return: no live item of t is left behind.
LEMMA DropWaiterKeeps ==
  ASSUME FutexInv, FutexTyped', NEW t \in Threads, DropWaiter(t), NEW u \in Threads
  PROVE  ThreadInv(u)'
<1>1. /\ Goto(t, "run") /\ UNCHANGED <<word, stale>> /\ FutexTyped
      /\ has_woken' = [has_woken EXCEPT ![t] = TRUE]
      /\ args' = [args EXCEPT ![t] = <<>>]
      /\ result' = [result EXCEPT ![t] = "none"]
      /\ counted' = [counted EXCEPT ![t] = FALSE]
      /\ moved' = [moved EXCEPT ![t] = "no"]
  BY DEF DropWaiter, FutexInv
<1>2. \A b \in Buckets : \A i : i \in items'[b] <=>
        \E j \in items[b] : i = IF j.waker = t THEN [j EXCEPT !.waker = Closed] ELSE j
  BY DEF DropWaiter
<1>3. \A j \in Item : [j EXCEPT !.waker = Closed].waker = Closed
  BY DEF Item
<1>4. \A b \in Buckets : items[b] \subseteq Item
  BY <1>1 DEF FutexTyped, DataTyped
<1>5. Closed # u /\ Closed # t
  BY FutexAssumption
<1>6. CASE u = t
  <2>1. ASSUME NEW b \in Buckets, NEW i \in items'[b] PROVE i.waker # u
    <3>1. PICK j \in items[b] :
            i = IF j.waker = t THEN [j EXCEPT !.waker = Closed] ELSE j
      BY <1>2
    <3> QED
      BY <1>3, <1>4, <1>5, <1>6, <3>1
  <2>2. pc'[u] = "run" /\ ~counted'[u] /\ moved'[u] = "no"
    BY <1>1, <1>6 DEF Goto, FutexTyped, CallsTyped, DataTyped
  <2> QED
    BY <2>1, <2>2 DEF ThreadInv, ItemInv, ResultInv, ValueInv, Queued, Waits
<1>7. CASE u # t
  <2>1. ItemsKept(u)
    <3>1. ASSUME NEW b \in Buckets, NEW i \in Item, i.waker = u, i \in items'[b]
          PROVE  i \in items[b]
      BY <1>2, <1>3, <1>4, <1>5, <3>1
    <3>2. ASSUME NEW b \in Buckets, NEW i \in Item, i.waker = u, i \in items[b]
          PROVE  i \in items'[b]
      BY <1>2, <1>7, <3>2
    <3> QED
      BY <3>1, <3>2 DEF ItemsKept
  <2> QED
    BY <1>1, <1>7, <2>1, OthersKept, Zenon
<1> QED
  BY <1>6, <1>7

\* Every step keeps the types.
LEMMA FutexTypedStep == FutexTyped /\ [Next]_vars => FutexTyped'
<1> SUFFICES ASSUME FutexTyped, [Next]_vars PROVE FutexTyped'
  OBVIOUS
<1>1. CASE UNCHANGED vars
  BY <1>1 DEF vars, bucketVars, pauseVars, ghostVars, FutexTyped, DataTyped, CallsTyped
<1>2. ASSUME NEW t \in Threads, Step(t) PROVE FutexTyped'
  BY <1>2, WaitTyped, FutexWakeOpTyped, FutexRequeueTyped, SignalTyped DEF Step
<1>3. ASSUME NEW t \in Threads, StartCall(t) PROVE FutexTyped'
  BY <1>3, StartTyped, FutexWakeBitsetTyped DEF StartCall
<1> QED
  BY <1>1, <1>2, <1>3, SignalTyped, StoreTyped DEF Next

\* Every step keeps the inductive invariant.
LEMMA FutexInvStep == FutexInv /\ [Next]_vars => FutexInv'
<1> SUFFICES ASSUME FutexInv, [Next]_vars PROVE FutexInv'
  OBVIOUS
<1>1. FutexTyped'
  BY FutexTypedStep DEF FutexInv
<1> SUFFICES ASSUME NEW u \in Threads PROVE ThreadInv(u)'
  BY <1>1 DEF FutexInv
<1>2. CASE UNCHANGED vars
  <2>1. /\ UNCHANGED <<items, word, stale>> /\ UNCHANGED <<counted[u], moved[u], result[u]>>
        /\ UNCHANGED <<pc[u], args[u]>> /\ (has_woken[u] => has_woken'[u])
    BY <1>2 DEF vars, bucketVars, ghostVars, pauseVars
  <2> QED
    BY <1>1, <2>1, StillKept, Zenon DEF FutexInv
<1>3. ASSUME NEW t \in Threads, Step(t) PROVE ThreadInv(u)'
  <2>1. CASE LoadAndAddItem(t)
    BY <1>1, <2>1, LoadAndAddItemKeeps
  <2>2. CASE SetSignalledWaker(t) \/ CheckPending(t) \/ WaiterWait(t)
    BY <1>1, <2>2, PauseKeeps
  <2>3. CASE RemoveByWaker(t)
    BY <1>1, <2>3, RemoveByWakerKeeps
  <2>4. CASE DropWaiter(t)
    BY <1>1, <2>4, DropWaiterKeeps
  <2>5. CASE FutexWakeOp(t)
    BY <1>1, <2>5, FutexWakeOpKeeps
  <2>6. CASE FutexRequeue(t)
    BY <1>1, <2>6, FutexRequeueKeeps
  <2>7. CASE WakeSignalledWaker(t) \/ HandleSignal(t)
    BY <1>1, <2>7, SignalKeeps
  <2> QED
    BY <1>3, <2>1, <2>2, <2>3, <2>4, <2>5, <2>6, <2>7, Zenon DEF Step
<1>4. ASSUME NEW t \in Threads, StartCall(t) PROVE ThreadInv(u)'
  BY <1>1, <1>4, StartKeeps, FutexWakeBitsetKeeps DEF StartCall
<1>5. ASSUME NEW t \in Threads, EnqueueSignal(t) \/ Expire(t) PROVE ThreadInv(u)'
  BY <1>1, <1>5, SignalKeeps
<1>6. ASSUME NEW a \in Words, Store(a) PROVE ThreadInv(u)'
  BY <1>1, <1>6, StoreKeeps
<1> QED
  BY <1>2, <1>3, <1>4, <1>5, <1>6 DEF Next

\* The inductive invariant: where every waiter's item is, for any number of
\* threads, addresses, buckets and bits and any hash function.
THEOREM FutexInvHolds == Spec => []FutexInv
  BY FutexInvInit, FutexInvStep, PTL DEF Spec

\* TruthfulResult: whatever wakes, requeues, signals and timeouts meet, a wait
\* that a waker has counted returns success, and one that returns success was
\* counted or moved to another bucket.
THEOREM ResultIsTruthful == Spec => []TruthfulResult
<1>1. FutexInv => TruthfulResult
  BY DEF FutexInv, ThreadInv, ResultInv, TruthfulResult
<1> QED
  BY <1>1, FutexInvHolds, PTL

\* NoMissedWake: once the word has changed and its waiters have been woken, by
\* futex_wake, futex_wake_op or futex_requeue, no thread sleeps on the old value.
THEOREM NoWakeIsMissed == Spec => []NoMissedWake
<1>1. ASSUME FutexInv PROVE NoMissedWake
  <2> SUFFICES ASSUME NEW t \in Threads, pc[t] \in {"pause", "check", "wait"},
                      \E i \in items[Bucket(args[t].addr)] : i.waker = t,
                      ~stale[args[t].addr], ~has_woken[t], moved[t] = "no"
               PROVE  word[args[t].addr] = args[t].expect
    BY DEF NoMissedWake
  <2>1. Bucket(args[t].addr) \in Buckets
    BY <1>1, NewItemTyped DEF FutexInv, FutexTyped, Waits
  <2>2. Queued(t)
    BY <2>1 DEF Queued
  <2> QED
    BY <1>1, <2>2 DEF FutexInv, ThreadInv, ValueInv, Waits
<1> QED
  BY <1>1, FutexInvHolds, PTL

=============================================================================
