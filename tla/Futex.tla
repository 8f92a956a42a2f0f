------------------------------- MODULE Futex -------------------------------
(***************************************************************************)
(* The futexes of kernel/src/process/posix_thread/futex.rs, with the pause *)
(* of kernel/src/process/signal/pause.rs that a futex wait sleeps in.      *)
(*                                                                         *)
(* A bucket is the set of its items: which of several matching items comes *)
(* first in the Vec is left open.  An item is named by the thread whose    *)
(* waker it holds; once the Waiter is gone the waker is closed and all such*)
(* items behave alike.  The steps under the spin lock of one bucket are    *)
(* atomic; an operation on two buckets takes the locks one after the other.*)
(***************************************************************************)
EXTENDS Naturals, FiniteSets

CONSTANTS Threads, Closed, Nobody,
          Addrs,      \* the addresses of the futex words
          Hash,       \* Hash[a]: the hash of the key of address a
          NumBuckets, \* the number of buckets
          Bits,       \* the bits of a bitset; FUTEX_BITSET_MATCH_ANY is all of them
          BitSets,    \* bound: the bitsets of waits; wakes use all bits as well
          Words,      \* bound: the addresses that are waited on and whose word changes
          Pairs,      \* bound: the pairs of addresses that two-address calls use
          Sleepers,   \* bound: the threads that wait
          Timed,      \* the threads whose waits have a timeout
          Signalled,  \* bound: the threads that get signals
          MaxWord,    \* bound: how often a futex word changes
          MaxCalls    \* bound: the futex calls of all threads together

ASSUME FutexAssumption ==
  /\ Closed \notin Threads /\ Nobody \notin Threads
  /\ IsFiniteSet(Threads)
  /\ Hash \in [Addrs -> Nat]
  /\ NumBuckets \in Nat \ {0}
  /\ Words \subseteq Addrs /\ Pairs \subseteq Addrs \X Addrs
  /\ BitSets \subseteq (SUBSET Bits) \ {{}}
  /\ Sleepers \subseteq Threads /\ Timed \subseteq Threads /\ Signalled \subseteq Threads
  /\ MaxWord \in Nat /\ MaxCalls \in Nat

VARIABLES word,       \* word[a]: the futex word in user memory
          items,      \* items[b]: the FutexItems of bucket b
          lock,       \* lock[b]: the holder of its spin lock
          pc,         \* pc[t]: where thread t is
          args,       \* args[t]: the arguments of its call
          has_woken,  \* has_woken[t]: the flag of its waker
          armed,      \* armed[t]: the waker is set as t's signalled_waker
          pending,    \* pending[t]: t has a pending signal
          kick,       \* kick[t]: enqueue_signal has yet to call wake_signalled_waker
          expired,    \* expired[t]: the time of the timeout has come
          result,     \* result[t]: what t's wait is about to return
          counted,    \* counted[t]: a waker has counted t's current wait
          moved,      \* moved[t]: a requeue has moved t's item "within" its bucket or "across"
          stale,      \* stale[a]: the word changed and not all waiters were woken since
          calls       \* the calls started so far

bucketVars == <<items, lock>>
pauseVars == <<armed, expired, result>>
ghostVars == <<counted, moved, stale>>
vars == <<word, bucketVars, pc, args, has_woken, pending, kick, pauseVars, ghostVars, calls>>

Buckets == 0..(NumBuckets - 1)

\* get_bucket.
Bucket(a) == Hash[a] % NumBuckets

All == Cardinality(Threads)

Item == [hash : {Hash[a] : a \in Addrs}, bitset : SUBSET Bits, waker : Threads \cup {Closed}]

Init == /\ word = [a \in Addrs |-> 0]
        /\ items = [b \in Buckets |-> {}]
        /\ lock = [b \in Buckets |-> Nobody]
        /\ pc = [t \in Threads |-> "run"]
        /\ args = [t \in Threads |-> <<>>]
        /\ has_woken = [t \in Threads |-> TRUE]
        /\ armed = [t \in Threads |-> FALSE]
        /\ pending = [t \in Threads |-> FALSE]
        /\ kick = [t \in Threads |-> FALSE]
        /\ expired = [t \in Threads |-> FALSE]
        /\ result = [t \in Threads |-> "none"]
        /\ counted = [t \in Threads |-> FALSE]
        /\ moved = [t \in Threads |-> "no"]
        /\ stale = [a \in Addrs |-> FALSE]
        /\ calls = 0

Goto(t, label) == pc' = [pc EXCEPT ![t] = label]

Call(t) == /\ pc[t] = "run"
           /\ ~pending[t]
           /\ calls < MaxCalls
           /\ calls' = calls + 1

-----------------------------------------------------------------------------
(* futex_wait_bitset.                                                      *)

\* The call, with the value the program has read before; a Waiter is created.
FutexWaitBitset(t, a, expect, bits) ==
  /\ Call(t)
  /\ t \in Sleepers
  /\ args' = [args EXCEPT ![t] = [addr |-> a, expect |-> expect, bitset |-> bits]]
  /\ has_woken' = [has_woken EXCEPT ![t] = FALSE]
  /\ Goto(t, "load")
  /\ UNCHANGED <<word, bucketVars, pending, kick, pauseVars, ghostVars>>

\* A mutant: the item is added without another look at the word.
AddItemUnchecked(t) ==
  LET b == Bucket(args[t].addr) IN
  /\ pc[t] = "load"
  /\ lock[b] = Nobody
  /\ items' = [items EXCEPT ![b] = @ \cup
         {[hash |-> Hash[args[t].addr], bitset |-> args[t].bitset, waker |-> t]}]
  /\ Goto(t, "pause")
  /\ UNCHANGED <<word, lock, args, has_woken, pauseVars, pending, kick, ghostVars, calls>>

\* Under the lock: load the word, give up with EAGAIN or add the item.
\* (A page fault drops the lock, is handled, and the step is tried again.)
LoadAndAddItem(t) ==
  LET b == Bucket(args[t].addr) IN
  /\ pc[t] = "load"
  /\ lock[b] = Nobody
  /\ IF word[args[t].addr] # args[t].expect
       THEN /\ result' = [result EXCEPT ![t] = "err"]
            /\ Goto(t, "drop")
            /\ UNCHANGED items
       ELSE /\ items' = [items EXCEPT ![b] = @ \cup
                 {[hash |-> Hash[args[t].addr], bitset |-> args[t].bitset, waker |-> t]}]
            /\ Goto(t, "pause")
            /\ UNCHANGED result
  /\ UNCHANGED <<word, lock, args, has_woken, armed, expired, pending, kick, ghostVars, calls>>

\* pause_timeout: ETIME at once, or create the timer and set the signalled waker ...
SetSignalledWaker(t) ==
  /\ pc[t] = "pause"
  /\ IF expired[t]
       THEN /\ result' = [result EXCEPT ![t] = "err"]
            /\ Goto(t, "remove")
            /\ UNCHANGED armed
       ELSE /\ armed' = [armed EXCEPT ![t] = TRUE]
            /\ Goto(t, "check")
            /\ UNCHANGED result
  /\ UNCHANGED <<word, bucketVars, args, has_woken, expired, pending, kick, ghostVars, calls>>

\* A mutant: the pending signals are not looked at again.
CheckNothing(t) ==
  /\ pc[t] = "check"
  /\ Goto(t, "wait")
  /\ UNCHANGED <<word, bucketVars, args, has_woken, pauseVars, pending, kick, ghostVars, calls>>

\* ... then look for a pending signal ...
CheckPending(t) ==
  /\ pc[t] = "check"
  /\ IF pending[t]
       THEN /\ armed' = [armed EXCEPT ![t] = FALSE]
            /\ result' = [result EXCEPT ![t] = "err"]
            /\ Goto(t, "remove")
       ELSE Goto(t, "wait") /\ UNCHANGED <<armed, result>>
  /\ UNCHANGED <<word, bucketVars, args, has_woken, expired, pending, kick, ghostVars, calls>>

\* ... and sleep.  A timeout or a pending signal makes the result an error.
WaiterWait(t) ==
  /\ pc[t] = "wait"
  /\ has_woken[t]
  /\ has_woken' = [has_woken EXCEPT ![t] = FALSE]
  /\ armed' = [armed EXCEPT ![t] = FALSE]
  /\ result' = [result EXCEPT ![t] = IF expired[t] \/ pending[t] THEN "err" ELSE "ok"]
  /\ Goto(t, "remove")
  /\ UNCHANGED <<word, bucketVars, args, expired, pending, kick, ghostVars, calls>>

\* A mutant: the result of the pause is returned whether or not the item is gone.
RemoveKeepingResult(t) ==
  LET b == Bucket(args[t].addr) IN
  /\ pc[t] = "remove"
  /\ lock[b] = Nobody
  /\ items' = [items EXCEPT ![b] = {i \in @ : i.waker # t}]
  /\ Goto(t, "drop")
  /\ UNCHANGED <<word, lock, args, has_woken, pauseVars, pending, kick, ghostVars, calls>>

\* remove_by_waker in the bucket of the call's own address: without an item the
\* wait has succeeded, with one it returns an error (EINTR if the pause had none).
RemoveByWaker(t) ==
  LET b == Bucket(args[t].addr)
      own == {i \in items[b] : i.waker = t}
  IN
  /\ pc[t] = "remove"
  /\ lock[b] = Nobody
  /\ items' = [items EXCEPT ![b] = @ \ own]
  /\ result' = [result EXCEPT ![t] = IF own = {} THEN "ok" ELSE "err"]
  /\ Goto(t, "drop")
  /\ UNCHANGED <<word, lock, args, has_woken, armed, expired, pending, kick, ghostVars, calls>>

\* Return: the Waiter is dropped, which closes its waker.
DropWaiter(t) ==
  /\ pc[t] = "drop"
  /\ has_woken' = [has_woken EXCEPT ![t] = TRUE]
  /\ items' = [b \in Buckets |->
       {IF i.waker = t THEN [i EXCEPT !.waker = Closed] ELSE i : i \in items[b]}]
  /\ args' = [args EXCEPT ![t] = <<>>]
  /\ result' = [result EXCEPT ![t] = "none"]
  /\ expired' = [expired EXCEPT ![t] = FALSE]
  /\ counted' = [counted EXCEPT ![t] = FALSE]
  /\ moved' = [moved EXCEPT ![t] = "no"]
  /\ Goto(t, "run")
  /\ UNCHANGED <<word, lock, armed, pending, kick, stale, calls>>

-----------------------------------------------------------------------------
(* Signals, timeouts and the program's own stores.                         *)

WakeUp(t) == has_woken' = [has_woken EXCEPT ![t] = TRUE]

\* enqueue_signal: queue the signal ...
EnqueueSignal(t) ==
  /\ t \in Signalled
  /\ pc[t] \notin {"run", "drop"}
  /\ ~pending[t] /\ ~kick[t]
  /\ pending' = [pending EXCEPT ![t] = TRUE]
  /\ kick' = [kick EXCEPT ![t] = TRUE]
  /\ UNCHANGED <<word, bucketVars, pc, args, has_woken, pauseVars, ghostVars, calls>>

\* ... then wake the signalled waker, if there is one.
WakeSignalledWaker(t) ==
  /\ kick[t]
  /\ kick' = [kick EXCEPT ![t] = FALSE]
  /\ IF armed[t] THEN WakeUp(t) ELSE UNCHANGED has_woken
  /\ UNCHANGED <<word, bucketVars, pc, args, pauseVars, pending, ghostVars, calls>>

\* The thread handles its signal on the way back to user mode.
HandleSignal(t) ==
  /\ pc[t] = "run"
  /\ pending[t]
  /\ pending' = [pending EXCEPT ![t] = FALSE]
  /\ UNCHANGED <<word, bucketVars, pc, args, has_woken, kick, pauseVars, ghostVars, calls>>

\* The time of the timeout comes; the timer, once created, wakes the waker.
Expire(t) ==
  /\ t \in Timed
  /\ pc[t] \in {"load", "pause", "check", "wait"}
  /\ ~expired[t]
  /\ expired' = [expired EXCEPT ![t] = TRUE]
  /\ IF pc[t] \in {"check", "wait"} THEN WakeUp(t) ELSE UNCHANGED has_woken
  /\ UNCHANGED <<word, bucketVars, pc, args, armed, result, pending, kick, ghostVars, calls>>

\* The program changes a futex word.
Store(a) ==
  /\ word[a] < MaxWord
  /\ word' = [word EXCEPT ![a] = @ + 1]
  /\ stale' = [stale EXCEPT ![a] = TRUE]
  /\ UNCHANGED <<bucketVars, pc, args, has_woken, pauseVars, pending, kick, counted, moved, calls>>

-----------------------------------------------------------------------------
(* Wakes and requeues.                                                     *)

MatchUp(i, h, bits) == i.hash = h /\ i.bitset \cap bits # {}

\* n elements of S, all of them when there are no more: the first n of the Vec.
FirstOf(S, n) ==
  IF Cardinality(S) <= n THEN {S} ELSE {T \in SUBSET S : Cardinality(T) = n}

\* What remove_and_wake_items may remove from a bucket: matching items whose
\* wake_up returns true.  An item that a signal or a timeout has woken stays.
WokenItems(bucket, h, bits, n) ==
  FirstOf({i \in bucket : /\ MatchUp(i, h, bits)
                          /\ i.waker # Closed
                          /\ ~has_woken[i.waker]}, n)

Wakers(S) == {i.waker : i \in S}

\* The effect of the wakes on the threads, and on the bookkeeping of word a.
Wake(S) == /\ has_woken' = [t \in Threads |-> has_woken[t] \/ t \in Wakers(S)]
           /\ counted' = [t \in Threads |-> counted[t] \/ t \in Wakers(S)]

Counts == {1, All}

\* futex_wake_bitset; futex_wake uses all bits, and so does futex_requeue when
\* both addresses are the same.
FutexWakeBitset(t, a, bits, n) ==
  LET b == Bucket(a) IN
  /\ Call(t)
  /\ lock[b] = Nobody
  /\ \E S \in WokenItems(items[b], Hash[a], bits, n) :
       /\ items' = [items EXCEPT ![b] = @ \ S]
       /\ Wake(S)
  /\ stale' = [stale EXCEPT ![a] = @ /\ ~(n = All /\ bits = Bits)]
  /\ UNCHANGED <<word, lock, pc, args, pending, kick, pauseVars, moved>>

\* A mutant: the bucket of the first key is locked first.
FirstLockByKey(a1, a2) == Bucket(a1)

\* lock_bucket_pairs: the bucket with the lower index is locked first ...
FirstLock(a1, a2) == IF Bucket(a1) <= Bucket(a2) THEN Bucket(a1) ELSE Bucket(a2)

LockFirstBucket(t, op, a1, a2) ==
  /\ op = "requeue" => a1 # a2
  /\ Call(t)
  /\ lock[FirstLock(a1, a2)] = Nobody
  /\ lock' = [lock EXCEPT ![FirstLock(a1, a2)] = t]
  /\ args' = [args EXCEPT ![t] = [op |-> op, addr1 |-> a1, addr2 |-> a2]]
  /\ Goto(t, "pair")
  /\ UNCHANGED <<word, items, has_woken, pending, kick, pauseVars, ghostVars>>

\* ... then the other one, unless both keys are in the same bucket.
BothLocked(t, op) ==
  /\ pc[t] = "pair"
  /\ args[t].op = op
  /\ \A b \in {Bucket(args[t].addr1), Bucket(args[t].addr2)} : lock[b] \in {t, Nobody}

UnlockBoth(t) == /\ lock' = [b \in Buckets |-> IF lock[b] = t THEN Nobody ELSE lock[b]]
                 /\ args' = [args EXCEPT ![t] = <<>>]
                 /\ Goto(t, "run")

\* futex_wake_op under both locks: update the second word, wake waiters of the
\* first and, if the old value asks for it, of the second.
FutexWakeOp(t) ==
  LET a1 == args[t].addr1
      a2 == args[t].addr2
  IN
  /\ BothLocked(t, "wake_op")
  /\ \E bump, should_wake \in BOOLEAN, n1, n2 \in Counts :
       /\ bump => a2 \in Words /\ word[a2] < MaxWord
       /\ word' = [word EXCEPT ![a2] = IF bump THEN @ + 1 ELSE @]
       /\ \E S1 \in WokenItems(items[Bucket(a1)], Hash[a1], Bits, n1) :
          \E S2 \in IF should_wake
                      THEN WokenItems(items[Bucket(a2)] \ S1, Hash[a2], Bits, n2)
                      ELSE {{}} :
            /\ items' = [b \in Buckets |-> items[b] \ (S1 \cup S2)]
            /\ Wake(S1 \cup S2)
       /\ stale' = [a \in Addrs |->
            /\ stale[a] \/ (a = a2 /\ bump)
            /\ ~(a = a1 /\ n1 = All)
            /\ ~(a = a2 /\ should_wake /\ n2 = All)]
  /\ UnlockBoth(t)
  /\ UNCHANGED <<pending, kick, pauseVars, moved, calls>>

\* What update_item_keys may rekey of the items S of a bucket that match: its loop
\* tests the count after it has rekeyed, so a count of 0 still rekeys the first
\* item of the Vec if that one matches.
RekeyedItems(bucket, S, n) ==
  IF n = 0 /\ bucket # {} THEN {{first} \cap S : first \in bucket} ELSE FirstOf(S, n)

\* futex_requeue under both locks: wake some waiters of the first address, give
\* others the key of the second, in its bucket.
FutexRequeue(t) ==
  LET a1 == args[t].addr1
      a2 == args[t].addr2
      b1 == Bucket(a1)
      b2 == Bucket(a2)
      Rekey(S) == {[i EXCEPT !.hash = Hash[a2], !.bitset = Bits] : i \in S}
  IN
  /\ BothLocked(t, "requeue")
  /\ \E n \in Counts, max_nrequeues \in {0, 1, All} :
     \E S1 \in WokenItems(items[b1], Hash[a1], Bits, n) :
       LET match == {i \in items[b1] \ S1 : MatchUp(i, Hash[a1], Bits)} IN
       \E S2 \in IF b1 = b2 THEN RekeyedItems(items[b1] \ S1, match, max_nrequeues)
                            ELSE FirstOf(match, max_nrequeues) :
         /\ items' = [b \in Buckets |-> (items[b] \ (S1 \cup S2))
                                        \cup (IF b = b2 THEN Rekey(S2) ELSE {})]
         /\ Wake(S1)
         /\ moved' = [u \in Threads |-> IF u \in Wakers(S2) /\ moved[u] # "across"
                                         THEN IF b1 = b2 THEN "within" ELSE "across"
                                         ELSE moved[u]]
         /\ stale' = [stale EXCEPT ![a1] = @ /\ n # All]
  /\ UnlockBoth(t)
  /\ UNCHANGED <<word, pending, kick, pauseVars, calls>>

-----------------------------------------------------------------------------
\* The steps a thread takes of itself once it has started a call.
Step(t) == \/ LoadAndAddItem(t) \/ SetSignalledWaker(t) \/ CheckPending(t)
           \/ WaiterWait(t) \/ RemoveByWaker(t) \/ DropWaiter(t)
           \/ FutexWakeOp(t) \/ FutexRequeue(t)
           \/ WakeSignalledWaker(t) \/ HandleSignal(t)

StartCall(t) ==
  \/ \E a \in Words, bits \in BitSets, expect \in 0..MaxWord :
       expect <= word[a] /\ FutexWaitBitset(t, a, expect, bits)
  \/ \E a \in Addrs, bits \in BitSets \cup {Bits}, n \in Counts : FutexWakeBitset(t, a, bits, n)
  \/ \E op \in {"wake_op", "requeue"}, p \in Pairs : LockFirstBucket(t, op, p[1], p[2])

Next == \/ \E t \in Threads : Step(t) \/ StartCall(t) \/ EnqueueSignal(t) \/ Expire(t)
        \/ \E a \in Words : Store(a)

Spec == Init /\ [][Next]_vars

\* A thread that is not asleep goes on.
FairSpec == Spec /\ \A t \in Threads : WF_vars(Step(t))

-----------------------------------------------------------------------------
\* The result of a futex wait against the wake that counted it, for every order
\* of wake, timeout, signal and requeue: a waiter that a wake operation counted
\* reports success, and one that reports success was counted -- unless a requeue
\* moved its item to another bucket, where remove_by_waker does not look.
TruthfulResult ==
  \A t \in Threads : pc[t] = "drop" =>
    /\ counted[t] => result[t] = "ok"
    /\ result[t] = "ok" => counted[t] \/ moved[t] = "across"

\* The load of the word and add_item are one step for every waker: once a word
\* has changed and all its waiters have been woken, nobody sleeps on an old value.
NoMissedWake ==
  \A t \in Threads : pc[t] \in {"pause", "check", "wait"} =>
    LET a == args[t].addr
        queued == \E i \in items[Bucket(a)] : i.waker = t
    IN  queued /\ ~stale[a] /\ ~has_woken[t] /\ moved[t] = "no"
          => word[a] = args[t].expect

\* lock_bucket_pairs avoids deadlock: an operation on two buckets gets its locks
\* although another one names the same buckets in the other order.
PairsProceed == \A t \in Threads : pc[t] = "pair" ~> pc[t] = "run"

\* A wait that was counted, has a signal or whose time is up returns: no order of
\* arming the signalled waker, looking for signals and sleeping loses the event.
WaitersReturn ==
  \A t \in Threads :
    pc[t] \notin {"run", "pair"} /\ (counted[t] \/ pending[t] \/ expired[t]) ~> pc[t] = "run"
=============================================================================
