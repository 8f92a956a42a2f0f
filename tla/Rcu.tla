-------------------------------- MODULE Rcu --------------------------------
(***************************************************************************)
(* What RCU promises its users (osxtd/src/sync/rcu/mod.rs): an object that *)
(* an update removed from the RCU slot is dropped only when no read-side   *)
(* critical section that could have read it is left.                       *)
(***************************************************************************)
CONSTANTS Cpus, Objects, Null

VARIABLES ptr,      \* the RCU slot: an object, or Null
          reading,  \* reading[c]: the objects read in the critical section on c
          status    \* status[o]: "free" (not allocated), "live" or "retired"

vars == <<ptr, reading, status>>

Init == /\ ptr = Null
        /\ reading = [c \in Cpus |-> {}]
        /\ status = [o \in Objects |-> "free"]

Read(c) == /\ ptr # Null
           /\ reading' = [reading EXCEPT ![c] = @ \cup {ptr}]
           /\ UNCHANGED <<ptr, status>>

ReadEnd(c) == /\ reading' = [reading EXCEPT ![c] = {}]
              /\ UNCHANGED <<ptr, status>>

\* Put a newly allocated object, or Null, into the slot and retire the old one.
Replace(new) == /\ new = Null \/ (new \in Objects /\ status[new] = "free")
                /\ ptr' = new
                /\ status' = [o \in Objects |-> CASE o = new -> "live"
                                                 [] o = ptr -> "retired"
                                                 [] OTHER -> status[o]]
                /\ UNCHANGED reading

Reclaim(o) == /\ status[o] = "retired"
              /\ \A c \in Cpus : o \notin reading[c]
              /\ status' = [status EXCEPT ![o] = "free"]
              /\ UNCHANGED <<ptr, reading>>

\* The slot itself is dropped, which nobody can be reading through any more.
DropInner == /\ ptr # Null
             /\ \A c \in Cpus : ptr \notin reading[c]
             /\ ptr' = Null
             /\ status' = [status EXCEPT ![ptr] = "free"]
             /\ UNCHANGED reading

Next == \/ \E c \in Cpus : Read(c) \/ ReadEnd(c)
        \/ \E new \in Objects \cup {Null} : Replace(new)
        \/ DropInner
        \/ \E o \in Objects : Reclaim(o)

Spec == Init /\ [][Next]_vars

=============================================================================
