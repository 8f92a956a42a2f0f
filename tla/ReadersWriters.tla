--------------------------- MODULE ReadersWriters ---------------------------
(***************************************************************************)
(* What RwLock and RwMutex promise to their callers: which guards may exist*)
(* together, and that each change of a guard is one atomic step.           *)
(***************************************************************************)
CONSTANT Threads

VARIABLE guard   \* guard[t]: the guard t owns, "none" when it owns none

Guards == {"none", "read", "upread", "write"}

Others(t) == {guard[u] : u \in Threads \ {t}}

Init == guard = [t \in Threads |-> "none"]

Become(t, g) == guard' = [guard EXCEPT ![t] = g]

Read(t)      == guard[t] = "none" /\ "write" \notin Others(t) /\ Become(t, "read")
Upread(t)    == guard[t] = "none" /\ Others(t) \cap {"write", "upread"} = {} /\ Become(t, "upread")
Write(t)     == guard[t] = "none" /\ Others(t) \subseteq {"none"} /\ Become(t, "write")
Upgrade(t)   == guard[t] = "upread" /\ Others(t) \subseteq {"none"} /\ Become(t, "write")
Downgrade(t) == guard[t] = "write" /\ Become(t, "upread")
Drop(t)      == guard[t] # "none" /\ Become(t, "none")

Next == \E t \in Threads : Read(t) \/ Upread(t) \/ Write(t) \/ Upgrade(t) \/ Downgrade(t) \/ Drop(t)

Spec == Init /\ [][Next]_guard

=============================================================================
