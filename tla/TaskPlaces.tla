----------------------------- MODULE TaskPlaces -----------------------------
(***************************************************************************)
(* What the run queues promise to the rest of the kernel, seen from a task:*)
(* it is absent (new, blocked or exited), on its way in (an enqueue has    *)
(* claimed it and has yet to take the queue's lock), ready in one run      *)
(* queue, or the current task of one CPU.  A task keeps the CPU it was     *)
(* first placed on.                                                        *)
(***************************************************************************)
CONSTANTS Tasks, Cpus, NoCpu

VARIABLES place,  \* place[t]: "absent", "claimed", "ready" or "current"
          home    \* home[t]: the CPU t was first placed on, NoCpu before

placeVars == <<place, home>>

Places == {"absent", "claimed", "ready", "current"}

PlacesTypeOK == /\ place \in [Tasks -> Places]
                /\ home \in [Tasks -> Cpus \cup {NoCpu}]

PlacesInit == /\ PlacesTypeOK
              /\ \A t \in Tasks : \/ place[t] = "absent" /\ home[t] = NoCpu
                                  \/ place[t] = "current" /\ home[t] \in Cpus
              /\ \A t, u \in Tasks : t # u /\ place[t] = "current" /\ place[u] = "current"
                                     => home[t] # home[u]

\* An enqueue takes the task for itself before it takes the queue's lock.
Claim(t) == /\ place[t] = "absent"
            /\ place' = [place EXCEPT ![t] = "claimed"]
            /\ UNCHANGED home

\* An enqueue puts the task in the queue of its CPU.
Insert(t, c) == /\ place[t] \in {"absent", "claimed"}
                /\ home[t] \in {NoCpu, c}
                /\ place' = [place EXCEPT ![t] = "ready"]
                /\ home' = [home EXCEPT ![t] = c]

\* The current task of a CPU makes way for a ready one of the same CPU; it
\* stays ready itself unless it blocks or exits.
Replace(t, u) == /\ t # u
                 /\ home[t] = home[u]
                 /\ place[t] = "current"
                 /\ place[u] = "ready"
                 /\ \E p \in {"ready", "absent"} :
                      place' = [place EXCEPT ![t] = p, ![u] = "current"]
                 /\ UNCHANGED home

PlacesNext == \/ \E t \in Tasks : Claim(t) \/ \E c \in Cpus : Insert(t, c)
              \/ \E t, u \in Tasks : Replace(t, u)

PlacesSpec == PlacesInit /\ [][PlacesNext]_placeVars
=============================================================================
