------------------------------- MODULE Frame -------------------------------
(***************************************************************************)
(* The life of one physical frame: its metadata slot with the reference    *)
(* count (osxtd/src/mm/frame/meta.rs), the shared and unique handles to it *)
(* (frame/mod.rs, frame/unique.rs) and its way out of and back into the    *)
(* frame allocator (frame/allocator.rs).  Slots are independent, so one    *)
(* frame stands for all.                                                   *)
(*                                                                         *)
(* A handle is the actor: whatever thread holds it performs its steps.  A  *)
(* handle that into_raw has turned into an address in a page table or a    *)
(* list is still a handle; from_raw and into_raw change nothing here.      *)
(***************************************************************************)
EXTENDS Naturals, FiniteSets

CONSTANTS Handles,
          RefCountMax   \* REF_COUNT_MAX, i64::MAX in the code

\* fewer handles race past the limit than there are illegal values
ASSUME FrameAssumption == /\ IsFiniteSet(Handles)
                          /\ RefCountMax \in Nat \ {0}
                          /\ Cardinality(Handles) < 2 * RefCountMax

UNIQUE == 2 * RefCountMax       \* u64::MAX - 1
UNUSED == 2 * RefCountMax + 1   \* u64::MAX

VARIABLES ref_count,
          meta_init,   \* the slot holds initialised metadata
          in_pool,     \* the frame allocator has the frame
          pc,          \* pc[h]: where the handle stands
          seen,        \* seen[h]: the count get_from_in_use has loaded
          as_unique,   \* as_unique[h]: the argument as_unique_ptr
          aborted      \* the kernel has stopped

vars == <<ref_count, meta_init, in_pool, pc, seen, as_unique, aborted>>

Constructing == {"taken", "writing", "written"}
Destructing == {"last", "cleared", "freed"}
Exclusive == {"unique", "repurposing"} \cup Constructing \cup Destructing

TypeOK == /\ ref_count \in 0..UNUSED
          /\ meta_init \in BOOLEAN
          /\ in_pool \in BOOLEAN
          /\ pc \in [Handles -> {"none", "loaded", "shared", "excess", "failed"} \cup Exclusive]
          /\ seen \in [Handles -> 0..RefCountMax]
          /\ as_unique \in [Handles -> BOOLEAN]
          /\ aborted \in BOOLEAN

Init == /\ ref_count = UNUSED
        /\ meta_init = FALSE
        /\ in_pool = TRUE
        /\ pc = [h \in Handles |-> "none"]
        /\ seen = [h \in Handles |-> 0]
        /\ as_unique = [h \in Handles |-> FALSE]
        /\ aborted = FALSE

Goto(h, from, to) == /\ ~aborted
                     /\ pc[h] = from
                     /\ pc' = [pc EXCEPT ![h] = to]

-----------------------------------------------------------------------------
\* The allocator hands the frame out, to alloc_frame_with for a Frame or to
\* itself for the UniqueFrame that heads a chunk of its free lists.
Alloc(h) == /\ Goto(h, "none", "taken")
            /\ in_pool
            /\ in_pool' = FALSE
            /\ \E u \in BOOLEAN : as_unique' = [as_unique EXCEPT ![h] = u]
            /\ UNCHANGED <<ref_count, meta_init, seen, aborted>>

\* get_from_unused: claim the slot; the caller unwraps the result.
ClaimUnused(h) ==
  /\ \/ /\ ref_count = UNUSED
        /\ Goto(h, "taken", "writing")
        /\ ref_count' = 0
     \/ /\ ref_count # UNUSED
        /\ Goto(h, "taken", "failed")
        /\ UNCHANGED ref_count
  /\ UNCHANGED <<meta_init, in_pool, seen, as_unique, aborted>>

WriteMeta(h) == /\ Goto(h, "writing", "written")
                /\ meta_init' = TRUE
                /\ UNCHANGED <<ref_count, in_pool, seen, as_unique, aborted>>

Publish(h) == /\ Goto(h, "written", IF as_unique[h] THEN "unique" ELSE "shared")
              /\ ref_count' = IF as_unique[h] THEN UNIQUE ELSE 1
              /\ as_unique' = [as_unique EXCEPT ![h] = FALSE]
              /\ UNCHANGED <<meta_init, in_pool, seen, aborted>>

-----------------------------------------------------------------------------
\* A mutant: a frame under construction or destruction counts as in use.
LoadInUseBusy(h) ==
  /\ ref_count \notin {UNUSED, UNIQUE}
  /\ ref_count < RefCountMax
  /\ Goto(h, "none", "loaded")
  /\ seen' = [seen EXCEPT ![h] = ref_count]
  /\ UNCHANGED <<ref_count, meta_init, in_pool, as_unique, aborted>>

\* get_from_in_use, by the address alone: load the count (an unused, unique or
\* busy frame is an error and changes nothing) ...
LoadInUse(h) ==
  /\ ref_count \notin {UNUSED, UNIQUE, 0}
  /\ \/ /\ ref_count < RefCountMax
        /\ Goto(h, "none", "loaded")
        /\ seen' = [seen EXCEPT ![h] = ref_count]
        /\ UNCHANGED aborted
     \/ /\ ref_count >= RefCountMax
        /\ ~aborted
        /\ pc[h] = "none"
        /\ aborted' = TRUE
        /\ UNCHANGED <<pc, seen>>
  /\ UNCHANGED <<ref_count, meta_init, in_pool, as_unique>>

\* A mutant: the loaded count is stored without a comparison.
StoreInUse(h) ==
  /\ Goto(h, "loaded", "shared")
  /\ ref_count' = seen[h] + 1
  /\ seen' = [seen EXCEPT ![h] = 0]
  /\ UNCHANGED <<meta_init, in_pool, as_unique, aborted>>

\* ... then compare_exchange_weak, which may fail without cause; after a
\* failure the loop starts over with a new load.
ClaimInUse(h) ==
  /\ \/ /\ ref_count = seen[h]
        /\ Goto(h, "loaded", "shared")
        /\ ref_count' = seen[h] + 1
     \/ /\ Goto(h, "loaded", "none")
        /\ UNCHANGED ref_count
  /\ seen' = [seen EXCEPT ![h] = 0]
  /\ UNCHANGED <<meta_init, in_pool, as_unique, aborted>>

\* Frame::clone and inc_frame_ref_count, from a handle h to a new one k: the
\* increment comes first, the test of the limit after it.
Clone(h, k) ==
  /\ pc[h] = "shared"
  /\ Goto(k, "none", IF ref_count >= RefCountMax THEN "excess" ELSE "shared")
  /\ ref_count' = (ref_count + 1) % (UNUSED + 1)
  /\ UNCHANGED <<meta_init, in_pool, seen, as_unique, aborted>>

Abort(h) == /\ ~aborted
            /\ pc[h] = "excess"
            /\ aborted' = TRUE
            /\ UNCHANGED <<ref_count, meta_init, in_pool, pc, seen, as_unique>>

-----------------------------------------------------------------------------
\* Frame::drop: only the handle that takes the count from 1 to 0 goes on.
DropShared(h) ==
  /\ Goto(h, "shared", IF ref_count = 1 THEN "last" ELSE "none")
  /\ ref_count' = ref_count - 1
  /\ UNCHANGED <<meta_init, in_pool, seen, as_unique, aborted>>

\* UniqueFrame::drop, and reset_as_unused by the allocator.
DropUnique(h) ==
  /\ Goto(h, "unique", "last")
  /\ ref_count' = 0
  /\ UNCHANGED <<meta_init, in_pool, seen, as_unique, aborted>>

\* A mutant: the frame is given back before its slot is unused.
DropMetaDealloc(h) == /\ Goto(h, "last", "cleared")
                      /\ meta_init' = FALSE
                      /\ in_pool' = TRUE
                      /\ UNCHANGED <<ref_count, seen, as_unique, aborted>>

\* drop_meta_in_place, for drop_last_in_place.
DropMeta(h) == /\ Goto(h, "last", "cleared")
               /\ meta_init' = FALSE
               /\ UNCHANGED <<ref_count, in_pool, seen, as_unique, aborted>>

MarkUnused(h) == /\ Goto(h, "cleared", "freed")
                 /\ ref_count' = UNUSED
                 /\ UNCHANGED <<meta_init, in_pool, seen, as_unique, aborted>>

\* The upcall of the allocator's dealloc; after reset_as_unused the allocator
\* has the frame already.
Dealloc(h) == /\ Goto(h, "freed", "none")
              /\ in_pool' = TRUE
              /\ UNCHANGED <<ref_count, meta_init, seen, as_unique, aborted>>

-----------------------------------------------------------------------------
\* UniqueFrame::repurpose drops the old metadata, then writes the new.
RepurposeDrop(h) == /\ Goto(h, "unique", "repurposing")
                    /\ meta_init' = FALSE
                    /\ UNCHANGED <<ref_count, in_pool, seen, as_unique, aborted>>

RepurposeWrite(h) == /\ Goto(h, "repurposing", "unique")
                     /\ meta_init' = TRUE
                     /\ UNCHANGED <<ref_count, in_pool, seen, as_unique, aborted>>

\* From<UniqueFrame> for Frame.
IntoShared(h) == /\ Goto(h, "unique", "shared")
                 /\ ref_count' = 1
                 /\ UNCHANGED <<meta_init, in_pool, seen, as_unique, aborted>>

\* TryFrom<Frame> for UniqueFrame; it fails while others share the frame.
TryIntoUnique(h) == /\ ref_count = 1
                    /\ Goto(h, "shared", "unique")
                    /\ ref_count' = UNIQUE
                    /\ UNCHANGED <<meta_init, in_pool, seen, as_unique, aborted>>

Next == \E h \in Handles :
          \/ Alloc(h) \/ ClaimUnused(h) \/ WriteMeta(h) \/ Publish(h)
          \/ LoadInUse(h) \/ ClaimInUse(h) \/ Abort(h)
          \/ \E k \in Handles : Clone(h, k)
          \/ DropShared(h) \/ DropUnique(h) \/ DropMeta(h) \/ MarkUnused(h) \/ Dealloc(h)
          \/ RepurposeDrop(h) \/ RepurposeWrite(h) \/ IntoShared(h) \/ TryIntoUnique(h)

Spec == Init /\ [][Next]_vars

-----------------------------------------------------------------------------
Sharers == {h \in Handles : pc[h] \in {"shared", "excess"}}

\* The inductive invariant: the frame is always in exactly one place (the
\* allocator, the hands of its sharers, or those of one exclusive handle), and
\* the reference count has in each the meaning its documentation gives it.
RefCountInv ==
  /\ \A h, k \in Handles : pc[h] \in Exclusive /\ pc[k] \in Exclusive => h = k
  /\ \A h \in Handles : pc[h] \in Exclusive => ~in_pool /\ Sharers = {}
  /\ \A h \in Handles : pc[h] \in {"taken", "freed"} => ref_count = UNUSED
  /\ \A h \in Handles : pc[h] \in {"writing", "written", "last", "cleared"} => ref_count = 0
  /\ \A h \in Handles : pc[h] \in {"unique", "repurposing"} => ref_count = UNIQUE
  /\ in_pool => ref_count = UNUSED /\ Sharers = {}
  /\ Sharers # {} => ref_count = Cardinality(Sharers)
  /\ in_pool \/ Sharers # {} \/ \E h \in Handles : pc[h] \in Exclusive
  /\ meta_init <=> \/ Sharers # {}
                   \/ \E h \in Handles : pc[h] \in {"written", "unique", "last"}
  /\ \A h \in Handles : pc[h] = "loaded" => seen[h] \in 1..(RefCountMax - 1)
  /\ \A h \in Handles : pc[h] # "failed"

\* "The metadata is initialized": whoever reads the metadata through a handle,
\* or is about to drop it, finds it initialised, and whoever writes or drops it
\* is alone with it.
MetaAccess ==
  \A h \in Handles :
    /\ pc[h] \in {"shared", "unique", "last"} => meta_init
    /\ pc[h] \in {"unique", "repurposing", "writing", "last"} =>
         \A k \in Handles \ {h} : pc[k] \notin {"shared"} \cup Exclusive

\* `Frame::from_unused(paddr, metadata).unwrap()` never panics: a frame is back
\* in the allocator only after its slot has become unused.
UnwrapSucceeds == \A h \in Handles : pc[h] # "failed"

\* A frame whose last handle is being dropped is never revived by a racing
\* from_in_use: until it is unused, its count stays 0.
NoRevival == [][(\E h \in Handles : pc[h] \in {"last", "cleared"}) => ref_count' \in {0, UNUSED}]_vars

=============================================================================
