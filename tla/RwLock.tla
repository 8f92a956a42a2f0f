------------------------------- MODULE RwLock -------------------------------
(***************************************************************************)
(* The lock word shared by the spinning RwLock (osxtd/src/sync/rwlock.rs)  *)
(* and the sleeping RwMutex (osxtd/src/sync/rwmutex.rs), which manipulate  *)
(* it with the same atomic instructions.  One action is one instruction;   *)
(* an attempt that has to undo its first instruction takes two.  Spinning  *)
(* repeats the attempt; a failed compare_exchange changes nothing.         *)
(***************************************************************************)
EXTENDS Naturals, ThreadSet

CONSTANT MaxReader   \* MAX_READER: the reader count from which reads fail

ASSUME RwLockAssumption == MaxReader \in Nat

VARIABLES lock,   \* the word: the bits WRITER, UPGRADEABLE_READER and
                  \* BEING_UPGRADED, and the number of readers
          guard,  \* guard[t]: the guard t owns
          step    \* step[t]: "run", or the second instruction of an operation

rwVars == <<lock, guard, step>>

Word == [w : BOOLEAN, u : BOOLEAN, bu : BOOLEAN, readers : Nat]

LockSteps == {"run", "undo_read", "undo_upread", "upgrade", "upgrade_drop", "downgrade_drop"}

LockTypeOK == /\ lock \in Word
              /\ guard \in [Threads -> {"none", "read", "upread", "write"}]
              /\ step \in [Threads -> LockSteps]

Bits(w, u, bu) == [w |-> w, u |-> u, bu |-> bu, readers |-> 0]

LockInit == /\ lock = Bits(FALSE, FALSE, FALSE)
            /\ guard = [t \in Threads |-> "none"]
            /\ step = [t \in Threads |-> "run"]

Idle(t, g) == guard[t] = g /\ step[t] = "run"

SetGuard(t, g) == guard' = [guard EXCEPT ![t] = g]

SetStep(t, s) == step' = [step EXCEPT ![t] = s]

-----------------------------------------------------------------------------
\* The test of try_read on the value fetch_add returned.
Readable == ~lock.w /\ ~lock.bu /\ lock.readers < MaxReader

\* try_read: fetch_add(READER), then keep it or go on to undo it.
TryRead(t) == /\ Idle(t, "none")
              /\ lock' = [lock EXCEPT !.readers = @ + 1]
              /\ \/ Readable /\ SetGuard(t, "read") /\ UNCHANGED step
                 \/ ~Readable /\ SetStep(t, "undo_read") /\ UNCHANGED guard

UndoRead(t) == /\ step[t] = "undo_read"
               /\ lock' = [lock EXCEPT !.readers = @ - 1]
               /\ SetStep(t, "run")
               /\ UNCHANGED guard

\* A mutant: the upreader is not seen by a writer.
WritableOverUpread == ~lock.w /\ lock.readers = 0

\* try_write: compare_exchange from 0 to WRITER.
Writable == lock = Bits(FALSE, FALSE, FALSE)

TryWrite(t) == /\ Idle(t, "none")
               /\ Writable
               /\ lock' = [lock EXCEPT !.w = TRUE]
               /\ SetGuard(t, "write")
               /\ UNCHANGED step

\* A mutant: the bit is taken back whenever the attempt fails.
TryUpreadUndoAlways(t) ==
  /\ Idle(t, "none")
  /\ lock' = [lock EXCEPT !.u = TRUE]
  /\ \/ ~lock.w /\ ~lock.u /\ SetGuard(t, "upread") /\ UNCHANGED step
     \/ (lock.w \/ lock.u) /\ SetStep(t, "undo_upread") /\ UNCHANGED guard

\* try_upread: fetch_or(UPGRADEABLE_READER); the bit is taken back only by the
\* thread that set it, and only when a writer made the attempt fail.
TryUpread(t) == /\ Idle(t, "none")
                /\ lock' = [lock EXCEPT !.u = TRUE]
                /\ \/ ~lock.w /\ ~lock.u /\ SetGuard(t, "upread") /\ UNCHANGED step
                   \/ lock.w /\ ~lock.u /\ SetStep(t, "undo_upread") /\ UNCHANGED guard
                   \/ lock.u /\ UNCHANGED <<guard, step>>

UndoUpread(t) == /\ step[t] = "undo_upread"
                 /\ lock' = [lock EXCEPT !.u = FALSE]
                 /\ SetStep(t, "run")
                 /\ UNCHANGED guard

-----------------------------------------------------------------------------
\* A mutant: a read guard can be dropped while it is not held.
DropReadTwice(t) == /\ guard[t] \in {"read", "none"}
                    /\ step[t] = "run"
                    /\ lock' = [lock EXCEPT !.readers = @ - 1]
                    /\ SetGuard(t, "none")
                    /\ UNCHANGED step

\* The drops of the three guards.
DropRead(t) == /\ Idle(t, "read")
               /\ lock' = [lock EXCEPT !.readers = @ - 1]
               /\ SetGuard(t, "none")
               /\ UNCHANGED step

DropWrite(t) == /\ Idle(t, "write")
                /\ lock' = [lock EXCEPT !.w = FALSE]
                /\ SetGuard(t, "none")
                /\ UNCHANGED step

DropUpread(t) == /\ Idle(t, "upread")
                 /\ lock' = [lock EXCEPT !.u = FALSE]
                 /\ SetGuard(t, "none")
                 /\ UNCHANGED step

\* upgrade: fetch_or(BEING_UPGRADED), then spin in try_upgrade ...
Upgrade(t) == /\ Idle(t, "upread")
              /\ lock' = [lock EXCEPT !.bu = TRUE]
              /\ SetStep(t, "upgrade")
              /\ UNCHANGED guard

\* A mutant: the exchange looks at the two bits and not at the readers.
TryUpgradeOverReaders(t) == /\ guard[t] = "upread"
                            /\ step[t] = "upgrade"
                            /\ lock' = [lock EXCEPT !.w = TRUE, !.bu = FALSE]
                            /\ SetGuard(t, "write")
                            /\ SetStep(t, "upgrade_drop")

\* ... whose compare_exchange trades U|BU for W|U; try_upgrade called on its
\* own makes the same attempt, so the step before it may also be "run" ...
TryUpgrade(t) == /\ guard[t] = "upread"
                 /\ step[t] \in {"run", "upgrade"}
                 /\ lock = Bits(FALSE, TRUE, TRUE)
                 /\ lock' = Bits(TRUE, TRUE, FALSE)
                 /\ SetGuard(t, "write")
                 /\ SetStep(t, "upgrade_drop")

\* ... and whose success drops the old guard: fetch_sub(UPGRADEABLE_READER).
UpgradeDrop(t) == /\ step[t] = "upgrade_drop"
                  /\ lock' = [lock EXCEPT !.u = FALSE]
                  /\ SetStep(t, "run")
                  /\ UNCHANGED guard

\* downgrade (RwMutex only): spin on compare_exchange from WRITER to
\* UPGRADEABLE_READER, then drop the write guard: fetch_and(!WRITER).
TryDowngrade(t) == /\ Idle(t, "write")
                   /\ lock = Bits(TRUE, FALSE, FALSE)
                   /\ lock' = Bits(FALSE, TRUE, FALSE)
                   /\ SetGuard(t, "upread")
                   /\ SetStep(t, "downgrade_drop")

DowngradeDrop(t) == /\ step[t] = "downgrade_drop"
                    /\ lock' = [lock EXCEPT !.w = FALSE]
                    /\ SetStep(t, "run")
                    /\ UNCHANGED guard

LockNext == \E t \in Threads :
  \/ TryRead(t) \/ UndoRead(t) \/ DropRead(t)
  \/ TryWrite(t) \/ DropWrite(t)
  \/ TryUpread(t) \/ UndoUpread(t) \/ DropUpread(t)
  \/ Upgrade(t) \/ TryUpgrade(t) \/ UpgradeDrop(t)
  \/ TryDowngrade(t) \/ DowngradeDrop(t)

LockSpec == LockInit /\ [][LockNext]_rwVars

-----------------------------------------------------------------------------
\* What the word counts: the threads that own a reader, U or W contribution,
\* be it for a guard or for an attempt not yet undone.
Readers   == {t \in Threads : guard[t] = "read" \/ step[t] = "undo_read"}
UOwners   == {t \in Threads : guard[t] = "upread" \/ step[t] \in {"undo_upread", "upgrade_drop"}}
WOwners   == {t \in Threads : guard[t] = "write"}
Upgraders == {t \in Threads : step[t] = "upgrade"}

AtMostOne(S) == \A t, u \in S : t = u

\* The inductive invariant: each part of the word is accounted for by exactly
\* the threads that must give it back, so no drop or undo ever underflows the
\* reader count or clears a bit that another thread set.
WordAccounted ==
  /\ lock.readers = Cardinality(Readers)
  /\ (lock.u <=> UOwners # {}) /\ AtMostOne(UOwners)
  /\ (lock.w <=> WOwners # {}) /\ AtMostOne(WOwners)
  /\ lock.bu <=> Upgraders # {}
  /\ \A t \in Threads :
       /\ step[t] \in {"undo_read", "undo_upread"} => guard[t] = "none"
       /\ step[t] \in {"upgrade", "downgrade_drop"} => guard[t] = "upread"
       /\ step[t] = "upgrade_drop" => guard[t] = "write"
  /\ WOwners # {} => \A t \in Threads : guard[t] \in {"none", "write"}

\* A write guard excludes every other guard and an upread guard excludes other
\* upread guards, whatever attempts are being undone meanwhile.
GuardExclusion ==
  \A t, u \in Threads : t # u =>
    /\ guard[t] = "write" => guard[u] = "none"
    /\ guard[t] = "upread" => guard[u] \in {"none", "read"}

\* The lock word implements the abstract lock: every guard appears, changes and
\* disappears in one permitted step; upgrades and downgrades let nobody in.
RW == INSTANCE ReadersWriters
ImplementsReadersWriters == RW!Spec

=============================================================================
