---------------------------- MODULE EditJournal ----------------------------
(***************************************************************************)
(* The edit journal of kernel/comps/mlsdisk/src/layers/2-edit/journal.rs,  *)
(* with the CryptoChain, the two CryptoBlobs and the BlockRing it is built *)
(* on, over a disk that can lose power at any time.                        *)
(*                                                                         *)
(* A state is the sequence of the edit groups applied to it; a group is a  *)
(* number.  The MAC of a chain block is a number no other block has: its   *)
(* IV is random.  The MAC of a blob is determined by its key, its version  *)
(* and its content, so the header and the payload together stand for it.   *)
(* A step makes at most one write to the disk.                             *)
(***************************************************************************)
EXTENDS Integers, Sequences, FiniteSets, SequencesExt

CONSTANTS NBlocks,     \* journal_area_nblocks: the blocks of the ring
          BufRecords,  \* how many records the WriteBuf holds
          Caching,     \* bound: the kinds of disk, a set of values of write_cache
          UsizeWrap,   \* bound: stands for 2^64
          MaxGroups,   \* bound: the groups committed
          MaxCrashes   \* bound: the crashes

ASSUME JournalAssumption ==
  /\ NBlocks \in Nat \ {0} /\ BufRecords \in Nat \ {0}
  /\ Caching \subseteq BOOLEAN
  /\ UsizeWrap \in Nat /\ UsizeWrap > 4 * NBlocks
  /\ MaxGroups \in Nat /\ MaxCrashes \in Nat

VARIABLES state,        \* the state of the EditJournal
          write_buf,    \* the records of the WriteBuf
          range,        \* block_range of the chain
          last_mac,     \* the last of its block_macs
          latest_index, \* of the SnapshotManager
          used_blocks,  \* of the DefaultCompactPolicy
          phase,        \* where the call in progress is
          caller,       \* the call: a commit of a group, or a flush (0)
          ring,         \* ring[p]: block p of the journal area, as the program sees it
          blob,         \* blob[i]: snapshot area i
          write_cache,  \* TRUE if the disk may keep writes in any order until a flush,
                        \* FALSE if a completed write is on the disk
          old_ring,     \* old_ring[p]: what block p may still be after a crash
          old_blob,     \* old_blob[i]: the same for a snapshot area
          committed,    \* the groups whose commit has returned
          flushed,      \* those of them before the last flush that has returned
          cut,          \* a crash has hit a compaction before a flush settled it
          overrun,      \* an append has overwritten a block recovery needs
          unsettled,    \* a compaction has begun and no flush has followed it yet
          groups,       \* the groups so far
          macs,         \* the chain blocks so far
          crashes       \* the crashes so far

memory == <<state, write_buf, range, last_mac, latest_index, used_blocks, phase, caller>>
disk == <<ring, blob, old_ring, old_blob, write_cache>>
ghosts == <<committed, flushed, cut, overrun, unsettled>>
counters == <<groups, macs, crashes>>
journalVars == <<memory, disk, ghosts, counters>>

Positions == 0..(NBlocks - 1)

Indices == {0, 1}

\* A block or a snapshot area that does not decrypt: never written, or torn.
BadBlock == [pre_mac |-> 0, mac |-> 0, records |-> <<>>]
BadBlob(i) == [key |-> i, version |-> -1, state |-> <<>>, recover_from |-> 0]

NoBlob == BadBlob(-1)

\* Record::Edit and Record::Version.
Edit(group) == [group |-> group, mac |-> NoBlob]
Version(b) == [group |-> 0, mac |-> b]

\* EditJournal::format and SnapshotManager::create.
JournalInit == /\ blob = [i \in Indices |-> [BadBlob(i) EXCEPT !.version = 0]]
               /\ latest_index = 0
               /\ ring = [p \in Positions |->
                    IF p = 0 THEN [pre_mac |-> 0, mac |-> 1, records |-> <<Version(blob[0])>>]
                             ELSE BadBlock]
               /\ range = [start |-> 0, end |-> 1]
               /\ last_mac = 1
               /\ macs = 1
               /\ used_blocks = 1
               /\ state = <<>> /\ write_buf = <<>>
               /\ phase = "idle" /\ caller = 0
               /\ write_cache \in Caching
               /\ old_ring = [p \in Positions |-> {}]
               /\ old_blob = [i \in Indices |-> {}]
               /\ committed = <<>> /\ flushed = <<>>
               /\ cut = FALSE /\ overrun = FALSE /\ unsettled = FALSE
               /\ groups = 0 /\ crashes = 0

-----------------------------------------------------------------------------
(* The disk.                                                               *)

\* Writes of a disk without a write cache are done when the next one starts.
StillOld(old) == IF write_cache THEN old ELSE [x \in DOMAIN old |-> {}]

WriteBlock(p, block) ==
  /\ ring' = [ring EXCEPT ![p] = block]
  /\ old_ring' = [StillOld(old_ring) EXCEPT ![p] = @ \cup {ring[p], BadBlock}]
  /\ old_blob' = StillOld(old_blob)
  /\ UNCHANGED <<blob, write_cache>>

WriteBlob(i, content) ==
  /\ blob' = [blob EXCEPT ![i] = content]
  /\ old_blob' = [StillOld(old_blob) EXCEPT ![i] = @ \cup {blob[i], BadBlob(i)}]
  /\ old_ring' = StillOld(old_ring)
  /\ UNCHANGED <<ring, write_cache>>

\* BlockSet::flush, of the whole disk.
FlushDisk == /\ old_ring' = [p \in Positions |-> {}]
             /\ old_blob' = [i \in Indices |-> {}]
             /\ UNCHANGED <<ring, blob, write_cache>>

-----------------------------------------------------------------------------
(* commit and flush.                                                       *)

\* on_append_journal and done_compact: usize arithmetic.
Used(n) == (used_blocks + n) % UsizeWrap

\* CryptoChain::append on the BlockRing: the block goes to the position after
\* the last, modulo the size of the ring, and holds the MAC of the last.
AppendBlock(records) ==
  /\ WriteBlock(range.end % NBlocks,
                [pre_mac |-> last_mac, mac |-> macs + 1, records |-> records])
  /\ last_mac' = macs + 1
  /\ macs' = macs + 1

\* The end of commit: the record is in the buffer and applied to the state.
Committed(group) == /\ write_buf' = Append(write_buf, Edit(group))
                    /\ state' = Append(state, group)
                    /\ committed' = Append(committed, group)

\* commit of a group that is not empty, as far as the first try to buffer it.
Commit ==
  /\ phase = "idle"
  /\ groups < MaxGroups
  /\ groups' = groups + 1
  /\ IF Len(write_buf) < BufRecords
       THEN Committed(groups') /\ UNCHANGED <<phase, caller>>
       ELSE /\ phase' = "append" /\ caller' = groups'
            /\ UNCHANGED <<write_buf, state, committed>>
  /\ UNCHANGED <<range, last_mac, latest_index, used_blocks, disk, flushed, cut, overrun,
                 unsettled, macs, crashes>>

\* flush: nothing is appended if the buffer is empty.
Flush ==
  /\ phase = "idle"
  /\ phase' = IF write_buf = <<>> THEN "finish" ELSE "append"
  /\ caller' = 0
  /\ UNCHANGED <<state, write_buf, range, last_mac, latest_index, used_blocks, disk, ghosts,
                 counters>>

\* append_write_buf_to_journal up to the question of the compaction policy.
AppendWriteBufToJournal ==
  /\ phase = "append"
  /\ AppendBlock(write_buf)
  /\ range' = [range EXCEPT !.end = @ + 1]
  /\ write_buf' = <<>>
  /\ used_blocks' = Used(1)
  /\ phase' = IF used_blocks' >= NBlocks THEN "persist" ELSE "finish"
  /\ overrun' = (overrun \/ range.end - NBlocks >= blob[latest_index].recover_from)
  /\ UNCHANGED <<state, latest_index, caller, committed, flushed, cut, unsettled, groups,
                 crashes>>

\* A mutant: the latest snapshot is overwritten instead of the older one.
PersistInPlace ==
  /\ phase = "persist"
  /\ WriteBlob(latest_index, [key |-> latest_index, version |-> blob[latest_index].version + 1,
                              state |-> state, recover_from |-> range.end])
  /\ phase' = "version"
  /\ unsettled' = TRUE
  /\ UNCHANGED <<state, write_buf, range, last_mac, latest_index, used_blocks, caller,
                 committed, flushed, cut, overrun, counters>>

\* compact: persist the state in the older of the two snapshot areas ...
Persist ==
  LET index == (latest_index + 1) % 2 IN
  /\ phase = "persist"
  /\ WriteBlob(index, [key |-> index, version |-> blob[index].version + 1,
                       state |-> state, recover_from |-> range.end])
  /\ latest_index' = index
  /\ phase' = "version"
  /\ unsettled' = TRUE
  /\ UNCHANGED <<state, write_buf, range, last_mac, used_blocks, caller, committed, flushed,
                 cut, overrun, counters>>

\* ... then append its MAC to the chain and trim the chain to that block.
AppendVersion ==
  LET compacted == range.end - range.start IN
  /\ phase = "version"
  /\ AppendBlock(<<Version(blob[latest_index])>>)
  /\ range' = [start |-> range.end, end |-> range.end + 1]
  /\ used_blocks' = Used(1 + UsizeWrap - compacted)
  /\ phase' = "finish"
  /\ overrun' = FALSE
  /\ UNCHANGED <<state, write_buf, latest_index, caller, committed, flushed, cut, unsettled,
                 groups, crashes>>

\* A mutant: the group is applied but its record is lost with the first try.
FinishCommitUnwritten ==
  /\ phase = "finish"
  /\ caller # 0
  /\ state' = Append(state, caller) /\ committed' = Append(committed, caller)
  /\ phase' = "idle" /\ caller' = 0
  /\ UNCHANGED <<write_buf, range, last_mac, latest_index, used_blocks, disk, flushed, cut,
                 overrun, unsettled, counters>>

\* The second try of commit, which finds the buffer empty.
FinishCommit ==
  /\ phase = "finish"
  /\ caller # 0
  /\ Committed(caller)
  /\ phase' = "idle" /\ caller' = 0
  /\ UNCHANGED <<range, last_mac, latest_index, used_blocks, disk, flushed, cut, overrun,
                 unsettled, counters>>

\* flush ends with the flush of the disk.
FinishFlush ==
  /\ phase = "finish"
  /\ caller = 0
  /\ FlushDisk
  /\ flushed' = committed
  /\ cut' = (cut /\ ~unsettled)
  /\ unsettled' = FALSE
  /\ phase' = "idle"
  /\ UNCHANGED <<state, write_buf, range, last_mac, latest_index, used_blocks, caller,
                 committed, overrun, counters>>

-----------------------------------------------------------------------------
(* Crash and recovery.                                                     *)

\* What a crash may leave of an area: f's content, or an older or torn one.
Survivors(f, old) ==
  LET all == UNION {{f[x]} \cup old[x] : x \in DOMAIN f}
  IN  {g \in [DOMAIN f -> all] : \A x \in DOMAIN f : g[x] \in {f[x]} \cup old[x]}

Crash ==
  /\ phase \notin {"down", "failed"}
  /\ crashes < MaxCrashes
  /\ crashes' = crashes + 1
  /\ ring' \in Survivors(ring, old_ring)
  /\ blob' \in Survivors(blob, old_blob)
  /\ old_ring' = [p \in Positions |-> {}]
  /\ old_blob' = [i \in Indices |-> {}]
  /\ state' = <<>> /\ write_buf' = <<>>
  /\ range' = [start |-> 0, end |-> 0] /\ last_mac' = 0
  /\ latest_index' = 0 /\ used_blocks' = 0
  /\ phase' = "down" /\ caller' = 0
  /\ cut' = (cut \/ unsettled)
  /\ unsettled' = FALSE
  /\ UNCHANGED <<committed, flushed, overrun, write_cache, groups, macs>>

Readable(i) == blob[i].version >= 0

\* recover_from: an area that cannot be read gets the version and the payload of
\* the other one, under its own key.
Repaired == [i \in Indices |-> IF Readable(i) THEN blob[i] ELSE [blob[1 - i] EXCEPT !.key = i]]

\* Of equal versions area 0 is the latest, DEFAULT_LATEST_INDEX.
Versions == <<Repaired[0].version, Repaired[1].version>>

Latest == IF Versions[1] = Versions[2] THEN 0 ELSE 1

\* A mutant: the chain of MACs is not checked.
ValidAlone(from, n) == \A j \in 0..(n - 1) : ring[(from + j) % NBlocks].mac # 0

\* Recovery::next accepts n blocks: they decrypt and each but the first holds
\* the MAC of the one before.
Valid(from, n) ==
  \A j \in 0..(n - 1) :
    LET block == ring[(from + j) % NBlocks] IN
    /\ block.mac # 0
    /\ j > 0 => block.pre_mac = ring[(from + j - 1) % NBlocks].mac

\* The groups that recover applies: those behind the Version of the snapshot.
Applied(records, b) ==
  LET after == {n \in 1..Len(records) :
                  \E m \in 1..n : records[m].mac = b /\ records[m].group = 0}
      Of(n) == IF n \in after /\ records[n].group # 0 THEN <<records[n].group>> ELSE <<>>
  IN  FlattenSeq([n \in 1..Len(records) |-> Of(n)])

\* SnapshotManager::recover, CryptoChain::recover and the loop over the records.
Recover ==
  LET snapshot == Repaired[Latest]
      from == snapshot.recover_from
      n == CHOOSE k \in 0..NBlocks : Valid(from, k) /\ (k = NBlocks \/ ~Valid(from, k + 1))
      records == FlattenSeq([j \in 1..n |-> ring[(from + j - 1) % NBlocks].records])
  IN
  /\ phase = "down"
  /\ \E i \in Indices : Readable(i)
  /\ Versions[1] <= Versions[2] /\ Versions[2] <= Versions[1] + 1
  /\ state' = snapshot.state \o Applied(records, snapshot)
  /\ blob' = Repaired
  /\ old_blob' = [i \in Indices |-> IF Readable(i) THEN {} ELSE {blob[i]}]
  /\ latest_index' = Latest
  /\ range' = [start |-> from, end |-> from + n]
  /\ last_mac' = IF n = 0 THEN 0 ELSE ring[(from + n - 1) % NBlocks].mac
  /\ write_buf' = <<>> /\ used_blocks' = 0
  /\ phase' = "idle"
  /\ committed' = state'
  /\ flushed' = IF IsPrefix(flushed, state') THEN flushed ELSE state'
  /\ UNCHANGED <<caller, ring, old_ring, write_cache, cut, overrun, unsettled, counters>>

\* recover returns an error.
RecoverFails ==
  /\ phase = "down"
  /\ \/ \A i \in Indices : ~Readable(i)
     \/ Versions[2] \notin {Versions[1], Versions[1] + 1}
  /\ phase' = "failed"
  /\ UNCHANGED <<state, write_buf, range, last_mac, latest_index, used_blocks, caller, disk,
                 ghosts, counters>>

-----------------------------------------------------------------------------
JournalNext == \/ Commit \/ Flush \/ AppendWriteBufToJournal \/ Persist \/ AppendVersion
               \/ FinishCommit \/ FinishFlush \/ Crash \/ Recover \/ RecoverFails

JournalSpec == JournalInit /\ [][JournalNext]_journalVars

-----------------------------------------------------------------------------
Recovers == phase = "down" /\ phase' = "idle"

\* Whatever writes a crash loses, tears or reorders, also in the middle of a
\* compaction and in repeated crashes, the recovered state is what some prefix of
\* the committed groups gives: no later group without an earlier one, no block
\* of an older round of the ring, nothing twice.
RecoversPrefix == [][Recovers => IsPrefix(state', committed)]_journalVars

\* flush: "Ensure that all committed edits are persisted to disk."
FlushPersists == [][Recovers => IsPrefix(flushed, state')]_journalVars

\* What flush does ensure: its edits survive a crash unless that or an earlier
\* crash hit a compaction no flush had settled, or the journal, whose policy
\* starts at 0 after a recovery, has overrun the ring.
FlushPersistsUnlessCut == [][Recovers /\ ~cut /\ ~overrun => IsPrefix(flushed, state')]_journalVars

\* The two copies of the snapshot: as long as writes reach the disk in order one
\* of them is readable, and the versions always name the latest one.
RecoverySucceeds == ~write_cache => phase # "failed"
=============================================================================
