------------------------------- MODULE BufScsi --------------------------------
(***************************************************************************)
(* OffsetScsiDevice (buf_scsi.rs): a cursor over a partition of a block    *)
(* device with a write-back cache of one block, and the bulk transfers of  *)
(* UsbClient (usb_comm.rs) through which the cache reaches the medium.     *)
(* A definition with a suffix (Loaded_numberFirst) is the one of that name *)
(* as a plausible mistake would leave it; nothing refers to it.            *)
(*                                                                         *)
(* A read or write call is a loop over bytes; each turn of it is fill_buf  *)
(* (Evict, then Load) followed by the byte itself.  The object is used     *)
(* through &mut self, so one call runs at a time.                          *)
(*                                                                         *)
(* A transfer may move fewer bytes than a block and succeed; its count is  *)
(* ignored.  Which of a transfer's phases fail or fall short is a property *)
(* of the drive.                                                           *)
(***************************************************************************)
EXTENDS Integers

CONSTANTS BlockSize,       \* bytes in a block of the device
          NumBlocks,       \* blocks of the device
          StartBlock,      \* the partition's first block (logical_block_address)
          AddrSpace,       \* 2^32 in the code: byte addresses are products and casts in u32
          Byte,            \* the values of a byte
          Zero,            \* the one a shim is allocated with
          Drained,         \* an empty block_buffer
          Drives,          \* the sets of faults that a drive may have
          MaxIdx,          \* bound: largest cursor a seek asks for
          MaxLen           \* bound: longest read or write call

Block  == 0 .. NumBlocks - 1
Sector == [0 .. BlockSize - 1 -> Byte]

ASSUME SizeAssumption == /\ BlockSize \in Nat \ {0}
                         /\ NumBlocks \in Nat \ {0}
                         /\ AddrSpace \in Nat \ {0}
ASSUME BoundAssumption == StartBlock \in Nat /\ MaxIdx \in Nat /\ MaxLen \in Nat
ASSUME DrainedAssumption == Drained \notin Sector
ASSUME ByteAssumption == Zero \in Byte
ASSUME DriveAssumption ==
    Drives \subseteq SUBSET {"command", "data", "write status", "read status",
                            "short read", "short write"}

VARIABLES medium,               \* the blocks of the drive
          faults,               \* what may go wrong in a transfer on this drive
          block_buffer,         \* Drained, or the whole of one block
          partition_idx,        \* the cursor, in bytes
          loaded_block_number,  \* the block block_buffer is taken to hold
          needs_flush,          \* block_buffer has bytes the medium has not
          op,                   \* the call that runs, "idle", or "dropped"
          at,                   \* where in a turn of its loop it is
          left,                 \* bytes it has still to move
          byte,                 \* the last byte read
          result                \* how the last call ended

vars == <<medium, faults, block_buffer, partition_idx, loaded_block_number, needs_flush,
          op, at, left, byte, result>>
cache == <<medium, block_buffer, loaded_block_number, needs_flush>>

\* Where the partition begins, and where open_partition takes it to begin: the
\* product of two u32.
PartitionStart == StartBlock * BlockSize
partition_start_inBlocks == StartBlock
partition_start == PartitionStart % AddrSpace

raw_idx_noStart == partition_idx
raw_idx == partition_start + partition_idx
cur_block_number == raw_idx \div BlockSize
offset_from_cur_block == raw_idx % BlockSize

\* The block a transfer for block n reaches: its byte address goes through "as u32".
Lba(n) == ((n * BlockSize) % AddrSpace) \div BlockSize

Init == /\ medium \in [Block -> Sector]
        /\ faults \in Drives
        /\ block_buffer = Drained
        /\ partition_idx = 0
        /\ loaded_block_number = 0
        /\ needs_flush = FALSE
        /\ op = "idle"
        /\ at = "fill"
        /\ left = 0
        /\ byte \in Byte
        /\ result = "ok"

InLoop(place) == op \in {"read", "write"} /\ left > 0 /\ at = place

Return(r) == op' = "idle" /\ at' = "fill" /\ left' = 0 /\ result' = r
Continue(place) == at' = place /\ UNCHANGED <<op, left, result>>

-------------------------------------------------------------------------------
(* Transfers *)

\* How many bytes of a block a transfer that succeeds moves.
Count(shortness) == IF shortness \in faults THEN 0 .. BlockSize ELSE {BlockSize}

\* What a transfer of k bytes makes of a block of the shim, and of one of the drive.
Cut(data, k) == [i \in 0 .. BlockSize - 1 |-> IF i < k THEN data[i] ELSE Zero]
Joined(k) == [i \in 0 .. BlockSize - 1 |->
                 IF i < k THEN block_buffer[i] ELSE medium[Lba(loaded_block_number)][i]]

push_bytes(k) == medium' = [medium EXCEPT ![Lba(loaded_block_number)] = Joined(k)]

\* A data phase that fails may have moved any number of bytes, a status comes after
\* all of them.  What an empty write does is up to the scsi crate.
Write(ok) ==
    \/ /\ block_buffer = Drained
       /\ UNCHANGED medium
    \/ /\ block_buffer # Drained
       /\ ok \/ "write status" \in faults
       /\ \E k \in Count("short write") : push_bytes(k)
    \/ /\ block_buffer # Drained
       /\ ~ok /\ "data" \in faults
       /\ \E k \in 0 .. BlockSize : push_bytes(k)

\* Every byte is pulled out of the buffer before the first one is pushed, so only a
\* failed command leaves the buffer whole.
out_transfer(ok) ==
    \/ ~ok /\ "command" \in faults /\ UNCHANGED <<medium, block_buffer>>
    \/ Write(ok) /\ block_buffer' = Drained

\* The shim, zeros where no byte has come, is copied into the buffer once the data
\* is in; the status comes after that.  A block that is not there is not read, though
\* the drive may say so by an empty data phase and the status.
in_transfer(n, ok) ==
    \/ /\ n \in Block
       /\ ok \/ "read status" \in faults
       /\ \E k \in Count("short read") : block_buffer' = Cut(medium[n], k)
    \/ /\ ~ok
       /\ n \notin Block \/ faults \cap {"command", "data"} # {}
       /\ UNCHANGED block_buffer
    \/ /\ ~ok /\ n \notin Block
       /\ {"short read", "read status"} \subseteq faults
       /\ block_buffer' = [i \in 0 .. BlockSize - 1 |-> Zero]

-------------------------------------------------------------------------------
(* fill_buf *)

\* A flush that fails leaves the buffer dirty.
Flushed_always(ok) == needs_flush' = FALSE
Flushed(ok) == needs_flush' = ~ok

\* The buffer takes the number of the block that was read.
Loaded_numberFirst(ok) == loaded_block_number' = cur_block_number
Loaded(ok) == loaded_block_number' = IF ok THEN cur_block_number ELSE loaded_block_number

\* If another block is wanted: flush()? and clear.
Evict ==
    /\ InLoop("fill")
    /\ \/ /\ cur_block_number = loaded_block_number
          /\ Continue("load") /\ UNCHANGED <<medium, block_buffer, needs_flush>>
       \/ /\ cur_block_number # loaded_block_number /\ needs_flush
          /\ \E ok \in BOOLEAN : /\ out_transfer(ok) /\ Flushed(ok)
                                 /\ IF ok THEN Continue("load") ELSE Return("err")
       \/ /\ cur_block_number # loaded_block_number /\ ~needs_flush
          /\ block_buffer' = Drained
          /\ Continue("load") /\ UNCHANGED <<medium, needs_flush>>
    /\ UNCHANGED <<partition_idx, loaded_block_number, byte>>

\* If the buffer is empty: read the block under the cursor.
Load ==
    /\ InLoop("load")
    /\ \/ /\ block_buffer # Drained
          /\ Continue("byte") /\ UNCHANGED <<block_buffer, loaded_block_number>>
       \/ /\ block_buffer = Drained
          /\ \E ok \in BOOLEAN : /\ in_transfer(Lba(cur_block_number), ok) /\ Loaded(ok)
                                 /\ IF ok THEN Continue("byte") ELSE Return("err")
    /\ UNCHANGED <<medium, partition_idx, needs_flush, byte>>

consume == partition_idx' = partition_idx + 1 /\ left' = left - 1 /\ at' = "fill"

-------------------------------------------------------------------------------
(* The calls *)

Begin(kind, n) ==
    /\ op = "idle"
    /\ op' = kind
    /\ left' = n
    /\ UNCHANGED <<cache, partition_idx, at, byte, result>>

\* fill_buf has not returned an empty buffer, so the loops never break.
ReadByte ==
    /\ op = "read" /\ InLoop("byte")
    /\ byte' = block_buffer[offset_from_cur_block]
    /\ consume
    /\ UNCHANGED <<cache, op, result>>

\* Only a byte that differs makes the block dirty.
Dirtied_byLast(b) == needs_flush' = (block_buffer[offset_from_cur_block] # b)
Dirtied(b) == needs_flush' = (needs_flush \/ block_buffer[offset_from_cur_block] # b)

WriteByte(b) ==
    /\ op = "write" /\ InLoop("byte")
    /\ block_buffer' = [block_buffer EXCEPT ![offset_from_cur_block] = b]
    /\ Dirtied(b)
    /\ consume
    /\ UNCHANGED <<medium, loaded_block_number, op, byte, result>>

Finish ==
    /\ op \in {"read", "write"} /\ left = 0
    /\ Return("ok")
    /\ UNCHANGED <<cache, partition_idx, byte>>

flush ==
    /\ op = "idle"
    /\ \/ /\ ~needs_flush
          /\ Return("ok")
          /\ UNCHANGED cache
       \/ /\ needs_flush
          /\ \E ok \in BOOLEAN : /\ out_transfer(ok) /\ Flushed(ok)
                                 /\ Return(IF ok THEN "ok" ELSE "err")
          /\ UNCHANGED loaded_block_number
    /\ UNCHANGED <<partition_idx, byte>>

\* SeekFrom::Start and SeekFrom::Current.  The callers (the FAT driver) stay
\* inside their partition; SeekFrom::End is unimplemented!().
seek ==
    /\ op = "idle"
    /\ \/ \E absr \in 0 .. MaxIdx : partition_idx' = absr
       \/ \E off \in -MaxIdx .. MaxIdx : /\ partition_idx + off \in 0 .. MaxIdx
                                         /\ partition_idx' = partition_idx + off
    /\ Return("ok")
    /\ UNCHANGED <<cache, byte>>

\* Drop flushes and ignores how that ends; the buffer goes with the object.
drop ==
    /\ op = "idle"
    /\ \/ ~needs_flush /\ UNCHANGED medium
       \/ needs_flush /\ \E ok \in BOOLEAN : Write(ok)
       \/ needs_flush /\ "command" \in faults /\ UNCHANGED medium
    /\ op' = "dropped" /\ block_buffer' = Drained /\ needs_flush' = FALSE
    /\ UNCHANGED <<partition_idx, loaded_block_number, at, left, byte, result>>

\* The process dies: nothing is flushed.
Crash ==
    /\ op # "dropped"
    /\ op' = "dropped" /\ at' = "fill" /\ left' = 0 /\ block_buffer' = Drained /\ needs_flush' = FALSE
    /\ UNCHANGED <<medium, partition_idx, loaded_block_number, byte, result>>

new ==
    /\ op = "dropped"
    /\ block_buffer' = Drained /\ needs_flush' = FALSE
    /\ partition_idx' = 0 /\ loaded_block_number' = 0
    /\ op' = "idle" /\ result' = "ok"
    /\ UNCHANGED <<medium, at, left, byte>>

LoopStep == Evict \/ Load \/ ReadByte \/ (\E b \in Byte : WriteByte(b)) \/ Finish

Next == /\ \/ \E kind \in {"read", "write"}, n \in 0 .. MaxLen : Begin(kind, n)
           \/ LoopStep \/ flush \/ seek \/ drop \/ Crash \/ new
        /\ UNCHANGED faults

Spec == Init /\ [][Next]_vars

-------------------------------------------------------------------------------
\* The state the program's types allow; the loaded block is one of the drive's.
TypeOK == /\ medium \in [Block -> Sector]
          /\ faults \in Drives
          /\ block_buffer \in Sector \cup {Drained}
          /\ partition_idx \in Nat
          /\ loaded_block_number \in Nat
          /\ Lba(loaded_block_number) \in Block
          /\ needs_flush \in BOOLEAN
          /\ op \in {"idle", "read", "write", "dropped"}
          /\ at \in {"fill", "load", "byte"}
          /\ left \in 0 .. MaxLen
          /\ byte \in Byte
          /\ result \in {"ok", "err"}
-------------------------------------------------------------------------------
(* What it is for: the byte device of ByteDevice.  Readers see the medium with *)
(* the buffer laid over it; only the medium survives.                          *)

image == IF block_buffer = Drained THEN medium
         ELSE [medium EXCEPT ![Lba(loaded_block_number)] = block_buffer]

Device == INSTANCE ByteDevice
             WITH durable <- medium, pos <- partition_idx, pending <- needs_flush,
                  flaws <- faults \cap {"data", "read status", "short read", "short write"}

\* fill_buf, read, write, flush, seek and drop together behave as a byte device, on
\* drives that fail and fall short in any way: what is misplaced, served as zeros or
\* lost is what ByteDevice admits for that drive, and on one whose reads neither fall
\* short nor fail after their data no byte is misplaced, served stale or, while the
\* object lives, lost without an error.
ImplementsByteDevice == Device!Spec

\* What a clean buffer holds came from the drive: the block it is taken to hold,
\* whole, unless the drive's reads fail in their status (another block) or fall short
\* (zeros after some bytes), however loads, failed flushes and seeks have been mixed.
Coherent == (block_buffer # Drained /\ ~needs_flush) =>
    \E b \in Block, k \in 0 .. BlockSize :
        /\ block_buffer = Cut(medium[b], k)
        /\ b = Lba(loaded_block_number) \/ "read status" \in faults
        /\ k = BlockSize \/ "short read" \in faults

\* Drives and partitions whose byte addresses "as u32" can hold.
FitsAddrSpace == /\ NumBlocks * BlockSize < AddrSpace
                 /\ PartitionStart + MaxIdx < AddrSpace

\* On such a drive the cast never bites, and a dirty buffer always holds a block
\* that has bytes of the partition: never block 0, where a fresh object starts.
DirtyInPartition == FitsAddrSpace =>
    /\ raw_idx < AddrSpace
    /\ loaded_block_number \in Block
    /\ needs_flush => PartitionStart < (loaded_block_number + 1) * BlockSize

\* Bytes of the partition are partition_start or more into the drive
\* (buf_scsi.rs:12), so no flush reaches a block below: the partition table
\* survives, although loaded_block_number starts at 0.
PartitionTableSafe ==
    [][\A b \in Block : (b + 1) * BlockSize <= PartitionStart => medium'[b] = medium[b]]_vars

\* partition_idx counts bytes from partition_start (buf_scsi.rs:12): a read hands
\* out the drive's byte at that address when no written byte is pending.
ReadsUnderCursor ==
    [][ReadByte /\ ~needs_flush =>
          LET addr == PartitionStart + partition_idx
          IN  /\ addr \div BlockSize \in Block
              /\ byte' = medium[addr \div BlockSize][addr % BlockSize]]_vars
===============================================================================
