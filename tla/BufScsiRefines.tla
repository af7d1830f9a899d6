----------------------------- MODULE BufScsiRefines ----------------------------
(***************************************************************************)
(* OffsetScsiDevice implements ByteDevice on every drive that the cast to  *)
(* u32 can address, whatever its transfers do: see BufScsi for the mapping *)
(* (image and Device).                                                     *)
(***************************************************************************)
EXTENDS BufScsiProofs

\* Between calls nothing is left to move, and without an object there is no buffer
\* and nothing to flush.
NothingLeft == /\ op \in {"idle", "dropped"} => left = 0
               /\ op = "dropped" => block_buffer = Drained /\ ~needs_flush

RefinementInv == TypeOK /\ InTurn /\ Coherent /\ DirtyInPartition /\ NothingLeft

\* What the mapping needs of the cache holds in every state.
LEMMA RefinementInvariant == Spec => []RefinementInv
<1>1. Init => NothingLeft
  BY DEF Init, NothingLeft
<1>2. NothingLeft /\ [Next]_vars => NothingLeft'
  BY DEF NothingLeft, Next, LoopStep, Begin, Evict, Load, ReadByte, WriteByte, Finish, flush, seek,
         drop, Crash, new, Continue, Return, InLoop, consume, cache, vars
<1>3. Spec => []NothingLeft
  BY <1>1, <1>2, PTL DEF Spec
<1> QED
  BY <1>3, TypedTurns, CoherentCache, DirtyStaysInPartition, PTL DEF RefinementInv

\* The byte device has the flaws the drive's faults amount to.
LEMMA FlawsAre ==
  /\ \A f \in Device!Flaw : f \in faults \cap Device!Flaw <=> f \in faults
  /\ Device!Count("short read") = Count("short read")
  /\ Device!Count("short write") = Count("short write")
  /\ \A data, k : Device!Cut(data, k) = Cut(data, k)
BY DEF Device!Flaw, Device!Count, Count, Device!Cut, Cut

-------------------------------------------------------------------------------
(* What a reader sees *)

\* The buffer lies over the block of its own number.
LEMMA ImageIs ==
  ASSUME FitsAddrSpace, TypeOK, DirtyInPartition
  PROVE  /\ loaded_block_number \in Block
         /\ Lba(loaded_block_number) = loaded_block_number
         /\ image \in [Block -> Sector]
         /\ block_buffer = Drained => image = medium
         /\ block_buffer # Drained =>
               image = [medium EXCEPT ![loaded_block_number] = block_buffer]
<1>1. loaded_block_number \in Block
  BY DEF DirtyInPartition
<1>2. loaded_block_number * BlockSize < AddrSpace
  <2>1. loaded_block_number * BlockSize <= NumBlocks * BlockSize
    BY <1>1, SizeAssumption, SMT DEF Block
  <2> QED
    BY <1>1, <2>1, SizeAssumption, SMT DEF FitsAddrSpace, Block
<1>3. Lba(loaded_block_number) = loaded_block_number
  BY <1>1, <1>2, LbaExact, SizeAssumption DEF Block
<1> QED
  BY <1>1, <1>3 DEF image, TypeOK

\* A clean buffer shows what is on the medium, unless a read has gone wrong.
LEMMA CleanImage ==
  ASSUME FitsAddrSpace, TypeOK, DirtyInPartition, Coherent, ~needs_flush
  PROVE  image = medium \/ "read status" \in faults \/ "short read" \in faults
<1>1. CASE block_buffer = Drained
  BY <1>1, ImageIs
<1>2. CASE block_buffer # Drained
  <2>1. PICK b \in Block, k \in 0 .. BlockSize :
              /\ block_buffer = Cut(medium[b], k)
              /\ b = Lba(loaded_block_number) \/ "read status" \in faults
              /\ k = BlockSize \/ "short read" \in faults
    BY <1>2 DEF Coherent
  <2>2. CASE b = loaded_block_number /\ k = BlockSize
    <3>1. block_buffer = medium[loaded_block_number]
      BY <2>1, <2>2, CutWhole DEF TypeOK
    <3> QED
      BY <1>2, <3>1, ImageIs DEF TypeOK
  <2> QED
    BY <2>1, <2>2, ImageIs
<1> QED
  BY <1>1, <1>2

\* Bytes that a write has pushed out of the buffer are on the medium, the others gone.
LEMMA PushIsWritten ==
  ASSUME FitsAddrSpace, TypeOK, DirtyInPartition, needs_flush, block_buffer # Drained,
         NEW k \in 0 .. BlockSize, push_bytes(k)
  PROVE  /\ Device!CatchUp(loaded_block_number, k)
         /\ image' = medium' => Device!Written(loaded_block_number, k)
<1> DEFINE b == loaded_block_number
<1>1. /\ b \in Block /\ Lba(b) = b
      /\ image = [medium EXCEPT ![b] = block_buffer]
      /\ medium \in [Block -> Sector]
  BY ImageIs DEF TypeOK
<1>2. image[b] = block_buffer
  BY <1>1
<1>3. Joined(k) = [i \in 0 .. BlockSize - 1 |-> IF i < k THEN image[b][i] ELSE medium[b][i]]
  BY <1>1, <1>2, Zenon DEF Joined
<1>4. medium' = [medium EXCEPT ![b] = Joined(k)]
  BY <1>1 DEF push_bytes
<1>5. Device!CatchUp(b, k)
  BY <1>3, <1>4 DEF Device!CatchUp
<1>6. medium' = [image EXCEPT ![b] = medium'[b]]
  BY <1>1, <1>4
<1> QED
  BY <1>5, <1>6 DEF Device!Written

\* A write that pushes nothing leaves a medium that had caught up already.
LEMMA NothingToWrite ==
  ASSUME FitsAddrSpace, TypeOK, DirtyInPartition, needs_flush, block_buffer = Drained,
         UNCHANGED medium
  PROVE  /\ Device!CatchUp(loaded_block_number, BlockSize)
         /\ image' = medium' => Device!Written(loaded_block_number, BlockSize)
<1> DEFINE b == loaded_block_number
<1>1. /\ b \in Block /\ image = medium /\ medium[b] \in Sector
      /\ medium \in [Block -> Sector]
  BY ImageIs DEF TypeOK
<1>2. [i \in 0 .. BlockSize - 1 |-> IF i < BlockSize THEN image[b][i] ELSE medium[b][i]] = medium[b]
  BY <1>1, SizeAssumption DEF Sector
<1>3. Device!CatchUp(b, BlockSize)
  BY <1>1, <1>2 DEF Device!CatchUp
<1>4. medium' = [image EXCEPT ![b] = medium'[b]]
  BY <1>1
<1> QED
  BY <1>3, <1>4 DEF Device!Written

\* A write to the device brings one block of the medium up to what readers see, as far
\* as its bytes get; one that fails may have done so, or nothing.
LEMMA WriteMaps ==
  ASSUME FitsAddrSpace, TypeOK, DirtyInPartition, needs_flush,
         NEW ok \in BOOLEAN, Write(ok)
  PROVE  \/ \E k \in Count("short write") :
              /\ Device!CatchUp(loaded_block_number, k)
              /\ image' = medium' => Device!Written(loaded_block_number, k)
         \/ /\ ~ok /\ "data" \in faults
            /\ \E k \in 0 .. BlockSize :
                 /\ Device!CatchUp(loaded_block_number, k)
                 /\ image' = medium' => Device!Written(loaded_block_number, k)
<1>1. CASE block_buffer = Drained
  <2>1. BlockSize \in Count("short write")
    BY CountWhole
  <2> QED
    BY <1>1, <2>1, NothingToWrite DEF Write
<1>2. CASE block_buffer # Drained
  BY <1>2, CountType, PushIsWritten DEF Write
<1> QED
  BY <1>1, <1>2

\* So it is for a transfer, which leaves the buffer empty.
LEMMA OutTransferMaps ==
  ASSUME FitsAddrSpace, TypeOK, DirtyInPartition, needs_flush,
         NEW ok \in BOOLEAN, out_transfer(ok), UNCHANGED loaded_block_number
  PROVE  \/ ~ok /\ UNCHANGED <<medium, image>>
         \/ image' = medium' /\ \E k \in Count("short write") :
                                  Device!Written(loaded_block_number, k)
         \/ /\ ~ok /\ "data" \in faults
            /\ \E k \in 0 .. BlockSize : Device!Written(loaded_block_number, k)
<1>1. CASE UNCHANGED <<medium, block_buffer>> /\ ~ok
  BY <1>1 DEF image, Lba
<1>2. CASE Write(ok) /\ block_buffer' = Drained
  <2>1. image' = medium'
    BY <1>2 DEF image
  <2> QED
    BY <1>2, <2>1, WriteMaps
<1> QED
  BY <1>1, <1>2 DEF out_transfer

\* The byte under the cursor is where the device of ByteDevice has it.
LEMMA CursorIsHome ==
  ASSUME FitsAddrSpace
  PROVE  Device!HomeBlock = cur_block_number /\ Device!HomeOffset = offset_from_cur_block
BY StartFits DEF Device!HomeBlock, Device!HomeOffset, cur_block_number, offset_from_cur_block, raw_idx

-------------------------------------------------------------------------------
(* Steps *)

\* What a step other than a transfer leaves of the cache leaves of the image.
LEMMA ImageKept ==
  ASSUME UNCHANGED <<medium, block_buffer, loaded_block_number>>
  PROVE  image' = image
BY DEF image, Lba

\* fill_buf writes a block back, or fails, or lets a block go that was read wrongly, or
\* does nothing a user can see.
LEMMA EvictMaps ==
  ASSUME FitsAddrSpace, RefinementInv, Evict, UNCHANGED faults
  PROVE  Device!Next \/ UNCHANGED Device!vars
<1>1. TypeOK /\ Coherent /\ DirtyInPartition
  BY DEF RefinementInv
<1>2. loaded_block_number \in Device!Block
  BY <1>1, ImageIs DEF Block, Device!Block
<1>3. /\ op \in {"read", "write"} /\ op # "dropped"
      /\ UNCHANGED <<partition_idx, loaded_block_number, byte>>
  BY DEF Evict, InLoop
<1>4. ASSUME needs_flush, NEW ok \in BOOLEAN, out_transfer(ok), Flushed(ok),
             IF ok THEN Continue("load") ELSE Return("err")
      PROVE  Device!Next \/ UNCHANGED Device!vars
  <2>1. CASE ok
    <3>1. image' = medium' /\ \E k \in Device!Count("short write") :
                                 Device!Written(loaded_block_number, k)
      BY <1>1, <1>3, <1>4, <2>1, OutTransferMaps, FlawsAre
    <3>2. Device!WriteBack
      BY <1>2, <1>3, <1>4, <2>1, <3>1 DEF Device!WriteBack, Continue, Flushed
    <3> QED
      BY <3>2 DEF Device!Next
  <2>2. CASE ~ok
    <3>1. Return("err") /\ UNCHANGED needs_flush
      BY <1>1, <1>4, <2>2 DEF TypeOK, Flushed
    <3>2. \/ UNCHANGED <<medium, image>>
          \/ \E k \in Device!Count("short write") : Device!Written(loaded_block_number, k)
          \/ /\ "data" \in faults
             /\ \E k \in 0 .. BlockSize : Device!Written(loaded_block_number, k)
      BY <1>1, <1>3, <1>4, <2>2, OutTransferMaps, FlawsAre
    <3>3. Device!Fail
      BY <1>2, <1>3, <3>1, <3>2 DEF Device!Fail, Return
    <3> QED
      BY <3>3 DEF Device!Next
  <2> QED
    BY <2>1, <2>2
<1>5. CASE /\ cur_block_number = loaded_block_number
           /\ Continue("load") /\ UNCHANGED <<medium, block_buffer, needs_flush>>
  BY <1>3, <1>5, ImageKept DEF Device!vars, Continue
<1>6. CASE /\ ~needs_flush /\ block_buffer' = Drained
           /\ Continue("load") /\ UNCHANGED <<medium, needs_flush>>
  <2>1. image' = medium'
    BY <1>6 DEF image
  <2>2. CASE image = medium
    BY <1>3, <1>6, <2>1, <2>2 DEF Device!vars, Continue
  <2>3. CASE "read status" \in faults \/ "short read" \in faults
    <3>1. Device!Recover
      BY <1>3, <1>6, <2>1, <2>3 DEF Device!Recover, Continue
    <3> QED
      BY <3>1 DEF Device!Next
  <2> QED
    BY <1>1, <1>6, <2>2, <2>3, CleanImage
<1> QED
  BY <1>4, <1>5, <1>6 DEF Evict

\* A load is not seen, unless it fails or falls short.
LEMMA LoadMaps ==
  ASSUME FitsAddrSpace, RefinementInv, Load, UNCHANGED faults
  PROVE  Device!Next \/ UNCHANGED Device!vars
<1>1. TypeOK /\ DirtyInPartition
  BY DEF RefinementInv
<1>2. /\ op \in {"read", "write"} /\ op # "dropped" /\ left > 0
      /\ UNCHANGED <<medium, partition_idx, needs_flush, byte>>
  BY DEF Load, InLoop
<1>3. CASE block_buffer # Drained
  BY <1>2, <1>3, ImageKept DEF Load, Device!vars, Continue
<1>4. CASE block_buffer = Drained
  <2>1. PICK ok \in BOOLEAN : /\ in_transfer(Lba(cur_block_number), ok) /\ Loaded(ok)
                              /\ IF ok THEN Continue("byte") ELSE Return("err")
    BY <1>4 DEF Load
  <2>2. image = medium /\ loaded_block_number \in Block /\ medium \in [Block -> Sector]
        /\ Lba(loaded_block_number) = loaded_block_number
    BY <1>1, <1>4, ImageIs DEF TypeOK
  <2>3. Lba(cur_block_number) = cur_block_number
    <3>1. cur_block_number * BlockSize < AddrSpace
      BY <1>1, CursorBlock, SizeAssumption, SMT DEF TypeOK, DirtyInPartition
    <3> QED
      BY <1>1, <3>1, LbaExact, CursorType DEF TypeOK
  <2>4. CASE UNCHANGED block_buffer /\ ~ok
    <3>1. image' = image
      BY <1>2, <1>4, <2>2, <2>4 DEF image
    <3>2. Device!Fail
      BY <1>2, <2>1, <2>4, <3>1 DEF Device!Fail, Return
    <3> QED
      BY <3>2 DEF Device!Next
  <2>5. ASSUME NEW b \in Block, NEW k \in 0 .. BlockSize,
               block_buffer' = Cut(medium[b], k), k \in Count("short read"),
               ok \/ "read status" \in faults,
               ok => b = Lba(cur_block_number) /\ Lba(cur_block_number) \in Block
        PROVE  Device!Next \/ UNCHANGED Device!vars
    <3>1. block_buffer' # Drained
      BY <2>2, <2>5, CutType
    <3>2. image' = [medium EXCEPT ![Lba(loaded_block_number)'] = block_buffer']
      BY <1>2, <3>1 DEF image, Lba
    <3>3. CASE ok
      <4>1. b = cur_block_number /\ cur_block_number \in Block /\ Continue("byte")
            /\ loaded_block_number' = cur_block_number
        BY <2>1, <2>3, <2>5, <3>3 DEF Loaded
      <4>2. Lba(loaded_block_number)' = cur_block_number
        BY <2>3, <4>1 DEF Lba
      <4>3. image' = [medium EXCEPT ![cur_block_number] = Cut(medium[cur_block_number], k)]
        BY <2>5, <3>2, <4>1, <4>2
      <4>4. CASE k = BlockSize
        <5>1. image' = image
          BY <2>2, <4>1, <4>3, <4>4, CutWhole
        <5> QED
          BY <1>2, <4>1, <5>1 DEF Device!vars, Continue
      <4>5. CASE "short read" \in faults
        <5>1. Device!HomeBlock = cur_block_number /\ cur_block_number \in Device!Block
          BY <4>1, CursorIsHome DEF Block, Device!Block
        <5>2. image' = [image EXCEPT ![Device!HomeBlock] = Device!Cut(medium[Device!HomeBlock], k)]
          BY <2>2, <4>3, <5>1, FlawsAre
        <5>3. Device!Misread
          BY <1>2, <2>2, <2>5, <4>1, <4>5, <5>1, <5>2 DEF Device!Misread, Continue
        <5> QED
          BY <5>3 DEF Device!Next
      <4> QED
        BY <2>5, <4>4, <4>5 DEF Count
    <3>4. CASE ~ok
      <4>1. Return("err") /\ UNCHANGED loaded_block_number /\ "read status" \in faults
        BY <2>1, <2>5, <3>4 DEF Loaded
      <4>2. image' = [image EXCEPT ![loaded_block_number] = Device!Cut(medium[b], k)]
        <5>1. Lba(loaded_block_number)' = loaded_block_number
          BY <2>2, <4>1 DEF Lba
        <5> QED
          BY <2>2, <2>5, <3>2, <5>1, FlawsAre
      <4>3. Device!Fail
        <5>1. k \in Device!Count("short read") /\ b \in Device!Block
              /\ loaded_block_number \in Device!Block
          BY <2>2, <2>5, FlawsAre DEF Block, Device!Block
        <5> QED
          BY <1>2, <2>2, <4>1, <4>2, <5>1 DEF Device!Fail, Return
      <4> QED
        BY <4>3 DEF Device!Next
    <3> QED
      BY <3>3, <3>4
  <2>6. \/ ~ok /\ UNCHANGED block_buffer
        \/ \E b \in Block, k \in 0 .. BlockSize :
             /\ block_buffer' = Cut(medium[b], k)
             /\ k \in Count("short read")
             /\ ok \/ "read status" \in faults
             /\ ok => b = Lba(cur_block_number) /\ Lba(cur_block_number) \in Block
    BY <1>1, <2>1, InTransferBrings
  <2> QED
    BY <2>4, <2>5, <2>6
<1> QED
  BY <1>3, <1>4

\* A byte read is the one the reader sees.
LEMMA ReadByteMaps ==
  ASSUME FitsAddrSpace, RefinementInv, ReadByte, UNCHANGED faults
  PROVE  Device!Next
<1>1. TypeOK /\ DirtyInPartition
  BY DEF RefinementInv
<1>2. block_buffer # Drained /\ cur_block_number = loaded_block_number /\ left > 0
  BY DEF RefinementInv, InTurn, ReadByte, InLoop
<1>3. loaded_block_number \in Block /\ image[loaded_block_number] = block_buffer
  BY <1>1, <1>2, ImageIs DEF TypeOK
<1>4. image' = image /\ UNCHANGED medium
  BY ImageKept DEF ReadByte, cache
<1>5. /\ Device!HomeBlock = cur_block_number /\ Device!HomeOffset = offset_from_cur_block
  BY CursorIsHome
<1>6. Device!ReadByte
  BY <1>2, <1>3, <1>4, <1>5 DEF Device!ReadByte, Device!Block, Block, ReadByte, consume, cache
<1> QED
  BY <1>6 DEF Device!Next

\* A byte written replaces the one under the cursor and no other.
LEMMA WriteByteMaps ==
  ASSUME FitsAddrSpace, RefinementInv, NEW b \in Byte, WriteByte(b), UNCHANGED faults
  PROVE  Device!Next
<1>1. TypeOK /\ DirtyInPartition
  BY DEF RefinementInv
<1>2. block_buffer # Drained /\ cur_block_number = loaded_block_number /\ left > 0
  BY DEF RefinementInv, InTurn, WriteByte, InLoop
<1>3. /\ loaded_block_number \in Block /\ Lba(loaded_block_number) = loaded_block_number
      /\ image = [medium EXCEPT ![loaded_block_number] = block_buffer]
  BY <1>1, <1>2, ImageIs
<1>4. /\ block_buffer' = [block_buffer EXCEPT ![offset_from_cur_block] = b]
      /\ block_buffer' # Drained
  <2>1. block_buffer \in Sector
    BY <1>1, <1>2 DEF TypeOK
  <2>2. [block_buffer EXCEPT ![offset_from_cur_block] = b] \in Sector
    BY <2>1 DEF Sector
  <2> QED
    BY <2>2, DrainedAssumption DEF WriteByte
<1>5. /\ UNCHANGED <<medium, loaded_block_number>>
      /\ image' = [medium EXCEPT ![loaded_block_number] = block_buffer']
  BY <1>3, <1>4 DEF WriteByte, image, Lba
<1>6. image' = [image EXCEPT ![cur_block_number][offset_from_cur_block] = b]
  BY <1>1, <1>2, <1>3, <1>4, <1>5 DEF TypeOK
<1>7. Device!HomeBlock = cur_block_number /\ Device!HomeOffset = offset_from_cur_block
  BY CursorIsHome
<1>8. Device!WriteByte
  <2>1. image[Device!HomeBlock][Device!HomeOffset] = block_buffer[offset_from_cur_block]
    BY <1>1, <1>2, <1>3, <1>7 DEF TypeOK
  <2> QED
    BY <1>2, <1>3, <1>5, <1>6, <1>7, <2>1
    DEF Device!WriteByte, Device!Block, Block, WriteByte, Dirtied, consume
<1> QED
  BY <1>8 DEF Device!Next

\* A flush that succeeds leaves nothing to lose; one that fails says so.
LEMMA FlushMaps ==
  ASSUME FitsAddrSpace, RefinementInv, flush, UNCHANGED faults
  PROVE  Device!Next
<1>1. TypeOK /\ Coherent /\ DirtyInPartition /\ NothingLeft
  BY DEF RefinementInv
<1>2. loaded_block_number \in Device!Block
  BY <1>1, ImageIs DEF Block, Device!Block
<1>3. op = "idle" /\ left = 0 /\ UNCHANGED <<partition_idx, byte, loaded_block_number>>
  BY <1>1 DEF flush, NothingLeft, cache
<1>4. CASE ~needs_flush /\ Return("ok") /\ UNCHANGED cache
  <2>1. image' = image /\ UNCHANGED <<medium, needs_flush>>
    BY <1>4, ImageKept DEF cache
  <2>2. Device!Sync
    BY <1>1, <1>3, <1>4, <2>1 DEF Device!Sync, Return, TypeOK
  <2> QED
    BY <2>2 DEF Device!Next
<1>5. ASSUME needs_flush, NEW ok \in BOOLEAN, out_transfer(ok), Flushed(ok),
             Return(IF ok THEN "ok" ELSE "err")
      PROVE  Device!Next
  <2>1. CASE ok
    <3>1. image' = medium' /\ \E k \in Device!Count("short write") :
                                 Device!Written(loaded_block_number, k)
      BY <1>1, <1>3, <1>5, <2>1, OutTransferMaps, FlawsAre
    <3>2. Device!Sync
      BY <1>2, <1>3, <1>5, <2>1, <3>1 DEF Device!Sync, Return, Flushed
    <3> QED
      BY <3>2 DEF Device!Next
  <2>2. CASE ~ok
    <3>1. Return("err") /\ UNCHANGED needs_flush
      BY <1>1, <1>5, <2>2 DEF TypeOK, Flushed
    <3>2. \/ UNCHANGED <<medium, image>>
          \/ \E k \in Device!Count("short write") : Device!Written(loaded_block_number, k)
          \/ /\ "data" \in faults
             /\ \E k \in 0 .. BlockSize : Device!Written(loaded_block_number, k)
      BY <1>1, <1>3, <1>5, <2>2, OutTransferMaps, FlawsAre
    <3>3. Device!Fail
      BY <1>2, <1>3, <3>1, <3>2 DEF Device!Fail, Return
    <3> QED
      BY <3>3 DEF Device!Next
  <2> QED
    BY <2>1, <2>2
<1> QED
  BY <1>4, <1>5 DEF flush

\* When the object goes, or the process, what is on the medium is what remains.
LEMMA CloseMaps ==
  ASSUME FitsAddrSpace, RefinementInv, drop \/ Crash, UNCHANGED faults
  PROVE  Device!Next
<1>1. TypeOK /\ DirtyInPartition /\ NothingLeft
  BY DEF RefinementInv
<1>2. loaded_block_number \in Device!Block
  BY <1>1, ImageIs DEF Block, Device!Block
<1>3. image' = medium'
  BY DEF drop, Crash, image
<1>4. /\ op # "dropped" /\ op' = "dropped" /\ left' = 0 /\ needs_flush' = FALSE
      /\ UNCHANGED <<partition_idx, byte, result>>
  BY <1>1 DEF drop, Crash, NothingLeft
<1>5. \/ medium' = medium
      \/ needs_flush /\ \E k \in Device!Count("short write") :
                           Device!CatchUp(loaded_block_number, k)
      \/ needs_flush /\ "data" \in faults /\ \E k \in 0 .. BlockSize :
                                               Device!CatchUp(loaded_block_number, k)
  <2>1. ASSUME needs_flush, NEW ok \in BOOLEAN, Write(ok)
        PROVE  \/ \E k \in Device!Count("short write") : Device!CatchUp(loaded_block_number, k)
               \/ "data" \in faults /\ \E k \in 0 .. BlockSize :
                                          Device!CatchUp(loaded_block_number, k)
    BY <1>1, <2>1, WriteMaps, FlawsAre
  <2> QED
    BY <2>1 DEF drop, Crash
<1>6. Device!Close
  BY <1>2, <1>3, <1>4, <1>5 DEF Device!Close
<1> QED
  BY <1>6 DEF Device!Next

\* Every step of the code is a step of the byte device, or none that it shows.
LEMMA StepMaps ==
  ASSUME FitsAddrSpace, RefinementInv, [Next]_vars
  PROVE  [Device!Next]_(Device!vars)
<1>1. CASE UNCHANGED vars
  BY <1>1, ImageKept DEF vars, Device!vars
<1> SUFFICES ASSUME Next PROVE Device!Next \/ UNCHANGED Device!vars
  BY <1>1
<1>2. UNCHANGED faults
  BY DEF Next
<1>3. ASSUME NEW kind \in {"read", "write"}, NEW n \in 0 .. MaxLen, Begin(kind, n)
      PROVE  Device!Next
  BY <1>2, <1>3, ImageKept DEF Begin, cache, Device!Begin, Device!Next
<1>4. CASE Finish
  BY <1>2, <1>4, ImageKept DEF Finish, Return, cache, Device!Return, Device!Next
<1>5. CASE seek
  <2>1. partition_idx' \in 0 .. MaxIdx /\ left = 0
    BY <1>5 DEF seek, RefinementInv, NothingLeft
  <2> QED
    BY <1>2, <1>5, <2>1, ImageKept DEF seek, Return, cache, Device!Seek, Device!Next
<1>6. CASE new
  <2>1. image = medium /\ image' = medium' /\ UNCHANGED <<medium, needs_flush>>
    BY <1>6 DEF new, image, RefinementInv, NothingLeft, TypeOK
  <2> QED
    BY <1>2, <1>6, <2>1 DEF new, Device!Reopen, Device!Next
<1> QED
  BY <1>2, <1>3, <1>4, <1>5, <1>6, EvictMaps, LoadMaps, ReadByteMaps, WriteByteMaps, FlushMaps,
     CloseMaps DEF Next, LoopStep

\* fill_buf, read, write, flush, seek and drop together behave as a byte device,
\* whatever the blocks, the partition's place and the faults of the drive.
THEOREM Refinement ==
  ASSUME FitsAddrSpace
  PROVE  Spec => ImplementsByteDevice
<1>1. Init => Device!Init
  <2>1. Init => image = medium /\ medium \in [Device!Block -> Device!Sector]
    BY DEF Init, image, Block, Sector, Device!Block, Device!Sector
  <2> QED
    BY <2>1 DEF Init, Device!Init, Device!Flaw
<1>2. RefinementInv /\ [Next]_vars => [Device!Next]_(Device!vars)
  BY StepMaps
<1> QED
  BY <1>1, <1>2, RefinementInvariant, PTL DEF Spec, ImplementsByteDevice, Device!Spec
===============================================================================
