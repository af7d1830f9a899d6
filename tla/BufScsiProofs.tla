----------------------------- MODULE BufScsiProofs ----------------------------
(***************************************************************************)
(* What holds of OffsetScsiDevice for every block size, drive, partition   *)
(* start, address width and length of call.                                *)
(***************************************************************************)
EXTENDS BufScsi, TLAPS

USE DEF Block, Flushed, Loaded, Dirtied

\* Block 0 is block 0 after the cast: what a fresh object's flush would reach.
LEMMA LbaZero == Lba(0) = 0
BY SizeAssumption, SMT DEF Lba

\* The partition starts at a natural number, and where the code takes it to start
\* if that number fits the cast.
LEMMA StartType == /\ PartitionStart \in Nat
                   /\ partition_start \in Nat
                   /\ PartitionStart < AddrSpace => partition_start = PartitionStart
<1>1. PartitionStart \in Nat
  BY SizeAssumption, BoundAssumption, SMT DEF PartitionStart
<1> QED
  BY <1>1, SizeAssumption, SMT DEF partition_start

\* On a drive that fits the cast the code takes the partition to start where it does.
LEMMA StartFits == FitsAddrSpace => /\ partition_start = PartitionStart
                                    /\ PartitionStart + MaxIdx < AddrSpace
                                    /\ PartitionStart < AddrSpace
BY StartType, BoundAssumption, SizeAssumption DEF FitsAddrSpace

\* The cursor's block and offset are what the types of the buffer need.
LEMMA CursorType ==
  ASSUME partition_idx \in Nat
  PROVE  /\ cur_block_number \in Nat
         /\ offset_from_cur_block \in 0 .. BlockSize - 1
BY SizeAssumption, StartType, SMT DEF cur_block_number, offset_from_cur_block, raw_idx

\* A transfer, whole or short, makes a block of a block.
LEMMA CutType ==
  ASSUME NEW data \in Sector, NEW k \in 0 .. BlockSize
  PROVE  Cut(data, k) \in Sector /\ Cut(data, k) # Drained
BY ByteAssumption, DrainedAssumption DEF Cut, Sector

LEMMA CutWhole ==
  ASSUME NEW data \in Sector
  PROVE  Cut(data, BlockSize) = data
BY SizeAssumption DEF Cut, Sector

LEMMA CountType ==
  ASSUME NEW shortness
  PROVE  Count(shortness) \subseteq 0 .. BlockSize
BY SizeAssumption DEF Count

LEMMA CountWhole ==
  ASSUME NEW shortness
  PROVE  BlockSize \in Count(shortness)
<1>1. BlockSize \in 0 .. BlockSize
  BY SizeAssumption
<1> QED
  BY <1>1, Zenon DEF Count

\* A write pushes bytes of the buffer into the block it is taken to hold, or none.
LEMMA WritePushes ==
  ASSUME NEW ok, Write(ok)
  PROVE  \/ UNCHANGED medium
         \/ block_buffer # Drained /\ \E k \in 0 .. BlockSize : push_bytes(k)
BY CountType DEF Write

LEMMA PushType ==
  ASSUME TypeOK, block_buffer # Drained, NEW k \in 0 .. BlockSize, push_bytes(k)
  PROVE  medium' \in [Block -> Sector]
<1>1. block_buffer \in Sector /\ medium[Lba(loaded_block_number)] \in Sector
  BY DEF TypeOK
<1>2. Joined(k) \in Sector
  BY <1>1 DEF Joined, Sector
<1> QED
  BY <1>2 DEF TypeOK, push_bytes

\* What a write to the device leaves has the types of a drive and a buffer.
LEMMA OutTransferType ==
  ASSUME TypeOK, NEW ok \in BOOLEAN, out_transfer(ok)
  PROVE  /\ medium' \in [Block -> Sector]
         /\ block_buffer' \in Sector \cup {Drained}
BY WritePushes, PushType DEF TypeOK, out_transfer

\* A read brings a block of the drive, whole or cut, or it fails and brings nothing.
LEMMA InTransferBrings ==
  ASSUME TypeOK, NEW n, NEW ok \in BOOLEAN, in_transfer(n, ok)
  PROVE  \/ ~ok /\ UNCHANGED block_buffer
         \/ \E b \in Block, k \in 0 .. BlockSize :
              /\ block_buffer' = Cut(medium[b], k)
              /\ k \in Count("short read")
              /\ ok \/ "read status" \in faults
              /\ ok => b = n /\ n \in Block
<1> DEFINE Brings(b, k) == /\ block_buffer' = Cut(medium[b], k)
                           /\ k \in Count("short read")
                           /\ ok \/ "read status" \in faults
                           /\ ok => b = n /\ n \in Block
<1>1. ASSUME n \in Block, ok \/ "read status" \in faults,
             NEW k \in Count("short read"), block_buffer' = Cut(medium[n], k)
      PROVE  \E b \in Block, j \in 0 .. BlockSize : Brings(b, j)
  <2>1. Brings(n, k) /\ k \in 0 .. BlockSize
    BY <1>1, CountType
  <2> QED
    BY <1>1, <2>1
<1>2. ASSUME ~ok, {"short read", "read status"} \subseteq faults,
             block_buffer' = [i \in 0 .. BlockSize - 1 |-> Zero]
      PROVE  \E b \in Block, j \in 0 .. BlockSize : Brings(b, j)
  <2>1. \A i \in 0 .. BlockSize - 1 : ~(i < 0)
    BY SizeAssumption
  <2>2. block_buffer' = Cut(medium[0], 0)
    BY <1>2, <2>1, Zenon DEF Cut
  <2>3. 0 \in Block /\ 0 \in 0 .. BlockSize
    BY SizeAssumption
  <2>4. "short read" \in faults /\ "read status" \in faults
    BY <1>2
  <2>5. Count("short read") = 0 .. BlockSize
    BY <2>4 DEF Count
  <2>6. Brings(0, 0)
    BY <1>2, <2>2, <2>3, <2>4, <2>5
  <2> QED
    BY <2>3, <2>6
<1> HIDE DEF Brings
<1>3. (~ok /\ UNCHANGED block_buffer) \/ \E b \in Block, j \in 0 .. BlockSize : Brings(b, j)
  BY <1>1, <1>2 DEF in_transfer
<1> QED
  BY <1>3 DEF Brings

\* One that succeeds brings something, and for a block that is there.
LEMMA InTransferType ==
  ASSUME TypeOK, NEW n, NEW ok \in BOOLEAN, in_transfer(n, ok)
  PROVE  /\ block_buffer' \in Sector \cup {Drained}
         /\ ok => n \in Block /\ block_buffer' # Drained
<1>1. CASE ~ok /\ UNCHANGED block_buffer
  BY <1>1 DEF TypeOK
<1>2. ASSUME NEW b \in Block, NEW k \in 0 .. BlockSize,
             block_buffer' = Cut(medium[b], k), ok => b = n /\ n \in Block
      PROVE  /\ block_buffer' \in Sector \cup {Drained}
             /\ ok => n \in Block /\ block_buffer' # Drained
  BY <1>2, CutType DEF TypeOK
<1> QED
  BY <1>1, <1>2, InTransferBrings

\* A turn that has come to its load finds the buffer empty or with the block under
\* the cursor, and one that has come to its byte finds it with that block.
InTurn == /\ op \notin {"read", "write"} => at = "fill"
          /\ at # "fill" /\ block_buffer # Drained => cur_block_number = loaded_block_number
          /\ at = "byte" => block_buffer # Drained

LEMMA InTurnKept == TypeOK /\ InTurn /\ [Next]_vars => InTurn'
<1> SUFFICES ASSUME TypeOK, InTurn, [Next]_vars PROVE InTurn'
  OBVIOUS
<1>1. at' = "fill" => InTurn'
  BY DEF InTurn
<1>2. UNCHANGED partition_idx => cur_block_number' = cur_block_number
  BY DEF cur_block_number, raw_idx
<1>3. ASSUME NEW kind \in {"read", "write"}, NEW n \in 0 .. MaxLen, Begin(kind, n)
      PROVE  InTurn'
  BY <1>1, <1>3 DEF InTurn, Begin
<1>4. CASE Evict
  <2>1. ASSUME NEW ok \in BOOLEAN, out_transfer(ok), ok, Continue("load")
        PROVE  InTurn'
    BY <1>4, <2>1 DEF InTurn, Evict, out_transfer, Write, Continue, InLoop
  <2>2. CASE /\ cur_block_number = loaded_block_number
             /\ Continue("load") /\ UNCHANGED <<medium, block_buffer, needs_flush>>
    BY <1>2, <1>4, <2>2 DEF InTurn, Evict, Continue, InLoop
  <2>3. CASE block_buffer' = Drained /\ Continue("load")
    BY <1>4, <2>3 DEF InTurn, Evict, Continue, InLoop
  <2>4. Return("err") => InTurn'
    BY <1>1 DEF Return
  <2> QED
    BY <1>4, <2>1, <2>2, <2>3, <2>4 DEF Evict
<1>5. CASE Load
  <2>1. CASE block_buffer # Drained
    BY <1>2, <1>5, <2>1 DEF InTurn, Load, Continue, InLoop
  <2>2. ASSUME NEW ok \in BOOLEAN, in_transfer(Lba(cur_block_number), ok), Loaded(ok), ok,
               Continue("byte")
        PROVE  InTurn'
    <3>1. block_buffer' # Drained
      BY <2>2, InTransferType
    <3>2. loaded_block_number' = cur_block_number'
      BY <1>2, <1>5, <2>2 DEF Load
    <3> QED
      BY <1>5, <2>2, <3>1, <3>2 DEF InTurn, Load, Continue, InLoop
  <2>3. Return("err") => InTurn'
    BY <1>1 DEF Return
  <2> QED
    BY <1>5, <2>1, <2>2, <2>3 DEF Load
<1>6. ReadByte \/ (\E b \in Byte : WriteByte(b)) => at' = "fill"
  BY DEF ReadByte, WriteByte, consume
<1>7. Finish \/ flush \/ seek => at' = "fill"
  BY DEF Finish, flush, seek, Return
<1>8. drop \/ Crash \/ new => at' = "fill"
  BY DEF drop, Crash, new, InTurn
<1>9. CASE UNCHANGED vars
  BY <1>2, <1>9 DEF InTurn, vars
<1> QED
  BY <1>1, <1>3, <1>4, <1>5, <1>6, <1>7, <1>8, <1>9 DEF Next, LoopStep

LEMMA TypedTurns == Spec => [](TypeOK /\ InTurn)
<1>1. ASSUME Init PROVE TypeOK
  <2>1. Lba(loaded_block_number) \in Block
    BY <1>1, LbaZero, SizeAssumption DEF Init
  <2>2. left \in 0 .. MaxLen /\ loaded_block_number \in Nat /\ partition_idx \in Nat
    BY <1>1, BoundAssumption DEF Init
  <2> QED
    BY <1>1, <2>1, <2>2 DEF Init, TypeOK
<1>2. TypeOK /\ InTurn /\ [Next]_vars => TypeOK'
  <2> SUFFICES ASSUME TypeOK, InTurn, [Next]_vars PROVE TypeOK'
    OBVIOUS
  <2>0. faults' = faults
    BY DEF Next, vars
  <2> USE <2>0
  <2>1. ASSUME NEW kind \in {"read", "write"}, NEW n \in 0 .. MaxLen, Begin(kind, n)
        PROVE  TypeOK'
    BY <2>1 DEF TypeOK, Begin, cache, Lba
  <2>2. CASE Evict
    <3>1. /\ medium' \in [Block -> Sector]
          /\ block_buffer' \in Sector \cup {Drained}
      BY <2>2, OutTransferType DEF TypeOK, Evict
    <3>2. Lba(loaded_block_number)' = Lba(loaded_block_number)
      BY <2>2 DEF Evict, Lba
    <3>3. needs_flush' \in BOOLEAN
      BY <2>2 DEF TypeOK, Evict
    <3> QED
      BY <2>2, <3>1, <3>2, <3>3, BoundAssumption DEF TypeOK, Evict, Continue, Return
  <2>3. CASE Load
    <3>1. CASE block_buffer # Drained
      BY <2>3, <3>1 DEF TypeOK, Load, Continue, Lba
    <3>2. CASE block_buffer = Drained
      <4>1. PICK ok \in BOOLEAN :
              /\ in_transfer(Lba(cur_block_number), ok) /\ Loaded(ok)
              /\ IF ok THEN Continue("byte") ELSE Return("err")
        BY <2>3, <3>2 DEF Load
      <4>2. block_buffer' \in Sector \cup {Drained} /\ (ok => Lba(cur_block_number) \in Block)
        BY <4>1, InTransferType
      <4>3. loaded_block_number' \in Nat /\ Lba(loaded_block_number)' \in Block
        BY <4>1, <4>2, CursorType DEF TypeOK, Lba
      <4> QED
        BY <2>3, <4>1, <4>2, <4>3, BoundAssumption DEF TypeOK, Load, Continue, Return
    <3> QED
      BY <3>1, <3>2
  <2>4. CASE ReadByte
    <3>1. block_buffer \in Sector
      BY <2>4 DEF TypeOK, InTurn, ReadByte, InLoop
    <3>2. byte' \in Byte
      BY <2>4, <3>1, CursorType DEF TypeOK, ReadByte, Sector
    <3> QED
      BY <2>4, <3>2, BoundAssumption DEF TypeOK, ReadByte, InLoop, consume, cache, Lba
  <2>5. ASSUME NEW b \in Byte, WriteByte(b)
        PROVE  TypeOK'
    <3>1. block_buffer \in Sector
      BY <2>5 DEF TypeOK, InTurn, WriteByte, InLoop
    <3>2. block_buffer' \in Sector
      BY <2>5, <3>1, CursorType DEF TypeOK, WriteByte, Sector
    <3>3. needs_flush' \in BOOLEAN
      BY <2>5 DEF TypeOK, WriteByte
    <3> QED
      BY <2>5, <3>2, <3>3, BoundAssumption DEF TypeOK, WriteByte, InLoop, consume, Lba
  <2>6. CASE Finish
    BY <2>6, BoundAssumption DEF TypeOK, Finish, Return, cache, Lba
  <2>7. CASE flush
    <3>1. /\ medium' \in [Block -> Sector]
          /\ block_buffer' \in Sector \cup {Drained}
      BY <2>7, OutTransferType DEF TypeOK, flush, cache
    <3>2. UNCHANGED loaded_block_number /\ Lba(loaded_block_number)' = Lba(loaded_block_number)
      BY <2>7 DEF flush, cache, Lba
    <3>3. needs_flush' \in BOOLEAN
      BY <2>7 DEF TypeOK, flush, cache
    <3> QED
      BY <2>7, <3>1, <3>2, <3>3, BoundAssumption DEF TypeOK, flush, Return
  <2>8. CASE seek
    BY <2>8, BoundAssumption DEF TypeOK, seek, Return, cache, Lba
  <2>9. CASE drop
    BY <2>9, WritePushes, PushType DEF TypeOK, drop, Lba
  <2>10. CASE Crash
    <3>1. left' \in 0 .. MaxLen
      BY <2>10, BoundAssumption DEF Crash
    <3>2. UNCHANGED loaded_block_number /\ Lba(loaded_block_number)' = Lba(loaded_block_number)
      BY <2>10 DEF Crash, Lba
    <3> QED
      BY <2>10, <3>1, <3>2 DEF TypeOK, Crash
  <2>11. CASE new
    <3>1. loaded_block_number' \in Nat /\ Lba(loaded_block_number)' \in Block
      BY <2>11, LbaZero, SizeAssumption DEF new, Lba
    <3> QED
      BY <2>11, <3>1 DEF TypeOK, new
  <2>12. CASE UNCHANGED vars
    BY <2>12 DEF TypeOK, vars, Lba
  <2> QED
    BY <2>1, <2>2, <2>3, <2>4, <2>5, <2>6, <2>7, <2>8, <2>9, <2>10, <2>11, <2>12
    DEF Next, LoopStep
<1>3. Init => InTurn
  BY DEF Init, InTurn
<1> QED
  BY <1>1, <1>2, <1>3, InTurnKept, PTL DEF Spec

\* The state keeps its types, and the loaded block is one of the drive's.
THEOREM TypeCorrect == Spec => []TypeOK
BY TypedTurns, PTL

-------------------------------------------------------------------------------
\* A clean buffer has come from the drive, whatever the drive's faults: whole and from
\* its own block unless a read's status fails or its data falls short.
THEOREM CoherentCache == Spec => []Coherent
<1>1. Init => Coherent
  BY DEF Init, Coherent
<1>2. TypeOK /\ InTurn /\ Coherent /\ [Next]_vars => Coherent'
  <2> SUFFICES ASSUME TypeOK, InTurn, Coherent, [Next]_vars PROVE Coherent'
    OBVIOUS
  <2>0. faults' = faults
    BY DEF Next, vars
  <2> USE <2>0 DEF Coherent
  <2>1. ASSUME NEW kind \in {"read", "write"}, NEW n \in 0 .. MaxLen, Begin(kind, n)
        PROVE  Coherent'
    BY <2>1 DEF Begin, cache, Lba
  <2>2. CASE Evict
    <3>1. CASE UNCHANGED <<medium, block_buffer, needs_flush>>
      BY <2>2, <3>1 DEF Evict, Lba
    <3>2. CASE needs_flush' \/ block_buffer' = Drained
      BY <3>2
    <3> QED
      BY <2>2, <3>1, <3>2 DEF Evict, out_transfer, Flushed
  <2>3. CASE Load
    <3>1. CASE block_buffer # Drained
      BY <2>3, <3>1 DEF Load, Lba
    <3>2. CASE block_buffer = Drained
      <4>1. PICK ok \in BOOLEAN : in_transfer(Lba(cur_block_number), ok) /\ Loaded(ok)
        BY <2>3, <3>2 DEF Load
      <4>2. CASE UNCHANGED block_buffer
        BY <3>2, <4>2
      <4>3. ASSUME NEW b \in Block, NEW k \in 0 .. BlockSize,
                   block_buffer' = Cut(medium[b], k), k \in Count("short read"),
                   ok \/ "read status" \in faults,
                   ok => b = Lba(cur_block_number)
            PROVE  Coherent'
        <5>1. medium' = medium
          BY <2>3 DEF Load
        <5>2. b = Lba(loaded_block_number)' \/ "read status" \in faults
          <6>1. CASE ok
            <7>1. loaded_block_number' = cur_block_number
              BY <4>1, <6>1
            <7> QED
              BY <4>3, <6>1, <7>1 DEF Lba
          <6>2. CASE ~ok
            BY <4>3, <6>2
          <6> QED
            BY <6>1, <6>2
        <5>3. k = BlockSize \/ "short read" \in faults
          BY <4>3 DEF Count
        <5>4. block_buffer' = Cut(medium[b], k)'
          BY <4>3, <5>1 DEF Cut
        <5> QED
          BY <5>2, <5>3, <5>4
      <4>4. \/ UNCHANGED block_buffer
            \/ \E b \in Block, k \in 0 .. BlockSize :
                 /\ block_buffer' = Cut(medium[b], k) /\ k \in Count("short read")
                 /\ ok \/ "read status" \in faults
                 /\ ok => b = Lba(cur_block_number)
        BY <4>1, InTransferBrings
      <4> QED
        BY <4>2, <4>3, <4>4
    <3> QED
      BY <3>1, <3>2
  <2>4. CASE ReadByte
    BY <2>4 DEF ReadByte, cache, Lba
  <2>5. ASSUME NEW b \in Byte, WriteByte(b)
        PROVE  Coherent'
    <3>1. CASE block_buffer[offset_from_cur_block] = b
      <4>1. block_buffer' = block_buffer
        <5>1. block_buffer \in Sector
          BY <2>5 DEF TypeOK, InTurn, WriteByte, InLoop
        <5> QED
          BY <2>5, <3>1, <5>1 DEF WriteByte, Sector
      <4>2. needs_flush' = needs_flush
        BY <2>5, <3>1 DEF TypeOK, WriteByte
      <4> QED
        BY <2>5, <4>1, <4>2 DEF WriteByte, Lba
    <3>2. CASE block_buffer[offset_from_cur_block] # b
      BY <2>5, <3>2 DEF WriteByte
    <3> QED
      BY <3>1, <3>2
  <2>6. CASE Finish
    BY <2>6 DEF Finish, cache, Lba
  <2>7. CASE flush
    <3>1. CASE needs_flush
      <4>1. needs_flush' \/ block_buffer' = Drained
        BY <2>7, <3>1 DEF flush, out_transfer
      <4> QED
        BY <4>1
    <3>2. CASE ~needs_flush
      BY <2>7, <3>2 DEF flush, cache, Lba
    <3> QED
      BY <3>1, <3>2
  <2>8. CASE seek
    BY <2>8 DEF seek, cache, Lba
  <2>9. CASE drop
    BY <2>9 DEF drop
  <2>10. CASE Crash
    BY <2>10 DEF Crash
  <2>11. CASE new
    BY <2>11 DEF new
  <2>12. CASE UNCHANGED vars
    BY <2>12 DEF vars, Lba
  <2> QED
    BY <2>1, <2>2, <2>3, <2>4, <2>5, <2>6, <2>7, <2>8, <2>9, <2>10, <2>11, <2>12
    DEF Next, LoopStep
<1> QED
  BY <1>1, <1>2, TypedTurns, PTL DEF Spec

-------------------------------------------------------------------------------
(* Addresses.  On a drive that fits the cast, every transfer reaches the block *)
(* it is meant for.                                                            *)

LEMMA DivMod ==
  ASSUME NEW a \in Nat, NEW b \in Nat \ {0}
  PROVE  /\ a \div b \in Nat
         /\ a % b \in 0 .. b - 1
         /\ a = b * (a \div b) + (a % b)
BY SMT

\* A block whose address the cast leaves alone is the block reached.
LEMMA LbaExact ==
  ASSUME NEW k \in Nat, k * BlockSize < AddrSpace
  PROVE  Lba(k) = k
BY SizeAssumption, SMT DEF Lba

\* The block under the cursor ends after the partition's start, and holds it.
LEMMA CursorBlock ==
  ASSUME FitsAddrSpace, partition_idx \in Nat
  PROVE  /\ cur_block_number \in Nat
         /\ raw_idx \in Nat
         /\ cur_block_number * BlockSize <= raw_idx
         /\ raw_idx < (cur_block_number + 1) * BlockSize
         /\ PartitionStart < (cur_block_number + 1) * BlockSize
<1>1. raw_idx \in Nat /\ PartitionStart <= raw_idx
  BY StartType, StartFits DEF raw_idx
<1> QED
  BY <1>1, DivMod, SizeAssumption, StartType, SMT DEF cur_block_number

\* The next byte after one of the drive has an address that still fits.
LEMMA NextFits ==
  ASSUME FitsAddrSpace, partition_idx \in Nat, cur_block_number \in Block
  PROVE  raw_idx + 1 < AddrSpace
<1>1. (cur_block_number + 1) * BlockSize <= NumBlocks * BlockSize
  BY SizeAssumption, SMT
<1> QED
  BY <1>1, CursorBlock, SizeAssumption, SMT DEF FitsAddrSpace

THEOREM DirtyStaysInPartition == Spec => []DirtyInPartition
<1>1. Init => DirtyInPartition
  BY StartType, StartFits, SizeAssumption DEF Init, DirtyInPartition, raw_idx
<1>2. TypeOK /\ InTurn /\ DirtyInPartition /\ [Next]_vars => DirtyInPartition'
  <2> SUFFICES ASSUME TypeOK, InTurn, DirtyInPartition, [Next]_vars, FitsAddrSpace
               PROVE  /\ raw_idx' < AddrSpace
                      /\ loaded_block_number' \in Block
                      /\ needs_flush' => PartitionStart < (loaded_block_number' + 1) * BlockSize
    BY DEF DirtyInPartition, FitsAddrSpace
  <2>0. /\ raw_idx < AddrSpace
        /\ loaded_block_number \in Block
        /\ needs_flush => PartitionStart < (loaded_block_number + 1) * BlockSize
    BY DEF DirtyInPartition
  <2>1. ASSUME UNCHANGED <<partition_idx, loaded_block_number>>, needs_flush' => needs_flush
        PROVE  /\ raw_idx' < AddrSpace
               /\ loaded_block_number' \in Block
               /\ needs_flush' => PartitionStart < (loaded_block_number' + 1) * BlockSize
    BY <2>0, <2>1 DEF raw_idx
  <2>2. ASSUME NEW kind \in {"read", "write"}, NEW n \in 0 .. MaxLen, Begin(kind, n)
        PROVE  UNCHANGED <<partition_idx, loaded_block_number, needs_flush>>
    BY <2>2 DEF Begin, cache
  <2>3. Evict => UNCHANGED <<partition_idx, loaded_block_number>> /\ (needs_flush' => needs_flush)
    BY DEF Evict
  <2>4. CASE Load
    <3>1. cur_block_number * BlockSize < AddrSpace
      BY <2>0, CursorBlock, SizeAssumption, SMT DEF TypeOK
    <3>2. Lba(cur_block_number) = cur_block_number
      BY <3>1, LbaExact, CursorType DEF TypeOK
    <3>3. \/ UNCHANGED loaded_block_number
          \/ loaded_block_number' = cur_block_number /\ cur_block_number \in Block
      <4>1. ASSUME NEW ok \in BOOLEAN, in_transfer(Lba(cur_block_number), ok), ok
            PROVE  cur_block_number \in Block
        BY <3>2, <4>1, InTransferType
      <4>2. CASE block_buffer # Drained
        BY <2>4, <4>2 DEF Load
      <4>3. ASSUME NEW ok \in BOOLEAN, in_transfer(Lba(cur_block_number), ok), Loaded(ok)
            PROVE  \/ UNCHANGED loaded_block_number
                   \/ loaded_block_number' = cur_block_number /\ cur_block_number \in Block
        <5>1. CASE ok
          BY <4>1, <4>3, <5>1
        <5>2. CASE ~ok
          BY <4>3, <5>2
        <5> QED
          BY <5>1, <5>2
      <4> QED
        BY <2>4, <4>2, <4>3 DEF Load
    <3>4. raw_idx' < AddrSpace
      BY <2>0, <2>4 DEF Load, raw_idx
    <3>5. needs_flush' => PartitionStart < (loaded_block_number' + 1) * BlockSize
      BY <2>0, <2>4, <3>3, CursorBlock DEF Load, TypeOK
    <3> QED
      BY <2>0, <3>3, <3>4, <3>5
  <2>5. ASSUME ReadByte \/ \E b \in Byte : WriteByte(b)
        PROVE  /\ raw_idx' < AddrSpace
               /\ loaded_block_number' \in Block
               /\ needs_flush' => PartitionStart < (loaded_block_number' + 1) * BlockSize
    <3>1. cur_block_number = loaded_block_number /\ UNCHANGED loaded_block_number
      BY <2>5 DEF InTurn, ReadByte, WriteByte, InLoop, cache
    <3>2. raw_idx' = raw_idx + 1
      BY <2>5, StartType DEF ReadByte, WriteByte, consume, raw_idx, TypeOK
    <3>3. raw_idx' < AddrSpace
      BY <2>0, <3>1, <3>2, NextFits DEF TypeOK
    <3> QED
      BY <2>0, <3>1, <3>3, CursorBlock DEF TypeOK
  <2>6. Finish => UNCHANGED <<partition_idx, loaded_block_number, needs_flush>>
    BY DEF Finish, cache
  <2>7. flush => UNCHANGED <<partition_idx, loaded_block_number>> /\ (needs_flush' => needs_flush)
    BY DEF flush, cache
  <2>8. CASE seek
    <3>1. partition_idx' \in 0 .. MaxIdx /\ UNCHANGED <<loaded_block_number, needs_flush>>
      BY <2>8 DEF seek, cache
    <3>2. PartitionStart + MaxIdx < AddrSpace
      BY StartFits
    <3>3. raw_idx' = PartitionStart + partition_idx'
      BY StartFits DEF raw_idx
    <3>4. raw_idx' < AddrSpace
      <4> DEFINE p == partition_idx'
      <4>1. p \in 0 .. MaxIdx /\ raw_idx' = PartitionStart + p
        BY <3>1, <3>3
      <4> HIDE DEF p
      <4> QED
        BY <4>1, <3>2, StartType, BoundAssumption, SizeAssumption
    <3> QED
      BY <2>0, <3>1, <3>4
  <2>9. drop \/ Crash => UNCHANGED <<partition_idx, loaded_block_number>> /\ needs_flush' = FALSE
    BY DEF drop, Crash
  <2>10. CASE new
    <3>1. partition_idx' = 0 /\ loaded_block_number' = 0 /\ needs_flush' = FALSE
      BY <2>10 DEF new
    <3>2. raw_idx' < AddrSpace
      BY <3>1, StartType, StartFits DEF raw_idx
    <3> QED
      BY <3>1, <3>2, SizeAssumption
  <2>11. UNCHANGED vars => UNCHANGED <<partition_idx, loaded_block_number, needs_flush>>
    BY DEF vars
  <2> QED
    BY <2>1, <2>2, <2>3, <2>4, <2>5, <2>6, <2>7, <2>8, <2>9, <2>10, <2>11 DEF Next, LoopStep
<1> QED
  BY <1>1, <1>2, TypedTurns, PTL DEF Spec

\* A flush writes the loaded block only when it is dirty, so no block that ends
\* at or before the partition's start ever changes.
THEOREM PartitionTableKept == FitsAddrSpace /\ Spec => PartitionTableSafe
<1> SUFFICES ASSUME FitsAddrSpace PROVE Spec => PartitionTableSafe
  OBVIOUS
<1>1. TypeOK /\ DirtyInPartition /\ [Next]_vars =>
        [\A b \in Block : (b + 1) * BlockSize <= PartitionStart => medium'[b] = medium[b]]_vars
  <2> SUFFICES ASSUME TypeOK, DirtyInPartition, [Next]_vars,
                      NEW b \in Block, (b + 1) * BlockSize <= PartitionStart
               PROVE  medium'[b] = medium[b]
    OBVIOUS
  <2>1. ASSUME needs_flush, NEW k \in 0 .. BlockSize, push_bytes(k)
        PROVE  medium'[b] = medium[b]
    <3>1. loaded_block_number \in Block /\ PartitionStart < (loaded_block_number + 1) * BlockSize
      BY <2>1 DEF DirtyInPartition
    <3>2. loaded_block_number * BlockSize < AddrSpace
      <4>1. loaded_block_number * BlockSize <= NumBlocks * BlockSize
        BY <3>1, SizeAssumption, SMT
      <4>2. NumBlocks * BlockSize < AddrSpace
        BY DEF FitsAddrSpace
      <4> QED
        BY <3>1, <4>1, <4>2, SizeAssumption, SMT
    <3>3. Lba(loaded_block_number) = loaded_block_number
      BY <3>1, <3>2, LbaExact, SizeAssumption
    <3>4. b # loaded_block_number
      BY <3>1, StartType, SizeAssumption, SMT
    <3> QED
      BY <2>1, <3>3, <3>4 DEF push_bytes, TypeOK
  <2>2. ASSUME needs_flush, NEW ok \in BOOLEAN, out_transfer(ok)
        PROVE  medium'[b] = medium[b]
    BY <2>1, <2>2, WritePushes DEF out_transfer
  <2>3. CASE medium' = medium
    BY <2>3
  <2>4. CASE Evict
    BY <2>2, <2>4 DEF Evict
  <2>5. CASE flush
    BY <2>2, <2>5 DEF flush, cache
  <2>6. CASE drop
    BY <2>1, <2>6, WritePushes DEF drop
  <2>7. [Next]_vars => medium' = medium \/ Evict \/ flush \/ drop
    BY DEF Next, LoopStep, Begin, Load, ReadByte, WriteByte, Finish, seek, Crash, new, cache, vars
  <2> QED
    BY <2>3, <2>4, <2>5, <2>6, <2>7
<1> QED
  BY <1>1, TypeCorrect, DirtyStaysInPartition, PTL DEF Spec, PartitionTableSafe
===============================================================================
