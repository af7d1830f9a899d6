------------------------------ MODULE ByteDevice ------------------------------
(***************************************************************************)
(* What a user of OffsetScsiDevice is promised: a byte-addressed device    *)
(* with a cursor.  image is what a reader sees, durable what the medium    *)
(* would still hold after a power cut.  Bytes move from image to durable   *)
(* at any time (write-back), one block's at once, and all of them at a     *)
(* successful sync.                                                        *)
(*                                                                         *)
(* flaws says what the device may do beyond that: lose the rest of a block *)
(* in a write-back ("short write", "data"), show zeros for the rest of a   *)
(* block ("short read") or one block in the place of another after an      *)
(* error ("read status").  Without flaws it does none of these.            *)
(***************************************************************************)
EXTENDS Integers

CONSTANTS BlockSize,       \* bytes in a block of the medium
          NumBlocks,       \* blocks of the medium
          PartitionStart,  \* byte address at which the partition begins
          Byte,            \* the values of a byte
          Zero,            \* the one shown where none could be read
          MaxIdx,          \* bound: largest cursor a seek asks for
          MaxLen           \* bound: longest read or write call

VARIABLES image, durable, pos, op, left, byte, result,
          pending,         \* may written bytes be waiting for a sync?
          flaws            \* what the device may do besides failing

vars == <<image, durable, pos, op, left, byte, result, pending, flaws>>

Block == 0 .. NumBlocks - 1
Sector == [0 .. BlockSize - 1 -> Byte]

\* The block and the offset in it of the byte under the cursor.
HomeBlock  == (PartitionStart + pos) \div BlockSize
HomeOffset == (PartitionStart + pos) % BlockSize

Flaw == {"data", "read status", "short read", "short write"}

\* How many bytes of a block move when all goes well.
Count(shortness) == IF shortness \in flaws THEN 0 .. BlockSize ELSE {BlockSize}

Cut(data, k) == [i \in 0 .. BlockSize - 1 |-> IF i < k THEN data[i] ELSE Zero]

Init == /\ image \in [Block -> Sector]
        /\ durable = image
        /\ pos = 0
        /\ op = "idle"
        /\ left = 0
        /\ byte \in Byte
        /\ result = "ok"
        /\ pending = FALSE
        /\ flaws \subseteq Flaw

Begin == /\ op = "idle"
         /\ op' \in {"read", "write"}
         /\ left' \in 0 .. MaxLen
         /\ UNCHANGED <<image, durable, pos, byte, result, pending>>

\* A read hands out the byte at the cursor.
ReadByte == /\ op = "read" /\ left > 0 /\ HomeBlock \in Block
            /\ byte' = image[HomeBlock][HomeOffset]
            /\ pos' = pos + 1
            /\ left' = left - 1
            /\ UNCHANGED <<image, durable, op, result, pending>>

\* A write replaces the byte at the cursor, and no other.
WriteByte == /\ op = "write" /\ left > 0 /\ HomeBlock \in Block
             /\ \E b \in Byte :
                  /\ image' = [image EXCEPT ![HomeBlock][HomeOffset] = b]
                  /\ pending' = (pending \/ image[HomeBlock][HomeOffset] # b)
             /\ pos' = pos + 1
             /\ left' = left - 1
             /\ UNCHANGED <<durable, op, byte, result>>

Return == /\ op \in {"read", "write"} /\ left = 0
          /\ op' = "idle"
          /\ result' = "ok"
          /\ UNCHANGED <<image, durable, pos, left, byte, pending>>

-------------------------------------------------------------------------------
(* Blocks on their way to the medium and back *)

\* The first k bytes of a block catch up with what has been written to it.
CatchUp(b, k) == durable' = [durable EXCEPT ![b] = [i \in 0 .. BlockSize - 1 |->
                                IF i < k THEN image[b][i] ELSE durable[b][i]]]

\* A block's bytes are on the medium, and those that are not are gone.
Written(b, k) == pending /\ CatchUp(b, k) /\ image' = [image EXCEPT ![b] = durable'[b]]

WriteBack == /\ op \in {"read", "write"}
             /\ \E b \in Block, k \in Count("short write") : Written(b, k)
             /\ pending' \in BOOLEAN /\ (~pending' => image' = durable')
             /\ UNCHANGED <<pos, op, left, byte, result>>

\* A sync that succeeds leaves nothing to lose.
Sync == /\ op = "idle"
        /\ \/ ~pending /\ UNCHANGED <<image, durable>>
           \/ /\ \E b \in Block, k \in Count("short write") : Written(b, k)
              /\ image' = durable'
        /\ pending' = FALSE
        /\ result' = "ok"
        /\ UNCHANGED <<pos, op, left, byte>>

\* A call that fails says so.  The block being written back may have reached
\* the medium all the same, a part of it where the data fails; a block being read
\* may be seen in another's place.
Fail == /\ op # "dropped"
        /\ \/ UNCHANGED <<image, durable>>
           \/ \E b \in Block, k \in Count("short write") : Written(b, k)
           \/ "data" \in flaws /\ \E b \in Block, k \in 0 .. BlockSize : Written(b, k)
           \/ /\ "read status" \in flaws /\ image = durable /\ UNCHANGED durable
              /\ \E b \in Block, other \in Block, k \in Count("short read") :
                   image' = [image EXCEPT ![b] = Cut(durable[other], k)]
        /\ op' = "idle"
        /\ left' = 0
        /\ result' = "err"
        /\ UNCHANGED <<pos, byte, pending>>

\* The block under the cursor is seen as far as it could be read, and zeros after it.
Misread == /\ op \in {"read", "write"} /\ left > 0 /\ HomeBlock \in Block
           /\ "short read" \in flaws /\ image = durable
           /\ \E k \in 0 .. BlockSize :
                image' = [image EXCEPT ![HomeBlock] = Cut(durable[HomeBlock], k)]
           /\ UNCHANGED <<durable, pos, op, left, byte, result, pending>>

\* As long as nothing was written over it, what was seen wrongly may be seen rightly
\* again.
Recover == /\ op \in {"read", "write"} /\ ~pending
           /\ flaws \cap {"short read", "read status"} # {}
           /\ image' = durable
           /\ UNCHANGED <<durable, pos, op, left, byte, result, pending>>

-------------------------------------------------------------------------------
Seek == /\ op = "idle"
        /\ pos' \in 0 .. MaxIdx
        /\ result' = "ok"
        /\ UNCHANGED <<image, durable, op, left, byte, pending>>

\* Closing, or losing power: what is seen from now on is what is durable.
Close == /\ op # "dropped"
         /\ \/ UNCHANGED durable
            \/ pending /\ \E b \in Block, k \in Count("short write") : CatchUp(b, k)
            \/ pending /\ "data" \in flaws /\ \E b \in Block, k \in 0 .. BlockSize : CatchUp(b, k)
         /\ image' = durable'
         /\ op' = "dropped"
         /\ left' = 0
         /\ pending' = FALSE
         /\ UNCHANGED <<pos, byte, result>>

Reopen == /\ op = "dropped"
          /\ op' = "idle"
          /\ pos' = 0
          /\ result' = "ok"
          /\ UNCHANGED <<image, durable, left, byte, pending>>

Next == /\ \/ Begin \/ ReadByte \/ WriteByte \/ Return \/ WriteBack \/ Sync
           \/ Fail \/ Misread \/ Recover \/ Seek \/ Close \/ Reopen
        /\ UNCHANGED flaws

Spec == Init /\ [][Next]_vars
===============================================================================
