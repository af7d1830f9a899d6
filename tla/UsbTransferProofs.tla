--------------------------- MODULE UsbTransferProofs ---------------------------
(***************************************************************************)
(* What holds of a bulk transfer for a buffer of every capacity.           *)
(***************************************************************************)
EXTENDS UsbTransfer, SequenceTheorems, TLAPS

\* The loop of out_transfer, byte by byte: what has left the buffer is in the shim,
\* what is still to come is what follows it in the buffer the caller gave.
Draining == pc = "drain" =>
    /\ Len(given) = Len(shim) /\ idx + Len(inner) = Len(shim)
    /\ \A i \in 1 .. idx : shim[i] = given[i]
    /\ \A i \in 1 .. Len(inner) : inner[i] = given[idx + i]

\* The loop of in_transfer: the shim holds what was read and then zeros, and the
\* buffer what the caller gave and then the front of the shim.
Filling == pc \in {"pull", "fill"} =>
    /\ Len(given) + Len(shim) = Capacity /\ Len(inner) = Len(given) + idx
    /\ Len(got) <= Len(shim)
    /\ \A i \in 1 .. Len(shim) : shim[i] = IF i <= Len(got) THEN got[i] ELSE Zero
    /\ \A i \in 1 .. Len(given) : inner[i] = given[i]
    /\ \A i \in 1 .. idx : inner[Len(given) + i] = shim[i]

\* Nothing goes out before push_bytes, and nothing comes in but by pull_bytes.
NothingYet == /\ pc # "idle" => wire = <<>>
              /\ pc \in {"drain", "pull"} => got = <<>>
              /\ pc = "pull" => inner = given /\ idx = 0

-------------------------------------------------------------------------------
(* Sequences of bytes *)

\* Buffers are sequences of bytes up to the capacity.
LEMMA UptoIsSeq ==
  ASSUME NEW n \in Nat, NEW s
  PROVE  s \in Upto(n) <=> s \in Seq(Byte) /\ Len(s) <= n
<1>1. ASSUME s \in Upto(n)
      PROVE  s \in Seq(Byte) /\ Len(s) <= n
  <2>1. PICK k \in 0 .. n : s \in [1 .. k -> Byte]
    BY <1>1 DEF Upto
  <2>2. s \in Seq(Byte)
    BY <2>1, SeqDef
  <2>3. Len(s) = k
    BY <2>1, <2>2, LenProperties
  <2> QED
    BY <2>1, <2>2, <2>3
<1>2. ASSUME s \in Seq(Byte), Len(s) <= n
      PROVE  s \in Upto(n)
  <2>1. Len(s) \in 0 .. n /\ s \in [1 .. Len(s) -> Byte]
    BY <1>2, LenProperties
  <2> QED
    BY <2>1 DEF Upto
<1> QED
  BY <1>1, <1>2

\* The shim that AlignedBuffer allocates is zeros, as many as asked for.
LEMMA ZerosAre ==
  ASSUME NEW n \in Nat
  PROVE  /\ Zeros(n) \in Seq(Byte) /\ Len(Zeros(n)) = n
         /\ \A i \in 1 .. n : Zeros(n)[i] = Zero
<1>1. Zeros(n) \in [1 .. n -> Byte]
  BY ByteAssumption DEF Zeros
<1>2. Zeros(n) \in Seq(Byte)
  BY <1>1, SeqDef
<1>3. Len(Zeros(n)) = n
  BY <1>1, <1>2, LenProperties
<1> QED
  BY <1>2, <1>3 DEF Zeros

\* The same for the bytes of a buffer, with nothing said of its capacity.
LEMMA FrontIs ==
  ASSUME NEW s \in Seq(Byte), NEW n \in 0 .. Len(s)
  PROVE  /\ SubSeq(s, 1, n) \in Seq(Byte) /\ Len(SubSeq(s, 1, n)) = n
         /\ \A i \in 1 .. n : SubSeq(s, 1, n)[i] = s[i]
<1>1. Len(s) \in Nat /\ \A i \in 1 .. n : s[i] \in Byte
  BY LenProperties, ElementOfSeq
<1> QED
  BY <1>1, SubSeqProperties

-------------------------------------------------------------------------------
(* The loops *)

TransferInv == TypeOK /\ Draining /\ Filling /\ NothingYet

\* The types as the lemmas on sequences take them.
Typed == /\ inner \in Seq(Byte) /\ Len(inner) <= Capacity
         /\ shim \in Seq(Byte) /\ Len(shim) <= Capacity
         /\ wire \in Seq(Byte) /\ Len(wire) <= Capacity
         /\ given \in Seq(Byte) /\ Len(given) <= Capacity
         /\ got \in Seq(Byte) /\ Len(got) <= Capacity
         /\ idx \in 0 .. Capacity
         /\ pc \in {"idle", "drain", "pull", "fill"}
         /\ ret \in [ok : BOOLEAN, count : 0 .. Capacity]

\* TypeOK in terms of sequences.
LEMMA TypesAre == TypeOK <=> Typed
BY UptoIsSeq, SizeAssumption DEF TypeOK, Typed

\* A call starts with an empty shim as long as what it is to move.
LEMMA BeginStep ==
  ASSUME Typed, BeginOut \/ BeginIn
  PROVE  Typed' /\ Draining' /\ Filling' /\ NothingYet'
<1>1. Len(inner) \in Nat /\ <<>> \in Seq(Byte) /\ Len(<<>>) = 0
  BY LenProperties, EmptySeq DEF Typed
<1>2. CASE BeginOut
  <2>1. /\ shim' \in Seq(Byte) /\ Len(shim') = Len(inner)
    BY <1>1, <1>2, ZerosAre DEF BeginOut
  <2> QED
    BY <1>1, <1>2, <2>1, SizeAssumption DEF BeginOut, Begin, Typed, Draining, Filling, NothingYet
<1>3. CASE BeginIn
  <2>1. Capacity - Len(inner) \in Nat
    BY <1>1, SizeAssumption DEF Typed
  <2>2. /\ shim' \in Seq(Byte) /\ Len(shim') = Capacity - Len(inner)
        /\ \A i \in 1 .. Len(shim') : shim'[i] = Zero
    BY <1>3, <2>1, ZerosAre DEF BeginIn
  <2> QED
    BY <1>1, <1>3, <2>2, SizeAssumption DEF BeginIn, Begin, Typed, Draining, Filling, NothingYet
<1> QED
  BY <1>2, <1>3

\* A byte goes from the front of the buffer to the end of what the shim has.
LEMMA DrainStep ==
  ASSUME Typed, Draining, NothingYet, Drain
  PROVE  Typed' /\ Draining' /\ Filling' /\ NothingYet'
<1>1. /\ Len(inner) \in Nat /\ Len(shim) \in Nat /\ Len(given) \in Nat /\ Len(inner) # 0
      /\ Head(inner) = inner[1] /\ Head(inner) \in Byte
      /\ inner' \in Seq(Byte) /\ Len(inner') = Len(inner) - 1
      /\ \A i \in 1 .. Len(inner') : inner'[i] = inner[i + 1]
  BY LenProperties, EmptySeq, HeadTailProperties DEF Typed, Drain, pull_byte
<1>2. /\ Len(given) = Len(shim) /\ idx + Len(inner) = Len(shim)
      /\ \A i \in 1 .. idx : shim[i] = given[i]
      /\ \A i \in 1 .. Len(inner) : inner[i] = given[idx + i]
  BY DEF Draining, Drain
<1>3. /\ idx \in Nat /\ idx + 1 \in 1 .. Len(shim) /\ idx' = idx + 1
  BY <1>1, <1>2, SizeAssumption DEF Typed, Drain
<1>4. /\ shim' \in Seq(Byte) /\ Len(shim') = Len(shim)
      /\ \A i \in 1 .. Len(shim) : shim'[i] = IF i = idx + 1 THEN inner[1] ELSE shim[i]
  BY <1>1, <1>3, ExceptSeq DEF Typed, Drain, pull_byte
<1>5. Typed'
  BY <1>1, <1>3, <1>4, SizeAssumption DEF Typed, Drain
<1>6. Draining'
  <2>1. /\ Len(given') = Len(shim') /\ idx' + Len(inner') = Len(shim')
    BY <1>1, <1>2, <1>3, <1>4 DEF Drain
  <2>2. \A i \in 1 .. idx' : shim'[i] = given'[i]
    <3>1. inner[1] = given[idx + 1]
      BY <1>1, <1>2
    <3> QED
      BY <1>1, <1>2, <1>3, <1>4, <3>1 DEF Drain
  <2>3. \A i \in 1 .. Len(inner') : inner'[i] = given'[idx' + i]
    <3> SUFFICES ASSUME NEW i \in 1 .. Len(inner') PROVE inner'[i] = given'[idx' + i]
      OBVIOUS
    <3>1. i + 1 \in 1 .. Len(inner) /\ idx + (i + 1) = idx' + i
      BY <1>1, <1>3
    <3> QED
      BY <1>1, <1>2, <3>1 DEF Drain
  <2> QED
    BY <2>1, <2>2, <2>3 DEF Draining
<1>7. Filling' /\ NothingYet'
  BY DEF Drain, Filling, NothingYet
<1> QED
  BY <1>5, <1>6, <1>7


\* The bytes that have come are in front of the shim's zeros.
LEMMA PullStep ==
  ASSUME Typed, Filling, NothingYet, pull_bytes
  PROVE  Typed' /\ Draining' /\ Filling' /\ NothingYet'
<1>1. /\ pc = "pull" /\ inner = given /\ idx = 0 /\ wire = <<>>
      /\ Len(shim) \in Nat /\ Len(given) \in Nat
      /\ Len(given) + Len(shim) = Capacity
      /\ \A i \in 1 .. Len(shim) : shim[i] = Zero
  <2>1. pc = "pull" /\ Len(shim) \in Nat /\ Len(given) \in Nat
    BY LenProperties DEF pull_bytes, Typed
  <2>2. inner = given /\ idx = 0 /\ wire = <<>> /\ got = <<>>
    BY <2>1 DEF NothingYet
  <2>3. Len(got) = 0
    BY <2>2, EmptySeq
  <2> QED
    BY <2>1, <2>2, <2>3 DEF Filling
<1>2. CASE Return(Error) /\ UNCHANGED <<shim, got>>
  BY <1>1, <1>2, SizeAssumption
  DEF Return, Error, pull_bytes, Typed, Draining, Filling, NothingYet
<1>3. ASSUME NEW n \in 0 .. Len(shim), got' \in [1 .. n -> Byte], pc' = "fill", UNCHANGED ret,
             shim' = got' \o SubSeq(shim, Len(got') + 1, Len(shim))
      PROVE  Typed' /\ Draining' /\ Filling' /\ NothingYet'
  <2> DEFINE rest == SubSeq(shim, Len(got') + 1, Len(shim))
  <2>1. got' \in Seq(Byte) /\ Len(got') = n
    <3>1. n \in Nat
      BY <1>1, <1>3
    <3>2. got' \in Seq(Byte)
      BY <1>3, <3>1, SeqDef
    <3> QED
      BY <1>3, <3>1, <3>2, LenProperties
  <2>2. rest \in Seq(Byte) /\ Len(rest) = Len(shim) - n
        /\ \A i \in 1 .. Len(shim) - n : rest[i] = Zero
    <3>1. \A i \in n + 1 .. Len(shim) : shim[i] \in Byte
      BY <1>1, <1>3, ByteAssumption
    <3>2. /\ SubSeq(shim, n + 1, Len(shim)) \in Seq(Byte)
          /\ Len(SubSeq(shim, n + 1, Len(shim))) = IF n + 1 <= Len(shim) THEN Len(shim) - n ELSE 0
          /\ \A i \in 1 .. Len(shim) - n : SubSeq(shim, n + 1, Len(shim))[i] = shim[n + i]
      <4>1. n + 1 \in Int /\ Len(shim) \in Int
        BY <1>1, <1>3
      <4>2. /\ SubSeq(shim, n + 1, Len(shim)) \in Seq(Byte)
            /\ Len(SubSeq(shim, n + 1, Len(shim)))
                  = IF n + 1 <= Len(shim) THEN Len(shim) - (n + 1) + 1 ELSE 0
            /\ \A i \in 1 .. Len(shim) - (n + 1) + 1 :
                  SubSeq(shim, n + 1, Len(shim))[i] = shim[n + 1 + i - 1]
        BY <3>1, <4>1, SubSeqProperties
      <4> QED
        BY <1>1, <1>3, <4>2
    <3> QED
      BY <1>1, <1>3, <2>1, <3>2
  <2> HIDE DEF rest
  <2>3. /\ shim' \in Seq(Byte) /\ Len(shim') = Len(shim)
        /\ \A i \in 1 .. Len(shim') : shim'[i] = IF i <= Len(got') THEN got'[i] ELSE Zero
    <3>1. shim' = got' \o rest
      BY <1>3 DEF rest
    <3>2. /\ shim' \in Seq(Byte) /\ Len(shim') = Len(got') + Len(rest)
          /\ \A i \in 1 .. Len(got') + Len(rest) : shim'[i] =
                IF i <= Len(got') THEN got'[i] ELSE rest[i - Len(got')]
      <4>1. got' \in Seq(Byte) /\ rest \in Seq(Byte)
        BY <2>1, <2>2
      <4>2. /\ got' \o rest \in Seq(Byte) /\ Len(got' \o rest) = Len(got') + Len(rest)
            /\ \A i \in 1 .. Len(got') + Len(rest) : (got' \o rest)[i] =
                  IF i <= Len(got') THEN got'[i] ELSE rest[i - Len(got')]
        BY <4>1, ConcatProperties
      <4> QED
        BY <3>1, <4>2
    <3>3. Len(shim') = Len(shim)
      BY <1>1, <1>3, <2>1, <2>2, <3>2
    <3>4. ASSUME NEW i \in 1 .. Len(shim), i > n
          PROVE  shim'[i] = Zero
      <4>1. Len(got') = n /\ Len(rest) = Len(shim) - n /\ n \in Nat /\ Len(shim) \in Nat
        BY <1>1, <1>3, <2>1, <2>2
      <4>2. i - n \in 1 .. Len(shim) - n /\ i \in 1 .. Len(got') + Len(rest)
            /\ ~(i <= Len(got'))
        BY <3>4, <4>1
      <4>3. shim'[i] = rest[i - n]
        BY <3>2, <4>1, <4>2
      <4> QED
        BY <2>2, <4>2, <4>3
    <3>5. ASSUME NEW i \in 1 .. Len(shim), i <= n
          PROVE  shim'[i] = got'[i]
      <4>1. Len(got') = n /\ Len(rest) = Len(shim) - n /\ n \in Nat /\ Len(shim) \in Nat
        BY <1>1, <1>3, <2>1, <2>2
      <4>2. i \in 1 .. Len(got') + Len(rest) /\ i <= Len(got')
        BY <3>5, <4>1
      <4> QED
        BY <3>2, <4>2
    <3>6. ASSUME NEW i \in 1 .. Len(shim')
          PROVE  shim'[i] = IF i <= Len(got') THEN got'[i] ELSE Zero
      <4>1. Len(got') = n /\ n \in Nat /\ i \in 1 .. Len(shim) /\ i \in Int
        BY <1>1, <1>3, <2>1, <3>3, <3>6
      <4>2. CASE i <= n
        BY <3>5, <4>1, <4>2
      <4>3. CASE i > n
        <5>1. ~(i <= Len(got'))
          BY <4>1, <4>3
        <5> QED
          BY <3>4, <4>1, <4>3, <5>1
      <4> QED
        BY <4>1, <4>2, <4>3
    <3> QED
      BY <3>2, <3>3, <3>6
  <2>4. /\ UNCHANGED <<inner, idx, wire, given>> /\ Len(got') <= Len(shim')
    BY <1>1, <1>3, <2>1, <2>3 DEF pull_bytes
  <2>5. Typed'
    BY <1>1, <1>3, <2>1, <2>3, <2>4, SizeAssumption DEF Typed
  <2>6. Filling'
    BY <1>1, <2>3, <2>4 DEF Filling
  <2> QED
    BY <1>1, <1>3, <2>4, <2>5, <2>6 DEF Draining, NothingYet
<1> QED
  BY <1>2, <1>3 DEF pull_bytes

\* A byte goes from the shim to the end of the buffer.
LEMMA FillStep ==
  ASSUME Typed, Filling, NothingYet, Fill
  PROVE  Typed' /\ Draining' /\ Filling' /\ NothingYet'
<1>1. /\ Len(given) \in Nat /\ Len(shim) \in Nat /\ idx \in Nat
      /\ Len(given) + Len(shim) = Capacity /\ Len(inner) = Len(given) + idx
      /\ \A i \in 1 .. Len(given) : inner[i] = given[i]
      /\ \A i \in 1 .. idx : inner[Len(given) + i] = shim[i]
  BY LenProperties, SizeAssumption DEF Typed, Filling, Fill
<1>2. idx + 1 \in 1 .. Len(shim) /\ idx' = idx + 1
  BY <1>1 DEF Fill
<1>3. shim[idx + 1] \in Byte
  BY <1>2, ElementOfSeq DEF Typed
<1>4. /\ inner' \in Seq(Byte) /\ Len(inner') = Len(inner) + 1
      /\ \A i \in 1 .. Len(inner) : inner'[i] = inner[i]
      /\ inner'[Len(inner) + 1] = shim[idx + 1]
  BY <1>3, AppendProperties DEF Typed, Fill
<1>5. Typed'
  BY <1>1, <1>2, <1>4, SizeAssumption DEF Typed, Fill
<1>6. Filling'
  <2>1. \A i \in 1 .. Len(given) : inner'[i] = given[i]
    BY <1>1, <1>4
  <2>2. \A i \in 1 .. idx' : inner'[Len(given) + i] = shim[i]
    <3> SUFFICES ASSUME NEW i \in 1 .. idx + 1 PROVE inner'[Len(given) + i] = shim[i]
      BY <1>2
    <3>1. CASE i = idx + 1
      BY <1>1, <1>4, <3>1
    <3>2. CASE i # idx + 1
      <4>1. i \in 1 .. idx /\ Len(given) + i \in 1 .. Len(inner)
        BY <1>1, <3>2
      <4> QED
        BY <1>1, <1>4, <4>1
    <3> QED
      BY <3>1, <3>2
  <2>3. UNCHANGED <<shim, given, got, pc>> /\ Len(inner') = Len(given) + idx'
    BY <1>1, <1>2, <1>4 DEF Fill
  <2> QED
    BY <2>1, <2>2, <2>3 DEF Filling, Fill
<1> QED
  BY <1>5, <1>6 DEF Fill, Draining, NothingYet

\* The steps after which the call is over, and the owner's.
LEMMA IdleStep ==
  ASSUME Typed, Filling, push_bytes \/ EndIn \/ Refill
  PROVE  Typed' /\ Draining' /\ Filling' /\ NothingYet'
<1>1. pc' = "idle"
  BY DEF push_bytes, EndIn, Refill, Return
<1>2. Typed'
  <2>1. CASE push_bytes
    <3>1. /\ Len(shim) \in 0 .. Capacity /\ Error \in [ok : BOOLEAN, count : 0 .. Capacity]
      BY LenProperties, SizeAssumption DEF Error, Typed
    <3>2. \A n \in 0 .. Len(shim) : SubSeq(shim, 1, n) \in Seq(Byte) /\ Len(SubSeq(shim, 1, n)) = n
      BY FrontIs DEF Typed
    <3>3. CASE UNCHANGED wire /\ Return(Error)
      BY <2>1, <3>1, <3>3 DEF push_bytes, Return, Typed
    <3>4. UNCHANGED <<inner, shim, idx, given, got>>
      BY <2>1 DEF push_bytes
    <3>5. ASSUME NEW n \in 0 .. Len(shim), wire' = SubSeq(shim, 1, n),
                 NEW r \in {[ok |-> TRUE, count |-> n], Error}, Return(r)
          PROVE  Typed'
      <4>1. n \in 0 .. Capacity /\ wire' \in Seq(Byte) /\ Len(wire') <= Capacity
        BY <3>1, <3>2, <3>5, SizeAssumption
      <4>2. r \in [ok : BOOLEAN, count : 0 .. Capacity]
        <5>1. n \in 0 .. Capacity
          BY <4>1
        <5>2. [ok |-> TRUE, count |-> n] \in [ok : BOOLEAN, count : 0 .. Capacity]
          BY <5>1
        <5>3. Error \in [ok : BOOLEAN, count : 0 .. Capacity]
          BY <3>1
        <5> QED
          BY <3>5, <5>2, <5>3, Zenon
      <4>3. ret' = r /\ pc' = "idle"
        BY <3>5 DEF Return
      <4>4. ret' \in [ok : BOOLEAN, count : 0 .. Capacity]
        BY <4>2, <4>3, Zenon
      <4> QED
        BY <3>4, <4>1, <4>3, <4>4 DEF Typed
    <3> QED
      BY <2>1, <3>3, <3>5 DEF push_bytes
  <2>2. CASE EndIn
    <3>1. Len(got) \in 0 .. Capacity
      BY LenProperties, SizeAssumption DEF Typed
    <3> QED
      BY <2>2, <3>1 DEF EndIn, Return, Typed
  <2>3. CASE Refill
    BY <2>3, UptoIsSeq, SizeAssumption DEF Refill, Typed
  <2> QED
    BY <2>1, <2>2, <2>3
<1> QED
  BY <1>1, <1>2 DEF Draining, Filling, NothingYet

\* Each loop's invariant, through every step of a transfer.
LEMMA TransferInvariant == Spec => []TransferInv
<1>1. Init => TransferInv
  <2>1. <<>> \in Upto(Capacity) /\ 0 \in 0 .. Capacity
    <3>1. <<>> \in Seq(Byte) /\ Len(<<>>) <= Capacity
      BY EmptySeq, SizeAssumption
    <3>2. <<>> \in Upto(Capacity)
      BY <3>1, UptoIsSeq, SizeAssumption
    <3> QED
      BY <3>2, SizeAssumption
  <2> QED
    BY <2>1 DEF Init, TransferInv, TypeOK, Draining, Filling, NothingYet
<1>2. TransferInv /\ [Next]_vars => TransferInv'
  <2> SUFFICES ASSUME TransferInv, [Next]_vars
               PROVE  Typed' /\ Draining' /\ Filling' /\ NothingYet'
    <3>1. TypeOK' <=> Typed'
      BY UptoIsSeq, SizeAssumption DEF TypeOK, Typed
    <3> QED
      BY <3>1 DEF TransferInv
  <2>1. Typed /\ Draining /\ Filling /\ NothingYet
    BY TypesAre DEF TransferInv
  <2>2. CASE UNCHANGED vars
    BY <2>1, <2>2 DEF vars, Typed, Draining, Filling, NothingYet
  <2> QED
    BY <2>1, <2>2, BeginStep, DrainStep, PullStep, FillStep, IdleStep DEF Next
<1> QED
  BY <1>1, <1>2, PTL DEF Spec


-------------------------------------------------------------------------------
(* Theorems *)

\* A transfer of any length keeps to the buffer's capacity, and so do its parts.
THEOREM TypeCorrect == Spec => []TypeOK
BY TransferInvariant, PTL DEF TransferInv

\* The loops' own count of the shim's bytes stays inside it and uses it up exactly.
THEOREM ShimIsUsedUp == Spec => []ShimFits
<1>1. TransferInv => ShimFits
  <2> SUFFICES ASSUME TransferInv PROVE ShimFits
    OBVIOUS
  <2>1. /\ Len(inner) \in Nat /\ Len(shim) \in Nat /\ Len(given) \in Nat /\ idx \in Nat
    BY TypesAre, LenProperties, SizeAssumption DEF TransferInv, Typed
  <2>2. pc = "drain" => idx + Len(inner) = Len(shim)
    BY DEF TransferInv, Draining
  <2>3. pc \in {"pull", "fill"} =>
          Len(given) + Len(shim) = Capacity /\ Len(inner) = Len(given) + idx
    BY DEF TransferInv, Filling
  <2>4. pc \in {"pull", "fill"} => Capacity - Len(inner) = Len(shim) - idx
    BY <2>1, <2>3
  <2> QED
    BY <2>2, <2>4 DEF ShimFits
<1> QED
  BY <1>1, TransferInvariant, PTL

\* What the shim has so far, followed by what the buffer still has, is what the
\* caller gave, in its order.
LEMMA DrainedInOrder ==
  ASSUME TransferInv, pc = "drain"
  PROVE  SubSeq(shim, 1, idx) \o inner = given
<1>1. /\ inner \in Seq(Byte) /\ shim \in Seq(Byte) /\ given \in Seq(Byte) /\ idx \in Nat
  BY TypesAre, SizeAssumption DEF TransferInv, Typed
<1>2. Len(inner) \in Nat /\ Len(shim) \in Nat /\ Len(given) \in Nat
  BY <1>1, LenProperties
<1>3. /\ Len(given) = Len(shim) /\ idx + Len(inner) = Len(shim)
      /\ \A i \in 1 .. idx : shim[i] = given[i]
      /\ \A i \in 1 .. Len(inner) : inner[i] = given[idx + i]
  BY DEF TransferInv, Draining
<1> DEFINE front == SubSeq(shim, 1, idx)
           all == front \o inner
<1>4. front \in Seq(Byte) /\ Len(front) = idx /\ \A i \in 1 .. idx : front[i] = shim[i]
  <2>1. idx \in 0 .. Len(shim)
    BY <1>1, <1>2, <1>3
  <2> QED
    BY <1>1, <2>1, FrontIs
<1> HIDE DEF front
<1>5. /\ all \in Seq(Byte) /\ Len(all) = idx + Len(inner)
      /\ \A i \in 1 .. idx + Len(inner) : all[i] = IF i <= idx THEN front[i] ELSE inner[i - idx]
  BY <1>1, <1>4, ConcatProperties
<1> HIDE DEF all
<1>6. ASSUME NEW i \in 1 .. Len(all)
      PROVE  all[i] = given[i]
  <2>1. CASE i <= idx
    BY <1>1, <1>2, <1>3, <1>4, <1>5, <2>1
  <2>2. CASE i > idx
    <3>1. i - idx \in 1 .. Len(inner) /\ idx + (i - idx) = i
      BY <1>1, <1>2, <1>5, <2>2
    <3> QED
      BY <1>1, <1>2, <1>3, <1>5, <2>2, <3>1
  <2> QED
    BY <1>1, <1>2, <1>5, <2>1, <2>2
<1>7. all = given
  BY <1>1, <1>3, <1>5, <1>6, SeqEqual
<1> QED
  BY <1>7 DEF all, front

\* In every turn of the loops what has left the buffer is in the shim, in its order:
\* no byte is dropped, doubled or moved by the two counts.
THEOREM OrderIsKept == Spec => []FirstInFirstOut
<1>1. TransferInv => FirstInFirstOut
  BY DrainedInOrder DEF FirstInFirstOut
<1> QED
  BY <1>1, TransferInvariant, PTL


\* A buffer that in_transfer has filled has what the caller gave, what came, and zeros.
LEMMA FilledInOrder ==
  ASSUME TransferInv, pc = "fill", Capacity = Len(inner)
  PROVE  inner = given \o got \o Zeros(Capacity - Len(given) - Len(got))
<1>1. /\ inner \in Seq(Byte) /\ given \in Seq(Byte) /\ got \in Seq(Byte) /\ idx \in Nat
      /\ Len(inner) \in Nat /\ Len(given) \in Nat /\ Len(got) \in Nat /\ Len(shim) \in Nat
      /\ Capacity \in Nat
  BY TypesAre, LenProperties, SizeAssumption DEF TransferInv, Typed
<1>2. /\ Len(given) + Len(shim) = Capacity /\ Len(inner) = Len(given) + idx
      /\ Len(got) <= Len(shim)
      /\ \A i \in 1 .. Len(shim) : shim[i] = IF i <= Len(got) THEN got[i] ELSE Zero
      /\ \A i \in 1 .. Len(given) : inner[i] = given[i]
      /\ \A i \in 1 .. idx : inner[Len(given) + i] = shim[i]
  BY DEF TransferInv, Filling
<1>3. idx = Len(shim)
  BY <1>1, <1>2
<1> DEFINE rest == Zeros(Capacity - Len(given) - Len(got))
           front == given \o got
           all == front \o rest
<1>4. /\ rest \in Seq(Byte) /\ Len(rest) = Capacity - Len(given) - Len(got)
      /\ \A i \in 1 .. Capacity - Len(given) - Len(got) : rest[i] = Zero
  <2>1. Capacity - Len(given) - Len(got) \in Nat
    BY <1>1, <1>2
  <2> QED
    BY <2>1, ZerosAre
<1> HIDE DEF rest
<1>5. /\ front \in Seq(Byte) /\ Len(front) = Len(given) + Len(got)
      /\ \A i \in 1 .. Len(given) + Len(got) :
            front[i] = IF i <= Len(given) THEN given[i] ELSE got[i - Len(given)]
  BY <1>1, ConcatProperties
<1> HIDE DEF front
<1>6. /\ all \in Seq(Byte) /\ Len(all) = Capacity
      /\ \A i \in 1 .. Capacity : all[i] = IF i <= Len(front) THEN front[i] ELSE rest[i - Len(front)]
  <2>1. /\ all \in Seq(Byte) /\ Len(all) = Len(front) + Len(rest)
        /\ \A i \in 1 .. Len(front) + Len(rest) :
              all[i] = IF i <= Len(front) THEN front[i] ELSE rest[i - Len(front)]
    <3>1. front \in Seq(Byte) /\ rest \in Seq(Byte)
      BY <1>4, <1>5
    <3> QED
      BY <3>1, ConcatProperties
  <2>2. Len(front) + Len(rest) = Capacity
    <3>1. Len(front) = Len(given) + Len(got) /\ Len(rest) = Capacity - Len(given) - Len(got)
      BY <1>4, <1>5
    <3> QED
      BY <1>1, <3>1
  <2> QED
    BY <2>1, <2>2
<1> HIDE DEF all
<1>7. ASSUME NEW i \in 1 .. Len(inner)
      PROVE  inner[i] = all[i]
  <2>1. i \in 1 .. Capacity /\ i \in Nat
    BY <1>1, <1>7
  <2>2. CASE i <= Len(given)
    <3>1. inner[i] = given[i]
      BY <1>1, <1>2, <2>1, <2>2
    <3>2. i <= Len(front) /\ front[i] = given[i]
      BY <1>1, <1>5, <2>1, <2>2
    <3>3. all[i] = front[i]
      BY <1>6, <2>1, <3>2
    <3> QED
      BY <3>1, <3>2, <3>3
  <2>3. CASE i > Len(given)
    <3> DEFINE j == i - Len(given)
    <3>1. j \in 1 .. Len(shim) /\ i = Len(given) + j
      BY <1>1, <1>2, <2>1, <2>3
    <3>2. inner[i] = shim[j]
      BY <1>2, <1>3, <3>1
    <3>3. CASE j <= Len(got)
      <4>1. shim[j] = got[j]
        BY <1>2, <3>1, <3>3
      <4>2. i <= Len(front) /\ front[i] = got[j]
        BY <1>1, <1>5, <2>1, <2>3, <3>3
      <4>3. all[i] = front[i]
        BY <1>6, <2>1, <4>2
      <4> QED
        BY <3>2, <4>1, <4>2, <4>3
    <3>4. CASE j > Len(got)
      <4>1. i > Len(front) /\ i - Len(front) \in 1 .. Capacity - Len(given) - Len(got)
        BY <1>1, <1>2, <1>5, <2>1, <3>1, <3>4
      <4>2. all[i] = Zero
        BY <1>4, <1>5, <1>6, <2>1, <4>1, <1>1
      <4> QED
        BY <1>1, <1>2, <3>1, <3>2, <3>4, <4>2
    <3> QED
      BY <1>1, <2>1, <3>3, <3>4
  <2> QED
    BY <1>1, <2>1, <2>2, <2>3
<1>8. inner = all
  BY <1>1, <1>6, <1>7, SeqEqual
<1> QED
  BY <1>8 DEF all, front, rest

\* Seen from its caller a transfer is one step, a success of too few bytes included
\* (zeros at the buffer's end, or a block half written): the steps that Evict, Load
\* and flush of BufScsi take it for.
THEOREM OneStep == Spec => TransferIsOneStep
<1>1. ASSUME TransferInv, [Next]_vars, pc # "idle", pc' = "idle"
      PROVE  IF pc = "drain" THEN OutStep ELSE InStep \/ Fails
  <2>1. \/ push_bytes
        \/ pull_bytes /\ Return(Error) /\ UNCHANGED <<shim, got>>
        \/ EndIn
    BY <1>1 DEF Next, vars, Refill, BeginOut, BeginIn, Begin, Drain, Fill, pull_bytes
  <2>2. held = given /\ held' = inner'
    BY <1>1 DEF held
  <2>3. /\ inner \in Seq(Byte) /\ shim \in Seq(Byte) /\ given \in Seq(Byte)
        /\ Len(inner) \in Nat /\ Len(shim) \in Nat /\ wire = <<>>
    BY <1>1, TypesAre, LenProperties DEF TransferInv, Typed, NothingYet
  <2>4. CASE push_bytes
    <3>1. pc = "drain" /\ inner = <<>> /\ inner' = <<>>
      BY <2>4 DEF push_bytes
    <3>2. given = shim
      <4>1. Len(inner) = 0 /\ idx = Len(shim)
        BY <1>1, <2>3, <3>1, EmptySeq, TypesAre, SizeAssumption DEF TransferInv, Typed, Draining
      <4>2. SubSeq(shim, 1, Len(shim)) \o <<>> = given
        BY <1>1, <3>1, <4>1, DrainedInOrder
      <4> QED
        BY <2>3, <4>2, SubSeqFull, ConcatEmptySeq
    <3>3. CASE shim = <<>> /\ UNCHANGED wire /\ Return(Error)
      <4>1. Len(wire') = 0 /\ SubSeq(shim, 1, 0) = <<>>
        BY <2>3, <3>3, EmptySeq, SubSeqEmpty
      <4> QED
        BY <2>2, <2>3, <3>1, <3>2, <3>3, <4>1 DEF OutStep, Return, Error
    <3>4. ASSUME NEW n \in 0 .. Len(shim), wire' = SubSeq(shim, 1, n),
                 NEW r \in {[ok |-> TRUE, count |-> n], Error}, Return(r)
          PROVE  OutStep
      <4>1. Len(wire') = n
        BY <2>3, <3>4, FrontIs
      <4> QED
        BY <2>2, <3>1, <3>2, <3>4, <4>1 DEF OutStep, Return, Error
    <3> QED
      BY <2>4, <3>1, <3>3, <3>4 DEF push_bytes
  <2>5. CASE pull_bytes /\ Return(Error) /\ UNCHANGED <<shim, got>>
    <3>1. inner = given /\ UNCHANGED <<inner, wire>> /\ pc = "pull"
      BY <1>1, <2>5 DEF TransferInv, NothingYet, pull_bytes
    <3> QED
      BY <2>2, <2>3, <2>5, <3>1 DEF Fails, Return, Error
  <2>6. CASE EndIn
    <3>1. inner = given \o got \o Zeros(Capacity - Len(given) - Len(got))
      BY <1>1, <2>6, FilledInOrder DEF EndIn
    <3> QED
      BY <2>2, <2>6, <3>1 DEF EndIn, InStep, Return
  <2> QED
    BY <2>1, <2>4, <2>5, <2>6
<1>2. TransferInv /\ [Next]_vars =>
        [pc # "idle" /\ pc' = "idle" =>
            IF pc = "drain" THEN OutStep ELSE InStep \/ Fails]_vars
  BY <1>1
<1> QED
  BY <1>2, TransferInvariant, PTL DEF Spec, TransferIsOneStep
===============================================================================
