----------------------------- MODULE UsbTransfer ------------------------------
(***************************************************************************)
(* One bulk transfer of UsbClient (usb_comm.rs) in either direction,       *)
(* between a VecNewtype (vecwrapper.rs) and an endpoint, by way of an      *)
(* aligned shim (aligned_slice.rs).  The loops go byte by byte.  BufScsi   *)
(* takes a transfer as one step; this module is where that comes from.     *)
(*                                                                         *)
(* A definition with a suffix (pull_byte_last) is the one of that name as a  *)
(* plausible mistake would leave it; nothing refers to it.                 *)
(***************************************************************************)
EXTENDS Integers, Sequences

CONSTANTS Byte,      \* the values of a byte
          Zero,      \* the one the shim is allocated with
          Capacity   \* fake_size of the buffer

ASSUME ByteAssumption == Zero \in Byte
ASSUME SizeAssumption == Capacity \in Nat

VARIABLES inner,  \* the bytes of the buffer
          shim,   \* the bytes of the shim
          idx,    \* how many of them the loop has moved
          pc,     \* the loop the call is in
          wire,   \* what has gone out to the device in the last call
          given,  \* what the buffer held when the call began
          got,    \* what it has given in the last call
          ret     \* how the last call ended, with its count

vars == <<inner, shim, idx, pc, wire, given, got, ret>>

Upto(n) == UNION {[1 .. k -> Byte] : k \in 0 .. n}
Zeros(n) == [i \in 1 .. n |-> Zero]

Init == /\ inner \in Upto(Capacity)
        /\ shim = <<>> /\ idx = 0 /\ pc = "idle"
        /\ wire = <<>> /\ given = inner /\ got = <<>>
        /\ ret = [ok |-> TRUE, count |-> 0]

Begin == /\ pc = "idle"
         /\ idx' = 0 /\ given' = inner
         /\ wire' = <<>> /\ got' = <<>>
Return(r) == pc' = "idle" /\ ret' = r
Error == [ok |-> FALSE, count |-> 0]

\* Between calls the owner of the buffer takes bytes out or puts some in.
Refill == /\ pc = "idle"
          /\ inner' \in Upto(Capacity)
          /\ given' = inner'
          /\ UNCHANGED <<shim, idx, pc, wire, got, ret>>

-------------------------------------------------------------------------------
(* out_transfer *)

\* A shim of no bytes is allocated all the same, which is undefined; with one or
\* without, the call fails in push_bytes or before it.
BeginOut_fixedShim == /\ Begin
                      /\ shim' = Zeros(Capacity)
                      /\ pc' = "drain"
                      /\ UNCHANGED <<inner, ret>>
BeginOut == /\ Begin
            /\ shim' = Zeros(Len(inner))
            /\ pc' = "drain"
            /\ UNCHANGED <<inner, ret>>

\* pull_byte takes the front.
pull_byte_last == /\ shim' = [shim EXCEPT ![idx + 1] = inner[Len(inner)]]
                  /\ inner' = SubSeq(inner, 1, Len(inner) - 1)
pull_byte == /\ shim' = [shim EXCEPT ![idx + 1] = Head(inner)]
             /\ inner' = Tail(inner)

Drain == /\ pc = "drain" /\ inner # <<>>
         /\ pull_byte
         /\ idx' = idx + 1
         /\ UNCHANGED <<pc, wire, given, got, ret>>

\* An endpoint takes all bytes or fewer, and may fail after any of them.
push_bytes == /\ pc = "drain" /\ inner = <<>>
              /\ IF shim = <<>>
                 THEN UNCHANGED wire /\ Return(Error)
                 ELSE \E n \in 0 .. Len(shim) :
                         /\ wire' = SubSeq(shim, 1, n)
                         /\ \E r \in {[ok |-> TRUE, count |-> n], Error} : Return(r)
              /\ UNCHANGED <<inner, shim, idx, given, got>>

-------------------------------------------------------------------------------
(* in_transfer *)

BeginIn_oneMore == /\ Begin
                   /\ shim' = Zeros(Capacity - Len(inner) + 1)
                   /\ pc' = "pull"
                   /\ UNCHANGED <<inner, ret>>
BeginIn == /\ Begin
           /\ shim' = Zeros(Capacity - Len(inner))
           /\ pc' = "pull"
           /\ UNCHANGED <<inner, ret>>

\* The endpoint gives all bytes or fewer; the rest of the shim stays zero.  got is
\* what a successful read has brought.
pull_bytes == /\ pc = "pull"
              /\ \/ /\ Return(Error)
                    /\ UNCHANGED <<shim, got>>
                 \/ /\ shim # <<>>
                    /\ \E n \in 0 .. Len(shim) : got' \in [1 .. n -> Byte]
                    /\ shim' = got' \o SubSeq(shim, Len(got') + 1, Len(shim))
                    /\ pc' = "fill"
                    /\ UNCHANGED ret
              /\ UNCHANGED <<inner, idx, wire, given>>

\* The loop asks how much room the buffer has and not how much was read.
Fill == /\ pc = "fill" /\ Capacity > Len(inner)
        /\ inner' = Append(inner, shim[idx + 1])
        /\ idx' = idx + 1
        /\ UNCHANGED <<shim, pc, wire, given, got, ret>>

EndIn_countsAll == /\ pc = "fill" /\ Capacity = Len(inner)
                   /\ Return([ok |-> TRUE, count |-> Len(shim)])
                   /\ UNCHANGED <<inner, shim, idx, wire, given, got>>
EndIn == /\ pc = "fill" /\ Capacity = Len(inner)
         /\ Return([ok |-> TRUE, count |-> Len(got)])
         /\ UNCHANGED <<inner, shim, idx, wire, given, got>>

Next == \/ Refill \/ BeginOut \/ Drain \/ push_bytes
        \/ BeginIn \/ pull_bytes \/ Fill \/ EndIn

Spec == Init /\ [][Next]_vars

-------------------------------------------------------------------------------
TypeOK == /\ inner \in Upto(Capacity) /\ shim \in Upto(Capacity)
          /\ idx \in 0 .. Capacity
          /\ pc \in {"idle", "drain", "pull", "fill"}
          /\ wire \in Upto(Capacity) /\ given \in Upto(Capacity) /\ got \in Upto(Capacity)
          /\ ret \in [ok : BOOLEAN, count : 0 .. Capacity]

\* The loops of both directions index the shim with a count of their own
\* (usb_comm.rs:140, :154): it stays inside, and the shim is used up exactly.
ShimFits == /\ pc = "drain" => idx + Len(inner) = Len(shim)
            /\ pc \in {"pull", "fill"} => Capacity - Len(inner) = Len(shim) - idx

\* Bytes that have left the buffer are in the shim in their order, in front of those
\* still to come (out_transfer, usb_comm.rs:152).
FirstInFirstOut == pc = "drain" => SubSeq(shim, 1, idx) \o inner = given

\* The buffer as the caller may see it: as it was, until the call returns.
held == IF pc = "idle" THEN inner ELSE given

\* Seen from its caller a transfer (usb_comm.rs:126-164) is one step, and these are
\* the steps that out_transfer and in_transfer of BufScsi take one for.  Out empties
\* the buffer, come what may; a part of its bytes from the front has gone out, all
\* that are counted, and fewer than asked is no failure.  In either fills the buffer,
\* with what it got, which may be too little, and then with zeros, or changes nothing
\* and fails.
OutStep == /\ held' = <<>>
           /\ wire' = SubSeq(held, 1, Len(wire'))
           /\ ret'.ok => ret'.count = Len(wire')
InStep  == /\ Len(held') = Capacity
           /\ held' = held \o got' \o Zeros(Capacity - Len(held) - Len(got'))
           /\ ret' = [ok |-> TRUE, count |-> Len(got')]
Fails   == held' = held /\ wire' = <<>> /\ ~ret'.ok
TransferIsOneStep ==
    [][pc # "idle" /\ pc' = "idle" =>
          IF pc = "drain" THEN OutStep ELSE InStep \/ Fails]_vars
===============================================================================
