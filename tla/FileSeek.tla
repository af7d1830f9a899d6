------------------------------- MODULE FileSeek -------------------------------
(***************************************************************************)
(* The cursor of an open file behind usbFsSeekFile, usbFsReadFile,         *)
(* usbFsWriteFile and usbFsTruncateFile (usbfs.rs): how an unsigned        *)
(* argument becomes a signed distance, and where the FAT driver goes with  *)
(* it.  Each call holds the store's lock throughout and is one action.     *)
(***************************************************************************)
EXTENDS Integers

CONSTANTS Width,   \* bits of a u64
          MaxSize  \* bound: longest file

u64     == 0 .. 2^Width - 1
i64_max == 2^(Width - 1) - 1

VARIABLES offset,  \* the cursor of the fatfs File
          size,    \* its length
          ret      \* what the last seek returned, with the position

vars == <<offset, size, ret>>

Init == /\ size \in 0 .. MaxSize
        /\ offset = 0
        /\ ret = [ok |-> TRUE, pos |-> 0]

\* Both relative values of whence decode pos like this; another whence is refused.
rel(pos) == IF pos > i64_max THEN -1 * ((2^Width - 1) - pos) ELSE pos

Target(pos, whence) == CASE whence = 0 -> pos
                         [] whence = 1 -> offset + rel(pos)
                         [] whence = 2 -> size + rel(pos)

\* The driver refuses to go before the start and stops at the end.
seek(target) == IF target < 0
                THEN UNCHANGED offset /\ ret' = [ok |-> FALSE, pos |-> offset]
                ELSE LET to == IF target > size THEN size ELSE target
                     IN  offset' = to /\ ret' = [ok |-> TRUE, pos |-> to]

SeekFile(pos, whence) == seek(Target(pos, whence)) /\ UNCHANGED size

ReadFile(n) == /\ offset + n <= size
               /\ offset' = offset + n
               /\ UNCHANGED <<size, ret>>

WriteFile(n) == /\ offset + n <= MaxSize
                /\ offset' = offset + n
                /\ size' = IF offset' > size THEN offset' ELSE size
                /\ UNCHANGED ret

\* The length that is asked for is ignored: the file ends at the cursor.
TruncateFile == /\ size' = offset
                /\ UNCHANGED <<offset, ret>>

Next == \/ \E pos \in u64, whence \in 0 .. 2 : SeekFile(pos, whence)
        \/ \E n \in 0 .. MaxSize : ReadFile(n) \/ WriteFile(n)
        \/ TruncateFile

Spec == Init /\ [][Next]_vars

\* "assume 2's complement" (usbfs.rs:328): a relative position above the largest
\* signed one is a distance backwards, and the seek goes back by that distance.
TwosComplement(pos) == IF pos > i64_max THEN pos - 2^Width ELSE pos
GoesBackByDistance ==
    [][\A pos \in u64 :
          SeekFile(pos, 1) /\ ret'.ok /\ TwosComplement(pos) < 0 =>
             offset' = offset + TwosComplement(pos)]_vars
===============================================================================
