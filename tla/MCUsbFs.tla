------------------------------- MODULE MCUsbFs --------------------------------
(* Threads, and drives, are interchangeable.                                   *)
EXTENDS UsbFs, TLC

Symmetry == Permutations(Thread) \cup Permutations(Drive)
===============================================================================
