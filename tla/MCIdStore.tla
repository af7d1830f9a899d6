------------------------------ MODULE MCIdStore -------------------------------
(* The root, an entry with one path, and one with two, as "b.txt" and "B.TXT". *)
EXTENDS IdStore, TLC

CONSTANTS slash, a, b, B, EntryA, EntryB

Paths   == {slash, a, b, B}
Leads   == (slash :> Root) @@ (a :> EntryA) @@ (b :> EntryB) @@ (B :> EntryB)

Symmetry == Permutations({b, B})
===============================================================================
