------------------------------- MODULE MCNewlib -------------------------------
(* Threads, drives and addresses are interchangeable.                          *)
EXTENDS Newlib, TLC

Symmetry == Permutations(Thread) \cup Permutations(Drive) \cup Permutations(Context)
===============================================================================
