------------------------------ MODULE Progress ------------------------------
(***************************************************************************)
(* How much a process has left to do, as a triple of naturals of which the *)
(* first weighs most: what every step of a program that ends has to spend. *)
(***************************************************************************)
EXTENDS Integers

Triples == Nat \X Nat \X Nat

Shrinks(new, old) ==
    \/ new[1] < old[1]
    \/ /\ new[1] = old[1]
       /\ \/ new[2] < old[2]
          \/ new[2] = old[2] /\ new[3] < old[3]
=============================================================================
