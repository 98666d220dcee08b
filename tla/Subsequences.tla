---------------------------- MODULE Subsequences ----------------------------
(***************************************************************************)
(* The part of a sequence that filter() leaves: those of its members whose *)
(* positions are kept, in their order.                                     *)
(***************************************************************************)
EXTENDS Naturals, FiniteSets

Only(h, kept) ==
  LET rank == [i \in kept |-> Cardinality({j \in kept : j <= i})]
  IN [n \in 1..Cardinality(kept) |-> h[CHOOSE i \in kept : rank[i] = n]]

=============================================================================
