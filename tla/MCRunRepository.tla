--------------------------- MODULE MCRunRepository ---------------------------
(* Small instances of RunRepository for TLC. *)
EXTENDS RunRepository, TLC

CONSTANT s1

\* Every request wants the one session, each under a key of its own.
OneSession == [r \in Runs |-> s1]
OwnKeys == [r \in Runs |-> r]

\* Runs differ only by name, and so do instances.
Symmetry == Permutations(Runs) \cup Permutations(Instances)

==============================================================================
