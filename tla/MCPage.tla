-------------------------------- MODULE MCPage --------------------------------
EXTENDS WebSessions, TLC

Symmetry == Permutations(Known)

\* Two runs and a visit elsewhere, or a fault; one run among visits with a fault; visits and
\* deletions alone.
MCLimits == {[runs |-> 2, moves |-> 1, losses |-> 0], [runs |-> 2, moves |-> 0, losses |-> 1],
             [runs |-> 1, moves |-> 2, losses |-> 1], [runs |-> 0, moves |-> 3, losses |-> 1]}
===============================================================================
