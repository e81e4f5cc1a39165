--------------------------- MODULE MCGradedChain ---------------------------
EXTENDS GradedChain

CONSTANTS a1, a2, s1, s2, s3

(* Two SPRs of address a1, a balance tie between s2 and s3.                *)
MCCands ==
    { [id |-> s1, addr |-> a1, bal |-> 1], [id |-> s2, addr |-> a1, bal |-> 2],
      [id |-> s3, addr |-> a2, bal |-> 2] }
==============================================================================
