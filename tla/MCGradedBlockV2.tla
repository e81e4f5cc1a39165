-------------------------- MODULE MCGradedBlockV2 --------------------------
EXTENDS GradedBlockV2

CONSTANTS a1, a2, a3, s1, s2, s3, s4, s5

(* Five SPRs over three coinbase addresses: a1 and a2 each have two SPRs, *)
(* and balances repeat so that both the duplicate filter and the ties of  *)
(* the stable sort matter.                                                 *)
MCCands ==
    { [id |-> s1, addr |-> a1, bal |-> 1],
      [id |-> s2, addr |-> a1, bal |-> 2],
      [id |-> s3, addr |-> a2, bal |-> 2],
      [id |-> s4, addr |-> a2, bal |-> 3],
      [id |-> s5, addr |-> a3, bal |-> 1] }

=============================================================================
