------------------------- MODULE GraderDeterminism -------------------------
(***************************************************************************)
(* Two nodes grade the same height.  They see the same SPRs, but the      *)
(* second node is handed them in another order.  Each node runs the        *)
(* pipeline of GradedBlockV2 on its own copy of the block.                 *)
(***************************************************************************)
EXTENDS Integers, Sequences, FiniteSets, SequencesExt

CONSTANTS Cands, MaxInput, Cutoff, TopRank, NoHash

VARIABLES inA, sprsA, countA, shA, phaseA,
          inB, sprsB, countB, shB, phaseB

varsA == <<inA, sprsA, countA, shA, phaseA>>
varsB == <<inB, sprsB, countB, shB, phaseB>>

A == INSTANCE GradedBlockV2
       WITH input <- inA, sprs <- sprsA, count <- countA,
            shorthashes <- shA, phase <- phaseA
B == INSTANCE GradedBlockV2
       WITH input <- inB, sprs <- sprsB, count <- countB,
            shorthashes <- shB, phase <- phaseB

Init == A!Init /\ B!Init

(* Node B receives a reordering of the entries node A received.           *)
CloneB ==
    /\ phaseA # "new"
    /\ \E in \in A!Inputs : ToSet(in) = ToSet(inA) /\ B!CloneSPRS(in)

Next ==
    \/ A!Next /\ UNCHANGED varsB
    \/ CloneB /\ UNCHANGED varsA
    \/ (B!FilterDuplicates \/ B!SortByBalance(Cutoff) \/ B!CreateShortHashes(TopRank))
       /\ UNCHANGED varsA

Spec == Init /\ [][Next]_<<varsA, varsB>>

DistinctAddresses(in) == \A i, j \in DOMAIN in : i # j => in[i].addr # in[j].addr

(* spec.md 5 and 8 (scenario 4): nodes that see the same candidates, in   *)
(* any insertion order, produce byte-identical winners.  sortByBalance    *)
(* orders only by balance, so equal balances keep the ledger order.        *)
(* Duplicated addresses are excluded: there the spec itself lets the first *)
(* entry in ledger order win.                                              *)
WinnersIndependentOfOrder ==
    (phaseA = "done" /\ phaseB = "done" /\ DistinctAddresses(inA)) => shA = shB

=============================================================================
