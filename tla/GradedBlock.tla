---------------------------- MODULE GradedBlock ----------------------------
(***************************************************************************)
(* What a graded block promises (spec.md 4.4, 8), stated without the      *)
(* algorithm: the graded SPRs are the first SPR of every coinbase address, *)
(* ranked by descending PEG balance with equal balances left in ledger     *)
(* order, cut off after Cutoff entries; the winners are the short hashes   *)
(* of the first TopRank of them, or nothing when there are fewer.          *)
(***************************************************************************)
EXTENDS Integers, Sequences, FiniteSets, SequencesExt

CONSTANTS Cands, MaxInput, Cutoff, TopRank

VARIABLES input, graded, winners, state

Inputs == UNION { SetToSeqs(S) : S \in { S \in SUBSET Cands : Cardinality(S) <= MaxInput } }

Pos(seq, x) == CHOOSE i \in DOMAIN seq : seq[i] = x

(* The SPRs that no earlier entry with the same address shadows.          *)
Survivors(in) ==
    { in[i] : i \in { i \in DOMAIN in : \A j \in 1..(i - 1) : in[j].addr # in[i].addr } }

RankedBefore(in, x, y) ==
    \/ x.bal > y.bal
    \/ x.bal = y.bal /\ Pos(in, x) < Pos(in, y)

Ranking(in) ==
    CHOOSE r \in SetToSeqs(Survivors(in)) :
        \A i, j \in DOMAIN r : i < j => RankedBefore(in, r[i], r[j])

GradedOf(in) ==
    LET r == Ranking(in)
    IN  SubSeq(r, 1, IF Cutoff < Len(r) THEN Cutoff ELSE Len(r))

WinnersOf(g) ==
    IF Len(g) >= TopRank THEN [i \in 1..TopRank |-> g[i].id] ELSE <<>>

Init ==
    /\ input = <<>>
    /\ graded = <<>>
    /\ winners = <<>>
    /\ state = "new"

Receive(in) ==
    /\ state = "new"
    /\ input' = in
    /\ state' = "received"
    /\ UNCHANGED <<graded, winners>>

Grade ==
    /\ state = "received"
    /\ graded' = GradedOf(input)
    /\ winners' = WinnersOf(graded')
    /\ state' = "done"
    /\ UNCHANGED input

Next == (\E in \in Inputs : Receive(in)) \/ Grade

Spec == Init /\ [][Next]_<<input, graded, winners, state>>

=============================================================================
