---------------------------- MODULE GradedChain ----------------------------
(***************************************************************************)
(* The chain of graded blocks: at every height the grader validates the    *)
(* entries on the ledger with ValidateV3 against the previous block's      *)
(* short hashes, grades the admitted records in ledger order with the      *)
(* graded block (cloneSPRS, filterDuplicates, sortByBalance,               *)
(* createShortHashes) and hands the new short hashes to the next height    *)
(* (spec.md 4.2, 4.4, 4.5).                                                *)
(*                                                                         *)
(* An entry carries the SPR it stands for (identity, address, balance)     *)
(* and the fields ValidateV3 reads.  Miners publish well-formed entries    *)
(* referencing the previous winners, the same winners reversed, an empty   *)
(* vector, or a record of the previous height arriving late.               *)
(***************************************************************************)
EXTENDS ValidatorV3, FiniteSets

CONSTANTS
    Cands,       \* the SPRs entries may carry
    Cutoff,      \* the `limit` of sortByBalance
    MaxHeight,   \* heights graded in a behaviour
    MaxEntries   \* entries on the ledger per height

VARIABLES
    height,      \* the height being graded
    prev,        \* short hashes of block height - 1
    ledger,      \* entries of this height, in ledger order
    linked,      \* short hashes the last graded height had to reference
    admitted,    \* winners vectors of the entries admitted at that height
    rejected     \* [winners, reason] of the entries rejected at that height

vars == <<height, prev, ledger, linked, admitted, rejected>>

GB == INSTANCE GradedBlockV2
        WITH MaxInput <- MaxEntries, TopRank <- WinnersLen,
             input <- <<>>, sprs <- <<>>, count <- 0, shorthashes <- <<>>, phase <- "new"

(* The graded block's pipeline over the admitted records.                  *)
GradeSPRs(seq) ==
    GB!ShortHashesOf(GB!Truncate(GB!StableSortByBalance(GB!FirstPerAddress(seq)), Cutoff),
                     WinnersLen)

(* A well-formed V3 entry of height h for SPR s referencing winners w.     *)
Entry(s, h, w) ==
    [spr |-> s, ehLen |-> 32, nExt |-> 3, diffLen |-> 8, ver |-> <<3>>,
     decodes |-> TRUE, height |-> h, assets |-> [i \in 1..NAssets |-> 5],
     winners |-> w, addrOK |-> TRUE, idOK |-> TRUE]

Offers ==
    { Entry(s, height, w) : s \in Cands, w \in {prev, Reverse(prev), <<>>} }
    \cup { Entry(CHOOSE s \in Cands : TRUE, height - 1, prev) }

-----------------------------------------------------------------------------
Init ==
    /\ height = 1
    /\ prev \in { GradeSPRs(in) : in \in GB!Inputs }
    /\ ledger = <<>>
    /\ linked = prev
    /\ admitted = {}
    /\ rejected = {}

(* A miner's entry for this height lands on the ledger.                    *)
Publish ==
    /\ height <= MaxHeight
    /\ Len(ledger) < MaxEntries
    /\ \E e \in Offers : ledger' = Append(ledger, e)
    /\ UNCHANGED <<height, prev, linked, admitted, rejected>>

(* The grader handles the block: every entry is validated against the     *)
(* previous short hashes, the admitted ones are graded in ledger order.    *)
Grade ==
    /\ height <= MaxHeight
    /\ LET verdict == [i \in DOMAIN ledger |-> ValidateV3(ledger[i], height, prev)]
           ok      == {i \in DOMAIN ledger : verdict[i] = "ok"}
           okIdx   == SelectSeq([i \in DOMAIN ledger |-> i], LAMBDA i : verdict[i] = "ok")
           sh      == GradeSPRs([k \in DOMAIN okIdx |-> ledger[okIdx[k]].spr])
       IN  /\ prev' = sh
           /\ linked' = prev
           /\ admitted' = {ledger[i].winners : i \in ok}
           /\ rejected' = {[winners |-> ledger[i].winners, reason |-> verdict[i]] :
                              i \in DOMAIN ledger \ ok}
    /\ height' = height + 1
    /\ ledger' = <<>>

(* Every height has been graded.                                           *)
Done ==
    /\ height > MaxHeight
    /\ UNCHANGED vars

Next == Publish \/ Grade \/ Done

Spec == Init /\ [][Next]_vars

-----------------------------------------------------------------------------
Hashes == {s.id : s \in Cands} \cup {NoHash}

TypeOK ==
    /\ height \in 1..(MaxHeight + 1)
    /\ prev \in [1..WinnersLen -> Hashes]
    /\ Len(ledger) <= MaxEntries
    /\ linked \in [1..WinnersLen -> Hashes]
    /\ admitted \subseteq {prev, Reverse(prev), <<>>} \cup [1..WinnersLen -> Hashes]
    /\ \A r \in rejected : r.reason \in ToSet(SpecOrder) \cup {"winnersFormat"}

(* A winners vector of distinct short hashes, and its variations.          *)
RefWinners ==
    CHOOSE w \in [1..WinnersLen -> {s.id : s \in Cands}] : IsInjective(w)

(* The comparison below is a constant; TLC evaluates it once.               *)
ValidatorAgrees ==
    \A e \in Entries({1, 2}, {RefWinners, Reverse(RefWinners), <<>>, PaddedWinners}) :
        SpecName(ValidateV3(e, 1, RefWinners)) = SpecValidate(e, 1, RefWinners)

(* ValidateV3 stops at the first failing check of spec.md 4.2, taken in   *)
(* the order spec.md lists them, over every combination of failing fields. *)
ValidatorMatchesSpec == ValidatorAgrees

WinnerChecks == {"winnersLen", "winnersFormat", "winners"}

(* spec.md 4.4 and 8 (scenario 3): after a degenerate block, candidates    *)
(* that reference an empty winners vector are admitted.                    *)
DegenerateLinkAdmitsEmpty ==
    \A r \in rejected :
        (linked = PaddedWinners /\ r.winners = <<>>) => r.reason \notin WinnerChecks

==============================================================================
