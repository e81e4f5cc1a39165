--------------------------- MODULE GradedBlockV2 ---------------------------
(***************************************************************************)
(* The graded block of the delegated-stake grader                          *)
(* (src/modules/graderDelegateStake/baseGradedBlockV2.go).                 *)
(*                                                                         *)
(* A block receives the SPRs of one height in ledger order (cloneSPRS),    *)
(* drops every SPR whose coinbase address was already seen                 *)
(* (filterDuplicates), keeps the `limit` SPRs with the largest PEG balance *)
(* using a stable sort (sortByBalance) and derives the short hashes that   *)
(* the next height must reference (createShortHashes).  The order in which *)
(* the grader calls these methods is the pipeline of spec.md 4.4:          *)
(* deduplicate, rank and cut off, then derive the short hashes.            *)
(*                                                                         *)
(* An SPR is abstracted to a record with its identity (which doubles as    *)
(* its short hash), its coinbase address and its PEG balance.              *)
(***************************************************************************)
EXTENDS Integers, Sequences, FiniteSets, SequencesExt

CONSTANTS
    Cands,      \* the SPRs that may appear on the chain at this height
    MaxInput,   \* longest entry list the ledger hands to the grader
    Cutoff,     \* the `limit` given to sortByBalance
    TopRank,    \* the `count` given to createShortHashes
    NoHash      \* the zero value "" of a short hash

ASSUME /\ \A s \in Cands : DOMAIN s = {"id", "addr", "bal"} /\ s.bal \in Nat
       /\ MaxInput \in Nat /\ Cutoff \in Nat \ {0} /\ TopRank \in Nat \ {0}
       /\ TopRank <= Cutoff

VARIABLES
    input,        \* the entry list passed to cloneSPRS (history for the refinement)
    sprs,         \* b.sprs
    count,        \* b.count
    shorthashes,  \* b.shorthashes
    phase         \* which step of the grading pipeline the block has reached

vars == <<input, sprs, count, shorthashes, phase>>

(* Every ledger order of a set of distinct entries, up to MaxInput long.   *)
Inputs == UNION { SetToSeqs(S) : S \in { S \in SUBSET Cands : Cardinality(S) <= MaxInput } }

ShortHash(s) == s.id

-----------------------------------------------------------------------------
(* Pure helpers, one per loop of the Go code.                              *)

(* The loop of filterDuplicates: keep an SPR only if no SPR with the same  *)
(* CoinbaseAddress has been added before it.                               *)
FirstPerAddress(seq) ==
    FoldLeft(LAMBDA acc, v : IF \E i \in DOMAIN acc : acc[i].addr = v.addr
                             THEN acc ELSE Append(acc, v),
             <<>>, seq)

(* sort.SliceStable with less(i, j) = balance[i] > balance[j]: v goes      *)
(* after every element whose balance is at least its own.                  *)
(* Mutant: the comparison of an unstable sort, equal balances reversed.    *)
RECURSIVE InsertByBalanceUnstable(_, _)
InsertByBalanceUnstable(v, sorted) ==
    IF sorted = <<>> \/ v.bal >= Head(sorted).bal
    THEN <<v>> \o sorted
    ELSE <<Head(sorted)>> \o InsertByBalanceUnstable(v, Tail(sorted))

RECURSIVE InsertByBalance(_, _)
InsertByBalance(v, sorted) ==
    IF sorted = <<>> \/ v.bal > Head(sorted).bal
    THEN <<v>> \o sorted
    ELSE <<Head(sorted)>> \o InsertByBalance(v, Tail(sorted))

StableSortByBalance(seq) ==
    FoldLeft(LAMBDA acc, v : InsertByBalance(v, acc), <<>>, seq)

(* b.sprs[:limit] after clamping limit to len(b.sprs).                     *)
Truncate(seq, limit) ==
    SubSeq(seq, 1, IF limit > Len(seq) THEN Len(seq) ELSE limit)

(* Mutant: the hashes are appended to the `count` zero values.             *)
ShortHashesOfAppend(seq, n) ==
    IF Len(seq) >= n
    THEN [i \in 1..n |-> NoHash] \o [i \in 1..n |-> ShortHash(seq[i])]
    ELSE [i \in 1..n |-> NoHash]

(* createShortHashes: count zero-valued entries, filled in only when the   *)
(* block has at least count SPRs.                                          *)
ShortHashesOf(seq, n) ==
    IF Len(seq) >= n
    THEN [i \in 1..n |-> ShortHash(seq[i])]
    ELSE [i \in 1..n |-> NoHash]

-----------------------------------------------------------------------------
Init ==
    /\ input = <<>>
    /\ sprs = <<>>
    /\ count = 0
    /\ shorthashes = <<>>
    /\ phase = "new"

(* Mutant: count off by one.                                                *)
CloneSPRSCountOffByOne(in) ==
    /\ phase = "new"
    /\ input' = in
    /\ sprs' = in
    /\ count' = Len(in) + 1
    /\ phase' = "cloned"
    /\ UNCHANGED shorthashes

(* cloneSPRS: copy the entry list and record its length.                   *)
CloneSPRS(in) ==
    /\ phase = "new"
    /\ input' = in
    /\ sprs' = in
    /\ count' = Len(in)
    /\ phase' = "cloned"
    /\ UNCHANGED shorthashes

(* filterDuplicates: the first SPR of each coinbase address survives.      *)
FilterDuplicates ==
    /\ phase = "cloned"
    /\ sprs' = FirstPerAddress(sprs)
    /\ phase' = "filtered"
    /\ UNCHANGED <<input, count, shorthashes>>

(* sortByBalance(limit): stable sort by descending balance, then cut off.  *)
SortByBalance(limit) ==
    /\ phase = "filtered"
    /\ sprs' = Truncate(StableSortByBalance(sprs), limit)
    /\ phase' = "sorted"
    /\ UNCHANGED <<input, count, shorthashes>>

(* createShortHashes(count): the references for the next height.          *)
CreateShortHashes(n) ==
    /\ phase = "sorted"
    /\ shorthashes' = ShortHashesOf(sprs, n)
    /\ phase' = "done"
    /\ UNCHANGED <<input, sprs, count>>

(* Grading of this height is over; the block is only read from now on.    *)
Graded ==
    /\ phase = "done"
    /\ UNCHANGED vars

Next ==
    \/ \E in \in Inputs : CloneSPRS(in)
    \/ FilterDuplicates
    \/ SortByBalance(Cutoff)
    \/ CreateShortHashes(TopRank)
    \/ Graded

Spec == Init /\ [][Next]_vars

-----------------------------------------------------------------------------
Phases == {"new", "cloned", "filtered", "sorted", "done"}

TypeOK ==
    /\ input \in Seq(Cands) /\ sprs \in Seq(Cands)
    /\ count \in 0..MaxInput
    /\ shorthashes \in Seq({ShortHash(s) : s \in Cands} \cup {NoHash})
    /\ phase \in Phases

(* The padded all-empty vector of a degenerate block stands for "no       *)
(* winners" of spec.md 4.4.                                                *)
WinnerView ==
    IF phase = "done" /\ \E i \in DOMAIN shorthashes : shorthashes[i] # NoHash
    THEN shorthashes ELSE <<>>

Abs == INSTANCE GradedBlock
         WITH graded  <- IF phase = "done" THEN sprs ELSE <<>>,
              winners <- WinnerView,
              state   <- CASE phase = "new"  -> "new"
                           [] phase = "done" -> "done"
                           [] OTHER          -> "received"

(* The grading pipeline as the code runs it (cloneSPRS, filterDuplicates,  *)
(* sortByBalance, createShortHashes) computes exactly the ranking that     *)
(* GradedBlock states declaratively: first SPR per coinbase address,       *)
(* richest first, ties in ledger order, cut at Cutoff, and either TopRank  *)
(* winners or none.                                                        *)
RefinesGradedBlock == Abs!Spec

=============================================================================
