---------------------------- MODULE ValidatorV3 ----------------------------
(***************************************************************************)
(* ValidateV3 (src/modules/grader/v3_util.go): the checks a raw ledger     *)
(* entry must pass to become a candidate, in the order the code makes      *)
(* them, stopping at the first failure.                                    *)
(*                                                                         *)
(* An entry is abstracted to the facts the checks read: the length of the  *)
(* entry hash, the number of ext-IDs, the length of the difficulty ext-ID, *)
(* the version ext-ID's bytes, whether the content decodes, and the        *)
(* decoded height, assets, previous winners and the validity of address    *)
(* and identity.  Error values are named by the check that failed.         *)
(***************************************************************************)
EXTENDS Integers, Sequences, SequencesExt

CONSTANTS
    NAssets,     \* len(opr.V2Assets)
    WinnersLen,  \* the 25 previous winners a V3 record must carry
    NoHash       \* an empty short hash ""

ASSUME NAssets \in Nat \ {0} /\ WinnersLen \in Nat \ {0}

(* The graded block's short-hash vector of a degenerate block.            *)
PaddedWinners == [i \in 1..WinnersLen |-> NoHash]

-----------------------------------------------------------------------------
(* Helpers of the grader package that are not under src/.                  *)

(* verifyWinnerFormat(winners, count): the vector has `count` entries.     *)
VerifyWinnerFormat(w, count) == Len(w) = count

(* verifyWinners(winners, previous): the same short hashes, in order.      *)
VerifyWinners(w, previous) == w = previous

-----------------------------------------------------------------------------
(* Mutant: the address is checked before the winners' count.              *)
ValidateV3AddressFirst(e, height, winners) ==
    CASE e.ehLen # 32                                -> "entryHash"
      [] e.nExt # 3                                  -> "extidCount"
      [] e.diffLen # 8                               -> "difficulty"
      [] Len(e.ver) # 1 \/ e.ver[1] # 3              -> "version"
      [] ~e.decodes                                  -> "decode"
      [] e.height # height                           -> "height"
      [] Len(e.assets) # NAssets                     -> "assets"
      [] \E i \in DOMAIN e.assets : e.assets[i] = 0  -> "zeroAsset"
      [] ~e.addrOK                                   -> "address"
      [] Len(e.winners) # WinnersLen                 -> "winnersLen"
      [] ~e.idOK                                     -> "identity"
      [] ~VerifyWinnerFormat(e.winners, WinnersLen)  -> "winnersFormat"
      [] ~VerifyWinners(e.winners, winners)          -> "winners"
      [] OTHER                                       -> "ok"

(* ValidateV3(entryhash, extids, height, winners, content): "ok" for a    *)
(* GradingOPR, otherwise the first check that failed.                      *)
ValidateV3(e, height, winners) ==
    CASE e.ehLen # 32                                -> "entryHash"
      [] e.nExt # 3                                  -> "extidCount"
      [] e.diffLen # 8                               -> "difficulty"
      [] Len(e.ver) # 1 \/ e.ver[1] # 3              -> "version"
      [] ~e.decodes                                  -> "decode"
      [] e.height # height                           -> "height"
      [] Len(e.assets) # NAssets                     -> "assets"
      [] \E i \in DOMAIN e.assets : e.assets[i] = 0  -> "zeroAsset"
      [] Len(e.winners) # WinnersLen                 -> "winnersLen"
      [] ~e.addrOK                                   -> "address"
      [] ~e.idOK                                     -> "identity"
      [] ~VerifyWinnerFormat(e.winners, WinnersLen)  -> "winnersFormat"
      [] ~VerifyWinners(e.winners, winners)          -> "winners"
      [] OTHER                                       -> "ok"

-----------------------------------------------------------------------------
(* The reference: spec.md 4.2 lists the checks in this order; the result  *)
(* is the first one that fails.  Both winners checks of the code belong to *)
(* the last item, "winners set/order equality".                            *)

SpecOrder == <<"entryHash", "extidCount", "difficulty", "version", "decode",
               "height", "assets", "zeroAsset", "winnersLen", "address",
               "identity", "winners">>

Fails(e, height, winners, check) ==
    CASE check = "entryHash"  -> e.ehLen # 32
      [] check = "extidCount" -> e.nExt # 3
      [] check = "difficulty" -> e.diffLen # 8
      [] check = "version"    -> e.ver # <<3>>
      [] check = "decode"     -> ~e.decodes
      [] check = "height"     -> e.height # height
      [] check = "assets"     -> Len(e.assets) # NAssets
      [] check = "zeroAsset"  -> \E v \in ToSet(e.assets) : v = 0
      [] check = "winnersLen" -> Len(e.winners) # WinnersLen
      [] check = "address"    -> ~e.addrOK
      [] check = "identity"   -> ~e.idOK
      [] check = "winners"    -> e.winners # winners

SpecValidate(e, height, winners) ==
    LET failed == SelectSeq(SpecOrder, LAMBDA c : Fails(e, height, winners, c))
    IN  IF failed = <<>> THEN "ok" ELSE Head(failed)

(* The code's error, named by the item of spec.md 4.2 it belongs to.       *)
SpecName(err) == IF err = "winnersFormat" THEN "winners" ELSE err

(* Entries over which the two are compared: every combination of passing  *)
(* and failing field, for heights hs and winner vectors ws.                *)
Entries(hs, ws) ==
    [ehLen : {32, 31}, nExt : {3, 2}, diffLen : {8, 7},
     ver : {<<3>>, <<2>>, <<3, 3>>}, decodes : BOOLEAN, height : hs,
     assets : {[i \in 1..NAssets |-> 5], [i \in 1..NAssets |-> i - 1],
               [i \in 1..(NAssets - 1) |-> 5]},
     winners : ws, addrOK : BOOLEAN, idOK : BOOLEAN]

==============================================================================
