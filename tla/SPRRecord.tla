----------------------------- MODULE SPRRecord -----------------------------
(***************************************************************************)
(* The staking price record (src/spr/spr.go) along its path through the    *)
(* node: the coordinator's minute-1 handler makes a template with NewSpr   *)
(* and takes its hash with GetHash (src/staking/coordinator.go); the entry *)
(* writer clones the template and turns it into a Factom entry             *)
(* (CloneEntryData, CreateSPREntry); a reader decodes the entry content    *)
(* into a fresh record (SafeUnmarshal) and hashes it again (GetHash).      *)
(*                                                                         *)
(* The protobuf encoding is abstracted to a record of its positional       *)
(* fields (address, height, prices); SHA-256 to an injective tag on the    *)
(* bytes.  The configuration, the price poller and the network activation  *)
(* table are the environment.                                              *)
(***************************************************************************)
EXTENDS Integers, Sequences, FiniteSets, SequencesExt

CONSTANTS
    Heights,        \* directory-block heights NewSpr may be called for
    Networks,       \* the names GetNetwork returns
    Activation,     \* network -> first height at which it is active
    Versions,       \* values common.SPRVersion may return
    AssetsV4,       \* common.AssetsV4, the list SafeMarshal indexes
    AssetsV1,       \* the list the poller returns for version 1
    Prices,         \* uint64 prices the poller may report (0 included)
    Addresses,      \* coinbase addresses a config may hold
    ValidFCT,       \* those that pass ValidFCTAddress
    DebugFCT,       \* common.DebugFCTaddresses[0][1]
    TestNetwork,    \* common.TestNetwork
    NoSPR, NoEntry, NoAddr

ASSUME /\ ValidFCT \subseteq Addresses /\ DebugFCT \in ValidFCT
       /\ TestNetwork \in Networks
       /\ Activation \in [Networks -> Nat] /\ "invalid" \notin Networks
       /\ 0 \in Prices

VARIABLES
    spr,        \* the coordinator's sprTemplate
    result,     \* outcome of the last NewSpr call
    sprHash,    \* the coordinator's sprHash
    entry,      \* the Factom entry made from the template
    reader,     \* the record a reader decoded from the entry
    readerErr   \* SafeUnmarshal returned an error

vars == <<spr, result, sprHash, entry, reader, readerErr>>

NoHash == <<>>                       \* an empty []byte
Sha256(data) == [sha256 |-> data]
AllAssets == ToSet(AssetsV4) \cup ToSet(AssetsV1)

(* NewStakingPriceRecord: zero values and an empty asset map.              *)
NewStakingPriceRecord ==
    [network |-> "", chain |-> "", dbht |-> 0, version |-> 0,
     coinbase |-> NoAddr, assets |-> [a \in {} |-> 0], hash |-> NoHash]

-----------------------------------------------------------------------------
(* Collaborators not under src/.                                           *)

NetworkActive(net, h) == net \in Networks /\ h >= Activation[net]

(* PollingDataSource.PullAllPEGAssets(version): the assets of that version *)
(* with their prices, or an error.                                         *)
PollResults(v) ==
    {[err |-> TRUE, assets |-> [a \in {} |-> 0]]} \cup
    {[err |-> FALSE, assets |-> m] : m \in [ToSet(IF v = 4 THEN AssetsV4 ELSE AssetsV1) -> Prices]}

-----------------------------------------------------------------------------
(* The codec.                                                              *)

MapGet(m, a) == IF a \in DOMAIN m THEN m[a] ELSE 0

(* `prices` has len(spr.Assets) slots and the loop writes slot i for      *)
(* every i of AssetsV4: index out of range when the map is smaller.        *)
SafeMarshalPanics(s) == Len(AssetsV4) > Cardinality(DOMAIN s.assets)

SafeMarshal(s) ==
    LET n == Cardinality(DOMAIN s.assets)
    IN  [address |-> s.coinbase, height |-> s.dbht,
         prices  |-> [i \in 1..n |-> IF i <= Len(AssetsV4)
                                     THEN MapGet(s.assets, AssetsV4[i]) ELSE 0]]

(* SafeUnmarshal into s: address, height and an empty asset map are set   *)
(* before the length check, the assets only after it.                      *)
SafeUnmarshal(s, data) ==
    LET ok == Len(data.prices) = Len(AssetsV4)
        base == [s EXCEPT !.coinbase = data.address, !.dbht = data.height,
                          !.assets = [a \in {} |-> 0]]
    IN  [err |-> ~ok,
         rec |-> IF ok
                 THEN [base EXCEPT !.assets =
                         [a \in ToSet(AssetsV4) |->
                            data.prices[CHOOSE i \in DOMAIN AssetsV4 : AssetsV4[i] = a]]]
                 ELSE base]

(* GetHash: the cached hash, else the hash of SafeMarshal, cached.         *)
GetHash(s) ==
    IF s.hash # NoHash THEN s ELSE [s EXCEPT !.hash = Sha256(SafeMarshal(s))]

-----------------------------------------------------------------------------
(* The record's methods.                                                   *)

(* Validate(c, dbht); `pegnet` is the Pegnet.Network setting.              *)
Validate(s, pegnet, dbht) ==
    /\ NetworkActive(pegnet, dbht)
    /\ \A a \in DOMAIN s.assets : s.assets[a] # 0
    /\ s.coinbase \in ValidFCT
    /\ s.dbht = dbht
    /\ DOMAIN s.assets = ToSet(AssetsV4)

(* Mutant: the hash is taken before the polled prices are set.             *)
GetSPRecordHashFirst(s, peg) ==
    LET hashed == [s EXCEPT !.hash = Sha256(SafeMarshal(s))]
    IN  [panic |-> FALSE, rec |-> [hashed EXCEPT !.assets = peg.assets]]

(* SetPegValues: every polled asset's value into the (empty) asset map.    *)
SetPegValues(s, peg) == [s EXCEPT !.assets = [a \in DOMAIN s.assets \cup DOMAIN peg |->
                                               IF a \in DOMAIN peg THEN peg[a] ELSE s.assets[a]]]

(* GetSPRecord once the poll returned `peg`: SetPegValues, then the hash  *)
(* of SafeMarshal (which may panic).                                       *)
GetSPRecord(s, peg) ==
    LET filled == SetPegValues(s, peg.assets)
    IN  [panic |-> SafeMarshalPanics(filled),
         rec   |-> IF SafeMarshalPanics(filled) THEN filled
                   ELSE [filled EXCEPT !.hash = Sha256(SafeMarshal(filled))]]

(* Mutant: the chain ID is not copied.                                      *)
CloneEntryDataNoChain(s) ==
    [NewStakingPriceRecord EXCEPT !.dbht = s.dbht,
        !.version = s.version, !.coinbase = s.coinbase, !.assets = s.assets]

(* CloneEntryData: every entry field, no cached hash.                      *)
CloneEntryData(s) ==
    [NewStakingPriceRecord EXCEPT !.chain = s.chain, !.dbht = s.dbht,
        !.version = s.version, !.coinbase = s.coinbase, !.assets = s.assets]

(* CreateSPREntry: chain, version ext-ID and the marshalled content.       *)
CreateSPREntry(s) == [chain |-> s.chain, version |-> s.version, content |-> SafeMarshal(s)]

Configs == [protocol : BOOLEAN, staker : Networks \cup {"invalid"},
            pegnet : Networks \cup {""}, coinbase : Addresses \cup {NoAddr}]

(* NewSpr(ctx, dbht, c) with configuration cfg, common.SPRVersion v and   *)
(* poll result peg: the error it returns, or "ok" and the record.          *)
NewSpr(cfg, dbht, v, peg) ==
    LET base == [NewStakingPriceRecord EXCEPT
                   !.network = cfg.staker, !.chain = cfg.staker,
                   !.dbht = dbht, !.version = v,
                   !.coinbase = IF cfg.staker = TestNetwork THEN DebugFCT ELSE cfg.coinbase]
        got  == GetSPRecord(base, peg)
    IN  CASE ~cfg.protocol                                   -> [res |-> "noProtocol", rec |-> NoSPR]
          [] cfg.staker = "invalid"                          -> [res |-> "noNetwork", rec |-> NoSPR]
          [] cfg.staker # TestNetwork /\ cfg.coinbase = NoAddr -> [res |-> "noCoinbase", rec |-> NoSPR]
          [] peg.err                                         -> [res |-> "pollError", rec |-> NoSPR]
          [] got.panic                                       -> [res |-> "panic", rec |-> NoSPR]
          [] ~Validate(got.rec, cfg.pegnet, dbht) /\ ~NetworkActive(cfg.staker, dbht)
                                                             -> [res |-> "inactive", rec |-> NoSPR]
          [] ~Validate(got.rec, cfg.pegnet, dbht)            -> [res |-> "invalid", rec |-> NoSPR]
          [] OTHER                                           -> [res |-> "ok", rec |-> got.rec]

-----------------------------------------------------------------------------
Init ==
    /\ spr = NoSPR
    /\ result = "none"
    /\ sprHash = NoHash
    /\ entry = NoEntry
    /\ reader = NoSPR
    /\ readerErr = FALSE

(* The minute-1 branch of LaunchStaker when not staking: NewSPR, then      *)
(* sprHash = sprTemplate.GetHash().  A panic ends the node.                *)
StakeTemplate ==
    /\ spr = NoSPR
    /\ result # "panic"
    /\ \E cfg \in Configs, dbht \in Heights, v \in Versions :
       \E peg \in PollResults(IF v = 0 THEN 4 ELSE 1) :
         LET o == NewSpr(cfg, dbht, v, peg)
         IN  /\ result' = o.res
             /\ IF o.res = "ok"
                THEN /\ spr' = GetHash(o.rec)
                     /\ sprHash' = GetHash(o.rec).hash
                ELSE UNCHANGED <<spr, sprHash>>
    /\ UNCHANGED <<entry, reader, readerErr>>

(* The entry writer publishes the template: CreateSPREntry of a clone.     *)
WriteEntry ==
    /\ spr # NoSPR
    /\ entry = NoEntry
    /\ entry' = CreateSPREntry(CloneEntryData(spr))
    /\ UNCHANGED <<spr, result, sprHash, reader, readerErr>>

(* A reader decodes the entry content into a new record and hashes it.    *)
ReadEntry ==
    /\ entry # NoEntry
    /\ reader = NoSPR
    /\ LET u == SafeUnmarshal(NewStakingPriceRecord, entry.content)
       IN  /\ readerErr' = u.err
           /\ reader' = IF u.err THEN u.rec ELSE GetHash(u.rec)
    /\ UNCHANGED <<spr, result, sprHash, entry>>

(* The record has been read back, or the node has crashed.                 *)
Done ==
    /\ reader # NoSPR \/ result = "panic"
    /\ UNCHANGED vars

Next == StakeTemplate \/ WriteEntry \/ ReadEntry \/ Done

Spec == Init /\ [][Next]_vars

-----------------------------------------------------------------------------
Bytes == [address : Addresses \cup {NoAddr}, height : Heights \cup {0}, prices : Seq(Prices)]

Records ==
    [network : Networks \cup {"", "invalid"}, chain : Networks \cup {"", "invalid"},
     dbht : Heights \cup {0}, version : Versions \cup {0},
     coinbase : Addresses \cup {NoAddr},
     assets : UNION {[S -> Prices] : S \in SUBSET AllAssets},
     hash : {NoHash} \cup [sha256 : Bytes]]

TypeOK ==
    /\ spr \in {NoSPR} \cup Records
    /\ result \in {"none", "ok", "noProtocol", "noNetwork", "noCoinbase",
                   "pollError", "panic", "inactive", "invalid"}
    /\ sprHash \in {NoHash} \cup [sha256 : Bytes]
    /\ entry \in {NoEntry} \cup [chain : Networks, version : Versions, content : Bytes]
    /\ reader \in {NoSPR} \cup Records
    /\ readerErr \in BOOLEAN

(* The hash the coordinator hands to the staker (the cached SPRHash set by *)
(* GetSPRecord) is the hash every reader computes from the published       *)
(* entry: the cache is filled after the prices are set, and the clone,     *)
(* SafeMarshal and SafeUnmarshal round trip loses nothing.                 *)
StakedHashMatchesEntry ==
    reader # NoSPR => ~readerErr /\ reader.hash = sprHash

(* NewSpr returns a record or an error; it never takes the node down.     *)
NewSprNeverPanics == result # "panic"

=============================================================================
