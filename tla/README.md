# TLA+ models of PegNet

This directory holds TLA+ models of the PegNet node sources under `src/`. Each
module models one component. TLC checks each module against the properties
that make that component correct. `PROJECT.json` lists the components, the runs,
the mutants that show each property can fail, the mapping from every modelled
definition to source lines, the findings and the hazards.

## 1. Inventory

The repository's `src/` holds fragments of a PegNet node. The table lists them by component.

| Component | Source | State it keeps | Operations |
|---|---|---|---|
| Graded block (delegated-stake grader) | `modules/graderDelegateStake/baseGradedBlockV2.go` | `sprs`, `count`, `cutoff`, `height`, `shorthashes` | `cloneSPRS`, `filterDuplicates`, `sortByBalance(limit)`, `createShortHashes(count)`, getters |
| Entry validator V3 | `modules/grader/v3_util.go` | none (pure) | `ValidateV3`: twelve checks in a fixed short-circuit order, then builds a `GradingOPR` |
| Staking price record (SPR) | `spr/spr.go` | `Assets`, `Dbht`, `Version`, addresses, cached `SPRHash` | `NewSpr`, `GetSPRecord`, `Validate`, `GetHash` (cached), `SafeMarshal`/`SafeUnmarshal`, `CreateSPREntry`, `CloneEntryData` |
| Staking coordinator | `staking/coordinator.go` | loop locals `staking`, `sprTemplate`; the listener channel; a command channel of capacity 10 | `LaunchStaker` event loop, `NewStaker`, `SendCommand`, `CommandBuilder` |
| Chain-creation tool | `initialization/main.go` | factomd's chains (external), the loop's `commitErr`/`revealErr`/`i` | `main` walks the chain map; `CreateChain` checks existence, then runs a commit/reveal retry loop of ≤1000 iterations |
| CLI | `cmd/cmd.go`, `cmd/root.go`, `cmd/services.go` | wallet transaction `"burn"` (external), config | `burn`, `getencoding`, `newaddress`, `datasources`, RPC wrappers, service launchers |
| Chain recorder | `opr/recorder.go` | a CSV file | `WritePriceCSV`, `WriteMinerCSV` |
| Backoff and polling helpers | `common/backoff.go`, `polling/utils.go` | none | backoff constants, `Round`, `ConverToUnix`, `UpdatePegAssets` |
| Common helpers | `common/common.go`, `common/factomUtils.go` | none | network names, burn addresses, chain IDs, delegator signature file |

**Interactions.**
- The Factom monitor is not under `src/`. It publishes `(height, minute)` events on a listener channel.
- `LaunchStaker` consumes those events. On minute 1 it queries the entry-credit balance and asks the SPR maker for an SPR (`NewSpr` → `GetSPRecord` → polling → `SafeMarshal` → SHA-256 → `Validate`). On minute 8 it stops staking.
- The grader (its `Grade` function is not under `src/`) feeds each height's SPRs through the graded block. The block's short hashes are the `previous winners` that `ValidateV3` demands of the next height's records.
- The chain-creation tool talks to factomd through the factom client: `ChainExists`, `CommitChain`, `RevealChain`.

**What is hard.**
- The staking loop races the monitor's events against context cancellation. It also depends on seeing every minute of every block.
- NewSPR may fail or be cancelled after the `staking` flag is set.
- Grading must give the same winners on every node. Tie-breaks and duplicates are where nodes can disagree.
- A degenerate block (too few SPRs) must still link to the next one.
- The chain-creation loop retries factomd calls that can fail transiently or lose their reply. The process can exit halfway through the chain map and be rerun.
- Two CLI `burn` processes share one wallet transaction name.
- Several index computations sit at an off-by-one boundary: `WriteMinerCSV`, `SafeMarshal`, `Round`.

**Properties that make each component correct.**
- Graded block:
  - the graded SPRs are the first SPR of every address, ranked by balance and cut off;
  - there are either `TopRank` winners or none;
  - the result does not depend on the order of the entries (spec.md 5, 8).
- Validator: the checks run in the order spec.md 4.2 gives, and a record passes only if every check holds.
- SPR:
  - the cached hash is the hash of the current content;
  - `SafeUnmarshal(SafeMarshal(x)) = x` for every record that `Validate` accepts.
- Staking loop:
  - the template in use is for the current height;
  - cancellation ends the loop.
- Chain creation:
  - a chain reported as created exists;
  - transient failures are retried, not turned into a fatal exit.
- Burn: the transaction that is sent is the one this process built and checked against its balance.

## 2. Plan

Modules, in the order of importance. ✓ marks what exists.

1. ✓ `GradedBlockV2`: the graded block. `GradedBlock` is its abstract specification. `GraderDeterminism` composes two copies of the block (two nodes).
2. ✓ `StakingCoordinator`: construction (`NewStakingCoordinatorFromConfig`, `InitStaker`) and the `LaunchStaker` loop with the monitor as its environment.
3. ✓ `ChainCreation`: `main` (setup and map walk) plus `CreateChain` against a faulty factomd, with reruns.
4. ✓ `ValidatorV3`: `ValidateV3` as an operator returning the first failing check, compared with a reference built from spec.md 4.2. ✓ `GradedChain` composes it with the graded block across heights.
5. ✓ `SPRRecord`: the `NewSpr` lifecycle, the `GetHash` cache and the codec round trip.
6. ✓ `BurnCommand`: the wallet transaction sequence of `burn` for two processes, with the network configuration it reads.
7. Left: the staking coordinator's `NewStaker`, `SendCommand` and `CommandBuilder`. Nothing under `src/` calls them, so no behaviour of the program reaches them.
8. Left: `WriteMinerCSV` and `Round`. Both are stateless and sequential; see section 6.

## 3. Modules and how they map to the code

### GradedBlockV2 (`baseGradedBlockV2.go`)

**State.** The variables are `sprs`, `count`, `shorthashes` and `phase`. `input` is a history variable holding the entry list passed to `cloneSPRS`.

**Data.** An SPR is a record `[id, addr, bal]`. `id` is its identity and stands for its short hash. `addr` is its coinbase address and `bal` its PEG balance.

**Actions.** Each method is an action, and each loop is a helper operator:
- `FirstPerAddress` is the loop of `filterDuplicates`.
- `InsertByBalance` and `StableSortByBalance` model `sort.SliceStable` with `>` on balance.
- `Truncate` is the clamp and slice.
- `ShortHashesOf` is `createShortHashes`.

The pipeline order comes from spec.md 4.4, because the grader's `Grade` is not under `src/`. `Graded` is the final state, where the block is only read.

**Abstract specification.** `GradedBlock` states the same result declaratively:
- the survivors are the entries that no earlier entry with the same address shadows;
- the ranking is the unique order of the survivors by balance, with equal balances in ledger order;
- the ranking is cut at `Cutoff`;
- there are `TopRank` winners, or none.

The refinement mapping shows `sprs` as `graded` once the block is done. An all-empty short-hash vector maps to "no winners".

**Composition.** `GraderDeterminism` instantiates the block twice. Node B receives a reordering of node A's entries.

### StakingCoordinator (`coordinator.go`, `LaunchStaker`)

**Environment: the monitor.** The monitor is modelled from spec.md 5 and 6. `monitor` is the next event. `Publish` appends it to `alert` while the channel has room. `MinuteSkips` selects between two behaviours:
- FALSE: every minute is published in order.
- TRUE: the monitor may jump ahead.

**Actions of the loop.**
- `Construct` is `NewStakingCoordinatorFromConfig` and `InitStaker`. A failed config read or `PopulateECAddress` panics, so the loop never starts (`built = "panic"`). Publishing and the loop wait for a successful construction, since the listener is only created in `LaunchStaker`.
- `HandleAlert` is one loop iteration that took an event, including the minute-1 branch `MinuteOne`.
- In `MinuteOne`, the balance query and `NewSPR` results are nondeterministic: `error`, `zero` or `positive` for the balance, and `ok`, `canceled` or `error` for `NewSPR`.
- `Return` is the `ctx.Done()` case. `Cancel` is the exit handler cancelling the context.

**Data.** `sprTemplate` is abstracted to the height it was made for. The local `sprHash` is assigned at minute 1 but never read, so it is left out. `seen` records the last handled event. The `first` flag and all logging are left out.

### ChainCreation (`initialization/main.go`)

**Environment: factomd.** `committed` and `revealed` are factomd's state:
- a commit is accepted once per chain;
- a reveal succeeds only for a committed, unrevealed chain;
- up to `MaxFaults` calls fail transiently, and a commit may be applied with its reply lost.

**Actions.**
- `Setup` is `main` before the map walk: config reads that panic, and `FetchECAddress`, whose failure is `log.Fatal`. It then builds the chain map.
- `StartChain` picks the next chain in Go's random map order and runs `ChainExists`.
- `Iterate` is one iteration of the retry loop: `CallResults` gives the possible results of the commit and reveal calls under the code's two retry tests `RetryCommit` and `RetryReveal`, and `CallAndTest` applies them and takes the loop's exit test. The two mutants of `Iterate` reuse `CallAndTest` with another exit test or without the bound.
- `GiveUp` is the loop running out, followed by `log.Fatal`.
- `Finish` is the end of the map walk.
- `Rerun` is the operator starting the tool again. factomd keeps its state across reruns.

### ValidatorV3 (`modules/grader/v3_util.go`)

**Entries.** An entry is a record of the facts the checks read: the entry-hash length, the ext-ID count, the difficulty length, the version bytes, whether the content decodes, the height, the assets, the winners, and whether the address and identity are valid.

**Operators.**
- `ValidateV3` is the CASE of the code's checks in the code's order. It names the first check that fails, or gives `"ok"`.
- `VerifyWinnerFormat` and `VerifyWinners` model grader helpers that are not under `src/`.
- `SpecValidate` is the reference: the first failing item in spec.md 4.2's order, computed with `SelectSeq`.

### GradedChain (composition)

**State.** `height`, the previous block's short hashes `prev`, and the `ledger` of the current height. The result of the last grading is `linked`, `admitted` and `rejected`.

**Actions.**
- `Publish` lands a miner's entry on the ledger. The entry may reference `prev`, `prev` reversed, an empty vector, or be a late entry of the previous height.
- `Grade` validates each entry with `ValidateV3` against `prev`, grades the admitted SPRs in ledger order through the `GradedBlockV2` pipeline (instantiated as `GB`), and hands the new short hashes to the next height.

### SPRRecord (`spr/spr.go`, minute 1 of `coordinator.go`)

**State.** The coordinator's template `spr` and `sprHash`, the published `entry`, and the `reader`'s decoded record.

**Data.** Protobuf encoding is a record of its positional fields. SHA-256 is an injective tag on that record.

**Operators.**
- `NewSpr` is the CASE of the code's error returns, in order.
- `GetSPRecord` is `SetPegValues`, followed by a `SafeMarshal` that may panic and the hash.
- `SafeUnmarshal` keeps the code's partial update: address, height and an empty map are set before the length check.

**Actions.**
- `StakeTemplate` is the minute-1 branch: `NewSpr`, then `GetHash`.
- `WriteEntry` is `CreateSPREntry(CloneEntryData(spr))`.
- `ReadEntry` is `SafeUnmarshal` followed by `GetHash`.

### BurnCommand (`cmd/cmd.go` burn, `cmd/root.go` CmdError, `common/common.go` networks)

**Processes.** Each process runs `burn.Run` once. `pc` walks the code's steps: `Start` (the initial `DeleteTransaction`), `Check` (config network, address, balance), `New`, `Input`, `Output`, `Sign` (unforced: only "Insufficient Fee" is fatal), `Force`, `Compose` (dry run, then `os.Exit(0)`), `Send`, and `Cleanup` (the deferred `DeleteTransaction`).

**Errors.**
- `Fail` is `CmdError`: `os.Exit(1)`, so the deferred delete does not run.
- `Fault` is a failed wallet RPC at any step whose error is fatal.

**Environment: the wallet.** The wallet is one slot, `tx`, for the name "burn":
- `NewTransaction` refuses a name in use.
- `SendTransaction` needs a signed transaction with an input, and forgets it once sent.

**Networks.** `GetNetwork`, `LoadConfigNetwork` and `PegnetBurnAddress` are translated from `common.go`. The unit-test network has no burn address, so its output fails.

**History.** `overlapped` records whether another run was active during a run.

## 4. Runs

| Run | Expect | What it shows |
|---|---|---|
| `graded_block` | pass | The pipeline refines `GradedBlock` for every ledger order of up to 4 of 5 SPRs. There are 3 addresses, two of them with two SPRs, and tied balances. `Cutoff = 2` and `TopRank = 2`, so both the cut and the degenerate case occur. |
| `grader_determinism` | violation | Two nodes given the same SPRs in different orders disagree on the winners' order when balances tie. spec.md 5 and 8 require identical output. |
| `staking_loop` | pass | `MaxHeight = 3` (three full blocks of 10 minutes), `AlertCap = 2`, and the monitor starts at any minute. Construction may fail. Checked: `TemplateCurrent`, and `ListenerDrained` (a full listener channel is drained again unless the context was cancelled: every error branch of minute 1 continues the loop, so the monitor is never blocked for good while the node runs). `ListenerDrained` assumes weak fairness of `HandleAlert` only. |
| `staking_minute_skips` | violation | If minute 8 is skipped, the height-1 template is kept at height 2. |
| `chain_creation` | pass | 2 chains, `MaxIter = 3`, up to 2 factomd faults, setup failures, 3 runs of the tool. A reported chain always exists (`ReportedChainsExist`). |
| `chain_creation_retry` | violation | One transient failure makes the tool exit with a fatal error: a failed reveal is never retried, and a commit whose reply was lost is retried as a refused repeat although the chain was created. |
| `spr_record` | pass | Over heights 1–3, two networks, versions 0 and 5, prices including 0, and valid, debug and invalid addresses: the hash handed to the staker is the hash a reader computes from the published entry (`StakedHashMatchesEntry`). |
| `spr_short_asset_list` | violation | A version-1 poll returns fewer assets than `AssetsV4`. `SafeMarshal` then indexes past the end, and `NewSpr` panics. |
| `graded_chain` | pass | Two heights, ledgers of up to 2 entries from 3 SPRs (2 addresses), and 2 winners. `ValidateV3` agrees with spec.md 4.2's order on every combination of failing fields (`ValidatorMatchesSpec`). |
| `degenerate_link` | violation | After a degenerate block, padded with empty short hashes, a record referencing the empty winners vector is rejected for its winners count. |
| `burn_runs` | pass | Two burns in every overlap, with dry runs, tiny amounts, four config values (another casing, an alias, the unit-test network, a wrong name), a missing setting and one failing RPC. A burn that ran alone is never blocked by a transaction an earlier run left in the wallet (`NoNameConflict`). |
| `burn_concurrent` | violation | Two overlapping burns: one sends a transaction holding the other's FCT input and no EC output. |

**Bounds.**
- Graded block: every ordering of every subset of up to 4 SPRs is enumerated. That covers the first-occurrence rule, a tie across the cut-off, and fewer survivors than `TopRank`.
- Staking loop: 3 heights are enough for a template to outlive its block. A channel of 2 makes the monitor block.
- Chain creation: `MaxIter = 3` leaves room for a retry after a failure. Two faults allow a lost reply followed by another failure. The retry run disables setup failures, so its violation comes from the loop.
- SPR: two assets against three (or one) in the version-1 list are enough to make the two lists differ in either direction.
- Graded chain: `WinnersLen = 2` with 3 candidate short hashes tells a reversed vector, an empty vector and a padded one apart.
- Burn: two processes are the smallest case of sharing the wallet name. One fault reaches each fatal RPC error.

**Fairness.**
- In `StakingCoordinator`, only `HandleAlert` is weakly fair. The loop's goroutine is runnable whenever an event waits on its channel, so a waiting event is eventually taken. `ListenerDrained` needs nothing more.
- Construction, `Return`, balance queries, NewSPR outcomes, the monitor, the operator and the wallet are not assumed fair: no property needs them to be.
- All other properties are safety properties.

## 5. Findings

- `CreateChain` retries the reveal only when `revealErr == nil` (`main.go:139`), and retries a commit whose reply was lost as a repeat that factomd refuses (`main.go:136`). One transient failure is fatal. This is a code bug (see `chain_creation_retry`).
- `createShortHashes` pads degenerate blocks with empty hashes, and `ValidateV3` requires exactly 25 winners (`v3_util.go:50`). The next height must repeat the padding; spec.md 4.4 says it references an empty vector (see `degenerate_link`).
- `sortByBalance` has no total tie-break. This diverges from spec.md 5 and 8.
- The staking loop relies on receiving minute 8 of every block. spec.md does not promise this; it is a spec gap.
- `SafeMarshal` sizes the prices by the polled map but indexes `AssetsV4`, so a shorter poll panics inside `NewSpr` (`spr.go:285`).
- Concurrent `burn` commands share the wallet name "burn", so one can send a transaction spending the other's input (`cmd.go:151`). This is a code bug (see `burn_concurrent`).

## 6. Not modelled

- Price polling, exchange adapters, HTTP API, control panel and CSV writing are I/O.
- `WriteMinerCSV` panics on a block of exactly 50 OPRs (`recorder.go:123`, `last` stays 50), and both CSV writers open their file without `O_TRUNC`, so a shorter second run leaves the old file's tail (`recorder.go:37`, `:93`). The recorder is sequential file I/O that shares no state with the other components, and a unit test reaches both.
- `Round`'s int64 conversion is a float edge. TLC has no floats.
- `NewStaker`, `SendCommand` and `CommandBuilder` are not called anywhere under `src/`.
- The other CLI commands only print or launch services. `rootPreRunSetup` and `ValidateConfig` only read the config and exit on a bad value. `LaunchAPI` accepts port 65536 (`services.go:44`, `port > 65536`); nothing else depends on it.
- SHA-256, base58 and protobuf encoding are abstracted to identities of records. No property here tells apart two hashes of equal content.
- The backoff schedule belongs to the `cenkalti/backoff` library, and `backoff.go` only sets its constants.
- The version dispatcher, chain assembler, reward resolver and grader runtime of spec.md have no code in `src/`.
