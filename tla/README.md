# fallback-prover in TLA+

`native-proof` is a command-line tool that builds calldata proving the value of
a storage slot, of an L2 (`proveNative`) or of L1 (`proveNativeL1`), to a
contract on another L2. It is one goroutine that makes a few dozen JSON-RPC
calls and stops. What makes it hard is not in the program: **between any two of
its calls the chains move**. L1 gets new blocks, dispute games are created and
resolved, the registry entry is updated, the proved slot is written, L1
reorganises, the destination L2's oracle advances, and an interrupt may cancel
the context. Some calls are made at `latest`, some at a block number, one by
hash; a proof is valid only if the answers fit together.

So the model is that: the program as the sequence of its calls, each one atomic
step taken when the node computes the answer, and the world as a process that
may take a step before each.

## 1. Inventory

| Part | Source | State | Operations | Hard part |
|---|---|---|---|---|
| Command, interrupt | `cmd/main.go` | context | `proveNative`, `proveL1Native`, the signal goroutine | which calls the context reaches |
| L1 origin, epoch wait | `prover.go:185`, `l1prover.go:108`, `provers/l1_origin.go` | first hash, poll count, ticker | `GetL1Origin`, `GetL1OriginHash` | select between ticker and context, budget, oracle that moves |
| Registry prover | `provers/registry.go` | none | `GetL2Configuration`, `GetL2ConfigurationForUpdate`, `GetRegistryStorageProof`, `GetL1BlockHashOracle` | seven reads at `latest` and one proof at the origin |
| Cannon search | `provers/op-stack-cannon.go:364` | loop index | `FindLatestResolved` | a loop of calls over a list that changes; errors that are skipped |
| Cannon proof | `provers/op-stack-cannon.go:480` | answers so far | `GenerateSettledStateProof` | game chosen at `latest`, proved at the origin; status fields written down, not read; a null proof noticed three calls later |
| Bedrock prover | `provers/op-stack-bedrock.go` | output index, answers so far | the same two | the search hands on an index; outputs can be deleted and the index taken again |
| Storage prover | `provers/storage.go` | none | `GetStorageAt`, `GenerateStorageProof` | value and proof are two calls |
| Native session | `prover.go` | all of the above | `NewProver`, `GenerateProveNativeCalldata` | composition; `context.Background()` |
| L1 session | `l1prover.go` | the above | `NewL1Prover`, `GenerateProveL1Calldata` | value at `latest`, proof at the origin |
| Invocation | `flags.go`, `config.go`, `cmd/main.go` | none | `CheckRequired*`, `New*FromCLI`, the chain ID's conversions | two flags share one environment variable; required flags and read settings are listed apart; `int64(chainID)` |
| Encoding, ABIs, types, version, test doubles | `native_prover.go`, `interfaces.go`, `types/`, `version.go`, `testutil/` | none | `abi.Pack` | none |

`cmd/main.go` calls `NewProver`, which reads the registry and searches the
games, and then `GenerateProveNativeCalldata`, which picks the L1 block and
proves the game, the L2 storage and the registry entry against its number.
Nothing is shared between goroutines but the context, and nothing is persisted:
there is no crash recovery to model.

What makes each part correct:

- **Epoch wait**: it ends; it polls a bounded number of times; an epoch that
  begins during the wait is taken, and its block is a newer one.
- **Search**: the game is resolved for the defender and is the newest that was
  when the search began; "none" is true. This is an atomic specification.
- **Cannon proof**: the status slot it claims is the slot its proof is of.
- **Registry**: configuration used, configuration sent and configuration proved
  are one version, under one key.
- **Bedrock**: the output gone on with is the one proved, and the one the search
  meant.
- **Invocation**: every setting comes from a place of its own (the code has one
  exception it should not have), and none that a command needs is left out.
- **Sessions**: every proof is of the block whose header goes with it; the value
  is the proved one; a run ends, and an interrupted run ends whatever nodes do.

`PROJECT.json` lists the hazards, each at its line, with the properties aimed at
it.

## 2. Modules and how they correspond to the code

| Module | Models |
|---|---|
| `L1Chain` | The world: `chain[n]` is the state after block `n` as far as the provers can see it (registry entry, factory with its games, output list of the L2OutputOracle, L1 slot), `head`, `forks`, and the oracle's hash `origin`. `Mine`, `Reorg`, `OracleMoves`. Not under `src/`: external. |
| `Session` | What every step shares: `pc` names the call the program waits for, `err` the kind of error it ended with, `cancelled` the context. `Answered` is a call that carries the context, `Moves` one that does not, `CtxFails` and `RpcFails` the two ways a call fails. |
| `L1Origin` | `GetL1Origin`: `ReadOriginHash`, `ReadFirstHash`, `TickerPanics`, `Tick`, `StartPoll`, `StopWaiting`, `NewEpoch`, `KeepPolling`, `GiveUp`, `FetchHeader`. |
| `Registry` | One action per call of the two readers, and the proof. A version of the entry is a model value; each field remembers the version it was read from. |
| `CannonScan` | `FindLatestResolved`: `ReadGameCount`, `NoGames`, `ReadGameAtIndex`, `ReadStatus`, `NotFinal`, `SkipStatusError`, `SkipEmptyAnswer`. |
| `CannonProof` | `GenerateSettledStateProof`: five calls at a number (`PinnedCall`), null elements of the `eth_getProof` batch (`Nulls`), the checks in their order (`Complaint`), the L2 batch, and the slot claimed. |
| `BedrockProof` | Both functions of the Bedrock prover: `ReadOutputIndex`, `GetOutputProof`, `GetL2Output`, `OutputBatch`. |
| `Invocation` | From the command line to a session: `Parse`, `CheckRequired`, `NewConfig`, `NewParams`, and the two keys `UseChainID` makes of the chain ID. A setting is the place it came from. |
| `ProveNative` | `NewProver` and `GenerateProveNativeCalldata`, composed of the components above; `ChooseProver` is the switch on the entry's type. |
| `ProveL1` | `NewL1Prover` and `GenerateProveL1Calldata`. |
| `ResolvedSearch` | Abstract: the search as one atomic answer. |
| `PinnedRun` | Abstract: a whole run. It takes one block from the oracle, once, and hands over what that block tells. Both sessions implement it. |
| `EpochWait`, `GameSearch`, `NativeSession`, `L1Session` | Closed systems: fairness, properties, and what TLC instantiates. |
| `L1ChainProofs`, `L1OriginProofs` | Lemmas about the world and about the wait, for the systems that contain them. |
| `EpochWaitProofs`, `GameSearchProofs`, `L1SessionProofs`, `InvocationProofs` | The theorems of four closed systems. |
| `NativeSessionProofs`, `NativeQuietProofs` | The theorems of the native session: under any reorganisations what each label has, one block and one output, and the refinement of `PinnedRun`; until the first reorganisation, or while outputs are only added, the status claimed, one entry and the output meant. |

A component is entered at one label and left at another (each module's header
says which), so composing them is a disjunction with the other components'
variables unchanged.

Operators commented "Slip" are mistakes the code could have had (a dropped
check, an off-by-one, a missing context). No specification uses them: they are
put in place of the definition they vary to see that a property notices.

### Abstractions

- A call is one step, at the time the node computes its answer. A node's answer
  at `latest` is `chain[head]`; at number `n` it is the block at `n` then.
- One L1 block changes at most one thing the provers can see. A block that
  changes several is several blocks here with no call between them.
- A game's address is its index; there is one factory, the same for every
  version of the entry. A game is open, challenged (its L2 block number was
  disproved), or resolved; the challenged bit after `challengerWins` is not kept,
  as no proof is made of such a game.
- What a contract answers about an absent game is "nothing" (an address without
  code); the decoding of answers is reduced to what the code tells apart.
- The L2 block proved is final, so its storage is not a variable: `value` and
  `valueProof` are only places where the run can fail or be interrupted.
- The entry's fields are read by separate calls, so the type, the addresses and
  the slots may be of different versions, and of different types (`Serves`,
  `Versions`): a contract called for what it does not have reverts, and a slot
  of the wrong type is an empty one. A version has as many addresses and slots
  as its prover needs, or none.
- The slot of an output computed by the Bedrock prover is taken for the
  contract's: its arithmetic is left out, as are all encodings.
- `NullAnswers` lets either element of the Cannon prover's `eth_getProof` batch
  be null. Its single-proof relatives end as errors (an empty proof list).
- The L1 endpoint does not go back to an earlier head except by a `Reorg`. The
  destination L2's endpoint may, with `LaggingOracle`.
- A `Reorg` makes new blocks: **a branch once orphaned does not come back.** All
  that is said about a canonical header rests on it (`CanonicalProofsMatch`,
  `CanonicalProofMatches`, `OutputAsProved`, `ImplementsRun` and their
  theorems). If the chain went to another branch and back to the first between
  two calls, the header would be canonical again and a proof made meanwhile
  would be of the other branch: the code does not notice that.
- One tick waits in the ticker's channel, as in Go. Its period is
  `time.Duration(freq) * time.Second` in a signed type that wraps (`Period`);
  when that is not positive, `time.NewTicker` panics: `pc = "panicked"`.
- Strings and addresses of an invocation are not kept, only where they came
  from; a variable is unset, empty, a number, a truth value, a digit that is
  both, or text that is neither (`Contents`), and an argument reads as its
  flag's type.
- `provers` has a package-level variable `err` that
  `GenerateSettledStateProof` assigns; with one goroutine it is a local.
- `since`, `readFrom` and `newest` remember the head or the newest output at a
  moment; no action reads them.

## 3. Runs

Bounds: `MaxHeight` blocks, `MaxGames` games, `MaxReorgs` reorganisations,
`MaxOutputs` outputs in a list, chosen from `Outputs`, `Configs` versions of the
entry, `Values` of the slot, `EpochPollingTries`, `Freqs`, `Second` and
`DurationSpan` (a second, and the number of durations); for an invocation
`MaxMissing`, `MaxEnv`, and how many values integers have: `Half` those an
int64 has from 0 on, `KeySpan` those of a key. The initial block is any state
the contracts can be in, so a short chain starts anywhere. Deadlock is not checked: a session ends, and the chain
stops at its bound.

| Run | Shows | Bounds, and why they suffice |
|---|---|---|
| `EpochWait` | `PollBudget`, `WaitedHeaderIsNewer`, `PanicsOutOfRange`, `NewEpochIsTaken`, `Terminates`, `CancelStops` | 5 blocks, 2 tries: the oracle can move more often than it is polled, or not at all. 64 durations and seconds of 10: the frequencies 0, 1, 4 and 7 give no period, a sound one, one that wraps to a negative and one that wraps to a short one |
| `EpochWaitTries` | finding: one poll more than `--epoch-polling-tries` | |
| `GameSearch` | `FoundIsResolved`, `FoundIsLatest`, `NoneMeansNone`, `ImplementsSearch`, `Terminates`, `CancelStops` | 2 games, 4 blocks: three events between calls, enough to create, challenge and resolve around both visits |
| `GameSearchFlaky` | finding: a failing `status()` hides a resolved game | two games, one resolved late or not at all |
| `Native` | `StatusTruthful`, `QuietConfigAgrees`, `OutputAsProved`, `NewestOutputProven` | 3 blocks (origin, change, head); one version of each type, so that updates switch the prover; 1 game; lists of up to 2 of 2 outputs, which are symmetric, so that an index can be deleted and taken by the other; null proofs. The only frequency is 0, so an epoch wait panics at once here: waiting is in `NativeLive` and `EpochWait`. No reorganisation: `OutputAsProved` is checked over one in `NativeLive`. That no null proof gets through is about the L1 batch; one of the message passer does (section 5) |
| `NativeLive` | `CanonicalProofsMatch`, `OutputAsProved`, `ImplementsRun`, `Terminates`, `CancelStopsElsewhere` | 2 blocks and a reorganisation of the second, an oracle that follows it, epoch waits, calls of the search failing, either prover. An endpoint that lags is in `L1Session`; `CanonicalMatch` and `RunImplemented` hold for any |
| `NativeCancelDoc` | finding: an interrupt does not end `GetL2Configuration` | |
| `NativeConfig` | finding: the configuration sent need not be the one proved | |
| `L1Session` | `QuietValueProven`, `CanonicalProofMatches`, `ImplementsRun`, `Terminates`, `CancelStops` | 3 blocks, a reorganisation of one or two of them, 2 values |
| `L1Value` | finding: value at `latest`, proof at the origin | |
| `Invocation` | `NothingLeftOut`, `PlacesApart`, `ChainKeysAgree` | each required flag left out in turn, each pair of variables set to every kind of content, all subsets of the optional flags; with `Half` = 2 and `KeySpan` = 16 a chain ID is 0 to 3, and of both signs as an int64 |
| `InvocationRegistry` | finding: one variable decides the slot and the registry's address | |

The findings `NativeConfig` and `L1Value` are about calldata the destination
contract rejects: the tool reports success and prints it. Each comes with a
passing property that says when it cannot happen: `QuietConfigAgrees` and
`QuietValueProven`. A reorganisation between the header, fetched by hash, and
the proofs, made by number, has the same effect; `CanonicalProofsMatch` and
`CanonicalProofMatches` say that it always shows: the header is then orphaned,
and stays so (a branch does not come back here, see the abstractions).

`ImplementsRun` is the whole promise of a session at once. `PinnedRun` knows an
oracle, what each block of the chain tells (`told`), and one block. It pins the
block the oracle names (the answer that gives `newHash`) and may then only fail
or deliver; if the pinned block is of the chain at that moment, what it delivers
is what that block tells. `Move` says what the world may do meanwhile: a block
may come or go, but while it is of the chain it tells the same. For the L1
session a block tells its fork and the slot's value. For the native session
(`BlockTells`) it tells the entry, what it has on the game found, with the two
fields of the status slot that are claimed, and what it has at the index of the
output found; `Evidence` is the same from the answers of the calls. What was
read at `latest` is not evidence: that the entry of the calldata, or the value,
is the one proved is not promised, as the two findings show.

### Fairness

`GoSpec` is fair to what Go does by itself: the ticker fires, a goroutine whose
next step is local takes it, and a call on a cancelled context returns. It is
weak fairness, since only a step of the program itself ends what makes such a
step possible. That a node answers each call, if only with an error, is not in
`GoSpec`, as nothing in the code ensures it: its HTTP clients have no timeout.
`Terminates` and `NewEpochIsTaken` assume it (`NodesAnswer => ...`), `CancelStops` does not. Nothing
is fair to the chains, the oracle or the interrupt.

## 4. Proofs

All theorems hold for every value of the constants under the named assumptions
of the modules they are about: bounds and widths are natural numbers, switches
are Booleans, and a value that means "none" is not one of the others
(`ChainAssumption`, `OriginAssumption`, `ScanAssumption`, `RegistryAssumption`,
`SettledAssumption`, `BedrockAssumption`, `SlotProofAssumption`,
`InvocationAssumption`). The contents of a version, `TypeOf`,
`AddressCount` and `SlotCount`, may be any functions to the naturals. For the
theorems marked with a star `MaxReorgs = 0` is assumed too, and that the
endpoint concerned does not go back (`~LaggingOracle`) or fail (`~FlakyNode`).

- `L1ChainProofs` - facts about the world. `L1InitTyped`, `SuccessorTyped` and
  `L1StepTyped` give its type. `SuccessorKeepsResolved` says a resolution is
  final from one block to the next; with `L1StepExtends` (until the first
  reorganisation a step only adds a block) it makes `Lasting` inductive: a game
  won in a block is won in every later one. `Unborn` says a game that does not
  exist has no result. `OriginBelowHead` says the oracle names a block of the
  chain. Two facts hold under any reorganisations, as long as a replaced branch
  does not come back: fork numbers never fall along the chain (`ForksGrow`), and a hash that was of the chain once is never above
  the block that took its place (`Seen`, kept by `SeenStays`). So two hashes of
  one number that were both seen, the first before the second, are the same if
  the first is canonical at the end (`SeenTwice`): a hash, once replaced, does
  not come back. For the same reason a hash that is of the chain again after a
  step names the block it named before (`SeenBlockStays`), and what a block
  tells does not change while it is of the chain (`HashesStay`).
  `OutputListsAreSeqs` and `OutputsMove` treat a list of outputs as a bounded sequence.
- `L1OriginProofs` - the wait, for all systems that contain it: `PollInv`, and
  that the hashes it holds were seen (`OriginStepSeen`), and that a session takes
  one hash, from the oracle, and the header is of that hash (`OriginStepHash`
  keeps `HashInv`). The poll count alone does not bound itself (`StartPoll` has no guard on it), so `PollInv` adds that
  at `wait` fewer than `tries + 1` polls were made, which `KeepPolling`
  establishes.
- `EpochWaitProofs`
  - `TypeCorrect`, with `PollInv`.
  - `PanicsAreOutOfRange`: the waiting labels are reached only with a positive
    period (`TickerInv`), and a product in range does not wrap.
  - `BudgetHolds`: `PollBudget` follows from it.
  - `WaitIsForNewer`*: `WaitInv` adds that the first hash is not above the
    oracle's, that both are canonical, and that a hash is its number; a hash
    that differs from the first is then of a greater number.
  - `EpochIsNotLost`*: the safe half of `NewEpochIsTaken`. Once the oracle has
    left the first hash during the wait it has passed it for good, so no poll
    that is left ends in a timeout (`Passed`). That one *is* left, and that the
    run gets to it, is liveness and stays with TLC.
- `L1SessionProofs`
  - `TypeCorrect`, with `Progress`: what a session at a label has.
  - `CanonicalMatch`, for any number of reorganisations and any oracle:
    `ForkInv` adds that the header, and the block the slot proof is of, were
    seen; if the header is canonical they are the same block.
  - `QuietValue`: until the first reorganisation the value was that of some
    block from the header's to the head, and the proof is of the header's
    (`ValueInv`).
  - `RunImplemented`, the refinement of `PinnedRun`, for any number of
    reorganisations and any oracle. `RunInv` adds that the hash was taken once
    and that the slot proof is the slot of the block it names as long as that
    block is of the chain. `RunCases` divides the steps into those of the world
    (a `Move`, by `HashesStay`), the one that takes the hash, the one that ends,
    and stutters.
- `GameSearchProofs`
  - `TypeCorrect`, with `Indexed`: at the loop's labels `i` is a game's index.
  - `SearchCorrect`*: `SearchInv`, whose heart is `NoneWonAbove` - every game
    above `i` was not won when the search began. It is inductive only with
    `Lasting` (the visit sees a game not won *now*, so it was not won *then*)
    and `Unborn` (games above the count were not won either).
  - `FoundResolved`*, `FoundLatest`*, `NoneMeant`*: the three safety properties.
  - `SearchImplemented`*: every step maps to a step of `ResolvedSearch` or a
    stutter, using the same invariant.

- `InvocationProofs`
  - `TypeCorrect`.
  - `NothingIsLeftOut`: `SettingsInv` says a setting, once read, is from the
    place its flag is read from, and past the check every required flag is set.
    `ReadIsListed` relates the two halves of the code: every field a command
    reads has a flag of its required or optional ones.
  - `PlacesAreApart`: one flag is read into two fields (`WaitForNewEpoch` of
    `ProveConfig`, which nothing uses, and of `ProveParams`), and two flags share
    one variable (`FlagsApart`), so two settings from one place are one of these
    pairs.
  - `KeysAgree`: `KeysInv`, and `KeysOf` for what the two conversions do with an
    ID, by the sign it has as an int64. Integers are a number of values, not of
    bits, so it holds for any width.
- `NativeSessionProofs`
  - `TypeCorrect`, with `Progress`: `PollInv` of the wait; `HeaderInv`, without
    a header nothing was asked for at its number; `GameInv`, the Cannon
    prover's labels have a game; `CallsInv`, which pinned calls were answered
    (`CallsBefore`). One lemma per component (`OriginStepKeeps`, ...), so a
    component's proof sees only its own steps.
  - `CanonicalMatch`, for any reorganisations and any oracle. `PinInv` adds that
    every block that answered a call by number was seen at the header's height,
    and after the header's block was: then `SeenTwice` applies to each. The
    header is fetched by hash, so it may be orphaned already; it is not of a
    later fork than what stands at its number.
  - `OneOutput`, for any reorganisations, proposals and deletions. `OutputInv`
    says of both answers about the output: if the block that gave it is of the
    chain now, then its list still says so (`SeenBlockStays`). With a canonical
    header both are the header's block, by the previous argument.
  - `RunImplemented`, the refinement of `PinnedRun`, for any reorganisations and
    any oracle. `Places` divides the steps: a session searches, takes the
    origin, proves, or ends. The invariants it needs: `TakenInv`, one hash is taken,
    after the search, so what a block tells is settled when it is pinned;
    `SearchInv`, there is a game or an output, never both; `ProofsInv`, each
    label has its answers and the last one all of them, about the game or the
    index found; `ReadInv` and `OutputInv`, an answer is what its block tells as
    long as that block is of the chain. When the pinned block is of the chain at
    the end, the answers' blocks are all that block (`PinnedMatch`), hence
    `EvidenceTold`.
- `NativeQuietProofs`
  - `StatusClaimed`, until the first reorganisation. `StatusInv`: the game found
    is won at the head, all answers are about the header's block, and the checks
    passed. A game resolved in the header's block is then won there (`Lasting`),
    although the search may have looked at a later block; `ClaimHolds` computes
    the slot.
  - `QuietConfig`, until the first reorganisation: `ConfigInv` says each field
    was the entry's in some block since the first read (`HeldSince`), with the
    labels at which each field is read (`Unread`, `Reread`).
  - `NewestOutput`, while outputs are only added. `OutputsOnlyAdded` is about
    neighbouring blocks; what is needed is that the list of *any* block begins
    with that of any earlier one. That is an induction along the chain, out of
    the prover's reach as such, so it is carried as an invariant (`ListsGrow`),
    in which a step appends one block. `SearchedInv` says there is a newest
    output wherever the Bedrock prover goes on.

The assumption `~FlakyNode` is needed: `GameSearchFlaky` is the counterexample
without it. So is `MaxReorgs = 0` for `FoundIsResolved`: a reorganisation can
undo the resolution that was read.

Only model-checked: all liveness (`Terminates`, `NewEpochIsTaken`,
`CancelStops`, `CancelStopsElsewhere`), as fairness is beyond the prover. Every invariant
and every refinement of the passing runs is a
theorem.

## 5. Not modelled

- ABI and RLP encoding, ABI files, types, version, test doubles: pure data or no
  state. The README of the repository names commands and flags differently from
  `cmd/main.go` and `flags.go`; wording is not modelled.
- What the L2 answers: the header and the message passer's proof are an answer or
  an error. A null message passer proof is let through by the code with a zero
  root (`op-stack-cannon.go:775`); the root is not part of the state.
- An `eth_getProof` answer with storage proofs but without nonce or balance,
  which the code dereferences: proofs are whole, null or an error.
- Answers wider than the field they are read from: the contracts have none.
- Finality: the Bedrock prover does not look at it, and neither does the model;
  the destination's contract decides.
- Crashes and restarts: nothing is persisted, a second run starts afresh.

## 6. Plan

Done, in this order: `L1Chain` and `Session`; `L1Origin` with `EpochWait`;
`CannonScan` with `GameSearch` and `ResolvedSearch`; `Registry`, `CannonProof`,
`ProveNative` with `NativeSession`; `ProveL1` with `L1Session`; proofs of the
world, the wait, the search and the L1 session; `BedrockProof` and both branches
of `ProveNative`; the ticker's period; null proofs; `Invocation`; proofs of the
native session; proofs of the invocation; `PinnedRun`, and proofs that both
sessions implement it.

Left:

1. `FoundIsLatest` and `NoneMeansNone` for the search inside a native session,
   where the entry may move too, from `GameSearchProofs`.
2. The theorems that assume `MaxReorgs = 0` as statements about any run up to
   its first reorganisation.
3. The message passer's root as an answer of the L2, once a null one is to be
   told from a proof.
