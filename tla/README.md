# A TLA+ model of the Monad Ethereum-block run loop

This directory holds TLA+ specifications of `src/cmd/monad/runloop_monad_ethblocks.cpp`, the driver that replays blocks from the block archive through execution into the state store. It has TLC configurations that model-check the specifications on small instances, and TLAPS proofs of their main safety properties for every value of the constants.

## 1. The system

### Components

| Part | Code | Modelled in |
|---|---|---|
| Run loop driver | `runloop_monad_ethblocks`, lines 275-431 | `RunLoop` |
| Block execution pipeline | `process_monad_block`, lines 86-269 | `RunLoop` (stages), `Blocks` (verdicts) |
| Sender/authority recovery, AddressSet window | lines 105-134, 295-363, 418-420 | `Blocks`, `RunLoop` |
| Throughput accounting | lines 282-289, 399-416 | `RunLoop` |
| State store `Db` (commit, finalize, verified mark) | calls at lines 167, 205, 224, 229, 230 | `RunLoop` (three durable facts only) |
| Block-hash buffer | line 233 | `RunLoop` (`hashBuf`) |
| Execution engine, validators, revision switch | external to this repository | abstracted to a block's `fault` |
| clang-tidy auto-const check (`src/unnamed/part_002`, `part_003`, `src/utils/clang-tidy-auto-const/`) | build tooling | not modelled |
| READMEs (`src/README.md`, `src/unnamed/part_000`, `part_001`) | documentation, plus the event-ring file code embedded at the end of `src/README.md` | not modelled |

### How the parts interact

A caller gives the run loop a start height `finalized_block_num`, an end height and a `volatile sig_atomic_t stop` flag that a signal handler sets. The run loop proceeds in this order:

1. It resets its counters.
2. It seeds the parent and grandparent AddressSets by re-reading blocks `n-1` and `n-2` from the archive and recovering their senders and authorities.
3. While `block_num <= end_block_num && stop == 0`, it fetches the block, aborting if the archive lacks it, and calls `process_monad_block`.
4. `process_monad_block` runs these stages in order:
   - header and body validation;
   - sender recovery, returning `MissingSender` if any sender fails to recover;
   - building the block's AddressSet;
   - monad-body validation;
   - `set_block_and_prefix` on the parent;
   - `execute_block` on a block-scoped overlay;
   - **`block_state.commit`** (durable);
   - reading back the header and `validate_output_header`;
   - **`db.finalize`**, then **`db.update_verified_block`**, then **the block-hash buffer**.
5. Any error returns straight out of the run loop (`BOOST_OUTCOME_TRY`, line 377).
6. On success the loop updates its counters and batch figures, shifts the window (grandparent ← parent ← current), sets `parent_block_id` and moves to the next height.
7. On a normal exit it writes the reached height back into `finalized_block_num`.

### Hard behaviours

- **Crashes** between any two of the durable writes, followed by a restart from the store's finalized height.
- **Re-seeding the window after a restart.** The seeding is a second copy of the set construction, and unlike the main path it keeps `Address{}` for a sender that does not recover.
- **`parent_block_id`** is zero right after every start.
- **A committed block the output check rejects** stays committed but is never finalized.
- **The stop flag** arrives asynchronously.
- **The batch counters** reset at `block_num % batch_size == 0`, where `batch_size` depends on whether the run is unbounded.
- **The returned height** on an error path.

## 2. Modules

### `Blocks.tla`: the data

Recovery is abstracted to its result. A transaction is a record of its recovered sender (an address, or `Absent`) and its set of recovered authorities. A block is its transactions, its gas and `fault`, the verdict of the external checks, which are deterministic in the block.

- `MissingSender` translates lines 114-122.
- `SendersAndAuthorities` translates lines 123-134.
- `SeededSendersAndAuthorities` translates lines 306-327, including the `Address{}` (`ZeroAddr`) it inserts for an unrecovered sender.
- `PreCommitError` gives the error `process_monad_block` returns before its commit, with the checks in code order.

### `RunLoop.tla`: the driver and the pipeline, with crashes and restarts

**State**

| Variables | What they hold |
|---|---|
| `blocks` | the archive |
| `committed`, `dbFinalized`, `dbVerified` | the store |
| `pc` | where the driving thread is |
| `starts`, `stop` | the restart count and the stop flag |
| `finalized_block_num`, `end_block_num`, `block_num`, `parent_block_id` | the run loop's heights and prefix id |
| `parent_sa`, `grandparent_sa`, `current_sa` | the window; an `std::optional` set is `None = <<>>` or `Some(S) = <<S>>` |
| `ntxs`, `total_gas`, `batch_*` | the counters |
| `hashBuf` | the heights in the block-hash buffer |
| `result` | what the function returned |

**Actions**

| Action | Code |
|---|---|
| `Start` | a new process calls the run loop from the store's finalized height + 1 (the caller is not in this repository, so this is modelled from the spec) |
| `Seed` | lines 282-363 |
| `LoopFetchFails` | line 365 true and 366-370, the abort |
| `LoopEnter` | line 365 true, the fetch succeeds |
| `LoopExit` | line 365 false and 425-430 |
| `ExecFails` / `Exec` | lines 98-200 and the early return at 377 |
| `Commit` | lines 202-222 |
| `VerifyFails` / `Verify` | lines 223-229 |
| `Finish` | lines 230-233 and 399-423 |
| `StopSignal` | the signal handler |
| `Crash` | the process dies; only the store survives |

Steps are cut at the durable writes so that a crash can fall between them. `Step` is the driving thread's next-state relation. `Start`, `StopSignal` and `Crash` are the environment's.

### `FinalizedChain.tla`: the abstract store contract

This is what the run loop promises about the store, with the loop itself left out. Its variables are `blocks`, `finalized` and `verified`. It has two actions:

- `Finalize` raises `finalized` by one, and only over a block that every check accepts (`Accepted`: all senders recover and `fault = "none"`). This is `db.finalize`, line 229.
- `MarkVerified` moves `verified` up to `finalized`. This is `db.update_verified_block`, line 230.

Crashes, restarts, errors, the window and the counters are stuttering steps at this level.

`RunLoop` instantiates it as `FC == INSTANCE FinalizedChain WITH finalized <- dbFinalized, verified <- dbVerified`. The archive and the constants carry over by name. `FinalizedChainRefined == FC!Spec` is the refinement property.

### `MCRunLoop.tla` and the configurations

The instance has:

- two addresses;
- good blocks: an empty one, a plain transfer, and one with an authority list that includes an unrecoverable authority;
- bad blocks: one with a missing sender, one failing execution, and one failing the output-header check.

## 3. Runs

| Run | Config | Result |
|---|---|---|
| `main` | `MCRunLoop.cfg` | pass: 672,579 distinct states, about 2 minutes with the liveness checks, all 13 actions fire |
| `returned_height` | `MCRunLoopReturn.cfg` | violation, as expected |

### Bounds

The `main` run uses these bounds:

- `ArchiveTop = 4`. Four archive heights are the fewest for which a restart at height 3 or more seeds both the parent and the grandparent from finalized blocks.
- `Ends = {3, 7}` with `U64Max = 7`. The run ends either before the archive does, or at the archive's end through the abort with `batch_size = 1`.
- `BatchSize = 2`. Resets happen both inside a run and at its start.
- `MaxStarts = 3`. Two crashes or errors followed by restarts.

Deadlock checking is off because the process really stops: after `MaxStarts` starts nothing restarts it.

### Properties of `main`

- `TypeOK`
- `WindowMatchesHistory`: the AddressSets given to execution are those of the two blocks below, also after a re-seed.
- `ExecutesOnFinalizedParent`: the store's finalized height is the parent of every executed block, and the prefix id is either the parent or zero.
- `DurableStateValid`: no rejected block is ever committed, finalized, verified or put in the hash buffer, and the verified height is never above the finalized one.
- `ThroughputAccounting`: `ntxs`, `total_gas` and the batch counters equal the sums over the blocks they count.
- `BatchAligned`: pins down where the batch window starts. Inside the loop, `batch_num_blocks` counts the blocks since the last multiple of `batch_size` the loop passed (lines 405-416). If it has passed none since the process started, it counts every block of the run. So each restart logs one short, unaligned batch before the alignment resumes. The mutant that closes a batch after `batch_size` blocks counted from the start keeps `ThroughputAccounting` but breaks this property.
- `CleanExitReturnsRecoveryPoint`: on the normal exit (line 429) the returned `finalized_block_num` is the store's finalized height + 1. This is the other half of the `returned_height` finding: only the error returns diverge.
- `AbortOnlyPastArchive`: the `MONAD_ASSERT_PRINTF` of line 367 fires only at height `ArchiveTop + 1`. It fires only when no stop was requested, the end block lies beyond the archive, and the store has finalized every archived block. So the abort of an unbounded run never cuts a block short.
- `FinalizedChainRefined`: the run loop implements `FinalizedChain`. Through crashes, restarts and errors the store finalizes only the next accepted height, never skips or repeats one, and the verified mark only catches up with it.
- `DurableWriteOrder`: an action property about the durable writes of `process_monad_block`. `block_state.commit` (line 205) only ever adds the block just above the store's finalized height. `db.finalize` (line 229) only finalizes a height whose commit is already in the store. This holds across crashes between the two writes and across the re-commit after a restart.
- `StopHonoured`: a liveness property saying a stop ends the run.
- `ReachesEndBlock`: a liveness property. If the loop stands at a height and every block from there up to some `h <= end_block_num` is accepted, the store eventually finalizes `h`, unless a stop or a crash intervenes. This catches a stall, or an off-by-one in the loop condition that leaves the end block unprocessed without an error.

Each property has a mutant of the mapped code that TLC catches. They are listed in `PROJECT.json`.

### `returned_height`: the one finding

`ReturnedHeightMatchesStore` states the spec's recovery-point reading: when the run loop returns, `finalized_block_num` is the store's finalized height + 1.

TLC finds a violation. A run finalizes some blocks and then hits a failing block, and `BOOST_OUTCOME_TRY` returns before line 429. The caller therefore gets back the height it passed in.

### Fairness

`WF_vars(Step)` only. The driving thread is one sequential loop, and each stage blocks until its fibers finish. `Start`, `StopSignal` and `Crash` have no fairness: nothing in the code forces a restart, a signal or a crash.

## 4. Proofs (`RunLoopProofs.tla`, checked by `tlapm`)

The proofs use only `BlocksAssumption` and `RunLoopAssumption`.

**`TypeCorrect`: `Spec => []TypeOK`.** `TypeOK` is inductive as it stands. The proof is the lemmas `TypeInit` and `TypeStep`, with one case per action, resting on lemmas about the AddressSet operators.

**`ExecutesOnFinalizedParentHolds`, `WindowMatchesHistoryHolds` and `DurableStateValidHolds`.** All three follow from the inductive invariant `IInv`, the conjunction of:

- `TypeOK`;
- `FinalizedAligned`: the store's finalized height is `block_num - 1` inside the loop, and `block_num` after `finalize`;
- `WindowAligned`: inside the loop the window and `parent_block_id` describe the blocks below `block_num`;
- `InFlightAccepted`: the block between execution and `update_verified_block` passed the checks;
- `hashBuf ⊆ 1..dbFinalized`;
- `DurableStateValid`.

**Why `IInv` needs those extra conjuncts:**

- The properties only speak at `pc = "exec"`, but a re-seed is correct only because every block below the start height is finalized.
- Finalized blocks have all their senders recovered (`DurableStateValid`).
- So, by the lemma `SeededWhenRecovered`, the seeding's `Address{}` quirk is silent.

TLC checked `IInv` as an invariant of the `main` instance before it was proved.

**`RefinesFinalizedChain`: `Spec => FinalizedChainRefined`.** The initial states map to `FC!Init`. The lemma `RefinementStep` shows that under `IInv` every step is a `FinalizedChain` step or a stutter of `<<blocks, dbFinalized, dbVerified>>`:

- `Verify` is `Finalize`. `FinalizedAligned` gives `dbFinalized = block_num - 1`, and `InFlightAccepted` with `AcceptedFault` gives that the block is accepted.
- `Finish` is `MarkVerified` when `dbVerified < dbFinalized`, and a stutter otherwise.
- Every other action leaves the three variables unchanged.

**`BatchAlignedHolds`: `Spec => []BatchAligned`.** `BatchAligned` alone is not inductive: the `Finish` step needs `finalized_block_num <= block_num` inside the loop. `BatchInv` adds that fact, and the lemma `BatchStep` shows that `IInv /\ BatchInv` carries `BatchInv` through every step. The proof of `Finish` splits three ways:

- `block_num % batch_size = 0`: the counter resets and the window now contains a multiple.
- A multiple was already passed: the arithmetic lemma `ModStep`, `((n - 1) % b) + 1 = n % b` when `n % b # 0`, proved from `ModOfSum`, shows the counter and the remainder grow together.
- No multiple was passed: the counter grows with `block_num - finalized_block_num`.

Before the proof, TLC checked `IInv` and `BatchInv` as invariants of the `main` instance, in a scratch model that extends `RunLoopProofs`.

**`CleanExitReturnsRecoveryPointHolds`.** From `IInv`: `LoopExit` happens at `pc = "loop"`, where `FinalizedAligned` gives `dbFinalized = block_num - 1`. No other step reaches `done`, and nothing moves the store while the process is `done`.

**`AbortOnlyPastArchiveHolds`.** The lemma `AbortStep` shows that `IInv /\ AbortOnlyPastArchive` carries the property through every step. `LoopFetchFails` is the only step into `aborted`. It is taken at `pc = "loop"`, where:

- `WindowAligned` gives `block_num >= 1`;
- `TypeOK` gives `block_num <= ArchiveTop + 1`;
- so a height outside the archive is `ArchiveTop + 1`;
- `FinalizedAligned` then gives `dbFinalized = ArchiveTop`;
- the loop condition gives `end_block_num >= ArchiveTop + 1` and `stop = 0`.

No step changes the store or the stop flag of an aborted process.

**`DurableWriteOrderHolds`: `Spec => DurableWriteOrder`**, an action property.

- It needs one more invariant, `CommitAhead`: from `commit` until the block ends (`pc` in `verify` or `verified`), `block_num` is in `committed`. `CommitAhead` is inductive on its own (lemma `CommitAheadStep`).
- The lemma `DurableWriteStep` shows that under `IInv /\ CommitAhead` every step satisfies `[DurableWrite]_vars`, the body of the property:
  - `Commit` adds `block_num`, which `FinalizedAligned` makes `dbFinalized + 1`;
  - `Verify` finalizes `block_num`, which `CommitAhead` puts in `committed`;
  - every other step leaves both alone.
- The temporal step is `[]IInv /\ []CommitAhead /\ [][Next]_vars => [][DurableWrite]_vars`, by PTL.

**`BatchNeverFullHolds`.** The third conjunct of `ThroughputAccounting` is the bound part: inside the loop, `batch_num_blocks < batch_size`. It is proved from `BatchInv`, with the lemma `MultipleInRange`: any `b` consecutive heights contain a multiple of `b`.

- If the loop has passed a multiple, the counter is a remainder modulo `batch_size`.
- If not, the `block_num - finalized_block_num` heights it has run hold no multiple, so there are fewer than `batch_size` of them.

Before the proofs, TLC checked `CommitAhead`, `BatchNeverFull` and `AbortOnlyPastArchive` as invariants of the `main` instance, together with `IInv` and `BatchInv`.

### What stays with TLC

- **Liveness** (`StopHonoured`, `ReachesEndBlock`), since TLAPS does not handle it here.
- **The sums of `ThroughputAccounting`** (`ntxs`, `total_gas`, `batch_num_txs`, `batch_gas`), which are stated with recursive functions over heights (`TxsIn`, `GasIn`).
  - Using their defining equation needs a proof that the recursive function exists.
  - That proof is an induction over `Nat` whose predicate is an operator parameter of `NatInduction` or `RecursiveFcnOfNat`.
  - Neither Z3 nor Zenon can instantiate that parameter: a direct `BY NatInduction` attempt fails.
  - The bound conjunct of `ThroughputAccounting` is proved (`BatchNeverFullHolds`); the four sum conjuncts are checked by TLC only.

## 5. Not modelled

- The EVM, `execute_block`, the validators and the store's internals are external to this repository.
- The revision-switch abort at line 396, which needs a revision with no traits.
- Timing, logging and the slow-commit warning.
- How the caller fills the hash buffer before the first block.
- The clang-tidy plugin and the READMEs. `src/README.md` ends with an embedded `event.cpp` that claims the event-ring file with `flock` and renames it. That is file handling outside the run loop, which the spec puts out of scope.

## 6. Plan for later work

1. Model the parallel sender recovery (`recover_senders` over the priority pool) and the fiber-parallel execution as interleaved workers, if their code is brought into the repository.
2. A caller module that resumes from the returned `finalized_block_num`. It would show the consequence of the finding: blocks the store already finalized get re-executed.
