------------------------------ MODULE RunLoop -------------------------------
(***************************************************************************)
(* runloop_monad_ethblocks and process_monad_block                         *)
(* (cmd/monad/runloop_monad_ethblocks.cpp), with the durable state store   *)
(* they write, the in-memory block-hash buffer, the asynchronous stop flag *)
(* and process crashes and restarts.                                       *)
(*                                                                         *)
(* The driving thread runs one step at a time.  process_monad_block is cut *)
(* at its durable writes (commit, finalize, update_verified_block) because *)
(* a crash can fall between them; everything between two durable writes   *)
(* is one step.  A restarted process resumes from the store's finalized   *)
(* height, which is the recovery point the spec names.                     *)
(***************************************************************************)
EXTENDS Blocks

CONSTANTS
  ArchiveTop,  \* the block archive holds blocks 1..ArchiveTop
  U64Max,      \* std::numeric_limits<uint64_t>::max(): "no end block"
  Ends,        \* end_block_num values a caller passes
  BatchSize,   \* the throughput batch of a bounded run (1000 in the code)
  MaxStarts,   \* bound on process (re)starts
  BlockChoices \* the blocks an archive of the model is made of

ASSUME RunLoopAssumption ==
  /\ ArchiveTop \in Nat \ {0}
  /\ U64Max \in Nat /\ U64Max > ArchiveTop + 1
  /\ Ends \subseteq 0..U64Max
  /\ BatchSize \in Nat \ {0}
  /\ MaxStarts \in Nat
  /\ BlockChoices \subseteq Block

Heights == 1..ArchiveTop

(* std::optional<segmented_set<Address>>, and the pointer to it that      *)
(* process_monad_block receives: None, or Some(set).                      *)
None == << >>
Some(S) == <<S>>

VARIABLES
  blocks,          \* BlockDb: the archive, fixed for the whole behaviour
  \* --- the durable versioned state store (Db) ---
  committed,       \* heights whose block_state.commit reached the store
  dbFinalized,     \* db.finalize watermark (0 = genesis)
  dbVerified,      \* db.update_verified_block watermark
  \* --- the process ---
  pc,              \* where the driving thread is, "off" when no process
  starts,          \* processes started so far (bounded by MaxStarts)
  stop,            \* sig_atomic_t stop, set by a signal handler
  finalized_block_num, \* the caller's in/out parameter
  end_block_num,
  block_num,
  parent_block_id, \* bytes32_t; block ids are bytes32_t{number}, 0 = {}
  parent_sa,       \* parent_senders_and_authorities (or None)
  grandparent_sa,  \* grandparent_senders_and_authorities (or None)
  current_sa,      \* senders_and_authorities of the block in progress
  ntxs, total_gas,
  batch_num_blocks, batch_num_txs, batch_gas,
  hashBuf,         \* heights set in BlockHashBufferFinalized
  result           \* what runloop_monad_ethblocks returned

dbVars == <<committed, dbFinalized, dbVerified>>
counterVars == <<ntxs, total_gas, batch_num_blocks, batch_num_txs, batch_gas>>
windowVars == <<parent_block_id, parent_sa, grandparent_sa, current_sa>>
procVars == <<pc, starts, stop, finalized_block_num, end_block_num,
              block_num, hashBuf, result>>
vars == <<blocks, dbVars, counterVars, windowVars, procVars>>

Running == {"seed", "loop", "exec", "commit", "verify", "verified"}
Exited == {"off", "done", "failed", "aborted"}
InBlock == {"exec", "commit", "verify", "verified"}
Errors == {"HeaderError", "BlockError", "MissingSender", "MonadBodyError",
           "ExecutionError", "OutputHeaderError"}

(* batch_size (lines 282-283): every block when the run is unbounded.     *)
BatchSizeOf(end) == IF end = U64Max THEN 1 ELSE BatchSize

CurrentBlock == blocks[block_num]

(* A variant of the loop condition that forgets the stop flag.            *)
LoopConditionNoStop == block_num <= end_block_num

(* A variant of the loop condition that stops before the end block.      *)
LoopConditionExclusive == block_num < end_block_num /\ stop = 0

(* The condition of the while loop, line 365.                             *)
LoopCondition == block_num <= end_block_num /\ stop = 0

-----------------------------------------------------------------------------
Init ==
  /\ blocks \in [Heights -> BlockChoices]
  /\ committed = {}
  /\ dbFinalized = 0
  /\ dbVerified = 0
  /\ pc = "off"
  /\ starts = 0
  /\ stop = 0
  /\ finalized_block_num = 0
  /\ end_block_num = 0
  /\ block_num = 0
  /\ parent_block_id = 0
  /\ parent_sa = None
  /\ grandparent_sa = None
  /\ current_sa = {}
  /\ ntxs = 0 /\ total_gas = 0
  /\ batch_num_blocks = 0 /\ batch_num_txs = 0 /\ batch_gas = 0
  /\ hashBuf = {}
  /\ result = "none"

(* A new process calls runloop_monad_ethblocks with the block after the   *)
(* store's finalized one and some end block (the caller is not part of    *)
(* this repository: the spec's recovery point).  The hash buffer starts   *)
(* empty: how the caller fills it is outside this repository.             *)
Start ==
  /\ pc \in Exited
  /\ starts < MaxStarts
  /\ starts' = starts + 1
  /\ \E end \in Ends : end_block_num' = end
  /\ finalized_block_num' = dbFinalized + 1
  /\ stop' = 0
  /\ hashBuf' = {}
  /\ result' = "none"
  /\ pc' = "seed"
  /\ UNCHANGED <<blocks, dbVars, counterVars, windowVars, block_num>>

(* A variant of Seed that starts the loop one block above the height it  *)
(* was given.                                                             *)
SeedSkipsFirst ==
  /\ pc = "seed"
  /\ block_num' = finalized_block_num + 1
  /\ parent_block_id' = 0
  /\ parent_sa' = IF finalized_block_num > 1
                    THEN Some(SeededSendersAndAuthorities(blocks[finalized_block_num - 1]))
                    ELSE None
  /\ grandparent_sa' = IF finalized_block_num > 2
                         THEN Some(SeededSendersAndAuthorities(blocks[finalized_block_num - 2]))
                         ELSE None
  /\ ntxs' = 0 /\ total_gas' = 0
  /\ batch_num_blocks' = 0 /\ batch_num_txs' = 0 /\ batch_gas' = 0
  /\ pc' = "loop"
  /\ UNCHANGED <<blocks, dbVars, current_sa, starts, stop,
                 finalized_block_num, end_block_num, hashBuf, result>>

(* Lines 282-363: reset the counters and seed the window from the two     *)
(* blocks below the first one (the archive holds them: they were          *)
(* processed before).                                                     *)
Seed ==
  /\ pc = "seed"
  /\ block_num' = finalized_block_num
  /\ parent_block_id' = 0
  /\ parent_sa' = IF finalized_block_num > 1
                    THEN Some(SeededSendersAndAuthorities(blocks[finalized_block_num - 1]))
                    ELSE None
  /\ grandparent_sa' = IF finalized_block_num > 2
                         THEN Some(SeededSendersAndAuthorities(blocks[finalized_block_num - 2]))
                         ELSE None
  /\ ntxs' = 0 /\ total_gas' = 0
  /\ batch_num_blocks' = 0 /\ batch_num_txs' = 0 /\ batch_gas' = 0
  /\ pc' = "loop"
  /\ UNCHANGED <<blocks, dbVars, current_sa, starts, stop,
                 finalized_block_num, end_block_num, hashBuf, result>>

(* Line 365 true, lines 366-370: block_db.get of a block the archive does *)
(* not hold fails MONAD_ASSERT_PRINTF, which aborts the process.          *)
LoopFetchFails ==
  /\ pc = "loop"
  /\ LoopCondition
  /\ block_num \notin Heights
  /\ pc' = "aborted"
  /\ UNCHANGED <<blocks, dbVars, counterVars, windowVars, starts, stop,
                 finalized_block_num, end_block_num, block_num, hashBuf, result>>

LoopEnter ==
  /\ pc = "loop"
  /\ LoopCondition
  /\ block_num \in Heights
  /\ pc' = "exec"
  /\ UNCHANGED <<blocks, dbVars, counterVars, windowVars, starts, stop,
                 finalized_block_num, end_block_num, block_num, hashBuf, result>>

(* A variant of LoopExit that returns the last processed height.        *)
LoopExitReturnsLast ==
  /\ pc = "loop"
  /\ ~LoopCondition
  /\ finalized_block_num' = block_num - 1
  /\ result' = "ok"
  /\ pc' = "done"
  /\ UNCHANGED <<blocks, dbVars, counterVars, windowVars, starts, stop,
                 end_block_num, block_num, hashBuf>>

(* Line 365 false, lines 425-430: return the height reached.              *)
LoopExit ==
  /\ pc = "loop"
  /\ ~LoopCondition
  /\ finalized_block_num' = block_num
  /\ result' = "ok"
  /\ pc' = "done"
  /\ UNCHANGED <<blocks, dbVars, counterVars, windowVars, starts, stop,
                 end_block_num, block_num, hashBuf>>

(* process_monad_block lines 98-200: validation, recovery, the            *)
(* AddressSet, db.set_block_and_prefix and parent-hash overwrite, and     *)
(* execute_block over a block-scoped overlay.  Nothing durable is written; *)
(* an error returns out of runloop_monad_ethblocks (BOOST_OUTCOME_TRY,    *)
(* line 377) without touching finalized_block_num.                        *)
ExecFails ==
  /\ pc = "exec"
  /\ PreCommitError(CurrentBlock) # "none"
  /\ result' = PreCommitError(CurrentBlock)
  /\ pc' = "failed"
  /\ UNCHANGED <<blocks, dbVars, counterVars, windowVars, starts, stop,
                 finalized_block_num, end_block_num, block_num, hashBuf>>

(* A variant of Exec that goes on to finalize without block_state.commit. *)
ExecSkipsCommit ==
  /\ pc = "exec"
  /\ PreCommitError(CurrentBlock) = "none"
  /\ current_sa' = SendersAndAuthorities(CurrentBlock)
  /\ pc' = "verify"
  /\ UNCHANGED <<blocks, dbVars, counterVars, parent_block_id, parent_sa,
                 grandparent_sa, starts, stop, finalized_block_num,
                 end_block_num, block_num, hashBuf, result>>

Exec ==
  /\ pc = "exec"
  /\ PreCommitError(CurrentBlock) = "none"
  /\ current_sa' = SendersAndAuthorities(CurrentBlock)
  /\ pc' = "commit"
  /\ UNCHANGED <<blocks, dbVars, counterVars, parent_block_id, parent_sa,
                 grandparent_sa, starts, stop, finalized_block_num,
                 end_block_num, block_num, hashBuf, result>>

(* A variant of Commit that records the next height.                     *)
CommitNextHeight ==
  /\ pc = "commit"
  /\ committed' = committed \cup {block_num + 1}
  /\ pc' = "verify"
  /\ UNCHANGED <<blocks, dbFinalized, dbVerified, counterVars, windowVars,
                 starts, stop, finalized_block_num, end_block_num, block_num,
                 hashBuf, result>>

(* Lines 203-222: block_state.commit writes the block's state, receipts   *)
(* and header to the store under block_id = bytes32_t{number}.            *)
Commit ==
  /\ pc = "commit"
  /\ committed' = committed \cup {block_num}
  /\ pc' = "verify"
  /\ UNCHANGED <<blocks, dbFinalized, dbVerified, counterVars, windowVars,
                 starts, stop, finalized_block_num, end_block_num, block_num,
                 hashBuf, result>>

(* Lines 224-225: the header read back does not match: return an error.   *)
VerifyFails ==
  /\ pc = "verify"
  /\ CurrentBlock.fault = "output_header"
  /\ result' = "OutputHeaderError"
  /\ pc' = "failed"
  /\ UNCHANGED <<blocks, dbVars, counterVars, windowVars, starts, stop,
                 finalized_block_num, end_block_num, block_num, hashBuf>>

(* A variant of Verify that finalizes the parent's height.               *)
VerifyFinalizesParent ==
  /\ pc = "verify"
  /\ CurrentBlock.fault # "output_header"
  /\ dbFinalized' = block_num - 1
  /\ pc' = "verified"
  /\ UNCHANGED <<blocks, committed, dbVerified, counterVars, windowVars,
                 starts, stop, finalized_block_num, end_block_num, block_num,
                 hashBuf, result>>

(* A variant of Verify that finalizes without the output-header check.   *)
VerifyIgnoresOutputHeader ==
  /\ pc = "verify"
  /\ dbFinalized' = block_num
  /\ pc' = "verified"
  /\ UNCHANGED <<blocks, committed, dbVerified, counterVars, windowVars,
                 starts, stop, finalized_block_num, end_block_num, block_num,
                 hashBuf, result>>

(* Lines 224-229: the header matches; db.finalize.                        *)
Verify ==
  /\ pc = "verify"
  /\ CurrentBlock.fault # "output_header"
  /\ dbFinalized' = block_num
  /\ pc' = "verified"
  /\ UNCHANGED <<blocks, committed, dbVerified, counterVars, windowVars,
                 starts, stop, finalized_block_num, end_block_num, block_num,
                 hashBuf, result>>

(* Variants of Finish: the window shifted in the wrong order (the parent  *)
(* moved out first), and a batch reset that forgets the transactions.     *)
FinishShiftSwapped ==
  /\ pc = "verified"
  /\ dbVerified' = block_num
  /\ hashBuf' = hashBuf \cup {block_num}
  /\ ntxs' = ntxs + NTxs(CurrentBlock)
  /\ total_gas' = total_gas + CurrentBlock.gas_used
  /\ IF block_num % BatchSizeOf(end_block_num) = 0
       THEN /\ batch_num_blocks' = 0
            /\ batch_num_txs' = 0
            /\ batch_gas' = 0
       ELSE /\ batch_num_blocks' = batch_num_blocks + 1
            /\ batch_num_txs' = batch_num_txs + NTxs(CurrentBlock)
            /\ batch_gas' = batch_gas + CurrentBlock.gas_used
  /\ grandparent_sa' = Some(current_sa)
  /\ parent_sa' = Some({})
  /\ parent_block_id' = block_num
  /\ block_num' = block_num + 1
  /\ pc' = "loop"
  /\ UNCHANGED <<blocks, committed, dbFinalized, current_sa, starts, stop,
                 finalized_block_num, end_block_num, result>>

FinishKeepsBatchTxs ==
  /\ pc = "verified"
  /\ dbVerified' = block_num
  /\ hashBuf' = hashBuf \cup {block_num}
  /\ ntxs' = ntxs + NTxs(CurrentBlock)
  /\ total_gas' = total_gas + CurrentBlock.gas_used
  /\ IF block_num % BatchSizeOf(end_block_num) = 0
       THEN /\ batch_num_blocks' = 0
            /\ batch_num_txs' = batch_num_txs + NTxs(CurrentBlock)
            /\ batch_gas' = 0
       ELSE /\ batch_num_blocks' = batch_num_blocks + 1
            /\ batch_num_txs' = batch_num_txs + NTxs(CurrentBlock)
            /\ batch_gas' = batch_gas + CurrentBlock.gas_used
  /\ grandparent_sa' = parent_sa
  /\ parent_sa' = Some(current_sa)
  /\ parent_block_id' = block_num
  /\ block_num' = block_num + 1
  /\ pc' = "loop"
  /\ UNCHANGED <<blocks, committed, dbFinalized, current_sa, starts, stop,
                 finalized_block_num, end_block_num, result>>

(* A variant of Finish that closes a batch after batch_size blocks       *)
(* counted from the start rather than at multiples of batch_size.        *)
FinishResetsOnCount ==
  /\ pc = "verified"
  /\ dbVerified' = block_num
  /\ hashBuf' = hashBuf \cup {block_num}
  /\ ntxs' = ntxs + NTxs(CurrentBlock)
  /\ total_gas' = total_gas + CurrentBlock.gas_used
  /\ IF batch_num_blocks + 1 = BatchSizeOf(end_block_num)
       THEN /\ batch_num_blocks' = 0
            /\ batch_num_txs' = 0
            /\ batch_gas' = 0
       ELSE /\ batch_num_blocks' = batch_num_blocks + 1
            /\ batch_num_txs' = batch_num_txs + NTxs(CurrentBlock)
            /\ batch_gas' = batch_gas + CurrentBlock.gas_used
  /\ grandparent_sa' = parent_sa
  /\ parent_sa' = Some(current_sa)
  /\ parent_block_id' = block_num
  /\ block_num' = block_num + 1
  /\ pc' = "loop"
  /\ UNCHANGED <<blocks, committed, dbFinalized, current_sa, starts, stop,
                 finalized_block_num, end_block_num, result>>

(* Lines 230-233 (update_verified_block, the hash buffer), then the rest  *)
(* of the loop body, lines 399-423: counters, the throughput batch, the   *)
(* window shift, parent_block_id and the next height.                     *)
Finish ==
  /\ pc = "verified"
  /\ dbVerified' = block_num
  /\ hashBuf' = hashBuf \cup {block_num}
  /\ ntxs' = ntxs + NTxs(CurrentBlock)
  /\ total_gas' = total_gas + CurrentBlock.gas_used
  /\ IF block_num % BatchSizeOf(end_block_num) = 0
       THEN /\ batch_num_blocks' = 0
            /\ batch_num_txs' = 0
            /\ batch_gas' = 0
       ELSE /\ batch_num_blocks' = batch_num_blocks + 1
            /\ batch_num_txs' = batch_num_txs + NTxs(CurrentBlock)
            /\ batch_gas' = batch_gas + CurrentBlock.gas_used
  /\ grandparent_sa' = parent_sa
  /\ parent_sa' = Some(current_sa)
  /\ parent_block_id' = block_num
  /\ block_num' = block_num + 1
  /\ pc' = "loop"
  /\ UNCHANGED <<blocks, committed, dbFinalized, current_sa, starts, stop,
                 finalized_block_num, end_block_num, result>>

(* The signal handler sets the stop flag at any moment of a run.          *)
StopSignal ==
  /\ pc \in Running
  /\ stop = 0
  /\ stop' = 1
  /\ UNCHANGED <<blocks, dbVars, counterVars, windowVars, starts, pc,
                 finalized_block_num, end_block_num, block_num, hashBuf, result>>

(* The process dies between any two steps; only the store survives.       *)
Crash ==
  /\ pc \in Running
  /\ pc' = "off"
  /\ UNCHANGED <<blocks, dbVars, counterVars, windowVars, starts, stop,
                 finalized_block_num, end_block_num, block_num, hashBuf, result>>

Step ==
  \/ Seed \/ LoopFetchFails \/ LoopEnter \/ LoopExit
  \/ ExecFails \/ Exec \/ Commit \/ VerifyFails \/ Verify \/ Finish

Next == Step \/ Start \/ StopSignal \/ Crash

(* The driving thread, once running, keeps taking steps: it is a plain    *)
(* sequential loop and every stage blocks until its tasks complete.       *)
Spec == Init /\ [][Next]_vars /\ WF_vars(Step)

-----------------------------------------------------------------------------
(***************************************************************************)
(* Properties                                                              *)
(***************************************************************************)

OptionalSets == {None} \cup {Some(S) : S \in SUBSET (Addr \cup {ZeroAddr})}

TypeOK ==
  /\ blocks \in [Heights -> Block]
  /\ committed \subseteq Heights
  /\ dbFinalized \in 0..ArchiveTop
  /\ dbVerified \in 0..ArchiveTop
  /\ pc \in Running \cup Exited
  /\ starts \in 0..MaxStarts
  /\ stop \in {0, 1}
  /\ finalized_block_num \in 0..ArchiveTop + 1
  /\ end_block_num \in 0..U64Max
  /\ block_num \in 0..ArchiveTop + 1
  /\ parent_block_id \in 0..ArchiveTop
  /\ parent_sa \in OptionalSets
  /\ grandparent_sa \in OptionalSets
  /\ current_sa \in SUBSET Addr
  /\ ntxs \in Nat /\ total_gas \in Nat
  /\ batch_num_blocks \in Nat /\ batch_num_txs \in Nat /\ batch_gas \in Nat
  /\ hashBuf \subseteq Heights
  /\ result \in {"none", "ok"} \cup Errors
  /\ pc = "seed" => finalized_block_num \in 1..ArchiveTop + 1
  /\ pc \in InBlock => block_num \in Heights

(* The AddressSet a process that ran from block 1 without interruption    *)
(* would hold for height h, or None below block 1.                        *)
AncestorSet(h) == IF h >= 1 THEN Some(SendersAndAuthorities(blocks[h])) ELSE None

(* Whenever a block is handed to execution, the parent and grandparent    *)
(* AddressSets in its MonadChainContext are those of the two blocks just  *)
(* below it, absent below block 1, whether the process ran continuously   *)
(* or was restarted from the store and re-seeded them (lines 300-363 and  *)
(* the shift at lines 418-420).                                           *)
WindowMatchesHistory ==
  pc = "exec" =>
    /\ parent_sa = AncestorSet(block_num - 1)
    /\ grandparent_sa = AncestorSet(block_num - 2)

(* Whenever a block is handed to execution, the store's finalized block   *)
(* is its parent, and the prefix db.set_block_and_prefix selects (line    *)
(* 167: the parent id, or bytes32_t{} right after a start) is that block: *)
(* blocks execute on top of exactly their committed parent state.         *)
ExecutesOnFinalizedParent ==
  pc = "exec" =>
    /\ dbFinalized = block_num - 1
    /\ parent_block_id \in {0, block_num - 1}

(* Nothing a check rejects becomes durable: no block that fails           *)
(* validation, sender recovery or execution is ever committed to the      *)
(* store, and no block whose output header mismatches is ever finalized,  *)
(* marked verified or entered into the block-hash buffer, across crashes *)
(* and restarts; and the verified mark never passes the finalized one.    *)
DurableStateValid ==
  /\ \A h \in committed :
       ~MissingSender(blocks[h]) /\ blocks[h].fault \in {"none", "output_header"}
  /\ \A h \in (1..dbFinalized) \cup hashBuf :
       ~MissingSender(blocks[h]) /\ blocks[h].fault = "none"
  /\ dbVerified <= dbFinalized

(* Transactions and gas of the blocks from lo to hi.                      *)
TxsIn(lo, hi) ==
  LET f[h \in Nat] == IF h < lo \/ h > hi THEN 0
                      ELSE (IF h = 0 THEN 0 ELSE f[h - 1]) + NTxs(blocks[h])
  IN  IF hi < lo THEN 0 ELSE f[hi]
GasIn(lo, hi) ==
  LET f[h \in Nat] == IF h < lo \/ h > hi THEN 0
                      ELSE (IF h = 0 THEN 0 ELSE f[h - 1]) + blocks[h].gas_used
  IN  IF hi < lo THEN 0 ELSE f[hi]

(* During a run, ntxs and total_gas (returned at line 430) are the sums   *)
(* over the blocks processed since the start, the batch counters are the *)
(* sums over the blocks since the last throughput line, and a batch never *)
(* grows past batch_size blocks (lines 399-416).                          *)
ThroughputAccounting ==
  pc \in Running \ {"seed"} =>
    /\ ntxs = TxsIn(finalized_block_num, block_num - 1)
    /\ total_gas = GasIn(finalized_block_num, block_num - 1)
    /\ batch_num_blocks < BatchSizeOf(end_block_num)
    /\ batch_num_txs = TxsIn(block_num - batch_num_blocks, block_num - 1)
    /\ batch_gas = GasIn(block_num - batch_num_blocks, block_num - 1)

(* The store seen through the refinement mapping: its finalized and       *)
(* verified heights are those of FinalizedChain.                          *)
FC == INSTANCE FinalizedChain WITH finalized <- dbFinalized, verified <- dbVerified

(* The run loop implements FinalizedChain: across crashes, restarts,      *)
(* errors and stop requests, db.finalize only ever finalizes the block    *)
(* just above the finalized one, and only a block every check of          *)
(* process_monad_block accepted, and update_verified_block only moves     *)
(* the verified mark up to the finalized height.                          *)
FinalizedChainRefined == FC!Spec

(* The throughput batches are aligned to multiples of batch_size, except *)
(* the first batch of a process: inside the loop batch_num_blocks counts  *)
(* the blocks since the last multiple of batch_size the loop passed       *)
(* (lines 405-416), or, when it has passed none since it started at       *)
(* finalized_block_num, every block of this run.  A restart therefore     *)
(* logs one short batch before the alignment resumes.                     *)
BatchAligned ==
  pc \in {"loop"} \cup InBlock =>
    batch_num_blocks =
      IF \E m \in finalized_block_num..(block_num - 1) :
            m % BatchSizeOf(end_block_num) = 0
        THEN (block_num - 1) % BatchSizeOf(end_block_num)
        ELSE block_num - finalized_block_num

(* On the normal exit (line 365 false, line 429) the height handed back  *)
(* in finalized_block_num is the store's recovery point, the block after  *)
(* the last finalized one, whether the loop ran to end_block_num or was   *)
(* stopped, and however many restarts came before.                        *)
CleanExitReturnsRecoveryPoint ==
  pc = "done" => finalized_block_num = dbFinalized + 1

(* The durable writes of process_monad_block reach the store one block    *)
(* at a time and in the code's order, across crashes and restarts:        *)
(* block_state.commit (line 205) only ever adds the block just above the  *)
(* store's finalized one, and db.finalize (line 229) only finalizes a     *)
(* height whose commit already reached the store.                         *)
DurableWriteOrder ==
  [][ /\ committed' # committed => committed' = committed \cup {dbFinalized + 1}
      /\ dbFinalized' # dbFinalized => dbFinalized' \in committed ]_vars

(* The MONAD_ASSERT_PRINTF of line 367 fires only once the loop has run   *)
(* past the archive: the process aborts only when no stop was requested,  *)
(* end_block_num lies beyond the archive (UINT64_MAX, an unbounded run)   *)
(* and the store has finalized every archived block, so the abort never   *)
(* cuts a block short.                                                    *)
AbortOnlyPastArchive ==
  pc = "aborted" =>
    /\ stop = 0
    /\ end_block_num > ArchiveTop
    /\ dbFinalized = ArchiveTop

(* When runloop_monad_ethblocks has returned, the height it hands back in *)
(* finalized_block_num is the block after the last one the store         *)
(* finalized: the spec's "stops advancing the finalized height on first   *)
(* terminal error" and "defines the recovery point".                      *)
ReturnedHeightMatchesStore ==
  pc \in {"done", "failed"} => finalized_block_num = dbFinalized + 1

(* A stop request is honoured: a running process with the stop flag set   *)
(* eventually returns cleanly or with a block's error (or crashes),       *)
(* never by running off the end of the archive.                           *)
StopHonoured ==
  (pc \in Running /\ stop = 1) ~> (pc \in {"done", "failed", "off"})

(* Progress of an undisturbed run: when the loop stands at a height and   *)
(* every block from there up to some h <= end_block_num is accepted,      *)
(* the store eventually finalizes h, unless a stop request or a crash     *)
(* intervenes.  The loop neither stalls nor leaves early (the <= of line  *)
(* 365), and the end block itself is processed.                           *)
ReachesEndBlock ==
  \A h \in Heights :
    (/\ pc = "loop"
     /\ block_num <= h /\ h <= end_block_num
     /\ \A k \in block_num..h : FC!Accepted(blocks[k]))
    ~> (dbFinalized >= h \/ stop = 1 \/ pc = "off")

=============================================================================
