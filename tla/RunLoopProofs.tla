---------------------------- MODULE RunLoopProofs ---------------------------
(***************************************************************************)
(* Proofs about RunLoop for every value of the constants.                  *)
(***************************************************************************)
EXTENDS RunLoop, TLAPS

USE BlocksAssumption, RunLoopAssumption

(* A block that process_monad_block lets past its pre-commit checks has   *)
(* every sender recovered (the MissingSender return of lines 115-121).    *)
LEMMA AcceptedHasSenders ==
  ASSUME NEW b, PreCommitError(b) = "none"
  PROVE  ~MissingSender(b)
BY DEF PreCommitError

(* The AddressSet of an accepted block holds recovered addresses only.    *)
LEMMA SendersAndAuthoritiesType ==
  ASSUME NEW b \in Block, ~MissingSender(b)
  PROVE  SendersAndAuthorities(b) \in SUBSET Addr
<1>1. \A i \in DOMAIN b.txs : b.txs[i] \in Tx
  BY DEF Block
<1>2. \A i \in DOMAIN b.txs : b.txs[i].sender \in Addr
  BY <1>1 DEF Tx, MissingSender
<1>3. RecoveredAuthorities(b) \in SUBSET Addr
  BY <1>1 DEF Tx, RecoveredAuthorities
<1>4. QED
  BY <1>2, <1>3 DEF SendersAndAuthorities

(* The seeded AddressSet holds recovered addresses and Address{} only.    *)
LEMMA SeededType ==
  ASSUME NEW b \in Block
  PROVE  SeededSendersAndAuthorities(b) \in SUBSET (Addr \cup {ZeroAddr})
<1>1. \A i \in DOMAIN b.txs : b.txs[i] \in Tx
  BY DEF Block
<1>2. RecoveredAuthorities(b) \in SUBSET Addr
  BY <1>1 DEF Tx, RecoveredAuthorities
<1>3. \A i \in DOMAIN b.txs :
        (IF b.txs[i].sender = Absent THEN ZeroAddr ELSE b.txs[i].sender)
          \in Addr \cup {ZeroAddr}
  BY <1>1 DEF Tx
<1>4. QED
  BY <1>2, <1>3 DEF SeededSendersAndAuthorities

(* A block's transaction count is a natural number.                       *)
LEMMA NTxsType ==
  ASSUME NEW b \in Block
  PROVE  NTxs(b) \in Nat
BY DEF Block, NTxs

(* The initial state is well typed.                                       *)
LEMMA TypeInit == Init => TypeOK
<1> SUFFICES ASSUME Init PROVE TypeOK
  OBVIOUS
<1>1. blocks \in [Heights -> Block]
  BY DEF Init
<1>2. parent_sa \in OptionalSets /\ grandparent_sa \in OptionalSets
  BY DEF Init, OptionalSets
<1>3. pc \in Running \cup Exited /\ ~(pc = "seed") /\ pc \notin InBlock
  BY DEF Init, Running, Exited, InBlock
<1>4. QED
  BY <1>1, <1>2, <1>3 DEF Init, TypeOK

(* Every step keeps the state well typed.                                 *)
LEMMA TypeStep == TypeOK /\ [Next]_vars => TypeOK'
<1> SUFFICES ASSUME TypeOK, [Next]_vars PROVE TypeOK'
  OBVIOUS
<1> USE DEF dbVars, counterVars, windowVars
<1>1. CASE Start
  BY <1>1 DEF Start, TypeOK, Running, Exited, InBlock
<1>2. CASE Seed
  <2>1. finalized_block_num > 1 => finalized_block_num - 1 \in Heights
    BY <1>2 DEF Seed, TypeOK, Heights
  <2>2. finalized_block_num > 2 => finalized_block_num - 2 \in Heights
    BY <1>2 DEF Seed, TypeOK, Heights
  <2>3. parent_sa' \in OptionalSets
    BY <1>2, <2>1, SeededType DEF Seed, TypeOK, OptionalSets, Some, None
  <2>4. grandparent_sa' \in OptionalSets
    BY <1>2, <2>2, SeededType DEF Seed, TypeOK, OptionalSets, Some, None
  <2>5. QED
    BY <1>2, <2>3, <2>4 DEF Seed, TypeOK, Running, Exited, InBlock
<1>3. CASE LoopFetchFails
  BY <1>3 DEF LoopFetchFails, TypeOK, Running, Exited, InBlock
<1>4. CASE LoopEnter
  BY <1>4 DEF LoopEnter, TypeOK, Running, Exited, InBlock
<1>5. CASE LoopExit
  BY <1>5 DEF LoopExit, TypeOK, Running, Exited, InBlock
<1>6. CASE ExecFails
  <2>1. PreCommitError(CurrentBlock) \in Errors
    BY <1>6 DEF ExecFails, PreCommitError, Errors
  <2>2. QED
    BY <1>6, <2>1 DEF ExecFails, TypeOK, Running, Exited, InBlock
<1>7. CASE Exec
  <2>1. CurrentBlock \in Block
    BY <1>7 DEF Exec, TypeOK, InBlock, CurrentBlock
  <2>2. current_sa' \in SUBSET Addr
    BY <1>7, <2>1, AcceptedHasSenders, SendersAndAuthoritiesType DEF Exec
  <2>3. QED
    BY <1>7, <2>2 DEF Exec, TypeOK, Running, Exited, InBlock
<1>8. CASE Commit
  BY <1>8 DEF Commit, TypeOK, Running, Exited, InBlock
<1>9. CASE VerifyFails
  BY <1>9 DEF VerifyFails, TypeOK, Running, Exited, InBlock, Errors
<1>10. CASE Verify
  BY <1>10 DEF Verify, TypeOK, Running, Exited, InBlock, Heights
<1>11. CASE Finish
  <2>1. CurrentBlock \in Block /\ block_num \in Heights
    BY <1>11 DEF Finish, TypeOK, InBlock, CurrentBlock
  <2>2. NTxs(CurrentBlock) \in Nat /\ CurrentBlock.gas_used \in Nat
    BY <2>1, NTxsType DEF Block
  <2>3. /\ batch_num_blocks' \in Nat
        /\ batch_num_txs' \in Nat
        /\ batch_gas' \in Nat
    BY <1>11, <2>2 DEF Finish, TypeOK
  <2>4. parent_sa' \in OptionalSets
    BY <1>11 DEF Finish, TypeOK, OptionalSets, Some
  <2>5. /\ block_num' \in 0..ArchiveTop + 1
        /\ parent_block_id' \in 0..ArchiveTop
        /\ dbVerified' \in 0..ArchiveTop
        /\ hashBuf' \subseteq Heights
        /\ ntxs' \in Nat /\ total_gas' \in Nat
    BY <1>11, <2>1, <2>2 DEF Finish, TypeOK, Heights
  <2>6. pc' \in Running \cup Exited /\ pc' # "seed" /\ pc' \notin InBlock
    BY <1>11 DEF Finish, Running, Exited, InBlock
  <2>7. QED
    BY <1>11, <2>3, <2>4, <2>5, <2>6 DEF Finish, TypeOK
<1>12. CASE StopSignal
  BY <1>12 DEF StopSignal, TypeOK, Running, Exited, InBlock
<1>13. CASE Crash
  BY <1>13 DEF Crash, TypeOK, Running, Exited, InBlock
<1>14. CASE UNCHANGED vars
  BY <1>14 DEF vars, dbVars, counterVars, windowVars, procVars, TypeOK,
               Running, Exited, InBlock
<1>15. QED
  BY <1>1, <1>2, <1>3, <1>4, <1>5, <1>6, <1>7, <1>8, <1>9, <1>10, <1>11,
     <1>12, <1>13, <1>14 DEF Next, Step

(* The type invariant, with the ranges of the heights the loop indexes    *)
(* the archive with, holds in every reachable state.                      *)
THEOREM TypeCorrect == Spec => []TypeOK
BY TypeInit, TypeStep, PTL DEF Spec

-----------------------------------------------------------------------------
(* The inductive invariant behind the safety theorems: where the driving  *)
(* thread is fixes how the store's finalized height relates to block_num, *)
(* which AddressSets the window holds, and that the block in progress     *)
(* passed the checks before each durable write.                           *)

(* The store's finalized height trails the loop by exactly one block.     *)
FinalizedAligned ==
  /\ pc = "seed" => dbFinalized = finalized_block_num - 1
  /\ pc \in {"loop", "exec", "commit", "verify"} => dbFinalized = block_num - 1
  /\ pc = "verified" => dbFinalized = block_num

(* Inside the loop the window and the prefix id describe the blocks just  *)
(* below block_num.                                                       *)
WindowAligned ==
  pc \in {"loop"} \cup InBlock =>
    /\ block_num >= 1
    /\ parent_block_id \in {0, block_num - 1}
    /\ parent_sa = AncestorSet(block_num - 1)
    /\ grandparent_sa = AncestorSet(block_num - 2)

(* The block between execution and update_verified_block passed the      *)
(* pre-commit checks, and from finalize on also the output-header check.  *)
InFlightAccepted ==
  /\ pc \in {"commit", "verify", "verified"} =>
       /\ PreCommitError(CurrentBlock) = "none"
       /\ current_sa = SendersAndAuthorities(CurrentBlock)
  /\ pc = "verified" => CurrentBlock.fault # "output_header"

(* Their conjunction with the type invariant and DurableStateValid.       *)
IInv ==
  /\ TypeOK
  /\ FinalizedAligned
  /\ WindowAligned
  /\ InFlightAccepted
  /\ hashBuf \subseteq 1..dbFinalized
  /\ DurableStateValid

(* A block accepted by the pre-commit checks has all senders recovered,   *)
(* and only validate_output_header (line 225) can still reject it.        *)
LEMMA AcceptedFault ==
  ASSUME NEW b \in Block, PreCommitError(b) = "none"
  PROVE  ~MissingSender(b) /\ b.fault \in {"none", "output_header"}
BY DEF PreCommitError, Block, Faults

(* When every sender recovers, the start-up seeding builds the same set   *)
(* as process_monad_block: the Address{} quirk of lines 310-315 is silent.*)
LEMMA SeededWhenRecovered ==
  ASSUME NEW b, ~MissingSender(b)
  PROVE  SeededSendersAndAuthorities(b) = SendersAndAuthorities(b)
<1>1. \A i \in DOMAIN b.txs :
        (IF b.txs[i].sender = Absent THEN ZeroAddr ELSE b.txs[i].sender)
          = b.txs[i].sender
  BY DEF MissingSender
<1>2. {IF b.txs[i].sender = Absent THEN ZeroAddr ELSE b.txs[i].sender :
         i \in DOMAIN b.txs}
      = {b.txs[i].sender : i \in DOMAIN b.txs}
  BY <1>1
<1>3. QED
  BY <1>2 DEF SeededSendersAndAuthorities, SendersAndAuthorities

(* IInv holds before the first start of the process.                     *)
LEMMA IInvInit == Init => IInv
<1> SUFFICES ASSUME Init PROVE IInv
  OBVIOUS
<1>1. TypeOK
  BY TypeInit
<1>2. FinalizedAligned /\ WindowAligned /\ InFlightAccepted
  BY DEF Init, FinalizedAligned, WindowAligned, InFlightAccepted, InBlock
<1>3. hashBuf \subseteq 1..dbFinalized /\ DurableStateValid
  BY DEF Init, DurableStateValid
<1>4. QED
  BY <1>1, <1>2, <1>3 DEF IInv

(* Every step (run-loop stage, start, stop signal or crash) keeps IInv.   *)
LEMMA IInvStep == IInv /\ [Next]_vars => IInv'
<1> SUFFICES ASSUME IInv, [Next]_vars PROVE IInv'
  OBVIOUS
<1>0. TypeOK'
  BY TypeStep DEF IInv
<1> USE DEF dbVars, counterVars, windowVars
<1>1. CASE Start
  <2>1. FinalizedAligned' /\ WindowAligned' /\ InFlightAccepted'
    BY <1>1 DEF Start, IInv, TypeOK, FinalizedAligned, WindowAligned,
                InFlightAccepted, InBlock, Exited
  <2>2. (hashBuf \subseteq 1..dbFinalized)' /\ DurableStateValid'
    BY <1>1 DEF Start, IInv, DurableStateValid
  <2>3. QED
    BY <1>0, <2>1, <2>2 DEF IInv
<1>2. CASE Seed
  <2>1. /\ finalized_block_num \in 1..ArchiveTop + 1
        /\ dbFinalized = finalized_block_num - 1
    BY <1>2 DEF Seed, IInv, TypeOK, FinalizedAligned
  <2>2. finalized_block_num > 1 =>
          SeededSendersAndAuthorities(blocks[finalized_block_num - 1])
            = SendersAndAuthorities(blocks[finalized_block_num - 1])
    <3>1. finalized_block_num > 1 => ~MissingSender(blocks[finalized_block_num - 1])
      BY <2>1 DEF IInv, DurableStateValid
    <3>2. QED
      BY <3>1, SeededWhenRecovered
  <2>3. finalized_block_num > 2 =>
          SeededSendersAndAuthorities(blocks[finalized_block_num - 2])
            = SendersAndAuthorities(blocks[finalized_block_num - 2])
    <3>1. finalized_block_num > 2 => ~MissingSender(blocks[finalized_block_num - 2])
      BY <2>1 DEF IInv, DurableStateValid
    <3>2. QED
      BY <3>1, SeededWhenRecovered
  <2>4. parent_sa' = (AncestorSet(block_num - 1))'
    BY <1>2, <2>1, <2>2 DEF Seed, AncestorSet
  <2>5. grandparent_sa' = (AncestorSet(block_num - 2))'
    BY <1>2, <2>1, <2>3 DEF Seed, AncestorSet
  <2>6. FinalizedAligned' /\ WindowAligned' /\ InFlightAccepted'
    BY <1>2, <2>1, <2>4, <2>5 DEF Seed, FinalizedAligned, WindowAligned,
                                  InFlightAccepted
  <2>7. (hashBuf \subseteq 1..dbFinalized)' /\ DurableStateValid'
    BY <1>2 DEF Seed, IInv, DurableStateValid
  <2>8. QED
    BY <1>0, <2>6, <2>7 DEF IInv
<1>3. CASE LoopFetchFails
  <2>1. FinalizedAligned' /\ WindowAligned' /\ InFlightAccepted'
    BY <1>3 DEF LoopFetchFails, IInv, TypeOK, FinalizedAligned, WindowAligned,
                InFlightAccepted, InBlock, Exited, CurrentBlock, AncestorSet
  <2>2. (hashBuf \subseteq 1..dbFinalized)' /\ DurableStateValid'
    BY <1>3 DEF LoopFetchFails, IInv, DurableStateValid
  <2>3. QED
    BY <1>0, <2>1, <2>2 DEF IInv
<1>4. CASE LoopEnter
  <2>1. FinalizedAligned' /\ WindowAligned' /\ InFlightAccepted'
    BY <1>4 DEF LoopEnter, IInv, TypeOK, FinalizedAligned, WindowAligned,
                InFlightAccepted, InBlock, Exited, CurrentBlock, AncestorSet
  <2>2. (hashBuf \subseteq 1..dbFinalized)' /\ DurableStateValid'
    BY <1>4 DEF LoopEnter, IInv, DurableStateValid
  <2>3. QED
    BY <1>0, <2>1, <2>2 DEF IInv
<1>5. CASE LoopExit
  <2>1. FinalizedAligned' /\ WindowAligned' /\ InFlightAccepted'
    BY <1>5 DEF LoopExit, IInv, TypeOK, FinalizedAligned, WindowAligned,
                InFlightAccepted, InBlock, Exited, CurrentBlock, AncestorSet
  <2>2. (hashBuf \subseteq 1..dbFinalized)' /\ DurableStateValid'
    BY <1>5 DEF LoopExit, IInv, DurableStateValid
  <2>3. QED
    BY <1>0, <2>1, <2>2 DEF IInv
<1>6. CASE ExecFails
  <2>1. FinalizedAligned' /\ WindowAligned' /\ InFlightAccepted'
    BY <1>6 DEF ExecFails, IInv, TypeOK, FinalizedAligned, WindowAligned,
                InFlightAccepted, InBlock, Exited, CurrentBlock, AncestorSet
  <2>2. (hashBuf \subseteq 1..dbFinalized)' /\ DurableStateValid'
    BY <1>6 DEF ExecFails, IInv, DurableStateValid
  <2>3. QED
    BY <1>0, <2>1, <2>2 DEF IInv
<1>7. CASE Exec
  <2>1. FinalizedAligned' /\ WindowAligned' /\ InFlightAccepted'
    BY <1>7 DEF Exec, IInv, TypeOK, FinalizedAligned, WindowAligned,
                InFlightAccepted, InBlock, Exited, CurrentBlock, AncestorSet
  <2>2. (hashBuf \subseteq 1..dbFinalized)' /\ DurableStateValid'
    BY <1>7 DEF Exec, IInv, DurableStateValid
  <2>3. QED
    BY <1>0, <2>1, <2>2 DEF IInv
<1>8. CASE Commit
  <2>1. CurrentBlock \in Block /\ PreCommitError(CurrentBlock) = "none"
    BY <1>8 DEF Commit, IInv, TypeOK, InFlightAccepted, InBlock, CurrentBlock
  <2>2. ~MissingSender(CurrentBlock)
        /\ CurrentBlock.fault \in {"none", "output_header"}
    BY <2>1, AcceptedFault
  <2>3. FinalizedAligned' /\ WindowAligned' /\ InFlightAccepted'
    BY <1>8 DEF Commit, IInv, TypeOK, FinalizedAligned, WindowAligned,
                InFlightAccepted, InBlock, CurrentBlock, AncestorSet
  <2>4. (hashBuf \subseteq 1..dbFinalized)' /\ DurableStateValid'
    BY <1>8, <2>2 DEF Commit, IInv, DurableStateValid, CurrentBlock
  <2>5. QED
    BY <1>0, <2>3, <2>4 DEF IInv
<1>9. CASE VerifyFails
  <2>1. FinalizedAligned' /\ WindowAligned' /\ InFlightAccepted'
    BY <1>9 DEF VerifyFails, IInv, TypeOK, FinalizedAligned, WindowAligned,
                InFlightAccepted, InBlock, Exited, CurrentBlock, AncestorSet
  <2>2. (hashBuf \subseteq 1..dbFinalized)' /\ DurableStateValid'
    BY <1>9 DEF VerifyFails, IInv, DurableStateValid
  <2>3. QED
    BY <1>0, <2>1, <2>2 DEF IInv
<1>10. CASE Verify
  <2>1. CurrentBlock \in Block /\ PreCommitError(CurrentBlock) = "none"
        /\ block_num \in Heights /\ dbFinalized = block_num - 1
    BY <1>10 DEF Verify, IInv, TypeOK, InFlightAccepted, FinalizedAligned,
                 InBlock, CurrentBlock
  <2>2. ~MissingSender(CurrentBlock) /\ CurrentBlock.fault = "none"
    BY <1>10, <2>1, AcceptedFault DEF Verify
  <2>3. FinalizedAligned' /\ WindowAligned' /\ InFlightAccepted'
    BY <1>10 DEF Verify, IInv, TypeOK, FinalizedAligned, WindowAligned,
                 InFlightAccepted, InBlock, CurrentBlock, AncestorSet
  <2>4. (1..dbFinalized)' = (1..dbFinalized) \cup {block_num}
    BY <1>10, <2>1 DEF Verify, Heights
  <2>5. (hashBuf \subseteq 1..dbFinalized)' /\ DurableStateValid'
    BY <1>10, <2>1, <2>2, <2>4 DEF Verify, IInv, TypeOK, DurableStateValid,
                                   CurrentBlock
  <2>6. QED
    BY <1>0, <2>3, <2>5 DEF IInv
<1>11. CASE Finish
  <2>1. /\ block_num \in Heights /\ dbFinalized = block_num
        /\ current_sa = SendersAndAuthorities(blocks[block_num])
        /\ parent_sa = AncestorSet(block_num - 1)
        /\ parent_block_id \in {0, block_num - 1}
    BY <1>11 DEF Finish, IInv, TypeOK, FinalizedAligned, WindowAligned,
                 InFlightAccepted, InBlock, CurrentBlock
  <2>2. parent_sa' = (AncestorSet(block_num - 1))'
    BY <1>11, <2>1 DEF Finish, AncestorSet, Heights
  <2>3. grandparent_sa' = (AncestorSet(block_num - 2))'
    BY <1>11, <2>1 DEF Finish, AncestorSet, Heights
  <2>4. FinalizedAligned' /\ WindowAligned' /\ InFlightAccepted'
    BY <1>11, <2>1, <2>2, <2>3 DEF Finish, FinalizedAligned, WindowAligned,
                                   InFlightAccepted, InBlock, Heights
  <2>5. (hashBuf \subseteq 1..dbFinalized)' /\ DurableStateValid'
    BY <1>11, <2>1 DEF Finish, IInv, TypeOK, DurableStateValid, Heights
  <2>6. QED
    BY <1>0, <2>4, <2>5 DEF IInv
<1>12. CASE StopSignal
  <2>1. FinalizedAligned' /\ WindowAligned' /\ InFlightAccepted'
    BY <1>12 DEF StopSignal, IInv, TypeOK, FinalizedAligned, WindowAligned,
                InFlightAccepted, InBlock, Exited, CurrentBlock, AncestorSet
  <2>2. (hashBuf \subseteq 1..dbFinalized)' /\ DurableStateValid'
    BY <1>12 DEF StopSignal, IInv, DurableStateValid
  <2>3. QED
    BY <1>0, <2>1, <2>2 DEF IInv
<1>13. CASE Crash
  <2>1. FinalizedAligned' /\ WindowAligned' /\ InFlightAccepted'
    BY <1>13 DEF Crash, IInv, TypeOK, FinalizedAligned, WindowAligned,
                InFlightAccepted, InBlock, Exited, CurrentBlock, AncestorSet
  <2>2. (hashBuf \subseteq 1..dbFinalized)' /\ DurableStateValid'
    BY <1>13 DEF Crash, IInv, DurableStateValid
  <2>3. QED
    BY <1>0, <2>1, <2>2 DEF IInv
<1>14. CASE UNCHANGED vars
  BY <1>0, <1>14 DEF vars, procVars, IInv, FinalizedAligned, WindowAligned,
                     InFlightAccepted, DurableStateValid, CurrentBlock,
                     AncestorSet
<1>15. QED
  BY <1>1, <1>2, <1>3, <1>4, <1>5, <1>6, <1>7, <1>8, <1>9, <1>10, <1>11,
     <1>12, <1>13, <1>14 DEF Next, Step

(* The inductive invariant holds in every reachable state.                *)
LEMMA IInvInvariant == Spec => []IInv
BY IInvInit, IInvStep, PTL DEF Spec

(* Every block handed to execution runs on its parent's finalized state,  *)
(* through crashes and restarts: ExecutesOnFinalizedParent for every      *)
(* archive size, batch size, end block and number of restarts.            *)
THEOREM ExecutesOnFinalizedParentHolds == Spec => []ExecutesOnFinalizedParent
<1>1. IInv => ExecutesOnFinalizedParent
  BY DEF IInv, FinalizedAligned, WindowAligned, InBlock,
         ExecutesOnFinalizedParent
<1>2. QED
  BY <1>1, IInvInvariant, PTL

(* The parent and grandparent AddressSets given to execution are those of *)
(* the two blocks below, also right after the start-up seeding: the       *)
(* Address{} quirk of the seeding never reaches execution, because only   *)
(* finalized blocks, all of whose senders recovered, are seeded.          *)
THEOREM WindowMatchesHistoryHolds == Spec => []WindowMatchesHistory
<1>1. IInv => WindowMatchesHistory
  BY DEF IInv, WindowAligned, InBlock, WindowMatchesHistory
<1>2. QED
  BY <1>1, IInvInvariant, PTL

(* No block a check rejects is ever committed, finalized, marked verified *)
(* or entered into the block-hash buffer (DurableStateValid).             *)
THEOREM DurableStateValidHolds == Spec => []DurableStateValid
<1>1. IInv => DurableStateValid
  BY DEF IInv
<1>2. QED
  BY <1>1, IInvInvariant, PTL

-----------------------------------------------------------------------------
(* Every run-loop step is a FinalizedChain step or leaves the archive and *)
(* the store's heights alone.                                             *)
LEMMA RefinementStep == IInv /\ [Next]_vars => [FC!Next]_FC!vars
<1> SUFFICES ASSUME IInv, [Next]_vars PROVE [FC!Next]_FC!vars
  OBVIOUS
<1> USE DEF dbVars, counterVars, windowVars
<1>1. CASE Verify
  <2>1. /\ block_num \in Heights
        /\ dbFinalized = block_num - 1
        /\ CurrentBlock \in Block
        /\ PreCommitError(CurrentBlock) = "none"
        /\ CurrentBlock.fault # "output_header"
    BY <1>1 DEF Verify, IInv, TypeOK, FinalizedAligned, InFlightAccepted,
               InBlock, CurrentBlock
  <2>2. ~MissingSender(CurrentBlock) /\ CurrentBlock.fault = "none"
    BY <2>1, AcceptedFault
  <2>3. FC!Accepted(blocks[dbFinalized + 1])
    <3>1. blocks[dbFinalized + 1] = CurrentBlock
      BY <2>1 DEF CurrentBlock, Heights
    <3>2. FC!Accepted(CurrentBlock)
      BY <2>2 DEF FC!Accepted, FC!MissingSender, MissingSender
    <3>3. QED
      BY <3>1, <3>2
  <2>4. FC!Finalize
    BY <1>1, <2>1, <2>3 DEF Verify, FC!Finalize, Heights
  <2>5. QED
    BY <2>4 DEF FC!Next
<1>2. CASE Finish
  <2>1. dbFinalized = block_num /\ dbVerified <= dbFinalized
        /\ dbVerified \in Nat /\ dbFinalized \in Nat
    BY <1>2 DEF Finish, IInv, TypeOK, FinalizedAligned, DurableStateValid
  <2>2. CASE dbVerified < dbFinalized
    BY <1>2, <2>1, <2>2 DEF Finish, FC!Next, FC!MarkVerified
  <2>3. CASE dbVerified = dbFinalized
    BY <1>2, <2>1, <2>3 DEF Finish, FC!vars
  <2>4. QED
    BY <2>1, <2>2, <2>3
<1>3. CASE Start \/ Seed \/ LoopFetchFails \/ LoopEnter \/ LoopExit
           \/ ExecFails \/ Exec \/ Commit \/ VerifyFails \/ StopSignal
           \/ Crash \/ UNCHANGED vars
  BY <1>3 DEF Start, Seed, LoopFetchFails, LoopEnter, LoopExit, ExecFails,
              Exec, Commit, VerifyFails, StopSignal, Crash, vars, FC!vars
<1>4. QED
  BY <1>1, <1>2, <1>3 DEF Next, Step

(* The run loop implements FinalizedChain under the refinement mapping    *)
(* finalized <- dbFinalized, verified <- dbVerified, for every value of   *)
(* the constants: through crashes, restarts and errors the store only     *)
(* finalizes the next accepted block, and verified only catches up.       *)
THEOREM RefinesFinalizedChain == Spec => FinalizedChainRefined
<1>1. Init => FC!Init
  BY DEF Init, FC!Init, Heights
<1>2. QED
  BY <1>1, RefinementStep, IInvInvariant, PTL
  DEF Spec, FinalizedChainRefined, FC!Spec

-----------------------------------------------------------------------------
(* Arithmetic for the batch reset of lines 405-416.                       *)

(* The remainder of b * q + r by b is r when r < b.                       *)
LEMMA ModOfSum ==
  ASSUME NEW b \in Nat \ {0}, NEW q \in Nat, NEW r \in 0..(b - 1)
  PROVE  (b * q + r) % b = r
BY SMT

(* Between two multiples of b the remainder grows by one per height.      *)
LEMMA ModStep ==
  ASSUME NEW n \in Nat, NEW b \in Nat \ {0}, n % b # 0
  PROVE  ((n - 1) % b) + 1 = n % b
<1>1. /\ n \div b \in Nat
      /\ (n % b) - 1 \in 0..(b - 1)
      /\ n - 1 = b * (n \div b) + ((n % b) - 1)
  BY SMT
<1>2. (b * (n \div b) + ((n % b) - 1)) % b = (n % b) - 1
  BY <1>1, ModOfSum
<1>3. QED
  BY <1>1, <1>2

(* batch_size is never zero, so the modulus of line 405 is defined.       *)
LEMMA BatchSizePositive ==
  ASSUME NEW e
  PROVE  BatchSizeOf(e) \in Nat \ {0}
BY DEF BatchSizeOf

(* BatchAligned with the fact it needs: the loop never stands below the   *)
(* height it started from.                                                *)
BatchInv ==
  /\ BatchAligned
  /\ pc \in {"loop"} \cup InBlock => finalized_block_num <= block_num

(* Every step keeps BatchInv, given the invariant IInv.                   *)
LEMMA BatchStep == IInv /\ BatchInv /\ [Next]_vars => BatchInv'
<1> SUFFICES ASSUME IInv, BatchInv, [Next]_vars PROVE BatchInv'
  OBVIOUS
<1> USE DEF dbVars, counterVars, windowVars
<1>0. TypeOK /\ BatchSizeOf(end_block_num) \in Nat \ {0}
  BY BatchSizePositive DEF IInv
<1>1. CASE Seed
  BY <1>0, <1>1 DEF Seed, TypeOK, BatchInv, BatchAligned, InBlock
<1>2. CASE Finish
  <2>1. /\ block_num \in Nat /\ finalized_block_num \in Nat
        /\ finalized_block_num <= block_num
        /\ batch_num_blocks =
             IF \E m \in finalized_block_num..(block_num - 1) :
                   m % BatchSizeOf(end_block_num) = 0
               THEN (block_num - 1) % BatchSizeOf(end_block_num)
               ELSE block_num - finalized_block_num
    BY <1>0, <1>2 DEF Finish, TypeOK, BatchInv, BatchAligned, InBlock, Heights
  <2>2. /\ block_num' = block_num + 1
        /\ finalized_block_num' = finalized_block_num
        /\ end_block_num' = end_block_num
        /\ pc' = "loop"
    BY <1>2 DEF Finish
  <2>3. (\E m \in finalized_block_num..block_num :
           m % BatchSizeOf(end_block_num) = 0)
        <=> \/ \E m \in finalized_block_num..(block_num - 1) :
                 m % BatchSizeOf(end_block_num) = 0
            \/ block_num % BatchSizeOf(end_block_num) = 0
    BY <2>1
  <2>4. CASE block_num % BatchSizeOf(end_block_num) = 0
    BY <1>0, <1>2, <2>1, <2>2, <2>3, <2>4
    DEF Finish, BatchInv, BatchAligned
  <2>5. CASE /\ block_num % BatchSizeOf(end_block_num) # 0
             /\ \E m \in finalized_block_num..(block_num - 1) :
                  m % BatchSizeOf(end_block_num) = 0
    <3>1. ((block_num - 1) % BatchSizeOf(end_block_num)) + 1
            = block_num % BatchSizeOf(end_block_num)
      BY <1>0, <2>1, <2>5, ModStep
    <3>2. QED
      BY <1>0, <1>2, <2>1, <2>2, <2>3, <2>5, <3>1
      DEF Finish, BatchInv, BatchAligned
  <2>6. CASE /\ block_num % BatchSizeOf(end_block_num) # 0
             /\ ~\E m \in finalized_block_num..(block_num - 1) :
                   m % BatchSizeOf(end_block_num) = 0
    BY <1>0, <1>2, <2>1, <2>2, <2>3, <2>6
    DEF Finish, BatchInv, BatchAligned
  <2>7. QED
    BY <2>4, <2>5, <2>6
<1>3. CASE LoopEnter \/ Exec \/ Commit \/ Verify
  BY <1>3 DEF LoopEnter, Exec, Commit, Verify, BatchInv, BatchAligned, InBlock
<1>4. CASE Start \/ LoopFetchFails \/ LoopExit \/ ExecFails \/ VerifyFails
           \/ Crash
  BY <1>4 DEF Start, LoopFetchFails, LoopExit, ExecFails, VerifyFails, Crash,
              BatchInv, BatchAligned, InBlock
<1>5. CASE StopSignal \/ UNCHANGED vars
  BY <1>5 DEF StopSignal, vars, procVars, BatchInv, BatchAligned, InBlock
<1>6. QED
  BY <1>1, <1>2, <1>3, <1>4, <1>5 DEF Next, Step

(* BatchInv holds in every reachable state.                              *)
LEMMA BatchInvInvariant == Spec => []BatchInv
<1>1. Init => BatchInv
  BY DEF Init, BatchInv, BatchAligned, InBlock
<1>2. QED
  BY <1>1, BatchStep, IInvInvariant, PTL DEF Spec

(* The throughput batches stay aligned to multiples of batch_size after   *)
(* the first batch of each process (BatchAligned), for every batch size,  *)
(* archive size and number of restarts.                                   *)
THEOREM BatchAlignedHolds == Spec => []BatchAligned
BY BatchInvInvariant, PTL DEF BatchInv

(* Every step keeps CleanExitReturnsRecoveryPoint, given IInv.            *)
LEMMA CleanExitStep ==
  IInv /\ CleanExitReturnsRecoveryPoint /\ [Next]_vars
    => CleanExitReturnsRecoveryPoint'
<1> SUFFICES ASSUME IInv, CleanExitReturnsRecoveryPoint, [Next]_vars
             PROVE  CleanExitReturnsRecoveryPoint'
  OBVIOUS
<1> USE DEF dbVars, counterVars, windowVars
<1>1. CASE LoopExit
  BY <1>1 DEF LoopExit, IInv, TypeOK, FinalizedAligned,
              CleanExitReturnsRecoveryPoint
<1>2. CASE Start \/ Seed \/ LoopFetchFails \/ LoopEnter \/ ExecFails \/ Exec
           \/ Commit \/ VerifyFails \/ Verify \/ Finish \/ Crash
  BY <1>2 DEF Start, Seed, LoopFetchFails, LoopEnter, ExecFails, Exec, Commit,
              VerifyFails, Verify, Finish, Crash, CleanExitReturnsRecoveryPoint
<1>3. CASE StopSignal \/ UNCHANGED vars
  BY <1>3 DEF StopSignal, Running, vars, procVars,
              CleanExitReturnsRecoveryPoint
<1>4. QED
  BY <1>1, <1>2, <1>3 DEF Next, Step

(* On the normal exit the caller gets back the store's recovery point,    *)
(* for every value of the constants: the divergence the returned_height   *)
(* run shows is confined to the error returns.                            *)
THEOREM CleanExitReturnsRecoveryPointHolds ==
  Spec => []CleanExitReturnsRecoveryPoint
<1>1. Init => CleanExitReturnsRecoveryPoint
  BY DEF Init, CleanExitReturnsRecoveryPoint
<1>2. QED
  BY <1>1, CleanExitStep, IInvInvariant, PTL DEF Spec


-----------------------------------------------------------------------------
(* Every step keeps AbortOnlyPastArchive, given IInv: the loop can only   *)
(* fail the fetch at height ArchiveTop + 1, where the store has finalized *)
(* every block below.                                                     *)
LEMMA AbortStep ==
  IInv /\ AbortOnlyPastArchive /\ [Next]_vars => AbortOnlyPastArchive'
<1> SUFFICES ASSUME IInv, AbortOnlyPastArchive, [Next]_vars
             PROVE  AbortOnlyPastArchive'
  OBVIOUS
<1> USE DEF dbVars, counterVars, windowVars
<1>1. CASE LoopFetchFails
  <2>1. block_num = ArchiveTop + 1
    BY <1>1 DEF LoopFetchFails, IInv, TypeOK, WindowAligned, Heights
  <2>2. dbFinalized = ArchiveTop
    BY <1>1, <2>1 DEF LoopFetchFails, IInv, TypeOK, FinalizedAligned
  <2>3. end_block_num > ArchiveTop /\ stop = 0
    BY <1>1, <2>1 DEF LoopFetchFails, LoopCondition, IInv, TypeOK
  <2>4. QED
    BY <1>1, <2>2, <2>3 DEF LoopFetchFails, AbortOnlyPastArchive
<1>2. CASE Start \/ Seed \/ LoopEnter \/ LoopExit \/ ExecFails \/ Exec
           \/ Commit \/ VerifyFails \/ Verify \/ Finish \/ Crash
  BY <1>2 DEF Start, Seed, LoopEnter, LoopExit, ExecFails, Exec, Commit,
              VerifyFails, Verify, Finish, Crash, AbortOnlyPastArchive
<1>3. CASE StopSignal \/ UNCHANGED vars
  BY <1>3 DEF StopSignal, Running, vars, procVars, AbortOnlyPastArchive
<1>4. QED
  BY <1>1, <1>2, <1>3 DEF Next, Step

(* The assertion failure of line 367 only ends an unbounded, unstopped    *)
(* run that has finalized the whole archive, for every archive size and   *)
(* number of restarts.                                                    *)
THEOREM AbortOnlyPastArchiveHolds == Spec => []AbortOnlyPastArchive
<1>1. Init => AbortOnlyPastArchive
  BY DEF Init, AbortOnlyPastArchive
<1>2. QED
  BY <1>1, AbortStep, IInvInvariant, PTL DEF Spec

-----------------------------------------------------------------------------
(* Between block_state.commit and the end of the block, the block's       *)
(* commit is in the store.                                                *)
CommitAhead == pc \in {"verify", "verified"} => block_num \in committed

LEMMA CommitAheadStep ==
  CommitAhead /\ [Next]_vars => CommitAhead'
<1> SUFFICES ASSUME CommitAhead, [Next]_vars
             PROVE  CommitAhead'
  OBVIOUS
<1> USE DEF dbVars, counterVars, windowVars
<1>1. CASE Commit
  BY <1>1 DEF Commit, CommitAhead
<1>2. CASE Verify
  BY <1>2 DEF Verify, CommitAhead
<1>3. CASE Start \/ Seed \/ LoopFetchFails \/ LoopEnter \/ LoopExit
           \/ ExecFails \/ Exec \/ VerifyFails \/ Finish \/ Crash
  BY <1>3 DEF Start, Seed, LoopFetchFails, LoopEnter, LoopExit, ExecFails,
              Exec, VerifyFails, Finish, Crash, CommitAhead, Exited
<1>4. CASE StopSignal \/ UNCHANGED vars
  BY <1>4 DEF StopSignal, vars, procVars, CommitAhead
<1>5. QED
  BY <1>1, <1>2, <1>3, <1>4 DEF Next, Step

(* The body of DurableWriteOrder.                                         *)
DurableWrite ==
  /\ committed' # committed => committed' = committed \cup {dbFinalized + 1}
  /\ dbFinalized' # dbFinalized => dbFinalized' \in committed

(* Only Commit writes a commit and only Verify finalizes; every other     *)
(* step leaves both alone.                                                *)
LEMMA DurableWriteStep ==
  IInv /\ CommitAhead /\ [Next]_vars => [DurableWrite]_vars
<1> SUFFICES ASSUME IInv, CommitAhead, [Next]_vars
             PROVE  [DurableWrite]_vars
  OBVIOUS
<1> USE DEF dbVars, counterVars, windowVars
<1>1. CASE Commit
  <2>1. dbFinalized + 1 = block_num
    BY <1>1 DEF Commit, IInv, TypeOK, FinalizedAligned, InBlock, Heights
  <2>2. QED
    BY <1>1, <2>1 DEF Commit, DurableWrite
<1>2. CASE Verify
  BY <1>2 DEF Verify, CommitAhead, DurableWrite
<1>3. CASE Start \/ Seed \/ LoopFetchFails \/ LoopEnter \/ LoopExit
           \/ ExecFails \/ Exec \/ VerifyFails \/ Finish \/ Crash \/ StopSignal
  BY <1>3 DEF Start, Seed, LoopFetchFails, LoopEnter, LoopExit, ExecFails,
              Exec, VerifyFails, Finish, Crash, StopSignal, DurableWrite
<1>4. CASE UNCHANGED vars
  BY <1>4 DEF vars
<1>5. QED
  BY <1>1, <1>2, <1>3, <1>4 DEF Next, Step

(* The store only ever receives the commit of the block above its        *)
(* finalized one, and finalizes only committed heights, for every value   *)
(* of the constants and across any crashes and restarts.                  *)
THEOREM DurableWriteOrderHolds == Spec => DurableWriteOrder
<1>1. Init => CommitAhead
  BY DEF Init, CommitAhead
<1>2. Spec => []CommitAhead
  BY <1>1, CommitAheadStep, PTL DEF Spec
<1>3. QED
  BY <1>2, IInvInvariant, DurableWriteStep, PTL DEF Spec, DurableWriteOrder, DurableWrite


-----------------------------------------------------------------------------
(* Any b consecutive heights from lo on contain a multiple of b.          *)
LEMMA MultipleInRange ==
  ASSUME NEW b \in Nat \ {0}, NEW lo \in Nat
  PROVE  \E m \in lo..(lo + b - 1) : m % b = 0
<1> DEFINE q == lo \div b
           r == lo % b
<1>1. q \in Nat /\ r \in 0..(b - 1) /\ lo = b * q + r
  BY SMT
<1>2. CASE r = 0
  BY <1>1, <1>2
<1>3. CASE r # 0
  <2>1. (b * (q + 1) + 0) % b = 0
    BY <1>1, ModOfSum
  <2>2. b * (q + 1) \in lo..(lo + b - 1)
    BY <1>1, <1>3, SMT
  <2>3. QED
    BY <2>1, <2>2
<1>4. QED
  BY <1>2, <1>3

(* The throughput batch of lines 405-416 never holds batch_size blocks:   *)
(* the part of ThroughputAccounting that bounds the batch, for every      *)
(* batch_size and end block.  A batch that started at a restart is short, *)
(* and an aligned one is reset at the multiple of batch_size it reaches.  *)
BatchNeverFull ==
  pc \in {"loop"} \cup InBlock => batch_num_blocks < BatchSizeOf(end_block_num)

THEOREM BatchNeverFullHolds == Spec => []BatchNeverFull
<1>1. IInv /\ BatchInv => BatchNeverFull
  <2> SUFFICES ASSUME IInv, BatchInv, pc \in {"loop"} \cup InBlock
               PROVE  batch_num_blocks < BatchSizeOf(end_block_num)
    BY DEF BatchNeverFull
  <2> DEFINE B == BatchSizeOf(end_block_num)
  <2>1. /\ B \in Nat \ {0}
        /\ block_num \in Nat /\ finalized_block_num \in Nat
        /\ finalized_block_num <= block_num
    BY BatchSizePositive DEF IInv, TypeOK, BatchInv, InBlock, Heights
  <2>2. CASE \E m \in finalized_block_num..(block_num - 1) : m % B = 0
    <3>1. batch_num_blocks = (block_num - 1) % B
      BY <2>2 DEF BatchInv, BatchAligned
    <3>2. QED
      BY <2>1, <2>2, <3>1
  <2>3. CASE ~\E m \in finalized_block_num..(block_num - 1) : m % B = 0
    <3>1. batch_num_blocks = block_num - finalized_block_num
      BY <2>3 DEF BatchInv, BatchAligned
    <3>2. PICK m \in finalized_block_num..(finalized_block_num + B - 1) :
                 m % B = 0
      BY <2>1, MultipleInRange
    <3>3. block_num - finalized_block_num < B
      BY <2>1, <2>3, <3>2
    <3>4. QED
      BY <2>1, <3>1, <3>3
  <2>4. QED
    BY <2>2, <2>3
<1>2. QED
  BY <1>1, BatchInvInvariant, IInvInvariant, PTL

=============================================================================
