--------------------------- MODULE FinalizedChain ---------------------------
(***************************************************************************)
(* What the run loop promises about the state store, without the loop:    *)
(* the store's finalized height grows one block at a time, only over      *)
(* blocks every check accepts, and its verified mark only ever catches up *)
(* with the finalized height.  Crashes, restarts, errors, the AddressSet  *)
(* window and the counters are all invisible at this level: they are      *)
(* stuttering steps.                                                      *)
(***************************************************************************)
EXTENDS Blocks

CONSTANTS
  ArchiveTop,    \* highest height the block archive holds
  BlockChoices   \* the blocks an archive height may hold

VARIABLES
  blocks,     \* the block archive: height -> block
  finalized,  \* the store's finalized height
  verified    \* the store's verified height

vars == <<blocks, finalized, verified>>

(* A block the whole of process_monad_block accepts: every sender         *)
(* recovers and no validator, execution or the output-header check        *)
(* rejects it.                                                            *)
Accepted(b) == ~MissingSender(b) /\ b.fault = "none"

Init ==
  /\ blocks \in [1..ArchiveTop -> BlockChoices]
  /\ finalized = 0
  /\ verified = 0

(* db.finalize of the block just above the finalized one (line 229).      *)
Finalize ==
  /\ finalized < ArchiveTop
  /\ Accepted(blocks[finalized + 1])
  /\ finalized' = finalized + 1
  /\ UNCHANGED <<blocks, verified>>

(* db.update_verified_block of the finalized height (line 230).           *)
MarkVerified ==
  /\ verified < finalized
  /\ verified' = finalized
  /\ UNCHANGED <<blocks, finalized>>

Next == Finalize \/ MarkVerified

Spec == Init /\ [][Next]_vars

=============================================================================
