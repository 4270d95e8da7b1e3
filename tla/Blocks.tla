------------------------------- MODULE Blocks -------------------------------
(***************************************************************************)
(* The data the run loop of cmd/monad/runloop_monad_ethblocks.cpp works   *)
(* on: blocks of the block archive, their transactions, and the           *)
(* senders-and-authorities AddressSet built from sender and authority     *)
(* recovery.  Signatures are abstracted to what recovery returns: an      *)
(* address, or Absent when the signature does not recover.  The static    *)
(* validators, the execution engine and the post-commit header check are  *)
(* external; their verdict on a block is the block's `fault` field, which *)
(* is deterministic in the block (they read nothing but the block and the *)
(* parent state, which the run loop keeps fixed, see RunLoop).            *)
(***************************************************************************)
EXTENDS Naturals, Sequences

CONSTANTS
  Addr,      \* addresses that signatures can recover to
  ZeroAddr,  \* Address{}: the value of a default-constructed Address
  Absent,    \* an empty std::optional<Address>: recovery failed
  MaxTxs     \* most transactions in one block of the model

ASSUME BlocksAssumption ==
  /\ ZeroAddr \notin Addr
  /\ Absent \notin Addr \cup {ZeroAddr}
  /\ MaxTxs \in Nat

(* A transaction as recovery sees it: the recovered sender and the        *)
(* recovered authorities of its authorization list (the order of the list *)
(* only matters to the execution engine, which is external).              *)
Tx == [sender : Addr \cup {Absent}, authorities : SUBSET (Addr \cup {Absent})]

(* The verdict of the external checks, in the order process_monad_block   *)
(* applies them: static_validate_header, static_validate_block,           *)
(* static_validate_monad_body, execute_block, validate_output_header.     *)
Faults == {"none", "header", "body", "monad_body", "execution", "output_header"}

Block == [txs : {s \in Seq(Tx) : Len(s) <= MaxTxs},
          gas_used : Nat,
          fault : Faults]

NTxs(b) == Len(b.txs)

(* Some transaction's sender does not recover (runloop lines 115-121).    *)
MissingSender(b) == \E i \in DOMAIN b.txs : b.txs[i].sender = Absent

(* The recovered authorities of all transactions, absent ones dropped.    *)
RecoveredAuthorities(b) ==
  UNION {b.txs[i].authorities \ {Absent} : i \in DOMAIN b.txs}

(* senders_and_authorities as process_monad_block builds it (lines        *)
(* 114-134): reached only when every sender recovered.                    *)
SendersAndAuthorities(b) ==
  {b.txs[i].sender : i \in DOMAIN b.txs} \cup RecoveredAuthorities(b)

(* The set the start-up seeding builds for the parent and the grandparent *)
(* (lines 306-327 and 336-360): a sender that does not recover leaves the *)
(* default Address{} in the senders vector, and that is inserted.         *)
SeededSendersAndAuthorities(b) ==
  {IF b.txs[i].sender = Absent THEN ZeroAddr ELSE b.txs[i].sender :
     i \in DOMAIN b.txs}
  \cup RecoveredAuthorities(b)

(* A variant of PreCommitError that never checks sender recovery.        *)
PreCommitErrorNoSenderCheck(b) ==
  CASE b.fault = "header" -> "HeaderError"
    [] b.fault = "body" -> "BlockError"
    [] b.fault = "monad_body" -> "MonadBodyError"
    [] b.fault = "execution" -> "ExecutionError"
    [] OTHER -> "none"

(* The error process_monad_block returns for a block, or "none": the      *)
(* checks in the order of lines 102-136; the ones after them in RunLoop.  *)
PreCommitError(b) ==
  CASE b.fault = "header" -> "HeaderError"
    [] b.fault = "body" -> "BlockError"
    [] MissingSender(b) -> "MissingSender"
    [] b.fault = "monad_body" -> "MonadBodyError"
    [] b.fault = "execution" -> "ExecutionError"
    [] OTHER -> "none"

=============================================================================
