----------------------------- MODULE MCRunLoop ------------------------------
(* RunLoop instantiated for TLC: two addresses, archives of four blocks    *)
(* drawn from blocks that exercise every path of process_monad_block.     *)
EXTENDS RunLoop

CONSTANTS a1, a2

MCAddr == {a1, a2}

T(s, auths) == [sender |-> s, authorities |-> auths]

(* Blocks that every check accepts, with different AddressSets.           *)
GoodBlocks ==
  { [txs |-> << >>, gas_used |-> 0, fault |-> "none"],
    [txs |-> <<T(a1, {})>>, gas_used |-> 1, fault |-> "none"],
    [txs |-> <<T(a2, {a1, Absent})>>, gas_used |-> 2, fault |-> "none"] }

(* Blocks some check rejects: one per failing stage.                      *)
BadBlocks ==
  { [txs |-> <<T(a1, {}), T(Absent, {a2})>>, gas_used |-> 1, fault |-> "none"],
    [txs |-> <<T(a1, {})>>, gas_used |-> 1, fault |-> "execution"],
    [txs |-> <<T(a2, {})>>, gas_used |-> 1, fault |-> "output_header"] }

MCBlockChoices == GoodBlocks \cup BadBlocks
=============================================================================
