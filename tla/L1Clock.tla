------------------------------- MODULE L1Clock -------------------------------
(***************************************************************************)
(* The L1 block context that the rollup contracts read as block.timestamp  *)
(* and block.number.  Several transactions may execute between two ticks:  *)
(* they are in the same L1 block and see the same values.                  *)
(***************************************************************************)
EXTENDS Integers

CONSTANT
  BlockGaps        \* the seconds that may pass between two L1 blocks

VARIABLES
  blockTimestamp,  \* block.timestamp
  blockNumber      \* block.number

clockVars == <<blockTimestamp, blockNumber>>

\* Ethereum requires timestamps of consecutive blocks to increase strictly.
ASSUME BlockGapsAssumption == BlockGaps \subseteq Nat \ {0}

ClockTypeOK ==
  /\ blockTimestamp \in Nat \ {0}
  /\ blockNumber \in Nat \ {0}

ClockInit ==
  /\ blockTimestamp = 1
  /\ blockNumber = 1

MineBlock ==
  \E gap \in BlockGaps :
    /\ blockTimestamp' = blockTimestamp + gap
    /\ blockNumber' = blockNumber + 1
=============================================================================
