---------------------------- MODULE SubmitterProofs ----------------------------
(***************************************************************************)
(* The batch submitter starts from a clean slate and none of its batches   *)
(* reverts, for every number of blocks, restarts and confirmations.        *)
(*                                                                         *)
(* CleanSlate alone is not inductive: that the receipt of a clearing       *)
(* transaction leaves nothing behind follows from the nonces.  All pending *)
(* transactions carry the account's next nonce, a mined one carries a      *)
(* smaller one, and once the nonce of the clearing transaction is used up  *)
(* nothing can be pending until the instance goes on.                      *)
(***************************************************************************)
EXTENDS SubmitterProtocol, TLAPS

Busy == {"clearing", "nonced", "sending"}

NonceInv ==
  /\ accountNonce \in Nat
  /\ \A tx \in mempool : tx.nonce = accountNonce
  /\ lastMined # None => lastMined.tx.nonce < accountNonce
  /\ lastMined # None => lastMined.tx.nonce \in Nat

SendingInv ==
  /\ phase \in Phases
  /\ phase \in Busy => /\ sending.nonce \in Nat
                       /\ sending = [nonce    |-> sending.nonce,
                                     data     |-> sending.data,
                                     instance |-> instance]
  /\ phase = "clearing" /\ sending.nonce # accountNonce => mempool = {}

IInv == NonceInv /\ SendingInv /\ CleanSlate

\* The inductive invariant holds at the start, where the mempool is empty.
LEMMA InitIInv == Init => IInv
  BY DEF Init, SubmitterInit, StartPhase, IInv, NonceInv, SendingInv, CleanSlate,
         Phases, Busy

\* Only Publish and the mining of a transaction touch what NonceInv speaks of.
LEMMA NonceStep == IInv /\ [Next]_vars => NonceInv'
<1> SUFFICES ASSUME IInv, [Next]_vars PROVE NonceInv'
  OBVIOUS
<1> USE DEF IInv, NonceInv
<1>1. CASE UNCHANGED accountVars
  BY <1>1 DEF accountVars
<1>2. CASE DoPublish
  BY <1>2 DEF DoPublish, Publish
<1>3. CASE L1_MineTx
  <2>1. PICK tx \in mempool : MineTx(tx, tip)
    BY <1>3 DEF L1_MineTx
  <2>2. tx.nonce = accountNonce /\ tx.nonce \in Nat
    OBVIOUS
  <2>3. /\ accountNonce' = accountNonce + 1
        /\ mempool' = {}
        /\ lastMined'.tx = tx
    BY <2>1 DEF MineTx
  <2>4. QED
    BY <2>2, <2>3
<1>4. QED
  BY <1>1, <1>2, <1>3
     DEF Next, OtherStep, vars, L2_Produce, L1_MineBlock, DoRestart, Restart,
         DoClearNonceUnavailable, ClearNonceUnavailable,
         DoStartClearing, StartClearing, DoGetBatchBlockRange,
         GetBatchBlockRange, DoNonceAt, NonceAt, DoStartSending, CraftAndSend,
         StartSending,
         DoSkipRound, SkipRound, DoAbortNonceTooLow, AbortNonceTooLow,
         DoReceiveReceipt, ReceiveReceipt

\* Every action keeps what is being sent in step with the account, and a clean
\* slate clean.
LEMMA SendingStep == IInv /\ [Next]_vars => SendingInv' /\ CleanSlate'
<1> SUFFICES ASSUME IInv, [Next]_vars PROVE SendingInv' /\ CleanSlate'
  OBVIOUS
<1> USE DEF IInv, SendingInv, CleanSlate, Phases, Busy
<1>1. CASE L2_Produce \/ L1_MineBlock \/ UNCHANGED vars
  BY <1>1 DEF L2_Produce, L1_MineBlock, vars, submitterVars, accountVars
<1>2. CASE L1_MineTx
  <2>1. PICK tx \in mempool : MineTx(tx, tip)
    BY <1>2 DEF L1_MineTx
  <2>2. mempool' = {} /\ UNCHANGED submitterVars
    BY <2>1 DEF MineTx
  <2>3. QED
    BY <2>2 DEF submitterVars
<1>3. CASE DoRestart
  <2>1. /\ clearPendingTx' => phase' = "clear"
        /\ ~clearPendingTx' => phase' = "polling"
    BY <1>3 DEF DoRestart, Restart, GoTo, StartPhase
  <2>2. QED
    BY <2>1
<1>4. CASE DoStartClearing
  <2>1. /\ phase' = "clearing"
        /\ sending' = [nonce |-> accountNonce, data |-> Clearing,
                       instance |-> instance]
        /\ UNCHANGED <<instance, accountNonce, mempool>>
    BY <1>4 DEF DoStartClearing, StartClearing, Tx, accountVars
  <2>2. QED
    BY <2>1 DEF NonceInv
<1>5. CASE DoGetBatchBlockRange
  BY <1>5 DEF DoGetBatchBlockRange, GetBatchBlockRange, accountVars
<1>6. CASE DoNonceAt
  <2>1. /\ phase = "ranged"
        /\ phase' = "nonced"
        /\ sending' = [nonce |-> accountNonce, data |-> None,
                       instance |-> instance]
        /\ UNCHANGED <<instance, clearPendingTx, accountNonce, mempool>>
    BY <1>6 DEF DoNonceAt, NonceAt, Tx, accountVars
  <2>2. QED
    BY <2>1 DEF NonceInv
<1>7. CASE DoStartSending
  <2>1. PICK data : StartSending(data)
    BY <1>7 DEF DoStartSending, CraftAndSend
  <2>2. /\ phase = "nonced"
        /\ phase' = "sending"
        /\ sending' = [sending EXCEPT !.data = data]
        /\ UNCHANGED <<instance, clearPendingTx, accountNonce, mempool>>
    BY <2>1 DEF StartSending, accountVars
  <2>3. sending' = [nonce |-> sending.nonce, data |-> data,
                    instance |-> instance]
    BY <2>2
  <2>4. QED
    BY <2>2, <2>3
<1>8. CASE DoSkipRound
  BY <1>8 DEF DoSkipRound, SkipRound, GoTo, accountVars
<1>9. CASE DoPublish
  <2>1. /\ phase \in {"clearing", "sending"}
        /\ sending.nonce = accountNonce
        /\ mempool' = mempool \cup {sending}
        /\ UNCHANGED <<instance, clearPendingTx, phase, sending, accountNonce>>
    BY <1>9 DEF DoPublish, Publish
  <2>2. sending.instance = instance
    BY <2>1
  <2>3. QED
    BY <2>1, <2>2
<1>10. CASE DoAbortNonceTooLow
  <2>1. CASE phase = "sending"
    BY <1>10, <2>1
       DEF DoAbortNonceTooLow, AbortNonceTooLow, GoTo, accountVars
  <2>2. CASE phase # "sending"
    <3>1. phase' \in {"clear", "exited"}
      BY <1>10, <2>2 DEF DoAbortNonceTooLow, AbortNonceTooLow,
                            ClearingFailed, GoTo
    <3>2. QED
      BY <3>1
  <2>3. QED
    BY <2>1, <2>2
<1>11. CASE DoReceiveReceipt
  <2>1. /\ phase \in {"clearing", "sending"}
        /\ lastMined # None
        /\ lastMined.tx = sending
        /\ phase' = "polling"
        /\ UNCHANGED <<instance, clearPendingTx, mempool>>
    BY <1>11 DEF DoReceiveReceipt, ReceiveReceipt, Confirmed, GoTo, accountVars
  <2>2. phase = "clearing" => mempool = {}
    BY <2>1 DEF NonceInv
  <2>3. QED
    BY <2>1, <2>2
<1>12. CASE DoClearNonceUnavailable
  <2>1. phase' \in {"clear", "exited"}
    BY <1>12 DEF DoClearNonceUnavailable, ClearNonceUnavailable, ClearingFailed,
                 GoTo
  <2>2. QED
    BY <2>1
<1>13. QED
  BY <1>1, <1>2, <1>3, <1>4, <1>5, <1>6, <1>7, <1>8, <1>9, <1>10, <1>11, <1>12
     DEF Next, OtherStep

\* With ClearPendingTx, no transaction of an earlier instance is pending once
\* the event loop polls (ClearPendingTx and txMgr.Send).
THEOREM SlateIsClean == Spec => []CleanSlate
<1>1. IInv /\ [Next]_vars => IInv'
  BY NonceStep, SendingStep DEF IInv
<1>2. IInv => CleanSlate
  BY DEF IInv
<1>3. QED
  BY InitIInv, <1>1, <1>2, PTL DEF Spec

\* No batch in the mempool can be mined as a revert: a transaction enters it
\* only when the call succeeds on the present L1 state, and what changes that
\* state uses up the nonce they share (RawTransact, NonceAt).
THEOREM BatchesDoNotRevert == Spec => []NoBatchReverts
<1>1. Init => NoBatchReverts
  BY DEF Init, SubmitterInit, NoBatchReverts
<1>2. NoBatchReverts /\ [Next]_vars => NoBatchReverts'
  <2> SUFFICES ASSUME NoBatchReverts, [Next]_vars PROVE NoBatchReverts'
    OBVIOUS
  <2>1. CASE UNCHANGED <<mempool, total>>
    BY <2>1 DEF NoBatchReverts, Accepted
  <2>2. CASE L1_MineTx
    <3>1. mempool' = {}
      BY <2>2 DEF L1_MineTx, MineTx
    <3>2. QED
      BY <3>1 DEF NoBatchReverts
  <2>3. CASE DoPublish
    <3>1. /\ Accepted(sending.data)
          /\ mempool' = mempool \cup {sending}
          /\ total' = total
      BY <2>3 DEF DoPublish, Publish, EstimateGas, restVars
    <3>2. QED
      BY <3>1 DEF NoBatchReverts, Accepted
  <2>4. QED
    BY <2>1, <2>2, <2>3
       DEF Next, OtherStep, vars, accountVars, restVars, L2_Produce, L1_MineBlock,
           DoRestart, Restart, DoClearNonceUnavailable, ClearNonceUnavailable,
           DoStartClearing, StartClearing,
           DoGetBatchBlockRange, GetBatchBlockRange, DoNonceAt, NonceAt,
           DoStartSending, CraftAndSend, StartSending, DoSkipRound, SkipRound,
           DoAbortNonceTooLow, AbortNonceTooLow, DoReceiveReceipt, ReceiveReceipt
<1>3. QED
  BY <1>1, <1>2, PTL DEF Spec
=============================================================================
