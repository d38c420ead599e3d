---------------------------- MODULE BatchSubmitter ----------------------------
(***************************************************************************)
(* The batch submitter: the polling loop of bss-core, its transaction      *)
(* manager and the clearing of pending transactions at startup, together   *)
(* with the L1 account it sends from.  A process can stop at any moment    *)
(* and be started again while transactions of the instance before are      *)
(* still in the L1 mempool.  Gas prices are abstracted: a bumped           *)
(* transaction is the same transaction, and any of several transactions    *)
(* with one nonce may be the one that is mined.                            *)
(***************************************************************************)
EXTENDS Integers

CONSTANTS
  Clearing,          \* the data of a clearing transaction: 0 ETH to oneself
  None,              \* no range, no transaction, no receipt
  ClearOptions,      \* values cfg.ClearPendingTx may have at a start
  NumConfirmations   \* cfg.NumConfirmations

VARIABLES
  instance,          \* which start of the process is running
  clearPendingTx,    \* cfg.ClearPendingTx of this instance
  phase,             \* where its event loop is
  clearTries,        \* failed attempts of the clearing loop
  range,             \* start and end (exclusive) of the L2 blocks to submit
  sending,           \* the transaction handed to txMgr.Send
  published,         \* sendTx succeeded once, so WaitMined polls its receipt
  accountNonce,      \* L1: the account's next nonce
  mempool,           \* L1: its pending transactions
  lastMined          \* L1: receipt of its last mined transaction

submitterVars ==
  <<instance, clearPendingTx, phase, clearTries, range, sending, published>>
accountVars == <<accountNonce, mempool, lastMined>>

ASSUME SubmitterAssumption ==
  /\ ClearOptions \in (SUBSET BOOLEAN) \ {{}}
  /\ NumConfirmations \in Nat \ {0}

MaxClearRetries == 3

\* "clear" and "polling" wait for the next round; in "clearing" and "sending"
\* txMgr.Send is running; after "exited" the process is gone (log.Crit).
Phases == {"clear", "clearing", "polling", "ranged", "nonced", "sending", "exited"}

Tx(nonce, data) == [nonce |-> nonce, data |-> data, instance |-> instance]

StartPhase(clear) == IF clear THEN "clear" ELSE "polling"

SubmitterInit ==
  /\ instance = 0
  /\ clearPendingTx \in ClearOptions
  /\ phase = StartPhase(clearPendingTx)
  /\ clearTries = 0
  /\ range = None
  /\ sending = None
  /\ published = FALSE
  /\ accountNonce = 0
  /\ mempool = {}
  /\ lastMined = None

GoTo(next, tries) ==
  /\ phase' = next
  /\ clearTries' = tries
  /\ range' = None
  /\ sending' = None
  /\ published' = FALSE

Restart ==
  /\ instance' = instance + 1
  /\ clearPendingTx' \in ClearOptions
  /\ GoTo(StartPhase(clearPendingTx'), 0)
  /\ UNCHANGED accountVars

\* A failed attempt of the clearing loop: it tries a limited number of times.
ClearingFailed ==
  GoTo(IF clearTries + 1 < MaxClearRetries THEN "clear" ELSE "exited",
       clearTries + 1)

\* ClearPendingTx cannot read the nonce.
ClearNonceUnavailable ==
  /\ phase = "clear"
  /\ ClearingFailed
  /\ UNCHANGED <<instance, clearPendingTx, accountVars>>

\* ClearPendingTx reads the nonce and hands Send a transaction that does nothing.
StartClearing ==
  /\ phase = "clear"
  /\ phase' = "clearing"
  /\ sending' = Tx(accountNonce, Clearing)
  /\ UNCHANGED <<instance, clearPendingTx, clearTries, range, published,
                 accountVars>>

HasUpdates_InclusiveEnd(start, end) == start < end - 1

HasUpdates(start, end) == start < end

GetBatchBlockRange(start, end) ==
  /\ phase = "polling"
  /\ HasUpdates(start, end)
  /\ phase' = "ranged"
  /\ range' = [start |-> start, end |-> end]
  /\ UNCHANGED <<instance, clearPendingTx, clearTries, sending, published,
                 accountVars>>

\* The nonce after the last mined transaction: pending ones do not count.
NonceAt ==
  /\ phase = "ranged"
  /\ phase' = "nonced"
  /\ sending' = Tx(accountNonce, None)
  /\ UNCHANGED <<instance, clearPendingTx, clearTries, range, published,
                 accountVars>>

\* CraftBatchTx made data and the gas estimation of RawTransact accepted it,
\* VerifyCondition agreed.
StartSending(data) ==
  /\ phase = "nonced"
  /\ phase' = "sending"
  /\ sending' = [sending EXCEPT !.data = data]
  /\ UNCHANGED <<instance, clearPendingTx, clearTries, range, published,
                 accountVars>>

\* The nonce could not be read, crafting failed or VerifyCondition declined:
\* wait for the next poll.
SkipRound ==
  /\ phase \in {"ranged", "nonced"}
  /\ GoTo("polling", clearTries)
  /\ UNCHANGED <<instance, clearPendingTx, accountVars>>

\* One run of sendTxAsync that L1 accepts, the first or a resubmission.
Publish_NotWaited ==
  /\ phase \in {"clearing", "sending"}
  /\ sending.nonce = accountNonce
  /\ mempool' = mempool \cup {sending}
  /\ UNCHANGED <<submitterVars, accountNonce, lastMined>>

Publish ==
  /\ phase \in {"clearing", "sending"}
  /\ sending.nonce = accountNonce
  /\ mempool' = mempool \cup {sending}
  /\ published' = TRUE
  /\ UNCHANGED <<instance, clearPendingTx, phase, clearTries, range, sending,
                 accountNonce, lastMined>>

\* One that fails with ErrNonceTooLow: Send is cancelled.  The polling loop goes
\* on with the next poll.
AbortNonceTooLow ==
  /\ phase \in {"clearing", "sending"}
  /\ sending.nonce < accountNonce
  /\ IF phase = "sending"
     THEN GoTo("polling", clearTries)
     ELSE ClearingFailed
  /\ UNCHANGED <<instance, clearPendingTx, accountVars>>

Confirmed_WhenPublished(tip) == published

\* WaitMined finds a receipt of what this Send published.
Confirmed(tip) ==
  /\ published
  /\ lastMined # None
  /\ lastMined.tx = sending
  /\ lastMined.height + NumConfirmations <= tip + 1

ReceiveReceipt(tip) ==
  /\ phase \in {"clearing", "sending"}
  /\ Confirmed(tip)
  /\ GoTo("polling", 0)
  /\ UNCHANGED <<instance, clearPendingTx, accountVars>>

\* L1 mines one of the transactions with the next nonce; it replaces the others.
MineTx(tx, height) ==
  /\ tx \in mempool
  /\ accountNonce' = accountNonce + 1
  /\ mempool' = {}
  /\ lastMined' = [tx |-> tx, height |-> height]
  /\ UNCHANGED submitterVars
=============================================================================
