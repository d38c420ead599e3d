---------------------------- MODULE MCSyncService ----------------------------
(***************************************************************************)
(* SyncService for TLC: from a fresh chain and from one with a block of an *)
(* enqueued transaction.                                                   *)
(***************************************************************************)
EXTENDS SyncService

CONSTANTS s1, t1

FirstElement == <<[transactionHash |-> t1, blockNumber |-> 1]>>

QueueChain == <<Block(0, 1, 1, t1, 0)>>
EmptyChain == <<>>
EmptyQueue == <<>>
=============================================================================
