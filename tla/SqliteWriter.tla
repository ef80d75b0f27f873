---- MODULE SqliteWriter ----
(***************************************************************************)
(* The writer of the SQLite storage (src/storage/sqlite.rs): a bounded     *)
(* channel of operations and one thread that takes what has queued up and  *)
(* writes it in one transaction.  A save_* call is over when its operation *)
(* is in the channel; nothing tells the caller what became of it.          *)
(***************************************************************************)
EXTENDS Integers, Sequences

CONSTANTS
    Capacity,   \* of the channel
    MaxBatch    \* operations in one transaction

ASSUME WriterAssumption == {Capacity, MaxBatch} \subseteq Nat \ {0}

VARIABLES
    channel,    \* operations posted and not taken
    batch       \* operations of the transaction under way

writerVars == <<channel, batch>>

WriterInit == channel = <<>> /\ batch = <<>>

\* send: awaits while the channel is full.
Post(op) ==
    /\ Len(channel) < Capacity
    /\ channel' = Append(channel, op)
    /\ UNCHANGED batch

\* run: between one and MaxBatch operations make a transaction.
TakeBatch ==
    /\ batch = <<>>
    /\ \E n \in 1 .. Len(channel) :
         /\ n <= MaxBatch
         /\ batch' = SubSeq(channel, 1, n)
         /\ channel' = SubSeq(channel, n + 1, Len(channel))

\* The transaction ends, committed or not.
EndBatch ==
    /\ batch # <<>>
    /\ batch' = <<>>
    /\ UNCHANGED channel

\* The process ends: nobody waits for the thread.
LoseAll == channel' = <<>> /\ batch' = <<>>
====
