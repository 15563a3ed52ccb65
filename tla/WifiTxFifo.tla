------------------------------ MODULE WifiTxFifo ------------------------------
(***************************************************************************)
(* What the WiFi TX list of src/src/trans_wifi.c promises its producers    *)
(* and its consumer, with the linked list left out: a FIFO of buffers in   *)
(* which a buffer is appended at the back (list_insert) or pushed at the   *)
(* front (list_head_insert), leaves only from the front (list_remove), and *)
(* a purge (list_clear) drops some of the queued buffers and keeps the     *)
(* order of the rest.  Which ones it drops depends on their kind, which    *)
(* only TransWifi knows.  TransWifi implements it.                         *)
(***************************************************************************)
EXTENDS Sequences, SequencesExt

CONSTANT Bufs  \* the buffers

VARIABLE queue

Init == queue = <<>>

Enqueue(b) ==
  /\ ~Contains(queue, b)
  /\ queue' = Append(queue, b)

EnqueueHead(b) ==
  /\ ~Contains(queue, b)
  /\ queue' = <<b>> \o queue

Dequeue ==
  /\ queue # <<>>
  /\ queue' = Tail(queue)

Purge == \E D \in SUBSET Bufs : queue' = SelectSeq(queue, LAMBDA b : b \notin D)

Next ==
  \/ \E b \in Bufs : Enqueue(b) \/ EnqueueHead(b)
  \/ Dequeue
  \/ Purge

Spec == Init /\ [][Next]_queue

=============================================================================
