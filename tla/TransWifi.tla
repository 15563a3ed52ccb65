------------------------------ MODULE TransWifi ------------------------------
(***************************************************************************)
(* The WiFi transmit path of src/src/trans_wifi.c.                         *)
(*                                                                         *)
(* Producers (the tasks of the upper WiFi stack) call wifi_send_data and   *)
(* wifi_send_cmd; both put a buffer on a singly linked list (tx_head,      *)
(* tx_tail, the STAILQ "next" field of each buffer) under list_lock and    *)
(* set WIFI_NEED_SEND.  wifi_send_task waits for that bit, takes the head, *)
(* polls the slave's free receive buffers (esp_extconn_sdio_get_buffer_size*)
(* in ext_sdio_adapter.c) until the frame fits, stamps it with the next tx *)
(* seq and sends it on function 1, which adds its blocks to                *)
(* host->total_tx.                                                         *)
(*                                                                         *)
(* The coprocessor is the environment: it consumes received frames in      *)
(* order and returns their buffers by advancing its token counter, a       *)
(* TxBufferMax-modular register.                                           *)
(***************************************************************************)
EXTENDS Naturals, Sequences, SequencesExt, FiniteSets

CONSTANTS
  Producers,     \* tasks of the upper stack that call into the list
  MaxBufs,       \* buffers allocated in one behaviour
  DataKinds,     \* kinds of buffer given to wifi_send_data
  CmdKinds,      \* kinds of command given to wifi_send_cmd
  FrameBlocks,   \* 512-byte blocks a frame may need
  SlaveBufs,     \* receive buffers of the slave
  TxBufferMax,   \* TX_BUFFER_MAX: modulus of the token counter and total_tx
  MaxSendErrors  \* failing esp_extconn_sdio_send_packet calls

ASSUME /\ MaxBufs \in Nat \ {0}
       /\ DataKinds \subseteq {"PB", "MGMT", "MGMT_PROBE"}
       /\ CmdKinds \subseteq {"CMD", "CONFIG", "SETSTA_DOWN", "TEST"}
       /\ FrameBlocks \subseteq 1 .. SlaveBufs /\ FrameBlocks # {}
       /\ SlaveBufs \in Nat \ {0}
       /\ TxBufferMax \in Nat /\ SlaveBufs < TxBufferMax
       /\ MaxSendErrors \in Nat

NULL == 0
Ids == 1 .. MaxBufs

(* The buffers list_clear recycles: ESF_BUF_TX_PB data, the CONFIG command *)
(* and management frames waiting for the probe-request completion.         *)
PurgeKinds == {"PB", "CONFIG", "MGMT_PROBE"}

VARIABLES
  head, tail, next,  \* tx_head, tx_tail and the bqentry link of each buffer
  needSend,          \* WIFI_NEED_SEND in list_event
  kindOf, blocksOf,  \* kind and size of each allocated buffer
  nextId,            \* next buffer to allocate
  ppc,               \* per producer: a SETSTA buffer still to insert, or NULL
  spc, cur,          \* wifi_send_task: where it is, the buffer it holds
  txseq,             \* sip->txseq
  totalTx,           \* host->total_tx
  tokens,            \* the slave's token counter (ESP_SDIO_TOKEN_RDATA)
  slaveq,            \* frames received by the slave and not yet consumed
  done,              \* history: buffers sent and handed back
  recycled,          \* history: buffers list_clear recycled
  sendErrs           \* failed sends so far

vars == <<head, tail, next, needSend, kindOf, blocksOf, nextId, ppc, spc, cur,
          txseq, totalTx, tokens, slaveq, done, recycled, sendErrs>>

(* The list as the code sees it: follow bqentry from tx_head.  The fuel    *)
(* bound keeps a corrupted (cyclic) list finite.                           *)
RECURSIVE Chain(_, _)
Chain(p, fuel) ==
  IF p = NULL \/ fuel = 0 THEN <<>> ELSE <<p>> \o Chain(next[p], fuel - 1)

ListSeq == Chain(head, MaxBufs + 1)

InList(b) == Contains(ListSeq, b)

(* Blocks held by frames in the slave's receive buffers.                   *)
InUse == FoldLeft(LAMBDA acc, b : acc + blocksOf[b], 0, slaveq)

-----------------------------------------------------------------------------
(* The list operations; each runs whole under list_lock.                   *)

(* list_insert: link eb after tx_tail, or make it the only element.        *)
ListInsertKeepTail(eb) ==   \* mutant: tx_tail is not advanced
  /\ IF head = NULL
     THEN /\ head' = eb
          /\ next' = [next EXCEPT ![eb] = NULL]
          /\ tail' = eb
     ELSE /\ next' = [next EXCEPT ![tail] = eb, ![eb] = NULL]
          /\ UNCHANGED <<head, tail>>
  /\ needSend' = TRUE

ListInsert(eb) ==
  /\ IF head = NULL
     THEN /\ head' = eb
          /\ next' = [next EXCEPT ![eb] = NULL]
          /\ tail' = eb
     ELSE /\ next' = [next EXCEPT ![tail] = eb, ![eb] = NULL]
          /\ tail' = eb
          /\ UNCHANGED head
  /\ needSend' = TRUE

ListHeadInsert(eb) ==
  /\ IF head = NULL
     THEN /\ head' = eb
          /\ next' = [next EXCEPT ![eb] = NULL]
          /\ tail' = eb
     ELSE /\ next' = [next EXCEPT ![eb] = head]
          /\ head' = eb
          /\ UNCHANGED tail
  /\ needSend' = TRUE

(* list_clear: unlink every buffer, recycle the purgeable ones and relink  *)
(* the others in their order; WIFI_NEED_SEND is left as it is.            *)
ListClear ==
  LET kept == SelectSeq(ListSeq, LAMBDA b : kindOf[b] \notin PurgeKinds)
      n    == Len(kept)
  IN /\ head' = IF n = 0 THEN NULL ELSE kept[1]
     /\ tail' = IF n = 0 THEN NULL ELSE kept[n]
     /\ next' = [b \in Ids |-> IF \E i \in 1 .. n - 1 : kept[i] = b
                                THEN kept[(CHOOSE i \in 1 .. n - 1 : kept[i] = b) + 1]
                                ELSE IF InList(b) THEN NULL ELSE next[b]]
     /\ recycled' = recycled \cup {b \in Ids : InList(b) /\ kindOf[b] \in PurgeKinds}

(* esf_buf_alloc by the caller: a fresh buffer of the given kind and size. *)
Alloc(kind, blocks) ==
  /\ nextId <= MaxBufs
  /\ kindOf' = [kindOf EXCEPT ![nextId] = kind]
  /\ blocksOf' = [blocksOf EXCEPT ![nextId] = blocks]
  /\ nextId' = nextId + 1

-----------------------------------------------------------------------------
(* Producers.                                                              *)

(* wifi_send_data: append a data or management buffer.                     *)
SendData(p, kind, blocks) ==
  /\ ppc[p] = NULL
  /\ Alloc(kind, blocks)
  /\ ListInsert(nextId)
  /\ UNCHANGED <<ppc, spc, cur, txseq, totalTx, tokens, slaveq, done, recycled, sendErrs>>

(* wifi_send_cmd for an ordinary command: append it.                       *)
SendCmd(p, kind, blocks) ==
  /\ ppc[p] = NULL
  /\ kind \notin {"SETSTA_DOWN", "TEST"}
  /\ Alloc(kind, blocks)
  /\ ListInsert(nextId)
  /\ UNCHANGED <<ppc, spc, cur, txseq, totalTx, tokens, slaveq, done, recycled, sendErrs>>

(* wifi_send_cmd(SIP_CMD_TEST): push it in front of the queue.             *)
SendTestCmd(p, blocks) ==
  /\ ppc[p] = NULL
  /\ Alloc("TEST", blocks)
  /\ ListHeadInsert(nextId)
  /\ UNCHANGED <<ppc, spc, cur, txseq, totalTx, tokens, slaveq, done, recycled, sendErrs>>

(* wifi_send_cmd(SIP_CMD_SETSTA) with set == 0: list_clear under one hold *)
(* of list_lock ...                                                        *)
SendSetstaDown(p, blocks) ==
  /\ ppc[p] = NULL
  /\ Alloc("SETSTA_DOWN", blocks)
  /\ ListClear
  /\ ppc' = [ppc EXCEPT ![p] = nextId]
  /\ UNCHANGED <<needSend, spc, cur, txseq, totalTx, tokens, slaveq, done, sendErrs>>

(* ... then list_insert of the SETSTA command under a second hold.         *)
SetstaInsert(p) ==
  /\ ppc[p] # NULL
  /\ ListInsert(ppc[p])
  /\ ppc' = [ppc EXCEPT ![p] = NULL]
  /\ UNCHANGED <<kindOf, blocksOf, nextId, spc, cur, txseq, totalTx, tokens, slaveq,
                 done, recycled, sendErrs>>

-----------------------------------------------------------------------------
(* wifi_send_task.                                                         *)

(* list_wait_item: block until WIFI_NEED_SEND is set (the bit is not       *)
(* consumed by the wait).                                                  *)
WaitItem ==
  /\ spc = "wait"
  /\ needSend
  /\ spc' = "remove"
  /\ UNCHANGED <<head, tail, next, needSend, kindOf, blocksOf, nextId, ppc, cur,
                 txseq, totalTx, tokens, slaveq, done, recycled, sendErrs>>

(* list_remove on an empty list: reset tx_tail, clear WIFI_NEED_SEND, and  *)
(* the task loops.                                                         *)
RemoveEmpty ==
  /\ spc = "remove"
  /\ head = NULL
  /\ tail' = NULL
  /\ needSend' = FALSE
  /\ spc' = "wait"
  /\ UNCHANGED <<head, next, kindOf, blocksOf, nextId, ppc, cur, txseq, totalTx,
                 tokens, slaveq, done, recycled, sendErrs>>

(* list_remove: unlink tx_head.  tx_tail is left alone, and points at the  *)
(* removed buffer when it was the last one.                                *)
RemoveHeadClearsBit ==   \* mutant: WIFI_NEED_SEND cleared on every remove
  /\ spc = "remove"
  /\ head # NULL
  /\ cur' = head
  /\ head' = next[head]
  /\ next' = [next EXCEPT ![head] = NULL]
  /\ needSend' = FALSE
  /\ spc' = "poll"
  /\ UNCHANGED <<tail, kindOf, blocksOf, nextId, ppc, txseq, totalTx, tokens,
                 slaveq, done, recycled, sendErrs>>

RemoveHead ==
  /\ spc = "remove"
  /\ head # NULL
  /\ cur' = head
  /\ head' = next[head]
  /\ next' = [next EXCEPT ![head] = NULL]
  /\ spc' = "poll"
  /\ UNCHANGED <<tail, needSend, kindOf, blocksOf, nextId, ppc, txseq, totalTx,
                 tokens, slaveq, done, recycled, sendErrs>>

(* esp_extconn_sdio_get_buffer_size: free slave buffers, from the token    *)
(* register and total_tx, both modulo TX_BUFFER_MAX; the frame fits when   *)
(* num * 512 >= send_len.                                                  *)
HasRoomOffByOne(blocks) ==   \* mutant: one block short is accepted
  ((tokens + TxBufferMax - totalTx) % TxBufferMax) + 1 >= blocks

HasRoom(blocks) ==
  (tokens + TxBufferMax - totalTx) % TxBufferMax >= blocks

(* The polling loop: it leaves once the frame fits (until then it delays   *)
(* 2 ms and reads again).                                                  *)
Poll ==
  /\ spc = "poll"
  /\ HasRoom(blocksOf[cur])
  /\ spc' = "send"
  /\ UNCHANGED <<head, tail, next, needSend, kindOf, blocksOf, nextId, ppc, cur,
                 txseq, totalTx, tokens, slaveq, done, recycled, sendErrs>>

(* The send_packet bookkeeping: total_tx += buffer_used, wrapped once.     *)
AdvanceTotalTxNoWrap(t, blocks) ==   \* mutant: the wrap at TX_BUFFER_MAX is lost
  t + blocks

AdvanceTotalTx(t, blocks) ==
  IF t + blocks >= TxBufferMax THEN t + blocks - TxBufferMax ELSE t + blocks

(* The seq is taken (the exemption test at line 216 is always true), the   *)
(* frame is sent under the SDIO lock, and the buffer goes back to the      *)
(* stack (net80211_en_txdq or esp_sip_recycle).                            *)
SendOk ==
  /\ spc = "send"
  /\ txseq' = txseq + 1
  /\ slaveq' = Append(slaveq, cur)
  /\ totalTx' = AdvanceTotalTx(totalTx, blocksOf[cur])
  /\ done' = done \cup {cur}
  /\ spc' = "wait"
  /\ UNCHANGED <<head, tail, next, needSend, kindOf, blocksOf, nextId, ppc, cur,
                 tokens, recycled, sendErrs>>

(* The send fails: ESP_RETURN_ON_FALSE returns from the task function.     *)
SendFails ==
  /\ spc = "send"
  /\ sendErrs < MaxSendErrors
  /\ sendErrs' = sendErrs + 1
  /\ txseq' = txseq + 1
  /\ spc' = "exited"
  /\ UNCHANGED <<head, tail, next, needSend, kindOf, blocksOf, nextId, ppc, cur,
                 totalTx, tokens, slaveq, done, recycled>>

-----------------------------------------------------------------------------
(* The coprocessor consumes the oldest received frame and returns its      *)
(* buffers through the token counter.                                      *)
DevConsume ==
  /\ slaveq # <<>>
  /\ tokens' = (tokens + blocksOf[Head(slaveq)]) % TxBufferMax
  /\ slaveq' = Tail(slaveq)
  /\ UNCHANGED <<head, tail, next, needSend, kindOf, blocksOf, nextId, ppc, spc,
                 cur, txseq, totalTx, done, recycled, sendErrs>>

-----------------------------------------------------------------------------

(* After boot the slave has SlaveBufs receive buffers free; the counters   *)
(* may stand anywhere in their modular range.                              *)
Init ==
  /\ head = NULL
  /\ tail = NULL
  /\ next = [b \in Ids |-> NULL]
  /\ needSend = FALSE
  /\ kindOf = [b \in Ids |-> "none"]
  /\ blocksOf = [b \in Ids |-> 1]
  /\ nextId = 1
  /\ ppc = [p \in Producers |-> NULL]
  /\ spc = "wait"
  /\ cur = NULL
  /\ txseq = 0
  /\ totalTx \in 0 .. TxBufferMax - 1
  /\ tokens = (totalTx + SlaveBufs) % TxBufferMax
  /\ slaveq = <<>>
  /\ done = {}
  /\ recycled = {}
  /\ sendErrs = 0

ProducerStep ==
  \E p \in Producers :
    \/ \E k \in DataKinds, n \in FrameBlocks : SendData(p, k, n)
    \/ \E k \in CmdKinds, n \in FrameBlocks : SendCmd(p, k, n)
    \/ "TEST" \in CmdKinds /\ \E n \in FrameBlocks : SendTestCmd(p, n)
    \/ "SETSTA_DOWN" \in CmdKinds /\ \E n \in FrameBlocks : SendSetstaDown(p, n)
    \/ SetstaInsert(p)

SendTaskStep == WaitItem \/ RemoveEmpty \/ RemoveHead \/ Poll \/ SendOk

Next ==
  \/ ProducerStep
  \/ SendTaskStep
  \/ SendFails
  \/ DevConsume

(* wifi_send_task runs whenever it is ready.  The coprocessor is assumed   *)
(* to keep consuming what it received (the protocol has no progress        *)
(* otherwise).  Producers need not call anything.                         *)
Spec == Init /\ [][Next]_vars /\ WF_vars(SendTaskStep) /\ WF_vars(DevConsume)

-----------------------------------------------------------------------------
(* Properties.                                                             *)

TypeOK ==
  /\ head \in Ids \cup {NULL}
  /\ tail \in Ids \cup {NULL}
  /\ next \in [Ids -> Ids \cup {NULL}]
  /\ needSend \in BOOLEAN
  /\ kindOf \in [Ids -> DataKinds \cup CmdKinds \cup {"none"}]
  /\ blocksOf \in [Ids -> FrameBlocks \cup {1}]
  /\ nextId \in 1 .. MaxBufs + 1
  /\ ppc \in [Producers -> Ids \cup {NULL}]
  /\ spc \in {"wait", "remove", "poll", "send", "exited"}
  /\ cur \in Ids \cup {NULL}
  /\ txseq \in Nat
  /\ totalTx \in 0 .. TxBufferMax - 1
  /\ tokens \in 0 .. TxBufferMax - 1
  /\ slaveq \in Seq(Ids)
  /\ done \subseteq Ids /\ recycled \subseteq Ids
  /\ sendErrs \in 0 .. MaxSendErrors

(* The list_event bit and the list agree: whenever WIFI_NEED_SEND is clear *)
(* the list is empty, so a buffer on the list always has a wakeup pending  *)
(* for wifi_send_task, whatever producers, list_clear and list_remove did. *)
NoLostWakeup == ~needSend => head = NULL

(* The free-buffer computation of get_buffer_size, with both counters      *)
(* wrapping at TX_BUFFER_MAX, never lets wifi_send_task put more blocks in *)
(* the slave than it has receive buffers.                                  *)
NoSlaveOverrun == InUse <= SlaveBufs

(* The linked list, through every interleaving of producers, list_clear   *)
(* and the send task, behaves as the FIFO of WifiTxFifo: the queue is the  *)
(* chain from tx_head.                                                     *)
Fifo == INSTANCE WifiTxFifo WITH Bufs <- Ids, queue <- ListSeq
FifoRefined == Fifo!Spec

=============================================================================
