------------------------------- MODULE TransBt -------------------------------
(***************************************************************************)
(* The BT send pipeline of src/src/trans_bt.c and the half of the receive  *)
(* loop (src/src/trans_recv.c) that grants it credit, sharing the SDIO     *)
(* mutex:                                                                  *)
(*   - bt_send_data copies a payload from the BT host stack and puts it on *)
(*     tx_que (25 entries), waiting at most 5 s for room;                  *)
(*   - bt_tx_task takes the send credit tx_sem (a counting semaphore with  *)
(*     maximum 1, created available), then a message, and sends it under   *)
(*     the SDIO mutex with the next BT tx_seq;                             *)
(*   - trans_recv_task, woken by SLCHOST_SLC1_TOHOST_BIT0, runs            *)
(*     handle_intr1: it clears the bit, reads ESP_SDIO_CONFIG_W1 and gives *)
(*     tx_sem when its bit 0 (the coprocessor is ready) is set.            *)
(* The coprocessor takes the frames the host wrote and, for each one,      *)
(* sets its ready flag and raises TOHOST_BIT0; a frame it has not taken    *)
(* yet occupies its receive buffer, and the ready flag is clear meanwhile. *)
(* The WiFi side of the loop and the BT receive path are in TransRecv and  *)
(* not repeated here.                                                      *)
(***************************************************************************)
EXTENDS Naturals, Sequences, FiniteSets

CONSTANTS
  MaxMsgs,         \* calls of bt_send_data in one behaviour
  QueueLen,        \* length of tx_que
  MsgLens,         \* payload lengths the host stack passes (0: empty)
  MaxSendErrors,   \* failing esp_extconn_sdio_send_packet calls
  MaxClearErrors,  \* failing clears of TOHOST_BIT0
  MaxReadErrors,   \* failing reads of ESP_SDIO_CONFIG_W1
  MaxWifiSends,    \* frames wifi_send_task writes meanwhile
  MaxBtRx,         \* BT frames the coprocessor sends to the host
  MaxRxErrors      \* failing BT get_packet calls

ASSUME /\ MaxMsgs \in Nat \ {0} /\ QueueLen \in Nat \ {0}
       /\ MsgLens \subseteq Nat /\ MsgLens # {}
       /\ {MaxSendErrors, MaxClearErrors, MaxReadErrors, MaxWifiSends,
           MaxBtRx, MaxRxErrors} \subseteq Nat

Ids == 0 .. MaxMsgs - 1
NoMsg == MaxMsgs
NoOwner == "none"
Msgs == [id: Ids, len: MsgLens]

VARIABLES
  que,        \* tx_que
  nextMsg,    \* calls of bt_send_data so far, the id of the next message
  qdropped,   \* history: ids bt_send_data gave up on after the 5 s wait
  credit,     \* count of tx_sem
  tpc,        \* where bt_tx_task is
  cur,        \* id of the message bt_tx_task holds
  txSeq,      \* tx_seq of bt_tx_task
  holder,     \* the task holding sdio_mutex
  rpc,        \* where trans_recv_task is on its intr_1 path
  cfg,        \* config_w1 of handle_intr1, bit 0
  bit0,       \* SLCHOST_SLC1_TOHOST_BIT0_INT_RAW
  ready,      \* bit 0 of the coprocessor's ESP_SDIO_CONFIG_W1
  devq,       \* frames written to the coprocessor, not yet taken: [id, seq]
  rcvd,       \* history: frames the coprocessor took, in order
  wpc,        \* where wifi_send_task is around its send_packet
  wsent,      \* frames wifi_send_task has written
  sendErrs, clearErrs, readErrs,
  snap,       \* TOHOST_BIT0 in the intr_1 trans_recv_task read
  btRxQ,      \* BT frames waiting in the coprocessor for the host
  btSent,     \* BT frames the coprocessor has queued so far
  hostRcvd,   \* history: BT frames passed to notify_host_recv
  cb,         \* s_callback.notify_host_recv is set
  rxErrs

vars == <<que, nextMsg, qdropped, credit, tpc, cur, txSeq, holder, rpc, cfg,
          bit0, ready, devq, rcvd, wpc, wsent, sendErrs, clearErrs, readErrs,
          snap, btRxQ, btSent, hostRcvd, cb, rxErrs>>
txVars   == <<tpc, cur, txSeq>>
recvVars == <<rpc, cfg>>
devVars  == <<bit0, ready, devq, rcvd>>
errVars  == <<sendErrs, clearErrs, readErrs>>
wifiVars == <<wpc, wsent>>
btRxVars == <<snap, btRxQ, btSent, hostRcvd, cb, rxErrs>>

-----------------------------------------------------------------------------
(* sdio_mutex, a FreeRTOS mutex.  esp_extconn_sdio_unlock gives it          *)
(* whoever holds it: a give by a task that does not hold it releases the   *)
(* holder's lock (with configASSERT on, xTaskPriorityDisinherit aborts     *)
(* instead), and a give of a free mutex does nothing.                      *)
SdioLock(t) ==
  /\ holder = NoOwner
  /\ holder' = t

SdioUnlock == holder' = NoOwner

(* Mutant of CreditGive: tx_sem created without a maximum of 1. *)
CreditGiveUnbounded == credit' = credit + 1

(* esp_extconn_trans_bt_recv: strip the BT header and pass the frame to   *)
(* notify_host_recv, or nothing when no callback is registered.            *)
BtRecv(f) == hostRcvd' = IF cb THEN Append(hostRcvd, f) ELSE hostRcvd

(* xSemaphoreGive on tx_sem: the count never exceeds its maximum of 1.     *)
CreditGive == credit' = 1

-----------------------------------------------------------------------------
(* The BT host stack.                                                      *)

(* bt_send_data: copy the payload and queue it. *)
BtSendData(len) ==
  /\ nextMsg < MaxMsgs
  /\ Len(que) < QueueLen
  /\ que' = Append(que, [id |-> nextMsg, len |-> len])
  /\ nextMsg' = nextMsg + 1
  /\ UNCHANGED <<qdropped, credit, holder>> /\ UNCHANGED txVars
  /\ UNCHANGED recvVars /\ UNCHANGED devVars /\ UNCHANGED errVars
  /\ UNCHANGED wifiVars /\ UNCHANGED btRxVars

(* tx_que stayed full for the 5 s of xQueueSend: the result is ignored and *)
(* the message (and its copy) is dropped.                                  *)
BtSendDataTimeout ==
  /\ nextMsg < MaxMsgs
  /\ Len(que) = QueueLen
  /\ qdropped' = qdropped \cup {nextMsg}
  /\ nextMsg' = nextMsg + 1
  /\ UNCHANGED <<que, credit, holder>> /\ UNCHANGED txVars
  /\ UNCHANGED recvVars /\ UNCHANGED devVars /\ UNCHANGED errVars
  /\ UNCHANGED wifiVars /\ UNCHANGED btRxVars

-----------------------------------------------------------------------------
(* bt_tx_task.                                                             *)

(* Mutant of TxTake: the credit is not waited for. *)
TxTakeNoWait ==
  /\ tpc = "take"
  /\ credit' = 0
  /\ tpc' = "recv"
  /\ UNCHANGED <<que, nextMsg, qdropped, cur, txSeq, holder>>
  /\ UNCHANGED recvVars /\ UNCHANGED devVars /\ UNCHANGED errVars
  /\ UNCHANGED wifiVars /\ UNCHANGED btRxVars

(* esp_extconn_trans_bt_send_lock: take tx_sem, blocking while it is 0. *)
TxTake ==
  /\ tpc = "take"
  /\ credit = 1
  /\ credit' = 0
  /\ tpc' = "recv"
  /\ UNCHANGED <<que, nextMsg, qdropped, cur, txSeq, holder>>
  /\ UNCHANGED recvVars /\ UNCHANGED devVars /\ UNCHANGED errVars
  /\ UNCHANGED wifiVars /\ UNCHANGED btRxVars

(* Mutant of TxRecv: the message is peeked at and left on the queue. *)
TxRecvPeek ==
  /\ tpc = "recv"
  /\ que # <<>>
  /\ IF Head(que).len > 0
     THEN tpc' = "lock" /\ cur' = Head(que).id
     ELSE tpc' = "take" /\ cur' = cur
  /\ UNCHANGED <<que, nextMsg, qdropped, credit, txSeq, holder>>
  /\ UNCHANGED recvVars /\ UNCHANGED devVars /\ UNCHANGED errVars
  /\ UNCHANGED wifiVars /\ UNCHANGED btRxVars

(* xQueueReceive, blocking until a message is queued.  A message without   *)
(* data or length is skipped, and the loop goes back to take the credit    *)
(* it has already consumed.                                                *)
TxRecv ==
  /\ tpc = "recv"
  /\ que # <<>>
  /\ que' = Tail(que)
  /\ IF Head(que).len > 0
     THEN tpc' = "lock" /\ cur' = Head(que).id
     ELSE tpc' = "take" /\ cur' = cur
  /\ UNCHANGED <<nextMsg, qdropped, credit, txSeq, holder>>
  /\ UNCHANGED recvVars /\ UNCHANGED devVars /\ UNCHANGED errVars
  /\ UNCHANGED wifiVars /\ UNCHANGED btRxVars

(* Mutant of TxLock: the frame is written without taking the SDIO mutex. *)
TxLockNoWait ==
  /\ tpc = "lock"
  /\ tpc' = "send"
  /\ UNCHANGED <<que, nextMsg, qdropped, credit, cur, txSeq, holder>>
  /\ UNCHANGED recvVars /\ UNCHANGED devVars /\ UNCHANGED errVars
  /\ UNCHANGED wifiVars /\ UNCHANGED btRxVars

(* Frame the message with the next tx_seq and take the SDIO mutex. *)
TxLock ==
  /\ tpc = "lock"
  /\ SdioLock("bt_tx")
  /\ tpc' = "send"
  /\ UNCHANGED <<que, nextMsg, qdropped, credit, cur, txSeq>>
  /\ UNCHANGED recvVars /\ UNCHANGED devVars /\ UNCHANGED errVars
  /\ UNCHANGED wifiVars /\ UNCHANGED btRxVars

(* esp_extconn_sdio_send_packet on function 2, then unlock.  tx_seq was    *)
(* advanced when the frame was built.  A failed send is only logged: the   *)
(* frame is freed and the loop goes on.  A frame that lands fills the      *)
(* coprocessor's buffer and clears its ready flag.                         *)
TxSend ==
  /\ tpc = "send"
  /\ txSeq' = txSeq + 1
  /\ \/ /\ devq' = Append(devq, [id |-> cur, seq |-> txSeq])
        /\ ready' = FALSE
        /\ UNCHANGED sendErrs
     \/ /\ sendErrs < MaxSendErrors
        /\ sendErrs' = sendErrs + 1
        /\ UNCHANGED <<devq, ready>>
  /\ SdioUnlock
  /\ tpc' = "take"
  /\ UNCHANGED <<que, nextMsg, qdropped, credit, cur, bit0, rcvd, clearErrs, readErrs>>
  /\ UNCHANGED recvVars
  /\ UNCHANGED wifiVars /\ UNCHANGED btRxVars

-----------------------------------------------------------------------------
(* trans_recv_task on the intr_1 path.                                     *)

(* esp_extconn_sdio_wait_int returns once the slave asserts its line. *)
RecvWait ==
  /\ rpc = "wait"
  /\ bit0 \/ btRxQ # <<>>
  /\ rpc' = "intr"
  /\ UNCHANGED <<que, nextMsg, qdropped, credit, holder, cfg>> /\ UNCHANGED txVars
  /\ UNCHANGED devVars /\ UNCHANGED errVars
  /\ UNCHANGED wifiVars /\ UNCHANGED btRxVars

RecvReadIntrOnlyBit0 ==
  /\ rpc = "intr"
  /\ holder = NoOwner
  /\ snap' = bit0
  /\ rpc' = CASE bit0 /\ btRxQ # <<>> -> "h1rx"
              [] bit0                  -> "h1lock"
              [] OTHER                 -> "wait"
  /\ UNCHANGED <<que, nextMsg, qdropped, credit, holder, cfg>> /\ UNCHANGED txVars
  /\ UNCHANGED devVars /\ UNCHANGED errVars
  /\ UNCHANGED wifiVars /\ UNCHANGED <<btRxQ, btSent, hostRcvd, cb, rxErrs>>

(* Under the SDIO mutex: read both status words; with intr_1 set, clear    *)
(* intr_0 (here 0, which clear_intr skips), unlock and call handle_intr1,  *)
(* which works from this reading of intr_1: first BT_RX_NEW_PACKET, then   *)
(* TOHOST_BIT0.                                                            *)
RecvReadIntr ==
  /\ rpc = "intr"
  /\ holder = NoOwner
  /\ snap' = bit0
  /\ rpc' = CASE btRxQ # <<>> -> "h1rx"
              [] bit0          -> "h1lock"
              [] OTHER         -> "wait"
  /\ UNCHANGED <<que, nextMsg, qdropped, credit, holder, cfg>> /\ UNCHANGED txVars
  /\ UNCHANGED devVars /\ UNCHANGED errVars
  /\ UNCHANGED wifiVars /\ UNCHANGED <<btRxQ, btSent, hostRcvd, cb, rxErrs>>

(* handle_intr1 with BT_RX_NEW_PACKET: under the SDIO mutex get_packet on  *)
(* function 2 reads the next BT frame (its length from SLC1_HOST_PF); on   *)
(* ESP_OK esp_extconn_trans_bt_recv passes it up.  A failed               *)
(* read leaves the frame in the slave.  Then the TOHOST_BIT0 half runs if  *)
(* the bit was set in the reading.                                         *)
H1RxRead ==
  /\ rpc = "h1rx"
  /\ holder = NoOwner
  /\ \/ /\ btRxQ' = Tail(btRxQ)
        /\ BtRecv(Head(btRxQ))
        /\ UNCHANGED rxErrs
     \/ /\ rxErrs < MaxRxErrors
        /\ rxErrs' = rxErrs + 1
        /\ UNCHANGED <<btRxQ, hostRcvd>>
  /\ rpc' = IF snap THEN "h1lock" ELSE "wait"
  /\ UNCHANGED <<que, nextMsg, qdropped, credit, holder, cfg>> /\ UNCHANGED txVars
  /\ UNCHANGED devVars /\ UNCHANGED errVars /\ UNCHANGED wifiVars
  /\ UNCHANGED <<snap, btSent, cb>>

(* handle_intr1 takes the SDIO mutex for the TOHOST_BIT0 work. *)
H1Lock ==
  /\ rpc = "h1lock"
  /\ SdioLock("trans_recv")
  /\ rpc' = "h1clear"
  /\ UNCHANGED <<que, nextMsg, qdropped, credit, cfg>> /\ UNCHANGED txVars
  /\ UNCHANGED devVars /\ UNCHANGED errVars
  /\ UNCHANGED wifiVars /\ UNCHANGED btRxVars

(* Clear TOHOST_BIT0.  On failure the mutex is given and the function      *)
(* carries on to the register read.                                        *)
H1Clear ==
  /\ rpc = "h1clear"
  /\ \/ /\ bit0' = FALSE
        /\ UNCHANGED <<holder, clearErrs>>
     \/ /\ clearErrs < MaxClearErrors
        /\ clearErrs' = clearErrs + 1
        /\ SdioUnlock
        /\ UNCHANGED bit0
  /\ rpc' = "h1read"
  /\ UNCHANGED <<que, nextMsg, qdropped, credit, cfg, ready, devq, rcvd,
                 sendErrs, readErrs>> /\ UNCHANGED txVars
  /\ UNCHANGED wifiVars /\ UNCHANGED btRxVars

(* Read ESP_SDIO_CONFIG_W1.  On failure config_w1 keeps its 0 and the      *)
(* mutex is given once more.                                               *)
H1Read ==
  /\ rpc = "h1read"
  /\ \/ /\ cfg' = ready
        /\ UNCHANGED <<holder, readErrs>>
     \/ /\ readErrs < MaxReadErrors
        /\ readErrs' = readErrs + 1
        /\ cfg' = FALSE
        /\ SdioUnlock
  /\ rpc' = "h1unlock"
  /\ UNCHANGED <<que, nextMsg, qdropped, credit, sendErrs, clearErrs>>
  /\ UNCHANGED txVars /\ UNCHANGED devVars
  /\ UNCHANGED wifiVars /\ UNCHANGED btRxVars

(* Give the mutex, then, when the coprocessor said it is ready,            *)
(* esp_extconn_trans_bt_send_unlock gives tx_sem.                          *)
H1Unlock ==
  /\ rpc = "h1unlock"
  /\ SdioUnlock
  /\ IF cfg THEN CreditGive ELSE UNCHANGED credit
  /\ rpc' = "wait"
  /\ UNCHANGED <<que, nextMsg, qdropped, cfg>> /\ UNCHANGED txVars
  /\ UNCHANGED devVars /\ UNCHANGED errVars
  /\ UNCHANGED wifiVars /\ UNCHANGED btRxVars

-----------------------------------------------------------------------------
(* The coprocessor takes the oldest frame, sets its ready flag and raises  *)
(* TOHOST_BIT0.                                                            *)
DevTake ==
  /\ devq # <<>>
  /\ rcvd' = Append(rcvd, Head(devq))
  /\ devq' = Tail(devq)
  /\ ready' = TRUE
  /\ bit0' = TRUE
  /\ UNCHANGED <<que, nextMsg, qdropped, credit, holder>> /\ UNCHANGED txVars
  /\ UNCHANGED recvVars /\ UNCHANGED errVars
  /\ UNCHANGED wifiVars /\ UNCHANGED btRxVars

(* The coprocessor queues a BT frame for the host; BT_RX_NEW_PACKET stays  *)
(* raised while frames wait.                                               *)
DevSendBt ==
  /\ btSent < MaxBtRx
  /\ btRxQ' = Append(btRxQ, btSent)
  /\ btSent' = btSent + 1
  /\ UNCHANGED <<que, nextMsg, qdropped, credit, holder>> /\ UNCHANGED txVars
  /\ UNCHANGED recvVars /\ UNCHANGED devVars /\ UNCHANGED errVars
  /\ UNCHANGED wifiVars /\ UNCHANGED <<snap, hostRcvd, cb, rxErrs>>

(* esp_extconn_bt_register_host_callback, called by the BT host stack. *)
HostRegister ==
  /\ ~cb
  /\ cb' = TRUE
  /\ UNCHANGED <<que, nextMsg, qdropped, credit, holder>> /\ UNCHANGED txVars
  /\ UNCHANGED recvVars /\ UNCHANGED devVars /\ UNCHANGED errVars
  /\ UNCHANGED wifiVars /\ UNCHANGED <<snap, btRxQ, btSent, hostRcvd, rxErrs>>

(* wifi_send_task, the other user of the SDIO mutex (TransWifi models it  *)
(* in full): it locks, writes a frame with send_packet, and unlocks.       *)
WifiLock ==
  /\ wpc = "idle"
  /\ wsent < MaxWifiSends
  /\ SdioLock("wifi_send")
  /\ wpc' = "send"
  /\ UNCHANGED <<que, nextMsg, qdropped, credit, wsent, sendErrs, clearErrs, readErrs>>
  /\ UNCHANGED txVars /\ UNCHANGED recvVars /\ UNCHANGED devVars
  /\ UNCHANGED btRxVars

WifiSend ==
  /\ wpc = "send"
  /\ SdioUnlock
  /\ wpc' = "idle"
  /\ wsent' = wsent + 1
  /\ UNCHANGED <<que, nextMsg, qdropped, credit, sendErrs, clearErrs, readErrs>>
  /\ UNCHANGED txVars /\ UNCHANGED recvVars /\ UNCHANGED devVars
  /\ UNCHANGED btRxVars

(* bt_start_up: tx_sem created with count 1, tx_que empty; the coprocessor *)
(* is idle and ready.                                                      *)
Init ==
  /\ que = <<>>
  /\ nextMsg = 0
  /\ qdropped = {}
  /\ credit = 1
  /\ tpc = "take"
  /\ cur = NoMsg
  /\ txSeq = 0
  /\ holder = NoOwner
  /\ rpc = "wait"
  /\ cfg = FALSE
  /\ bit0 = FALSE
  /\ ready = TRUE
  /\ devq = <<>>
  /\ rcvd = <<>>
  /\ wpc = "idle"
  /\ wsent = 0
  /\ sendErrs = 0 /\ clearErrs = 0 /\ readErrs = 0
  /\ snap = FALSE
  /\ btRxQ = <<>> /\ btSent = 0 /\ hostRcvd = <<>>
  /\ cb = FALSE
  /\ rxErrs = 0

TxStep == TxTake \/ TxRecv \/ TxLock \/ TxSend
RecvStep == RecvWait \/ RecvReadIntr \/ H1RxRead \/ H1Lock \/ H1Clear \/ H1Read \/ H1Unlock

Next ==
  \/ \E len \in MsgLens : BtSendData(len)
  \/ BtSendDataTimeout
  \/ TxStep
  \/ RecvStep
  \/ DevTake \/ DevSendBt \/ HostRegister
  \/ WifiLock \/ WifiSend

(* The tasks run whenever they are ready; the coprocessor is assumed to   *)
(* take what it was sent.  The BT host stack need not send.                *)
Spec == Init /\ [][Next]_vars /\ WF_vars(TxStep) /\ WF_vars(RecvStep)
                              /\ WF_vars(DevTake) /\ WF_vars(WifiSend)

-----------------------------------------------------------------------------
(* Properties.                                                             *)

TypeOK ==
  /\ que \in Seq(Msgs) /\ Len(que) <= QueueLen
  /\ nextMsg \in 0 .. MaxMsgs
  /\ qdropped \subseteq Ids
  /\ credit \in 0 .. 1
  /\ tpc \in {"take", "recv", "lock", "send"}
  /\ cur \in Ids \cup {NoMsg}
  /\ txSeq \in Nat
  /\ holder \in {NoOwner, "bt_tx", "wifi_send", "trans_recv"}
  /\ rpc \in {"wait", "intr", "h1rx", "h1lock", "h1clear", "h1read", "h1unlock"}
  /\ cfg \in BOOLEAN /\ bit0 \in BOOLEAN /\ ready \in BOOLEAN
  /\ devq \in Seq([id: Ids, seq: Nat])
  /\ rcvd \in Seq([id: Ids, seq: Nat])
  /\ wpc \in {"idle", "send"} /\ wsent \in 0 .. MaxWifiSends
  /\ sendErrs \in 0 .. MaxSendErrors
  /\ clearErrs \in 0 .. MaxClearErrors
  /\ readErrs \in 0 .. MaxReadErrors
  /\ snap \in BOOLEAN /\ cb \in BOOLEAN
  /\ btRxQ \in Seq(0 .. MaxBtRx - 1) /\ btSent \in 0 .. MaxBtRx
  /\ hostRcvd \in Seq(0 .. MaxBtRx - 1)
  /\ rxErrs \in 0 .. MaxRxErrors

Wire == rcvd \o devq

(* BT frames cross the link in order and at most once in both directions:  *)
(* the coprocessor receives them in the order bt_send_data queued their    *)
(* payloads, with strictly increasing tx_seq, and notify_host_recv gets    *)
(* the coprocessor's frames in the order it queued them, whatever fails on *)
(* the way: a failed send or read, a skipped empty message or a dropped    *)
(* one leaves a gap or a retry, never a repeat or a swap.                  *)
BtInOrder ==
  /\ \A i, j \in DOMAIN Wire :
       i < j => Wire[i].id < Wire[j].id /\ Wire[i].seq < Wire[j].seq
  /\ \A i, j \in DOMAIN hostRcvd : i < j => hostRcvd[i] < hostRcvd[j]

(* The send credit works as flow control: the host never has more than one *)
(* BT frame outstanding in the coprocessor's receive buffer.               *)
NoBtOverrun == Len(devq) <= 1

(* Spec section 5: every call that touches the transport holds the SDIO    *)
(* mutex for its duration, so no two of bt_tx_task's write,                *)
(* wifi_send_task's write and handle_intr1's clear and register read are   *)
(* under way at once.                                                      *)
InTransport ==
  {t \in {"bt_tx", "wifi_send", "trans_recv"} :
     \/ t = "bt_tx" /\ tpc = "send"
     \/ t = "wifi_send" /\ wpc = "send"
     \/ t = "trans_recv" /\ rpc \in {"h1clear", "h1read"}}

SdioExclusive == Cardinality(InTransport) <= 1

(* Every payload bt_send_data queued is eventually written to the          *)
(* coprocessor and taken by it: the credit that bt_tx_task consumes is     *)
(* always given back through TOHOST_BIT0 and handle_intr1.                 *)
EveryBtMsgSent ==
  \A i \in Ids : (\E k \in DOMAIN que : que[k].id = i)
                   ~> (\E k \in DOMAIN rcvd : rcvd[k].id = i)

(* Once the host stack has registered its callback, every BT frame the     *)
(* coprocessor queues reaches notify_host_recv: BT_RX_NEW_PACKET is taken   *)
(* from the same intr_1 reading as TOHOST_BIT0 and neither half of         *)
(* handle_intr1 hides the other.                                           *)
EveryBtRxDelivered ==
  \A i \in 0 .. MaxBtRx - 1 :
    (cb /\ \E k \in DOMAIN btRxQ : btRxQ[k] = i)
      ~> (\E k \in DOMAIN hostRcvd : hostRcvd[k] = i)

=============================================================================
