------------------------------ MODULE TransRecv ------------------------------
(***************************************************************************)
(* The unified receive path of src/src/trans_recv.c: trans_recv_task and   *)
(* handle_intr0 read the SIP frames that the coprocessor queues in the     *)
(* SDIO slave's to-host buffer (function 1), check each header against the *)
(* session's receive sequence (esp_sip_increase_rxseq in esp_sip.c) and    *)
(* dispatch it by frame type.  The transfer itself is                      *)
(* esp_extconn_sdio_get_packet of ext_sdio_adapter.c.                      *)
(*                                                                         *)
(* The coprocessor is the environment: it appends frames to the slave      *)
(* buffer and raises SLCHOST_SLC0_RX_NEW_PACKET_INT_RAW.  It may give a    *)
(* frame a wrong seq (at most MaxBadSeq times).                            *)
(*                                                                         *)
(* Lengths are counted in units: a frame of length n occupies n units of   *)
(* the slave buffer and of recv_buf, and its header lies in its first      *)
(* unit.  A read that stops inside a frame leaves the rest of that frame   *)
(* in the slave buffer as a "fragment": bytes that the next read takes for *)
(* a header.                                                               *)
(***************************************************************************)
EXTENDS Naturals, Sequences, SequencesExt, FiniteSets

CONSTANTS
  MaxFrames,      \* frames the coprocessor sends in one behaviour
  FrameLens,      \* lengths a frame may have, in units
  FrameTypes,     \* SIP_TYPE values the coprocessor sends
  RecvBufLen,     \* RECV_BUF_LEN, in units
  MaxBadSeq,      \* frames the coprocessor may send with a wrong seq
  MaxIntrErrors,  \* failing reads of the interrupt status registers
  MaxXferErrors   \* failing get_packet or clear_intr transfers

ASSUME /\ MaxFrames \in Nat \ {0}
       /\ FrameLens \subseteq Nat \ {0} /\ FrameLens # {}
       /\ FrameTypes \subseteq {"CTRL", "DATA", "AMPDU", "HYBRID"}
       /\ RecvBufLen \in Nat \ {0}
       /\ {MaxBadSeq, MaxIntrErrors, MaxXferErrors} \subseteq Nat

VARIABLES
  devSeq,     \* seq the coprocessor gives its next frame (= frames sent)
  slaveq,     \* items queued in the slave's to-host buffer
  intr0,      \* SLCHOST_SLC0_RX_NEW_PACKET_INT_RAW
  rxseq,      \* sip->rxseq
  rpc,        \* where trans_recv_task is
  rbuf,       \* items of recv_buf that handle_intr0 has still to walk
  rlen,       \* rlen of handle_intr0
  delivered,  \* history: what handle_intr0 dispatched, in order
  dropped,    \* history: ids of frames read into recv_buf and discarded
  badSeq,     \* history: ids of frames the coprocessor sent with a wrong seq
  intrErrs,   \* failed interrupt status reads so far
  xferErrs    \* failed transfers so far

vars == <<devSeq, slaveq, intr0, rxseq, rpc, rbuf, rlen, delivered,
          dropped, badSeq, intrErrs, xferErrs>>

Ids == 0 .. MaxFrames - 1
SeqVals == 0 .. MaxFrames

(* An item of the slave buffer or of recv_buf: a frame as the coprocessor  *)
(* framed it, or the tail of a frame that an earlier read cut.             *)
Items == [id: Ids, kind: {"frame", "fragment"}, seq: SeqVals,
          type: FrameTypes, len: 1 .. Max(FrameLens)]

(* The handler a frame type is routed to (the if/else chain of            *)
(* handle_intr0; a type it does not know is only logged).                  *)
Handler(type) ==
  CASE type = "CTRL"                -> "esp_sip_parse_events"
    [] type \in {"DATA", "AMPDU"}   -> "sip_rx_process"
    [] OTHER                        -> "none"

(* Units pending in the slave buffer: what esp_extconn_sdio_get_rx_data_size *)
(* computes from ESP_SDIO_PKT_LEN and host->total_rx.                      *)
Pending(q) == FoldLeft(LAMBDA acc, it: acc + it.len, 0, q)

(* Mutant of ReadUnits: a read that ends exactly at a frame's end is taken *)
(* to stop inside it.                                                      *)
RECURSIVE ReadUnitsBoundary(_, _)
ReadUnitsBoundary(q, n) ==
  IF q = <<>> \/ n = 0 THEN [got |-> <<>>, rest |-> q]
  ELSE LET h == Head(q) IN
       IF h.len < n
       THEN LET r == ReadUnitsBoundary(Tail(q), n - h.len)
            IN [got |-> <<h>> \o r.got, rest |-> r.rest]
       ELSE [got  |-> <<h>>,
             rest |-> <<[h EXCEPT !.kind = "fragment", !.len = h.len - n]>>
                      \o Tail(q)]

(* The first n units of the slave buffer, as get_packet's block and byte   *)
(* reads take them: whole items while they fit, then the head of the item  *)
(* the read stops in, whose rest stays behind as a fragment.               *)
RECURSIVE ReadUnits(_, _)
ReadUnits(q, n) ==
  IF q = <<>> \/ n = 0 THEN [got |-> <<>>, rest |-> q]
  ELSE LET h == Head(q) IN
       IF h.len <= n
       THEN LET r == ReadUnits(Tail(q), n - h.len)
            IN [got |-> <<h>> \o r.got, rest |-> r.rest]
       ELSE [got  |-> <<h>>,
             rest |-> <<[h EXCEPT !.kind = "fragment", !.len = h.len - n]>>
                      \o Tail(q)]

UnitsToRead == IF Pending(slaveq) < RecvBufLen THEN Pending(slaveq) ELSE RecvBufLen

-----------------------------------------------------------------------------
(* The coprocessor.                                                        *)

(* It frames the next packet with seq devSeq (or, at most MaxBadSeq times, *)
(* a wrong seq), queues it and raises the new-packet interrupt.            *)
DevSend(type, len, seq) ==
  /\ devSeq < MaxFrames
  /\ seq = devSeq \/ Cardinality(badSeq) < MaxBadSeq
  /\ slaveq' = Append(slaveq, [id |-> devSeq, kind |-> "frame", seq |-> seq,
                               type |-> type, len |-> len])
  /\ badSeq' = IF seq = devSeq THEN badSeq ELSE badSeq \cup {devSeq}
  /\ devSeq' = devSeq + 1
  /\ intr0' = TRUE
  /\ UNCHANGED <<rxseq, rpc, rbuf, rlen, delivered, dropped, intrErrs, xferErrs>>

-----------------------------------------------------------------------------
(* trans_recv_task.                                                        *)

(* esp_extconn_sdio_wait_int(portMAX_DELAY) returns once the slave asserts *)
(* its interrupt line.                                                     *)
WaitInt ==
  /\ rpc = "wait"
  /\ intr0
  /\ rpc' = "intr"
  /\ UNCHANGED <<devSeq, slaveq, intr0, rxseq, rbuf, rlen, delivered, dropped,
                 badSeq, intrErrs, xferErrs>>

(* Under the SDIO lock: read the interrupt status; if no bit is set, loop; *)
(* otherwise write the bits back to clear them (the result of the clear is *)
(* ignored, so a failed clear leaves the bit set), then go to handle_intr0 *)
(* when the new-packet bit was set.                                        *)
ReadIntr ==
  /\ rpc = "intr"
  /\ \E clearOk \in BOOLEAN :
       /\ clearOk \/ xferErrs < MaxXferErrors
       /\ intr0' = (intr0 /\ ~clearOk)
       /\ xferErrs' = IF clearOk \/ ~intr0 THEN xferErrs ELSE xferErrs + 1
  /\ rpc' = IF intr0 THEN "fetch" ELSE "wait"
  /\ UNCHANGED <<devSeq, slaveq, rxseq, rbuf, rlen, delivered, dropped,
                 badSeq, intrErrs>>

(* The status read fails: ESP_RETURN_ON_FALSE unlocks and returns from the *)
(* task function, so the receive loop is gone.                             *)
ReadIntrFails ==
  /\ rpc = "intr"
  /\ intrErrs < MaxIntrErrors
  /\ rpc' = "exited"
  /\ intrErrs' = intrErrs + 1
  /\ UNCHANGED <<devSeq, slaveq, intr0, rxseq, rbuf, rlen, delivered, dropped,
                 badSeq, xferErrs>>

FetchDataOneFrame ==
  /\ rpc = "fetch"
  /\ Pending(slaveq) > 0
  /\ slaveq' = Tail(slaveq)
  /\ rbuf' = <<Head(slaveq)>>
  /\ rlen' = Head(slaveq).len
  /\ rpc' = "walk"
  /\ UNCHANGED <<devSeq, intr0, rxseq, delivered, dropped, badSeq, intrErrs, xferErrs>>

(* handle_intr0 fetches, under the SDIO lock, everything pending up to     *)
(* RECV_BUF_LEN: get_packet caps len at the buffer size and still returns  *)
(* ESP_OK, advancing host->total_rx by what it read.                       *)
FetchData ==
  /\ rpc = "fetch"
  /\ Pending(slaveq) > 0
  /\ LET r == ReadUnits(slaveq, UnitsToRead) IN
       /\ slaveq' = r.rest
       /\ rbuf' = r.got
  /\ rlen' = UnitsToRead
  /\ rpc' = "walk"
  /\ UNCHANGED <<devSeq, intr0, rxseq, delivered, dropped, badSeq, intrErrs, xferErrs>>

(* Nothing is pending for wait_ms polls: get_packet returns ESP_ERR_TIMEOUT *)
(* with rlen 0 and handle_intr0 returns "recv error".                      *)
FetchTimeout ==
  /\ rpc = "fetch"
  /\ Pending(slaveq) = 0
  /\ rpc' = "wait"
  /\ UNCHANGED <<devSeq, slaveq, intr0, rxseq, rbuf, rlen, delivered, dropped,
                 badSeq, intrErrs, xferErrs>>

(* Reading the pending length fails: get_packet returns the error before   *)
(* taking anything, rlen stays 0, handle_intr0 returns.                    *)
FetchFails ==
  /\ rpc = "fetch"
  /\ xferErrs < MaxXferErrors
  /\ xferErrs' = xferErrs + 1
  /\ rpc' = "wait"
  /\ UNCHANGED <<devSeq, slaveq, intr0, rxseq, rbuf, rlen, delivered, dropped,
                 badSeq, intrErrs>>

(* handle_intr0 returns ESP_FAIL in the middle of the buffer: whatever is  *)
(* left of recv_buf is never looked at.                                    *)
AbortWalk ==
  /\ dropped' = dropped \cup {rbuf[i].id : i \in {j \in DOMAIN rbuf : rbuf[j].kind = "frame"}}
  /\ rbuf' = <<>>
  /\ rlen' = 0
  /\ rpc' = "wait"

(* The walk meets bytes of a cut frame where it expects a header.  Either  *)
(* their length field fails the "len > 0 and 4-aligned" check, or it       *)
(* passes and the seq field (garbage) differs from the next rxseq, which   *)
(* is consumed.  Both end handle_intr0 with ESP_FAIL.                      *)
WalkGarbage ==
  /\ rpc = "walk"
  /\ Head(rbuf).kind = "fragment"
  /\ \E lenOk \in BOOLEAN : rxseq' = IF lenOk THEN rxseq + 1 ELSE rxseq
  /\ AbortWalk
  /\ UNCHANGED <<devSeq, slaveq, intr0, delivered, badSeq, intrErrs, xferErrs>>

(* The length field of the cut frame's bytes passes and their seq field    *)
(* happens to equal the next rxseq: the bytes are dispatched by whatever   *)
(* their type field holds.  The walk then stops if that length is at least *)
(* rlen, and otherwise moves on by it, to k units further: onto a header   *)
(* or into the middle of another frame.  Frames skipped over are lost.     *)
WalkGarbageDispatch ==
  /\ rpc = "walk"
  /\ Head(rbuf).kind = "fragment"
  /\ rxseq' = rxseq + 1
  /\ \E to \in {"esp_sip_parse_events", "sip_rx_process", "none"} :
       \/ /\ \E whole \in BOOLEAN :
               delivered' = Append(delivered, [id |-> Head(rbuf).id, kind |-> "fragment",
                                               to |-> to, whole |-> whole])
          /\ rbuf' = <<>>
          /\ rlen' = 0
          /\ rpc' = "wait"
          /\ UNCHANGED dropped
       \/ \E k \in 1 .. rlen - 1 :
            LET r == ReadUnits(rbuf, k) IN
            /\ delivered' = Append(delivered, [id |-> Head(rbuf).id, kind |-> "fragment",
                                              to |-> to, whole |-> TRUE])
            /\ dropped' = dropped \cup {r.got[i].id : i \in {j \in DOMAIN r.got :
                                                               r.got[j].kind = "frame"}}
            /\ rbuf' = r.rest
            /\ rlen' = rlen - k
            /\ rpc' = "walk"
  /\ UNCHANGED <<devSeq, slaveq, intr0, badSeq, intrErrs, xferErrs>>

(* esp_sip_increase_rxseq hands out the expected seq and advances it; a    *)
(* header whose seq differs ends handle_intr0 with "seq err".              *)
WalkSeqError ==
  /\ rpc = "walk"
  /\ Head(rbuf).kind = "frame"
  /\ Head(rbuf).seq # rxseq
  /\ rxseq' = rxseq + 1
  /\ AbortWalk
  /\ UNCHANGED <<devSeq, slaveq, intr0, delivered, badSeq, intrErrs, xferErrs>>

(* A header with the expected seq is dispatched to the handler of its      *)
(* type, then the walk moves on by hdr->len while hdr->len < rlen, and     *)
(* stops otherwise, even when the frame runs past the received bytes.      *)
WalkDispatch ==
  /\ rpc = "walk"
  /\ Head(rbuf).kind = "frame"
  /\ Head(rbuf).seq = rxseq
  /\ LET hdr == Head(rbuf) IN
       /\ rxseq' = rxseq + 1
       /\ delivered' = Append(delivered, [id |-> hdr.id, kind |-> "frame",
                                          to |-> Handler(hdr.type),
                                          whole |-> hdr.len <= rlen])
       /\ IF hdr.len < rlen
          THEN /\ rbuf' = Tail(rbuf)
               /\ rlen' = rlen - hdr.len
               /\ rpc' = "walk"
          ELSE /\ rbuf' = <<>>
               /\ rlen' = 0
               /\ rpc' = "wait"
  /\ UNCHANGED <<devSeq, slaveq, intr0, dropped, badSeq, intrErrs, xferErrs>>

-----------------------------------------------------------------------------

Init ==
  /\ devSeq = 0
  /\ slaveq = <<>>
  /\ intr0 = FALSE
  /\ rxseq = 0
  /\ rpc = "wait"
  /\ rbuf = <<>>
  /\ rlen = 0
  /\ delivered = <<>>
  /\ dropped = {}
  /\ badSeq = {}
  /\ intrErrs = 0
  /\ xferErrs = 0

(* The steps of trans_recv_task that do not depend on a transport error.   *)
RecvStep ==
  \/ WaitInt \/ ReadIntr \/ FetchData \/ FetchTimeout
  \/ WalkGarbage \/ WalkGarbageDispatch \/ WalkSeqError \/ WalkDispatch

Next ==
  \/ \E t \in FrameTypes, l \in FrameLens, s \in SeqVals : DevSend(t, l, s)
  \/ RecvStep
  \/ ReadIntrFails
  \/ FetchFails

(* trans_recv_task is a FreeRTOS task that runs whenever it is ready, so   *)
(* it does not stop while one of its steps is enabled.  The coprocessor    *)
(* need not send anything.                                                 *)
Spec == Init /\ [][Next]_vars /\ WF_vars(RecvStep)

-----------------------------------------------------------------------------
(* Properties.                                                             *)

TypeOK ==
  /\ devSeq \in 0 .. MaxFrames
  /\ slaveq \in Seq(Items)
  /\ intr0 \in BOOLEAN
  /\ rxseq \in Nat
  /\ rpc \in {"wait", "intr", "fetch", "walk", "exited"}
  /\ rbuf \in Seq(Items)
  /\ rlen \in 0 .. RecvBufLen
  /\ delivered \in Seq([id: Ids, kind: {"frame", "fragment"}, to: {"esp_sip_parse_events", "sip_rx_process", "none"},
                        whole: BOOLEAN])
  /\ dropped \subseteq Ids
  /\ badSeq \subseteq Ids
  /\ intrErrs \in 0 .. MaxIntrErrors
  /\ xferErrs \in 0 .. MaxXferErrors

(* Even when the coprocessor sends a wrong seq, every frame it queues is    *)
(* eventually either dispatched or read and dropped: no frame stays in the *)
(* slave buffer while the interrupt that announced it is already cleared.  *)
EveryFrameHandled ==
  \A i \in Ids : (devSeq > i) ~> \/ i \in dropped
                                 \/ \E k \in DOMAIN delivered : delivered[k].id = i

(* The headers the coprocessor framed that handle_intr0 dispatched.        *)
FramesDispatched == SelectSeq(delivered, LAMBDA d : d.kind = "frame")

OnlyBadSeqDropped == dropped \subseteq badSeq

(* Spec section 4.2: a trailing partial frame is dropped silently: only    *)
(* whole frames, as the coprocessor framed them, are dispatched; neither a *)
(* frame of which only part was read into recv_buf, nor the rest of a cut  *)
(* frame read later as a header.                                           *)
NoPartialDispatch ==
  \A k \in DOMAIN delivered : delivered[k].kind = "frame" /\ delivered[k].whole

=============================================================================
