------------------------------- MODULE SipBoot -------------------------------
(***************************************************************************)
(* The boot handshake of the SIP session, src/src/esp_sip.c.               *)
(*                                                                         *)
(* Two tasks of the host take part.  The main task (esp_extconn_fw_init in *)
(* ext_boot.c) downloads the firmware block by block (esp_fw_download),   *)
(* each block with esp_sip_write_mem, one SIP_CMD_WRITE_MEMORY chunk at a  *)
(* time, starts the receive task, then runs esp_sip_bootup: it             *)
(* sends SIP_CMD_BOOTUP, sets PREPARE_BOOT,                                *)
(* creates boot_sem, takes it with a 10 s timeout and deletes it.  The     *)
(* receive task, already running (esp_extconn_trans_recv_init comes       *)
(* before esp_sip_bootup), hands control events to esp_sip_parse_events:   *)
(* TARGET_ON makes it send SIP_CMD_INIT, BOOTUP sets RUN and gives         *)
(* boot_sem.                                                               *)
(*                                                                         *)
(* The coprocessor is the environment: it answers BOOTUP with TARGET_ON    *)
(* and INIT with BOOTUP.  Events reach parse_events in the order it sent   *)
(* them, which is what TransRecv checks of the receive path; here both     *)
(* directions are FIFO queues.                                             *)
(***************************************************************************)
EXTENDS Naturals, Sequences

CONSTANTS
  BlockLens,      \* data_len of each block of the image, in 4-byte words
  ChunkMax,       \* SIP_BOOT_BUF_SIZE - hdrs, in 4-byte words
  MaxOtherEvents, \* COEX_STATE, CREDIT_RPT or unknown events after BOOTUP
  MaxSendErrors   \* failing SDIO writes (chunks and commands)

ASSUME /\ BlockLens \in Seq(Nat) /\ Len(BlockLens) > 0
       /\ ChunkMax \in Nat \ {0} /\ MaxOtherEvents \in Nat /\ MaxSendErrors \in Nat

Blocks == 1 .. Len(BlockLens)

(* Every word of every block, as <<block, offset>>.                        *)
Image == {<<b, u>> \in Blocks \X (0 .. 7) : u < BlockLens[b]}

States == {"INIT", "PREPARE_BOOT", "BOOT", "SEND_INIT", "WAIT_BOOTUP", "RUN",
           "SUSPEND", "STOP"}

VARIABLES
  state,     \* sip->state
  sem,       \* boot_sem: "null" before creation, "live", or "deleted"
  semCount,  \* the count of boot_sem
  mpc,       \* where esp_sip_bootup is in the main task
  ret,       \* its ret
  toDev,     \* commands sent to the coprocessor, not yet handled by it
  toHost,    \* events of the coprocessor, not yet parsed
  dpc,       \* the coprocessor: "rom", "wait_init" or "up"
  faults,    \* history: semaphore calls on a NULL or deleted handle
  sendErrs,  \* failed sends so far
  blk,       \* the block esp_fw_download is writing
  remains,   \* remains of esp_sip_write_mem for that block
  loaded,    \* history: words of the image written to the coprocessor
  txseq,     \* sip->txseq
  rxseq,     \* sip->rxseq
  others     \* other events the coprocessor has sent

vars == <<state, sem, semCount, mpc, ret, toDev, toHost, dpc, faults, sendErrs,
          blk, remains, loaded, txseq, rxseq, others>>
dl == <<blk, remains, loaded>>

(* xSemaphoreGive(boot_sem): a live counting semaphore of maximum 1 goes  *)
(* to 1; a NULL or deleted handle is a fault (configASSERT, or a write to  *)
(* freed memory).                                                          *)
Give ==
  /\ semCount' = IF sem = "live" THEN 1 ELSE semCount
  /\ faults' = CASE sem = "live"    -> faults
                 [] sem = "null"    -> faults \cup {"give_null"}
                 [] sem = "deleted" -> faults \cup {"give_deleted"}

-----------------------------------------------------------------------------
(* The main task: esp_fw_download, then esp_sip_bootup.                    *)

(* esp_fw_download first checks the image header: a magic byte other     *)
(* than FIRMWARE_MAGIC_HEADER returns ESP_FAIL before any write.  The      *)
(* image is read once, so its magic is a free choice here.                 *)
MainCheckMagic ==
  /\ mpc = "check"
  /\ \/ mpc' = "download" /\ UNCHANGED ret
     \/ mpc' = "failed" /\ ret' = "fail"
  /\ UNCHANGED <<state, sem, semCount, toDev, toHost, dpc, faults, sendErrs, dl,
                 txseq, rxseq, others>>

(* The words one turn of the esp_sip_write_mem loop writes when remains    *)
(* words of block b are left: all of them when fewer than ChunkMax, else  *)
(* ChunkMax, at loadaddr = addr + (len - remains).                         *)
ChunkSize(r) == IF r < ChunkMax THEN r ELSE ChunkMax

(* Mutant of Chunk: loadaddr computed as addr + remains.                   *)
ChunkAtRemains(b, r) == {w \in Image : w[1] = b /\ w[2] \in r .. (r + ChunkSize(r) - 1)}

Chunk(b, r) == {<<b, u>> : u \in (BlockLens[b] - r) .. (BlockLens[b] - r + ChunkSize(r) - 1)}

(* One turn of the esp_sip_write_mem loop: the chunk takes sip->txseq++   *)
(* and is written to the slave; a failed write ends the download, and     *)
(* esp_extconn_fw_init returns without booting.                           *)
MainWriteMem ==
  /\ mpc = "download"
  /\ remains > 0
  /\ txseq' = txseq + 1
  /\ \/ /\ loaded' = loaded \cup Chunk(blk, remains)
        /\ remains' = remains - ChunkSize(remains)
        /\ UNCHANGED <<blk, mpc, ret, sendErrs>>
     \/ /\ sendErrs < MaxSendErrors
        /\ sendErrs' = sendErrs + 1
        /\ ret' = "fail"
        /\ mpc' = "failed"
        /\ UNCHANGED dl
  /\ UNCHANGED <<state, sem, semCount, toDev, toHost, dpc, faults, rxseq,
                 others>>

(* esp_sip_send_cmd(SIP_CMD_BOOTUP): both seqs are reset, then the frame   *)
(* is sent under the SDIO lock.  On failure bootup goes straight to        *)
(* vSemaphoreDelete.                                                       *)
MainSendBootup ==
  /\ mpc = "send_bootup"
  /\ rxseq' = 0
  /\ txseq' = 0
  /\ \/ /\ toDev' = Append(toDev, "BOOTUP")
        /\ mpc' = "set_state"
        /\ UNCHANGED <<ret, sendErrs>>
     \/ /\ sendErrs < MaxSendErrors
        /\ sendErrs' = sendErrs + 1
        /\ ret' = "fail"
        /\ mpc' = "delete"
        /\ UNCHANGED toDev
  /\ UNCHANGED <<state, sem, semCount, toHost, dpc, faults, dl, others>>

(* sip->state = SIP_PREPARE_BOOT, after the command is already out.        *)
MainSetState ==
  /\ mpc = "set_state"
  /\ state' = "PREPARE_BOOT"
  /\ mpc' = "create"
  /\ UNCHANGED <<sem, semCount, ret, toDev, toHost, dpc, faults, sendErrs,
                 dl, txseq, rxseq, others>>

(* boot_sem = xSemaphoreCreateCounting(1, 0).                              *)
MainCreateSem ==
  /\ mpc = "create"
  /\ sem' = "live"
  /\ semCount' = 0
  /\ mpc' = "take"
  /\ UNCHANGED <<state, ret, toDev, toHost, dpc, faults, sendErrs, dl,
                 txseq, rxseq, others>>

(* xSemaphoreTake returns pdTRUE once the count is 1.                      *)
MainTakeOk ==
  /\ mpc = "take"
  /\ semCount = 1
  /\ semCount' = 0
  /\ ret' = "ok"
  /\ mpc' = "delete"
  /\ UNCHANGED <<state, sem, toDev, toHost, dpc, faults, sendErrs, dl,
                 txseq, rxseq, others>>

(* esp_fw_download: once write_mem returns ESP_OK, blocks-- and the next   *)
(* block header is read at offset += data_len; after the last block        *)
(* esp_extconn_fw_init starts the receive task.                            *)
MainNextBlock ==
  /\ mpc = "download"
  /\ remains = 0
  /\ IF blk < Len(BlockLens)
     THEN /\ blk' = blk + 1
          /\ remains' = BlockLens[blk + 1]
          /\ UNCHANGED mpc
     ELSE /\ mpc' = "start_recv"
          /\ UNCHANGED <<blk, remains>>
  /\ UNCHANGED <<state, sem, semCount, ret, toDev, toHost, dpc, faults, sendErrs,
                 loaded, txseq, rxseq, others>>

(* esp_extconn_trans_recv_init: creates sdio_mutex and recv_buf and the    *)
(* receive task; if xTaskCreatePinnedToCore fails fw_init returns          *)
(* ESP_FAIL without booting.                                               *)
MainStartRecv ==
  /\ mpc = "start_recv"
  /\ \/ mpc' = "send_bootup" /\ UNCHANGED ret
     \/ mpc' = "failed" /\ ret' = "fail"
  /\ UNCHANGED <<state, sem, semCount, toDev, toHost, dpc, faults, sendErrs, dl,
                 txseq, rxseq, others>>

(* Mutant of MainTimeout: the take waits forever.                          *)
MainTakeForever == FALSE

(* The 10 s expire first: ret = ESP_ERR_TIMEOUT.                           *)
MainTimeout ==
  /\ mpc = "take"
  /\ semCount = 0
  /\ ret' = "timeout"
  /\ mpc' = "delete"
  /\ UNCHANGED <<state, sem, semCount, toDev, toHost, dpc, faults, sendErrs,
                 dl, txseq, rxseq, others>>

(* vSemaphoreDelete(boot_sem) on every path, including the one where the   *)
(* semaphore was never created.                                            *)
MainDelete ==
  /\ mpc = "delete"
  /\ sem' = "deleted"
  /\ faults' = IF sem = "null" THEN faults \cup {"delete_null"} ELSE faults
  /\ mpc' = "done"
  /\ UNCHANGED <<state, semCount, ret, toDev, toHost, dpc, sendErrs, dl,
                 txseq, rxseq, others>>

-----------------------------------------------------------------------------
(* The receive task: esp_sip_parse_events.                                 *)

(* Each event frame took the next rxseq in handle_intr0.                   *)
(* sip_send_chip_init: SIP_CMD_INIT through esp_sip_send_cmd, which counts *)
(* sip->txseq++ before the send; the send may fail.                       *)
SipSendChipInit ==
  /\ txseq' = txseq + 1
  /\ \/ /\ toDev' = Append(toDev, "INIT")
        /\ UNCHANGED sendErrs
     \/ /\ sendErrs < MaxSendErrors
        /\ sendErrs' = sendErrs + 1
        /\ UNCHANGED toDev

(* SIP_EVT_TARGET_ON: in PREPARE_BOOT or BOOT, go to SEND_INIT and send    *)
(* the chip init, then WAIT_BOOTUP if the send succeeded; in any other     *)
(* state the event is only logged.                                         *)
RecvTargetOn ==
  /\ toHost # <<>> /\ Head(toHost) = "TARGET_ON"
  /\ toHost' = Tail(toHost)
  /\ IF state \in {"PREPARE_BOOT", "BOOT"}
     THEN /\ SipSendChipInit
          /\ state' = IF toDev' = toDev THEN "SEND_INIT" ELSE "WAIT_BOOTUP"
     ELSE UNCHANGED <<state, toDev, sendErrs, txseq>>
  /\ rxseq' = rxseq + 1
  /\ UNCHANGED <<sem, semCount, mpc, ret, dpc, faults, dl, others>>

(* SIP_EVT_COEX_STATE goes to coex_schm_status_set, SIP_EVT_CREDIT_RPT    *)
(* does nothing and an unknown id is logged: the session is not touched.   *)
RecvOtherEvent ==
  /\ toHost # <<>> /\ Head(toHost) = "OTHER"
  /\ toHost' = Tail(toHost)
  /\ rxseq' = rxseq + 1
  /\ UNCHANGED <<state, sem, semCount, mpc, ret, toDev, dpc, faults, sendErrs,
                 dl, txseq, others>>

(* Mutant of RecvBootup: boot_sem is given but sip->state is not set.      *)
RecvBootupNoState ==
  /\ toHost # <<>> /\ Head(toHost) = "BOOTUP"
  /\ toHost' = Tail(toHost)
  /\ Give
  /\ rxseq' = rxseq + 1
  /\ UNCHANGED <<state, sem, mpc, ret, toDev, dpc, sendErrs, dl, txseq,
                 others>>

(* SIP_EVT_BOOTUP: store the negotiated parameters (esp_sip_post_init),    *)
(* set RUN and give boot_sem, whatever the state and the semaphore are.    *)
RecvBootup ==
  /\ toHost # <<>> /\ Head(toHost) = "BOOTUP"
  /\ toHost' = Tail(toHost)
  /\ state' = "RUN"
  /\ Give
  /\ rxseq' = rxseq + 1
  /\ UNCHANGED <<sem, mpc, ret, toDev, dpc, sendErrs, dl, txseq, others>>

-----------------------------------------------------------------------------
(* The coprocessor.                                                        *)

(* It boots the downloaded image on BOOTUP and announces TARGET_ON.        *)
DevBoot ==
  /\ toDev # <<>> /\ Head(toDev) = "BOOTUP"
  /\ dpc = "rom"
  /\ toDev' = Tail(toDev)
  /\ toHost' = Append(toHost, "TARGET_ON")
  /\ dpc' = "wait_init"
  /\ UNCHANGED <<state, sem, semCount, mpc, ret, faults, sendErrs, dl,
                 txseq, rxseq, others>>

(* It answers INIT with the BOOTUP event.                                  *)
DevInit ==
  /\ toDev # <<>> /\ Head(toDev) = "INIT"
  /\ dpc = "wait_init"
  /\ toDev' = Tail(toDev)
  /\ toHost' = Append(toHost, "BOOTUP")
  /\ dpc' = "up"
  /\ UNCHANGED <<state, sem, semCount, mpc, ret, faults, sendErrs, dl,
                 txseq, rxseq, others>>

(* Once running, it may report coexistence state or credits at any time.  *)
DevOtherEvent ==
  /\ dpc = "up"
  /\ others < MaxOtherEvents
  /\ toHost' = Append(toHost, "OTHER")
  /\ others' = others + 1
  /\ UNCHANGED <<state, sem, semCount, mpc, ret, toDev, dpc, faults, sendErrs,
                 dl, txseq, rxseq>>

-----------------------------------------------------------------------------

(* esp_sip_init has run (sip is calloc'ed, state INIT); boot_sem is NULL.  *)
Init ==
  /\ state = "INIT"
  /\ sem = "null"
  /\ semCount = 0
  /\ mpc = "check"
  /\ ret = "fail"
  /\ toDev = <<>>
  /\ toHost = <<>>
  /\ dpc = "rom"
  /\ faults = {}
  /\ sendErrs = 0
  /\ blk = 1
  /\ remains = BlockLens[1]
  /\ loaded = {}
  /\ txseq = 0
  /\ rxseq = 0
  /\ others = 0

MainStep == MainCheckMagic \/ MainWriteMem \/ MainNextBlock \/ MainStartRecv \/ MainSendBootup \/ MainSetState \/ MainCreateSem \/ MainTakeOk
            \/ MainTimeout \/ MainDelete
RecvStep == RecvTargetOn \/ RecvBootup \/ RecvOtherEvent
DevStep  == DevBoot \/ DevInit \/ DevOtherEvent

Next == MainStep \/ RecvStep \/ DevStep

(* Both tasks run when ready; the timeout is driven by the tick, so the    *)
(* main task is never stuck in the take when it may expire; the           *)
(* coprocessor answers the commands it receives.                          *)
Spec == Init /\ [][Next]_vars /\ WF_vars(MainStep) /\ WF_vars(RecvStep)
        /\ WF_vars(DevStep)

-----------------------------------------------------------------------------
(* Properties.                                                             *)

TypeOK ==
  /\ state \in States
  /\ sem \in {"null", "live", "deleted"}
  /\ semCount \in 0 .. 1
  /\ mpc \in {"check", "download", "start_recv", "failed", "send_bootup", "set_state", "create", "take",
             "delete", "done"}
  /\ ret \in {"ok", "timeout", "fail"}
  /\ toDev \in Seq({"BOOTUP", "INIT"})
  /\ toHost \in Seq({"TARGET_ON", "BOOTUP", "OTHER"})
  /\ dpc \in {"rom", "wait_init", "up"}
  /\ faults \subseteq {"give_null", "give_deleted", "delete_null"}
  /\ sendErrs \in 0 .. MaxSendErrors
  /\ blk \in Blocks /\ remains \in Nat /\ loaded \subseteq Image
  /\ txseq \in Nat /\ rxseq \in Nat
  /\ others \in 0 .. MaxOtherEvents

(* When esp_sip_bootup returns ESP_OK the session is in RUN and its seqs   *)
(* stand where the handshake leaves them: the give of boot_sem by the      *)
(* receive task cannot overtake its state update, and since the BOOTUP     *)
(* reset the host counted only the INIT command, whatever the download     *)
(* before it counted, and received every event the coprocessor sent.       *)
BootOkImpliesRun ==
  (mpc = "done" /\ ret = "ok") => /\ state = "RUN"
                                  /\ txseq = 1
                                  /\ rxseq = 2 + others - Len(toHost)

(* The coprocessor is told to boot only once every word of every block of *)
(* the image has been written to it: the chunk arithmetic of write_mem and *)
(* the block walk of esp_fw_download leave no gap in the load addresses.   *)
ImageLoadedBeforeBoot ==
  mpc \in {"set_state", "create", "take"} => loaded = Image

(* esp_extconn_fw_init always returns: with the timeout, the main task     *)
(* never waits for ever on the coprocessor or on the receive task.         *)
BootReturns == <>(mpc \in {"done", "failed"})

(* boot_sem is only given or deleted while it is a live semaphore.         *)
NoSemaphoreMisuse == faults = {}

=============================================================================
