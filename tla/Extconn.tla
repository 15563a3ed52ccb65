------------------------------- MODULE Extconn -------------------------------
(***************************************************************************)
(* esp_extconn_init, src/src/extconn.c, composed with the boot handshake.  *)
(*                                                                         *)
(* The main task brings the link up (esp_extconn_boot in ext_boot.c:      *)
(* sdmmc_init with its ten tries of sdmmc_card_init, then                  *)
(* esp_extconn_sdio_init in ext_sdio_adapter.c: CMD0, the CCCR writes and  *)
(* the slave link registers), runs esp_extconn_fw_init, which is the main  *)
(* task of SipBoot, then esp_extconn_trans_wifi_init, a delay of 100 ticks *)
(* and esp_extconn_trans_bt_init.  Every step after a failure is skipped   *)
(* except the delay.                                                       *)
(*                                                                         *)
(* The two modules meet at the card interrupt: the receive task of        *)
(* SipBoot only hears the coprocessor's events once the slave link has    *)
(* enabled SLCHOST_FN1_GPIO_SDIO_INT_ENA, a write whose result the code    *)
(* does not check.                                                         *)
(*                                                                         *)
(* Before fw_init starts the receive task the main task is alone, so each  *)
(* bring-up function is one step.  The SDMMC and SDIO calls are the        *)
(* environment: a checked call fails at most MaxInitErrors times in all,   *)
(* sdmmc_card_init may fail on every try (a card that never answers), and  *)
(* CMD0 may see ESP_ERR_INVALID_RESPONSE for as long as the slave likes.   *)
(***************************************************************************)
EXTENDS Naturals, Sequences

CONSTANTS
  BlockLens, ChunkMax, MaxOtherEvents, MaxSendErrors, \* as in SipBoot
  CardInitTries,  \* the bound of the sdmmc_card_init loop (10)
  MaxInitErrors   \* failing SDMMC, SDIO and allocation calls of bring-up

ASSUME CardInitTries \in Nat \ {0} /\ MaxInitErrors \in Nat

VARIABLES
  state, sem, semCount, mpc, ret, toDev, toHost, dpc, faults, sendErrs,
  blk, remains, loaded, txseq, rxseq, others,     \* SipBoot's
  epc,      \* where esp_extconn_init is
  eret,     \* its ret: "ok" or "fail"
  tries,    \* the i of sdmmc_init's loop
  cardOk,   \* an sdmmc_card_init returned ESP_OK
  cmd0Bad,  \* err of the last CMD0 was ESP_ERR_INVALID_RESPONSE
  link,     \* slave settings made by checked writes
  blkSize,  \* the function block sizes were written (unchecked)
  intEna,   \* SLCHOST_FN1_GPIO_SDIO_INT_ENA was written (unchecked)
  wifiUp,   \* wifi_send_task was created
  btUp,     \* bt_tx_task, tx_sem and tx_que were created
  initErrs  \* failed bring-up calls so far

SB == INSTANCE SipBoot

bootVars == <<epc, eret, tries, cardOk, cmd0Bad, link, blkSize, intEna, wifiUp,
              btUp, initErrs>>
sbVars == <<state, sem, semCount, mpc, ret, toDev, toHost, dpc, faults, sendErrs,
            blk, remains, loaded, txseq, rxseq, others>>
vars == <<sbVars, bootVars>>

(* What sdio_start and init_slave_link set with checked writes: function  *)
(* enable, interrupt enable, the 4-bit bus, stitching, packet load.       *)
LinkSettings == {"ioe", "ie", "bus", "stitch", "load"}

(* A checked call fails: esp_extconn_init skips to the BT delay.          *)
InitFails ==
  /\ initErrs < MaxInitErrors
  /\ initErrs' = initErrs + 1
  /\ eret' = "fail"
  /\ epc' = "bt_delay"

-----------------------------------------------------------------------------
(* esp_extconn_boot.                                                       *)

(* sdmmc_init up to the card: the on-chip LDO driver or the calloc of the  *)
(* card failing returns NULL, and esp_extconn_boot ESP_FAIL; a failing     *)
(* sdmmc_host_init or sdmmc_host_init_slot aborts in ESP_ERROR_CHECK.      *)
SdmmcHost ==
  /\ epc = "sdmmc"
  /\ \/ /\ epc' = "card"
        /\ UNCHANGED <<eret, initErrs>>
     \/ InitFails
     \/ /\ initErrs < MaxInitErrors
        /\ initErrs' = initErrs + 1
        /\ epc' = "aborted"
        /\ UNCHANGED eret
  /\ UNCHANGED <<tries, cardOk, cmd0Bad, link, blkSize, intEna, wifiUp, btUp>>

(* Mutant: the loop runs while i <= 10, one try past its bound.          *)
CardInitPastBound ==
  /\ epc = "card"
  /\ tries <= CardInitTries
  /\ \/ /\ cardOk' = TRUE
        /\ epc' = "sdio_init"
        /\ UNCHANGED tries
     \/ /\ tries' = tries + 1
        /\ epc' = IF tries + 1 > CardInitTries THEN "sdio_init" ELSE "card"
        /\ UNCHANGED cardOk
  /\ UNCHANGED <<eret, cmd0Bad, link, blkSize, intEna, wifiUp, btUp, initErrs>>

(* One try of sdmmc_card_init.  After CardInitTries failures the loop ends *)
(* and sdmmc_init returns the card all the same.                           *)
CardInit ==
  /\ epc = "card"
  /\ tries < CardInitTries
  /\ \/ /\ cardOk' = TRUE
        /\ epc' = "sdio_init"
        /\ UNCHANGED tries
     \/ /\ tries' = tries + 1
        /\ epc' = IF tries + 1 = CardInitTries THEN "sdio_init" ELSE "card"
        /\ UNCHANGED cardOk
  /\ UNCHANGED <<eret, cmd0Bad, link, blkSize, intEna, wifiUp, btUp, initErrs>>

(* esp_extconn_sdio_init: the calloc of host may fail (ESP_ERR_NO_MEM).    *)
SdioInit ==
  /\ epc = "sdio_init"
  /\ \/ epc' = "cmd0" /\ UNCHANGED <<eret, initErrs>>
     \/ InitFails
  /\ UNCHANGED <<tries, cardOk, cmd0Bad, link, blkSize, intEna, wifiUp, btUp>>

(* sdmmc_send_cmd_go_idle_state, sent again every second while the slave   *)
(* answers ESP_ERR_INVALID_RESPONSE, with no bound; any other error is     *)
(* returned.                                                               *)
SdioCmd0 ==
  /\ epc = "cmd0"
  /\ \/ epc' = "start" /\ UNCHANGED <<eret, cmd0Bad, initErrs>>
     \/ /\ cmd0Bad' = TRUE
        /\ UNCHANGED <<epc, eret, initErrs>>
     \/ InitFails /\ UNCHANGED cmd0Bad
  /\ UNCHANGED <<tries, cardOk, link, blkSize, intEna, wifiUp, btUp>>

(* The rest of esp_extconn_sdio_start: the function enable, interrupt      *)
(* enable and bus width writes are checked in that order, and the first    *)
(* that fails is returned; the block size writes are not checked.          *)
SdioStart ==
  /\ epc = "start"
  /\ \/ /\ link' = {"ioe", "ie", "bus"}
        /\ \/ blkSize' = TRUE /\ UNCHANGED initErrs
           \/ /\ initErrs < MaxInitErrors
              /\ initErrs' = initErrs + 1
              /\ blkSize' = FALSE
        /\ epc' = "slave_link"
        /\ UNCHANGED eret
     \/ /\ \E done \in {{}, {"ioe"}, {"ioe", "ie"}} : link' = done
        /\ InitFails
        /\ UNCHANGED blkSize
  /\ UNCHANGED <<tries, cardOk, cmd0Bad, intEna, wifiUp, btUp>>

(* esp_extconn_sdio_init_slave_link: the DMA buffer, then the checked      *)
(* register window reads and writes of SLC_CONF1 (stitching) and of        *)
(* SLC0_LEN_CONF (packet load), then the second DMA buffer, then the       *)
(* unchecked read and write of FUNC1_INT_ENA.  esp_extconn_boot returns    *)
(* what it returns.                                                        *)
SlaveLink ==
  /\ epc = "slave_link"
  /\ \/ /\ link' = link \cup {"stitch", "load"}
        /\ \/ intEna' = TRUE /\ UNCHANGED initErrs
           \/ /\ initErrs < MaxInitErrors
              /\ initErrs' = initErrs + 1
              /\ intEna' = FALSE
        /\ epc' = "sip_init"
        /\ UNCHANGED eret
     \/ /\ \E done \in {{}, {"stitch"}, {"stitch", "load"}} : link' = link \cup done
        /\ InitFails
        /\ UNCHANGED intEna
  /\ UNCHANGED <<tries, cardOk, cmd0Bad, blkSize, wifiUp, btUp>>

-----------------------------------------------------------------------------
(* esp_extconn_fw_init and what follows it.                                *)

(* esp_sip_init: the calloc of sip may fail (ESP_ERR_NO_MEM).              *)
SipInit ==
  /\ epc = "sip_init"
  /\ \/ epc' = "fw" /\ UNCHANGED <<eret, initErrs>>
     \/ InitFails
  /\ UNCHANGED <<tries, cardOk, cmd0Bad, link, blkSize, intEna, wifiUp, btUp>>

(* Mutant: only that fw_init finished is looked at, not its ret.         *)
FwReturnIgnoresRet ==
  /\ epc = "fw"
  /\ mpc \in {"done", "failed"}
  /\ eret' = IF mpc = "done" THEN "ok" ELSE "fail"
  /\ epc' = IF eret' = "ok" THEN "wifi" ELSE "bt_delay"
  /\ UNCHANGED <<tries, cardOk, cmd0Bad, link, blkSize, intEna, wifiUp, btUp,
                 initErrs>>

(* esp_extconn_fw_init has returned: its ret becomes esp_extconn_init's.   *)
FwReturn ==
  /\ epc = "fw"
  /\ mpc \in {"done", "failed"}
  /\ eret' = IF mpc = "done" /\ ret = "ok" THEN "ok" ELSE "fail"
  /\ epc' = IF eret' = "ok" THEN "wifi" ELSE "bt_delay"
  /\ UNCHANGED <<tries, cardOk, cmd0Bad, link, blkSize, intEna, wifiUp, btUp,
                 initErrs>>

(* esp_extconn_trans_wifi_init: the calloc of wifi_tx, list_lock,          *)
(* list_event and the creation of wifi_send_task are checked.              *)
WifiInit ==
  /\ epc = "wifi"
  /\ \/ /\ wifiUp' = TRUE
        /\ epc' = "bt_delay"
        /\ UNCHANGED <<eret, initErrs>>
     \/ InitFails /\ UNCHANGED wifiUp
  /\ UNCHANGED <<tries, cardOk, cmd0Bad, link, blkSize, intEna, btUp>>

(* vTaskDelay(100) runs whatever ret is; BT is started only if it is OK.   *)
BtDelay ==
  /\ epc = "bt_delay"
  /\ epc' = IF eret = "ok" THEN "bt" ELSE "returned"
  /\ UNCHANGED <<eret, tries, cardOk, cmd0Bad, link, blkSize, intEna, wifiUp,
                 btUp, initErrs>>

(* esp_extconn_trans_bt_init: the malloc of bt_tx is not checked, and a   *)
(* NULL bt_tx is written through in bt_start_up (a panic); neither are     *)
(* the creation of tx_sem, tx_que and bt_tx_task: it returns ESP_OK.       *)
BtInit ==
  /\ epc = "bt"
  /\ \/ /\ btUp' = TRUE
        /\ epc' = "returned"
        /\ UNCHANGED initErrs
     \/ /\ initErrs < MaxInitErrors
        /\ initErrs' = initErrs + 1
        /\ \/ epc' = "returned" /\ btUp' = FALSE
           \/ epc' = "aborted" /\ UNCHANGED btUp
  /\ UNCHANGED <<eret, tries, cardOk, cmd0Bad, link, blkSize, intEna, wifiUp>>

-----------------------------------------------------------------------------

(* Before esp_extconn_init the coprocessor is held in reset; pins_init and *)
(* reset_2_dl_mode bring it up in ROM download mode, SipBoot's "rom".      *)
Init ==
  /\ SB!Init
  /\ epc = "sdmmc"
  /\ eret = "fail"
  /\ tries = 0
  /\ cardOk = FALSE
  /\ cmd0Bad = FALSE
  /\ link = {}
  /\ blkSize = FALSE
  /\ intEna = FALSE
  /\ wifiUp = FALSE
  /\ btUp = FALSE
  /\ initErrs = 0

BringUp == SdmmcHost \/ CardInit \/ SdioInit \/ SdioCmd0 \/ SdioStart \/ SlaveLink
           \/ SipInit \/ FwReturn \/ WifiInit \/ BtDelay \/ BtInit

(* The main task: bring-up, or esp_extconn_fw_init once it has started.    *)
MainStep == (BringUp /\ UNCHANGED sbVars)
            \/ (epc = "fw" /\ SB!MainStep /\ UNCHANGED bootVars)

(* The receive task is woken only by the card interrupt.                   *)
RecvStep == intEna /\ SB!RecvStep /\ UNCHANGED bootVars

DevStep == SB!DevStep /\ UNCHANGED bootVars

Next == MainStep \/ RecvStep \/ DevStep

(* As in SipBoot: the tasks run when ready, and the coprocessor answers    *)
(* what it receives.  In the CMD0 loop the main task runs, but whether it  *)
(* leaves the loop is the slave's answer, so no fairness is assumed there: *)
(* the slave may answer INVALID_RESPONSE forever.                          *)
MainProgress == MainStep /\ epc # "cmd0"

Spec == Init /\ [][Next]_vars /\ WF_vars(MainProgress) /\ WF_vars(RecvStep)
        /\ WF_vars(DevStep)

-----------------------------------------------------------------------------
(* Properties.                                                             *)

TypeOK ==
  /\ epc \in {"sdmmc", "card", "sdio_init", "cmd0", "start", "slave_link",
              "sip_init", "fw", "wifi", "bt_delay", "bt", "returned", "aborted"}
  /\ eret \in {"ok", "fail"}
  /\ tries \in 0 .. CardInitTries
  /\ cardOk \in BOOLEAN /\ blkSize \in BOOLEAN /\ intEna \in BOOLEAN
  /\ wifiUp \in BOOLEAN /\ btUp \in BOOLEAN
  /\ cmd0Bad \in BOOLEAN
  /\ link \subseteq LinkSettings
  /\ initErrs \in 0 .. MaxInitErrors

(* When esp_extconn_init returns ESP_OK the session is in RUN, every       *)
(* checked slave setting was made, the card interrupt is enabled and       *)
(* wifi_send_task runs.  The interrupt enable is not checked where it is   *)
(* written: it holds because without it the receive task never hears       *)
(* TARGET_ON and BOOTUP, so esp_sip_bootup times out and the error is      *)
(* carried up through fw_init.                                             *)
InitOkImpliesUp ==
  (epc = "returned" /\ eret = "ok") =>
      /\ state = "RUN"
      /\ link = LinkSettings
      /\ intEna
      /\ wifiUp

(* The firmware is booted only once every word of the image is written     *)
(* (SipBoot's property, in the composed system).                           *)
ImageLoadedBeforeBoot == SB!ImageLoadedBeforeBoot

(* A successful bootup leaves RUN and the seqs the traffic expects         *)
(* (SipBoot's property, in the composed system).                           *)
BootOkImpliesRun == SB!BootOkImpliesRun

(* esp_extconn_init returns or aborts unless the slave answers CMD0 with   *)
(* INVALID_RESPONSE forever (the unbounded loop of esp_extconn_sdio_start): *)
(* the card loop is bounded, and the wait for BOOTUP ends at its 10 s      *)
(* timeout even when the receive task is never woken (the card interrupt  *)
(* not enabled) or a frame of the handshake was lost to a send failure.    *)
InitReturns == <>(epc \in {"returned", "aborted"}) \/ <>[](epc = "cmd0")

=============================================================================
