------------------------------ MODULE MCExtconn ------------------------------
(* Model-checking instance of Extconn: the firmware image, and the byte    *)
(* checks of esp_sip_write_mem under SipBoot's word-counted chunks.        *)
EXTENDS Extconn, SipWriteMem

(* Two blocks: one longer than a chunk and an empty one.                   *)
MCBlocks == <<3, 0>>

(* The chunk sizes, in words, that SipBoot's MainWriteMem steps through   *)
(* for a block of r words.                                                 *)
RECURSIVE WordChunks(_)
WordChunks(r) ==
  IF r = 0 THEN <<>> ELSE <<SB!ChunkSize(r)>> \o WordChunks(r - SB!ChunkSize(r))

(* With SIP_BOOT_BUF_SIZE = hdrs + 4 * ChunkMax, the byte loop of          *)
(* esp_sip_write_mem sends a block of w whole words in the chunks SipBoot  *)
(* counts, for every w up to 8.                                            *)
WriteMemWordsAgree ==
  \A w \in 0 .. 8 :
    LET xs == WriteMemXfers(Hdrs + 4 * ChunkMax, 4 * w)
    IN  [i \in DOMAIN xs |-> xs[i].size \div 4] = WordChunks(w)

(* While esp_fw_download writes the image, esp_sip_write_mem loads every   *)
(* block, of any byte length up to three full chunks, with the real        *)
(* SIP_BOOT_BUF_SIZE of 256 and with smaller multiples of 4, in            *)
(* word-aligned whole-word chunks without gap                              *)
(* or overlap, never sends more than rawbuf holds, and reads at most the 3 *)
(* bytes of padding past the block.                                        *)
WriteMemBytesOk == mpc = "download" => WriteMemChunksOk

(* The word-counted chunks of SipBoot, and so ImageLoadedBeforeBoot, are   *)
(* what the byte loop of esp_sip_write_mem sends.                          *)
WriteMemMatchesWords == mpc = "download" => WriteMemWordsAgree
====
