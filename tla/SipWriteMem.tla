----------------------------- MODULE SipWriteMem -----------------------------
(***************************************************************************)
(* The byte arithmetic of esp_sip_write_mem, src/src/esp_sip.c, as pure    *)
(* operators.                                                              *)
(*                                                                         *)
(* The loop copies a block of the firmware image into sip->rawbuf, a DMA   *)
(* buffer of SIP_BOOT_BUF_SIZE bytes, behind a sip_hdr and a               *)
(* sip_cmd_write_memory, one chunk at a time: a full chunk of              *)
(* SIP_BOOT_BUF_SIZE - hdrs bytes while that many remain, then the rest    *)
(* rounded up to 4.  Each chunk is one SDIO write of chdr->len rounded up  *)
(* to 4.  SipBoot counts the same loop in 4-byte words; this module checks *)
(* the bytes under that abstraction.                                       *)
(*                                                                         *)
(* SIP_BOOT_BUF_SIZE is 256 (sip2_common.h).  It is a parameter of the     *)
(* operators, checked at 256 and at smaller sizes, so that the loop runs   *)
(* many full chunks before the last one.                                   *)
(***************************************************************************)
EXTENDS Naturals, Sequences, SdioPacket

(* hdrs = sizeof(struct sip_hdr) + sizeof(struct sip_cmd_write_memory):    *)
(* 12 + 8 bytes, both __packed.                                            *)
Hdrs == 20

(* A chunk: its offset in the block (src - buf, and loadaddr - addr), the  *)
(* bufsize copied and announced in cmd->len, and the size of the SDIO      *)
(* write, (chdr->len + 3) & ~3 with chdr->len = bufsize + hdrs.            *)
ChunkRec(off, bufsize) ==
  [off |-> off, size |-> bufsize, wlen |-> PadTo4(bufsize + Hdrs)]

(* Mutant: the last-chunk test compares with the whole buffer.             *)
RECURSIVE WriteMemLoopWholeBuf(_, _, _)
WriteMemLoopWholeBuf(buf, len, remains) ==
  IF remains = 0 THEN <<>>
  ELSE LET last == remains < buf
           bufsize == IF last THEN RoundUp(remains, 4) ELSE buf - Hdrs
       IN  <<ChunkRec(len - remains, bufsize)>>
             \o WriteMemLoopWholeBuf(buf, len, IF last THEN 0 ELSE remains - bufsize)

(* Mutant: the last chunk is copied without rounding up to 4.              *)
RECURSIVE WriteMemLoopUnpadded(_, _, _)
WriteMemLoopUnpadded(buf, len, remains) ==
  IF remains = 0 THEN <<>>
  ELSE LET last == remains < buf - Hdrs
           bufsize == IF last THEN remains ELSE buf - Hdrs
       IN  <<ChunkRec(len - remains, bufsize)>>
             \o WriteMemLoopUnpadded(buf, len, IF last THEN 0 ELSE remains - bufsize)

(* while (remains): fewer than SIP_BOOT_BUF_SIZE - hdrs bytes left are     *)
(* sent as the last chunk, rounded up to 4, and remains becomes 0; else a  *)
(* full chunk is sent and remains -= bufsize.                              *)
RECURSIVE WriteMemLoop(_, _, _)
WriteMemLoop(buf, len, remains) ==
  IF remains = 0 THEN <<>>
  ELSE LET last == remains < buf - Hdrs
           bufsize == IF last THEN RoundUp(remains, 4) ELSE buf - Hdrs
       IN  <<ChunkRec(len - remains, bufsize)>>
             \o WriteMemLoop(buf, len, IF last THEN 0 ELSE remains - bufsize)

(* esp_sip_write_mem(addr, buf, len): remains = len.                       *)
WriteMemXfers(buf, len) == WriteMemLoop(buf, len, len)

-----------------------------------------------------------------------------
(* The buffer sizes checked: 256, and every multiple of 4 that leaves room *)
(* for 4 to 32 bytes of data.  The block lengths: every length up to three *)
(* full chunks and a word, whole words or not, so that each size meets a   *)
(* block of exactly one, two and three full chunks and one byte more.      *)
BootBufSizes == {Hdrs + 4 * k : k \in 1 .. 8} \cup {256}
WriteLens(buf) == 0 .. 3 * (buf - Hdrs) + 4

(* The chunks of one block, for a buffer size that is a multiple of 4:     *)
(* they load the block front to back without gap or overlap, whole words   *)
(* at word-aligned addresses; no SDIO write is larger than rawbuf; and     *)
(* they end at the block length rounded up to 4, so memcpy reads at most 3 *)
(* bytes past the block, and none when the block is whole words.           *)
ChunksOk(buf, len) ==
  LET xs == WriteMemXfers(buf, len)
  IN  /\ Contiguous(xs)
      /\ \A i \in 1 .. Len(xs) : xs[i].off % 4 = 0 /\ xs[i].size % 4 = 0
      /\ \A i \in 1 .. Len(xs) : xs[i].wlen <= buf
      /\ Covered(xs) = RoundUp(len, 4)

WriteMemChunksOk == \A buf \in BootBufSizes : \A len \in WriteLens(buf) : ChunksOk(buf, len)

=============================================================================
