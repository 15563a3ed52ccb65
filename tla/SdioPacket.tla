------------------------------ MODULE SdioPacket ------------------------------
(***************************************************************************)
(* The byte layer of the SDIO adapter, src/src/ext_sdio_adapter.c, and the *)
(* roundup macro of src/priv_include/esp_sip.h, as pure operators.         *)
(*                                                                         *)
(* esp_extconn_sdio_send_packet and esp_extconn_sdio_get_packet move a     *)
(* packet in CMD53 transfers: whole 512-byte blocks first, then the tail   *)
(* in byte mode, padded to 4 bytes, which extconn_sdio_write_bytes and     *)
(* extconn_sdio_read_bytes split once more into a multiple of 4 and the    *)
(* rest.  A transfer is a record: its mode, the SDIO address, its offset   *)
(* in the host buffer, its size, and whether the driver accepted it.       *)
(* wifi_send_task sizes every frame with roundup(len, tx_blksz), where     *)
(* tx_blksz is whatever the coprocessor reported in its BOOTUP event.      *)
(*                                                                         *)
(* The state machines use block counts (TransWifi) and length units        *)
(* (TransRecv); the checks below range over every byte length those units *)
(* stand for, so the byte arithmetic under the abstractions is checked.    *)
(***************************************************************************)
EXTENDS Naturals, Sequences

(* ESP_SLAVE_CMD53_END_ADDR of the slave link headers (not in this         *)
(* repository); only differences of addresses matter.                      *)
EndAddr == 126976

BlockSize == 512          \* block_size in send_packet and get_packet

(* The reads checked: every length up to four blocks.                     *)
ReadLens == 1 .. 2048

(* Block sizes the coprocessor may report: every size up to 64, and the    *)
(* larger powers of two.                                                   *)
TxBlkSizes == (1 .. 64) \cup {128, 256, 512}

(* x & ~m: x with the bits of m cleared, bit by bit from the lowest.       *)
RECURSIVE ClearBits(_, _)
ClearBits(x, m) ==
  IF m = 0 THEN x
  ELSE 2 * ClearBits(x \div 2, m \div 2) + (IF m % 2 = 1 THEN 0 ELSE x % 2)

(* Mutant: the mask without the bias of y-1, which rounds down.          *)
RoundUpNoBias(x, y) == ClearBits(x, y - 1)

(* roundup(x, y): ((x) + ((y)-1)) & (~((y)-1)).  In uint32_t arithmetic   *)
(* nothing wraps for y >= 1 and the lengths below; y = 0 would make y-1    *)
(* 0xFFFFFFFF and the result 0, and is left out of TxBlkSizes.             *)
RoundUp(x, y) == ClearBits(x + (y - 1), y - 1)

(* (len + 3) & (~3): the padded size of a byte-mode tail.                 *)
PadTo4(len) == ClearBits(len + 3, 3)

(* One pass of the loop of extconn_sdio_read_bytes: size & ~3 if that is   *)
(* not 0, else size; the address advances with the buffer.                 *)
RECURSIVE ReadBytesXfers(_, _, _)
ReadBytesXfers(addr, off, size) ==
  IF size = 0 THEN <<>>
  ELSE LET aligned == ClearBits(size, 3)
           will == IF aligned > 0 THEN aligned ELSE size
       IN  <<[mode |-> "byte", addr |-> addr, off |-> off, size |-> will, ok |-> TRUE]>>
             \o ReadBytesXfers(addr + will, off + will, size - will)

(* extconn_sdio_write_bytes runs the same loop.                            *)
WriteBytesXfers(addr, off, size) == ReadBytesXfers(addr, off, size)

(* extconn_sdio_read_blocks and write_blocks refuse a size that is not a   *)
(* multiple of 4 with ESP_ERR_INVALID_SIZE.                                *)
ReadBlocksXfer(addr, off, size) ==
  [mode |-> "block", addr |-> addr, off |-> off, size |-> size, ok |-> size % 4 = 0]

WriteBlocksXfer(addr, off, size) == ReadBlocksXfer(addr, off, size)

(* The do-while loop of send_packet: the address is computed once, before  *)
(* the loop, from the whole length.                                        *)
RECURSIVE SendLoop(_, _, _)
SendLoop(addr, off, remain) ==
  LET n == remain \div BlockSize
      len == IF n # 0 THEN n * BlockSize ELSE remain
      xfers == IF n # 0 THEN <<WriteBlocksXfer(addr, off, len)>>
               ELSE WriteBytesXfers(addr, off, PadTo4(len))
  IN  xfers \o (IF remain - len = 0 THEN <<>> ELSE SendLoop(addr, off + len, remain - len))

SendPacketXfers(length) == SendLoop(EndAddr - length, 0, length)

(* buffer_used: the slave buffers the packet takes, and what total_tx      *)
(* advances by.                                                            *)
BufferUsed(length) == (length + BlockSize - 1) \div BlockSize

(* Mutant: the tail is addressed by its padded size instead of the bytes  *)
(* that remain.                                                            *)
RECURSIVE GetLoopPaddedAddr(_, _)
GetLoopPaddedAddr(off, remain) ==
  LET n == remain \div BlockSize
      len == IF n # 0 THEN n * BlockSize ELSE remain
      addr == EndAddr - (IF n # 0 THEN remain ELSE PadTo4(remain))
      xfers == IF n # 0 THEN <<ReadBlocksXfer(addr, off, len)>>
               ELSE ReadBytesXfers(addr, off, PadTo4(len))
  IN  xfers \o (IF remain - len = 0 THEN <<>> ELSE GetLoopPaddedAddr(off + len, remain - len))

(* The do-while loop of get_packet: the address is recomputed from what    *)
(* remains on every pass.                                                  *)
RECURSIVE GetLoop(_, _)
GetLoop(off, remain) ==
  LET n == remain \div BlockSize
      len == IF n # 0 THEN n * BlockSize ELSE remain
      addr == EndAddr - remain
      xfers == IF n # 0 THEN <<ReadBlocksXfer(addr, off, len)>>
               ELSE ReadBytesXfers(addr, off, PadTo4(len))
  IN  xfers \o (IF remain - len = 0 THEN <<>> ELSE GetLoop(off + len, remain - len))

GetPacketXfers(length) == GetLoop(0, length)

-----------------------------------------------------------------------------
(* What a sequence of transfers covers of the host buffer.                 *)

Contiguous(xs) ==
  \A i \in 1 .. Len(xs) :
    xs[i].off = IF i = 1 THEN 0 ELSE xs[i-1].off + xs[i-1].size

Covered(xs) == IF xs = <<>> THEN 0 ELSE xs[Len(xs)].off + xs[Len(xs)].size

(* The bytes a packet of len bytes must move: its whole blocks and its     *)
(* tail padded to 4.                                                       *)
PacketSpan(len) == (len \div BlockSize) * BlockSize + PadTo4(len % BlockSize)

(* Every transfer of a packet is accepted by the driver, the transfers     *)
(* move the host buffer front to back without gap or overlap, exactly the  *)
(* packet and its padding, and no byte-mode transfer exceeds the 512      *)
(* bytes a CMD53 in byte mode can carry.                                   *)
MovesPacket(xs, len) ==
  /\ \A i \in 1 .. Len(xs) : xs[i].ok
  /\ Contiguous(xs)
  /\ Covered(xs) = PacketSpan(len)
  /\ \A i \in 1 .. Len(xs) : xs[i].mode = "byte" => xs[i].size <= BlockSize

-----------------------------------------------------------------------------
(* Checks over every byte length, one value per block count k of a frame   *)
(* (the abstraction TransWifi uses); the state machines' invariants look   *)
(* them up for the frames they hold.                                       *)

FrameSizes == 1 .. 4      \* WIFI_SEND_BUFFER_LEN is four blocks

(* The byte lengths of a frame of k blocks.                                *)
LensOfBlocks(k) == (k - 1) * BlockSize + 1 .. k * BlockSize

IsPowerOfTwo(y) == \E e \in 0 .. 9 : y = 2^e

(* roundup(len, tx_blksz) never cuts a frame of k blocks and adds less     *)
(* than one tx block, whatever non-zero size the coprocessor reported; for *)
(* a power of two it is a whole number of tx blocks and stays within the   *)
(* frame's k slave buffers.                                                *)
RoundUpOk ==
  [k \in FrameSizes |->
     \A y \in TxBlkSizes, x \in LensOfBlocks(k) :
       LET s == RoundUp(x, y)
       IN  /\ x <= s
           /\ s < x + y
           /\ IsPowerOfTwo(y) => s % y = 0 /\ BufferUsed(s) = k]

(* get_packet reads every packet exactly, and addresses each transfer at   *)
(* ESP_SLAVE_CMD53_END_ADDR minus the bytes still to be read.              *)
GetPacketOk ==
  \A len \in ReadLens :
    LET xs == GetPacketXfers(len)
    IN  /\ MovesPacket(xs, len)
        /\ \A i \in 1 .. Len(xs) : xs[i].addr = EndAddr - (len - xs[i].off)

=============================================================================
