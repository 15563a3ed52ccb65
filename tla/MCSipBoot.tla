------------------------------ MODULE MCSipBoot ------------------------------
(* Model-checking instance of SipBoot: the firmware images.                *)
EXTENDS SipBoot

(* Three blocks: one longer than a chunk, an empty one, one of exactly     *)
(* ChunkMax words.                                                         *)
MCBlocksOk == <<3, 0, 2>>

(* One block of a single chunk.                                            *)
MCBlocksOne == <<2>>
====
