---------------------------- MODULE MCTransWifi ----------------------------
(* TransWifi instantiated for TLC: two producer tasks, model values.       *)
EXTENDS TransWifi, SdioPacket, TLC

CONSTANTS p1, p2

MCProducers == {p1, p2}

MCOneProducer == {p1}

(* The producers run the same code, so their names are interchangeable.    *)
MCSymmetry == Permutations(MCProducers)

(* The send length wifi_send_task computes with roundup(len, tx_blksz)    *)
(* covers every frame the slave holds, whatever its byte length within    *)
(* its block count and whatever non-zero tx_blksz the coprocessor          *)
(* reported, and for a power of two it takes exactly the slave buffers     *)
(* that block count stands for.                                            *)
SendLenCovers == \A i \in DOMAIN slaveq : RoundUpOk[blocksOf[slaveq[i]]]

=============================================================================
