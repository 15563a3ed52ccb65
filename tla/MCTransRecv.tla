----------------------------- MODULE MCTransRecv -----------------------------
(* Model-checking instance of TransRecv: three frames of one or two units. *)
EXTENDS TransRecv, SdioPacket

MCFrameTypes == {"CTRL", "DATA"}
(* Whenever trans_recv_task is about to call get_packet, every read it    *)
(* can make moves the packet exactly, and each CMD53 transfer is addressed *)
(* at ESP_SLAVE_CMD53_END_ADDR minus the bytes still to be read.           *)
GetAddressesRemaining == rpc = "fetch" => GetPacketOk

====
