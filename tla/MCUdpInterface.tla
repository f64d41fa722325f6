--------------------------- MODULE MCUdpInterface ---------------------------
(* Two stations with all arguments around the limits of a byte of four      *)
(* values.                                                                  *)
EXTENDS UdpInterface

BsAndDevice == {"bs", "device"}
Anything == [src_id : {0, 1, 3}, dst_id : {0, 1, 2, 3, 5}, nports : {0, 1, 3}, mtu_size : {2, 4, 5}]
ByteIds  == [src_id : {0, 4}, dst_id : {0, 3, 4}, nports : {1, 2}, mtu_size : {2}]
=============================================================================
