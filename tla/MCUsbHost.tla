----------------------------- MODULE MCUsbHost ------------------------------
(* A table with room for two devices.  Devices whose descriptors are       *)
(* longer than a packet, as long as packets, and shorter; with and without *)
(* strings; a keyboard, a mouse, a keyboard whose first interface is       *)
(* another, and one without an endpoint.                                   *)
EXTENDS UsbHost

(* 34 looks like a command, to write the setup FIFO.                       *)
MCBytes == {0, 34}
MCSetupBytes == <<34, 1>>

MCDevices == {
  [pkt |-> 1, len |-> 2, maker |-> 2, product |-> 0,
   conf |-> <<"configuration", "keyboard", "hid", "endpoint">>],
  [pkt |-> 2, len |-> 2, maker |-> 0, product |-> 3,
   conf |-> <<"configuration", "mouse", "hid", "endpoint", "endpoint">>],
  [pkt |-> 4, len |-> 2, maker |-> 0, product |-> 0,
   conf |-> <<"configuration", "other", "endpoint", "keyboard", "endpoint">>],
  [pkt |-> 2, len |-> 3, maker |-> 1, product |-> 1, conf |-> <<"configuration", "keyboard", "hid">>]}
=============================================================================
