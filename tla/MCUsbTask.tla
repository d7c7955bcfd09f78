----------------------------- MODULE MCUsbTask ------------------------------
(* The USB host with room for two devices.                                 *)
EXTENDS UsbTask
=============================================================================
