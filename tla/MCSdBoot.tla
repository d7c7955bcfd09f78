------------------------------ MODULE MCSdBoot ------------------------------
(* SdBoot with blocks of two words of two bytes, and an SDRAM address that *)
(* wraps around during the second block.                                   *)
EXTENDS SdBoot
=============================================================================
