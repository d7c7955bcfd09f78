----------------------------- MODULE MCAudioOut -----------------------------
(* The ring of I2S on a small instance.                                    *)
EXTENDS AudioOut
=============================================================================
