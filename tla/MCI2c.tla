------------------------------- MODULE MCI2c --------------------------------
(* The I2C master with the program's calls: polled, and one buffer for     *)
(* both directions.                                                        *)
EXTENDS I2cMaster
=============================================================================
