------------------------------ MODULE MC_I2cHw ------------------------------
(* I2cHw with one encoder, which gets two registers, a keyboard controller, *)
(* and an i2cwrite and an i2cread command to some other device.             *)
EXTENDS I2cHw

CONSTANTS dvi, kbd, codec

MCEncoders == <<dvi>>
MCSetup == <<<<28, 0>>, <<29, 1>>>>
MCRequests == {I2CWrite(codec, 3, 1), I2CRead(codec, 3)}
=============================================================================
