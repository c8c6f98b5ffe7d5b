----------------------------- MODULE MCUartLink -----------------------------
(* UartLink, with the values of the constants in the .cfg files.             *)
EXTENDS UartLink
=============================================================================
