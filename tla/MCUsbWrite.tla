----------------------------- MODULE MCUsbWrite ------------------------------
(* Buffers of up to three and a half chunks: the first, an inner and the   *)
(* last, short transfer can each fail, be cut short and be retried.        *)
EXTENDS UsbWrite
=============================================================================
