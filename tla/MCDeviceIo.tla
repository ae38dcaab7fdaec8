----------------------------- MODULE MCDeviceIo -----------------------------
(***************************************************************************)
(* stdin and stdout are one open file, as at a terminal, or two.           *)
(***************************************************************************)
EXTENDS DeviceIo

CONSTANTS f1, f2

Files == {f1, f2}
OneOrTwo == {<<f1, f1>>, <<f1, f2>>}
=============================================================================
