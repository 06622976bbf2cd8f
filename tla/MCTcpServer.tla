----------------------------- MODULE MCTcpServer -----------------------------
(***************************************************************************)
(* Zero, one or two I/O loops, by the choice in Init.                      *)
(***************************************************************************)
EXTENDS TcpServer

CONSTANTS io1, io2
TwoIoLoops == <<io1, io2>>
=============================================================================
