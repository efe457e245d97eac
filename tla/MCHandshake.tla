---------------------------- MODULE MCHandshake -----------------------------
(* Up to four headers give both parities of the header count twice over;  *)
(* two pushed frames give lines after the response for the reader to run  *)
(* into or buffer, more than one fill can hold.                            *)
EXTENDS Handshake

MCMaxHeaders == 4
MCMaxPushed == 2
=============================================================================
