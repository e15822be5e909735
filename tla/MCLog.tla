------------------------------- MODULE MCLog --------------------------------
(* Small instances of Log for TLC: every block holds d0 at first.          *)
EXTENDS Log

CONSTANTS d0

InitialContents == [b \in Block |-> d0]
=============================================================================
