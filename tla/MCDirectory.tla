----------------------------- MODULE MCDirectory -----------------------------
(***************************************************************************)
(* A small instance of Directory for TLC.                                  *)
(***************************************************************************)
EXTENDS DirectoryProperties

CONSTANTS c1, c2
=============================================================================
