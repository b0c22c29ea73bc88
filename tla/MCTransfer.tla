----------------------------- MODULE MCTransfer -----------------------------
(* One transfer between a PC and an app.                                   *)
EXTENDS Transfer
=============================================================================
