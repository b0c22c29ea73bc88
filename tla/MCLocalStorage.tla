--------------------------- MODULE MCLocalStorage ---------------------------
(* Three uploads of one key, each of two chunks: a retry after a crash that *)
(* is overlapped by another.                                               *)
EXTENDS LocalStorage
=============================================================================
