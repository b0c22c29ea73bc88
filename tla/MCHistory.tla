------------------------------ MODULE MCHistory ------------------------------
(* A client that reconnects, two clients behind one address, two sockets.  *)
EXTENDS History, TLC
Symmetry == Permutations(Sids) \cup Permutations(Clients) \cup Permutations(Ips \ Private)
=============================================================================
