----------------------------- MODULE MCWsServer -----------------------------
EXTENDS WsServer, TLC

Symmetry == Permutations(Conn) \cup Permutations(Dev)
=============================================================================
