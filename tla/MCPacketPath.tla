---------------------------- MODULE MCPacketPath ----------------------------
EXTENDS PacketPath

CONSTANTS n1, n2, n3

(* n1 and n3 only reach each other through n2 or the server.               *)
LinkDef == {<<n1, n2>>, <<n2, n1>>, <<n2, n3>>, <<n3, n2>>}
=============================================================================
