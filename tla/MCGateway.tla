------------------------------ MODULE MCGateway ------------------------------
(* Gateway with one page, whose sockets overlap as one replaces another. *)
EXTENDS Gateway
CONSTANTS p1
MCPages == {p1}
MCSockets == 1 .. 2
MCTickets == 1 .. 2
=============================================================================
