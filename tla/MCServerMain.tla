---------------------------- MODULE MCServerMain ----------------------------
(* Model values for the run of ServerMain.                                 *)
EXTENDS ServerMain

CONSTANT c1

OneConn == {c1}
ProcessThreads == Conns \union {Main}
=============================================================================
