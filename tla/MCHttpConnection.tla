-------------------------- MODULE MCHttpConnection --------------------------
(* HttpConnection with two connections, two gauges and two addresses, and as *)
(* many requests as are needed for one to meet what another left behind.     *)
EXTENDS HttpConnection, TLC

\* Connections are alike; all properties checked are safety.
Connections == Permutations(Conn)
=============================================================================
