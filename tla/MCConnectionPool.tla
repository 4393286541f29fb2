--------------------------- MODULE MCConnectionPool ---------------------------
(***************************************************************************)
(* ConnectionPool for TLC: three workers over a pool of two connections,  *)
(* so that one worker waits while both connections are out; a timeout of  *)
(* two ticks, so that both timeouts and checkouts after waiting occur.    *)
(***************************************************************************)
EXTENDS ConnectionPool

CONSTANTS w1, w2, w3

MCWorkers == {w1, w2, w3}
=============================================================================
