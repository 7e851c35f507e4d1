---------------------------- MODULE MCDevmemPool ----------------------------
(***************************************************************************)
(* DevmemPool with constants TLC can enumerate.                            *)
(***************************************************************************)
EXTENDS DevmemPool

CONSTANTS t1, t2, c1, c2

MCThread == {t1, t2}

MCChunk == {c1, c2}
=============================================================================
