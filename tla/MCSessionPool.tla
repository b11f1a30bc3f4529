--------------------------- MODULE MCSessionPool ---------------------------
(***************************************************************************)
(* Two threads that share one pooled session of a token with two; one     *)
(* signs and looks up keys, the other verifies and generates them.         *)
(***************************************************************************)
EXTENDS SessionPool, TLC

CONSTANTS t1, t2

MCThreads == {t1, t2}
MCOps == (t1 :> {"sign", "getKey"}) @@ (t2 :> {"verify", "keyGen"})
=============================================================================
