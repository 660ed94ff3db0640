---------------------------- MODULE MCConnection ----------------------------
(* Connection with requests of every kind.                                  *)
EXTENDS Connection

MCKinds == {"plain", "old", "head", "body", "continue", "expect", "websocket", "upgrade"}

=============================================================================
