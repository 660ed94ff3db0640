--------------------------- MODULE MCContinuation ---------------------------
(* Continuation on a small instance: two connections whose requests wait on *)
(* them, resume each other and cancel each other's waits.                   *)
EXTENDS Continuation

MCConns    == {0, 1}
MCHandlers == {"read", "trampoline", "timeout", "timeout_error"}
MCCallbacks == [fn : MCHandlers, arg : Conns]
MCWaits    == {<<{"READ"}, 0>>, <<{"WRITE"}, 1>>}
=============================================================================
