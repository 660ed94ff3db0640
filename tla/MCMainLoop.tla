----------------------------- MODULE MCMainLoop -----------------------------
(***************************************************************************)
(* Small instances of MainLoop for TLC.  Two listening sockets where the   *)
(* count of several matters; timers and clients are interchangeable.       *)
(***************************************************************************)
EXTENDS MainLoop, TLC

CONSTANTS t1, t2, c1, c2

TwoTimers  == {t1, t2}
OneTimer   == {t1}
TwoClients == {c1, c2}
OneClient  == {c1}
OneSock    == <<10>>
TwoSocks   == <<10, 11>>

Symmetry == Permutations(TwoTimers) \cup Permutations(TwoClients)
=============================================================================
