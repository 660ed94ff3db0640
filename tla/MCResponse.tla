----------------------------- MODULE MCResponse -----------------------------
(* Response on short iterators and files.                                   *)
EXTENDS Response

=============================================================================
