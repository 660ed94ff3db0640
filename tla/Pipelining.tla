---------------------------- MODULE Pipelining ----------------------------
(***************************************************************************)
(* What a connection promises: every request that was begun is answered,   *)
(* once and in the order of the requests, before the connection is closed. *)
(***************************************************************************)
EXTENDS Naturals, Sequences

VARIABLES
  asked,      (* how many requests were begun                              *)
  answered,   (* the requests answered                                     *)
  open

pVars == <<asked, answered, open>>

Init == asked = 0 /\ answered = <<>> /\ open = TRUE

Ask ==
  /\ open
  /\ asked' = asked + 1
  /\ UNCHANGED <<answered, open>>

Answer ==
  /\ open
  /\ Len(answered) < asked
  /\ answered' = Append(answered, Len(answered) + 1)
  /\ UNCHANGED <<asked, open>>

Close ==
  /\ Len(answered) = asked
  /\ open' = FALSE
  /\ UNCHANGED <<asked, answered>>

Next == Ask \/ Answer \/ Close

Spec == Init /\ [][Next]_pVars
=============================================================================
