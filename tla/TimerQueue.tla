---------------------------- MODULE TimerQueue ----------------------------
(***************************************************************************)
(* What the main loop expects of its timers: a set that gives one of those *)
(* which are due first.                                                    *)
(***************************************************************************)
EXTENDS Integers

CONSTANTS Timers, Due, None

VARIABLES
  queue,      (* the timers in it                                          *)
  seconds,    (* seconds[t]: when t is due                                 *)
  taken,      (* the timer taken last, or None                             *)
  full        (* the last push failed                                      *)

qVars == <<queue, seconds, taken, full>>

Init ==
  /\ queue = {} /\ taken = None /\ full = FALSE
  /\ seconds \in [Timers -> Due]

Push(t, s) ==
  /\ t \notin queue
  /\ queue' = queue \cup {t}
  /\ seconds' = [seconds EXCEPT ![t] = s]
  /\ full' = FALSE
  /\ UNCHANGED taken

PushFails ==
  /\ full' = TRUE
  /\ UNCHANGED <<queue, seconds, taken>>

Pop(t) ==
  /\ t \in queue
  /\ \A u \in queue : seconds[t] <= seconds[u]
  /\ queue' = queue \ {t}
  /\ taken' = t
  /\ UNCHANGED <<seconds, full>>

PopNothing ==
  /\ queue = {}
  /\ taken' = None
  /\ UNCHANGED <<queue, seconds, full>>

Next ==
  \/ \E t \in Timers, s \in Due : Push(t, s)
  \/ \E t \in Timers : Pop(t)
  \/ PushFails
  \/ PopNothing

Spec == Init /\ [][Next]_qVars
=============================================================================
