--------------------------- MODULE MCRequestData ---------------------------
(* Three families of requests: all short targets, all short heads, and all  *)
(* short bodies, declared or in chunks.                                     *)
EXTENDS RequestData

Texts(S, n) == UNION {[1 .. k -> S] : k \in 0 .. n}

Plain == [url |-> <<47>>, lines |-> << >>, method |-> "GET", declared |-> None,
          chunked |-> FALSE, body |-> << >>, ends |-> {}]

\* / and up to five of % 2 5 ? #
Targets == {[Plain EXCEPT !.url = <<47>> \o u] : u \in Texts({35, 37, 50, 53, 63}, 5)}

\* names a, c, a- and Z; values none, empty, x, and x folded after y
Lines ==
  [name: {<<97>>, <<99>>, <<97, 45>>},
   values: {<< >>, << << >> >>, << <<120>> >>, << <<121>>, <<120>> >>}]
LongLines ==
  {[name |-> <<90>>, values |-> << <<120, 120, 120, 120>>, v >>] : v \in Texts({120}, 4)}
Heads ==
  {[Plain EXCEPT !.lines = l, !.method = m] : l \in Texts(Lines, 3), m \in {"POST", "PURGE"}}
  \union {[Plain EXCEPT !.lines = <<l>>] : l \in LongLines}

Bodies ==
  {[Plain EXCEPT !.declared = Len(b), !.body = b] : b \in Texts({10, 97}, 5)}
Chunked ==
  {[Plain EXCEPT !.chunked = TRUE]} \union
  UNION {{[Plain EXCEPT !.chunked = TRUE, !.body = b, !.ends = e \union {Len(b)}] :
            e \in SUBSET (1 .. Len(b) - 1)} : b \in Texts({10, 97}, 5) \ {<< >>}}

AllMessages == Targets \union Heads \union Bodies \union Chunked
C == <<67>>
A == <<65>>
AllSizes == -1 .. 3
============================================================================
