--------------------------- MODULE ResponseProofs ---------------------------
(* That a response is sent in order and complete, the application's close   *)
(* called once, and no error page written into a response, for responses of *)
(* any size and sockets that cut the writes anywhere.                       *)
EXTENDS Response, SequenceTheorems, NaturalsInduction, WellFoundedInduction, TLAPS

(* What was called is what response_closed says, unless the application had *)
(* set it; nothing is closed before there is a response, and everything     *)
(* when the client is closed.                                               *)
CloseInv ==
  /\ closes = IF HasClose /\ response_closed /\ ~self_closed THEN 1 ELSE 0
  /\ pc = "app" => ~response /\ ~self_closed
  /\ self_closed => response_closed
  /\ pc = "closed" /\ HasClose => response_closed
  /\ {response, response_closed, self_closed} \subseteq BOOLEAN

(* Nothing is closed and nothing to close when a request begins.            *)
LEMMA InitClose == Init => CloseInv
  BY DEF Init, CloseInv, HasClose

(* A step that leaves the response and its flags alone, and neither goes    *)
(* back to the application nor closes the client.                           *)
LEMMA Untouched ==
  ASSUME CloseInv,
         UNCHANGED <<job, response, self_closed, closes, response_closed>>,
         pc' \notin {"app", "closed"} \/ UNCHANGED pc
  PROVE  CloseInv'
  BY DEF CloseInv, HasClose

(* writev_bucket and its callers.                                           *)
LEMMA WriteStep ==
  ASSUME CloseInv,
         (\E w \in 1 .. SizeOf(bucket) : Write(w)) \/ WriteNothing \/ WriteAgain \/ WriteFails
  PROVE  CloseInv'
<1>1. UNCHANGED <<job, response, self_closed, closes, response_closed>>
  BY DEF Write, WriteNothing, WriteAgain, WriteFails, Writing, Written, appVars, closeVars
<1>2. Written => pc' \in {"file", "ok", "body", "last", "close"}
  BY DEF Written, SentHead, SentItem, SentLate, SentLast, After
<1>3. pc' \notin {"app", "closed"} \/ UNCHANGED pc
  BY <1>2 DEF Write, WriteNothing, WriteAgain, WriteFails
<1>. QED
  BY <1>1, <1>3, Untouched

(* The other steps between the application's return and close_response.     *)
LEMMA BodyStep ==
  ASSUME CloseInv,
         \/ Start \/ NextItem \/ NoMoreItems \/ ItemFails \/ FileSent \/ FileEnds \/ Woken
         \/ \E n \in 1 .. content_length : SendFile(n)
         \/ SendFileAgain("hub") \/ SendFileAgain("error")
         \/ StartResponse \/ AppRaises
  PROVE  CloseInv'
<1>1. UNCHANGED <<job, response, self_closed, closes, response_closed>>
  BY DEF Start, NextItem, NoMoreItems, ItemFails, FileSent, FileEnds, Woken, SendFile,
         SendFileAgain, StartResponse, AppRaises, appVars, closeVars, vars
<1>2. pc' \notin {"app", "closed"} \/ UNCHANGED pc
  BY DEF Start, NextItem, NoMoreItems, ItemFails, FileSent, FileEnds, Woken, SendFile,
         SendFileAgain, StartResponse, AppRaises, Send, vars
<1>. QED
  BY <1>1, <1>2, Untouched

(* AppReturns makes the response, which SetClosed may have declared closed; *)
(* Close, Finish and ErrorPage close it.                                    *)
LEMMA CloseStep ==
  ASSUME CloseInv,
         AppReturns \/ (\E closed \in BOOLEAN : SetClosed(closed)) \/ (\E raises \in BOOLEAN : Close(raises)) \/ Finish \/ ErrorPage
  PROVE  CloseInv'
<1>1. CASE AppReturns
  BY <1>1 DEF AppReturns, CloseInv, HasClose, closeVars
<1>2. CASE \E raises \in BOOLEAN : Close(raises)
  BY <1>2 DEF Close, CloseResponse, CloseInv, HasClose, appVars
<1>3. CASE Finish
  BY <1>3 DEF Finish, CloseResponse, CloseInv, HasClose, appVars
<1>4. CASE ErrorPage
  BY <1>4 DEF ErrorPage, CloseInv, HasClose, appVars
<1>5. CASE \E closed \in BOOLEAN : SetClosed(closed)
  BY <1>5 DEF SetClosed, CloseInv, HasClose, appVars
<1>. QED
  BY <1>1, <1>2, <1>3, <1>4, <1>5

(* The application's close is called at most once, and has been when the    *)
(* client is closed, if it has one and returned (close_response), unless it *)
(* had called client.set_closed: then never (server.c:525-529).             *)
THEOREM ClosesOnce == Spec => []ClosedOnce
<1>1. CloseInv /\ [Next]_vars => CloseInv'
  <2> SUFFICES ASSUME CloseInv, [Next]_vars PROVE CloseInv'
    OBVIOUS
  <2>1. CASE UNCHANGED vars
    BY <2>1, Untouched DEF vars, appVars, closeVars
  <2>2. CASE Next
    BY <2>2, WriteStep, BodyStep, CloseStep DEF Next, Steps, Taken
  <2>. QED
    BY <2>1, <2>2
<1>2. CloseInv => ClosedOnce
  BY DEF CloseInv, ClosedOnce, HasClose
<1>. QED
  BY InitClose, <1>1, <1>2, PTL DEF Spec

----------------------------------------------------------------------------
(* Until the headers are sent, header_done, or had to wait, nothing is on   *)
(* the wire but what writev_bucket is writing of them.                      *)
HeadInv ==
  /\ pc \in {"app", "start"} => wire = <<>>
  /\ pc \notin {"app", "start", "error", "closed"} /\ ~(pc = "write" /\ ctx = "head")
       => header_done \/ headWaited
  /\ pc = "error" /\ wire # <<>> => header_done \/ headWaited
  /\ header_done \in BOOLEAN /\ headWaited \in BOOLEAN
  /\ PageComesFirst

(* The steps of writev_bucket: the first bucket leaves "write" with         *)
(* header_done, or headWaited.                                              *)
LEMMA WriteHead ==
  ASSUME HeadInv,
         (\E w \in 1 .. SizeOf(bucket) : Write(w)) \/ WriteNothing \/ WriteAgain \/ WriteFails
  PROVE  HeadInv'
<1>1. pc = "write" /\ UNCHANGED page
  BY DEF Write, WriteNothing, WriteAgain, WriteFails, Writing
<1>2. ASSUME Written PROVE HeadInv'
  <2>1. /\ header_done' = TRUE \/ (header_done' = header_done /\ ctx # "head")
        /\ pc' \in {"file", "ok", "body", "last", "close"}
        /\ UNCHANGED headWaited
    BY <1>2 DEF Written, SentHead, SentItem, SentLate, SentLast, After
  <2>2. ctx # "head" => header_done \/ headWaited
    BY <1>1 DEF HeadInv
  <2>3. header_done' \/ headWaited'
    BY <2>1, <2>2
  <2>4. header_done' \in BOOLEAN /\ headWaited' \in BOOLEAN
    BY <2>1 DEF HeadInv
  <2>5. PageComesFirst'
    BY <1>1, <2>1 DEF HeadInv, PageComesFirst
  <2>. QED
    BY <2>1, <2>3, <2>4, <2>5 DEF HeadInv
<1>3. CASE \E w \in 1 .. SizeOf(bucket) : Write(w)
  <2>1. Written \/ UNCHANGED <<pc, ctx, header_done, headWaited>>
    BY <1>3 DEF Write, flagVars
  <2>. QED
    BY <1>1, <1>2, <2>1 DEF HeadInv, PageComesFirst
<1>4. CASE WriteNothing
  BY <1>2, <1>4 DEF WriteNothing
<1>5. CASE WriteAgain
  BY <1>1, <1>5 DEF WriteAgain, HeadInv, PageComesFirst, flagVars
<1>6. CASE WriteFails
  BY <1>1, <1>6 DEF WriteFails, HeadInv, PageComesFirst
<1>. QED
  BY <1>3, <1>4, <1>5, <1>6

(* The other steps: what they write follows the headers, and the error page *)
(* asks header_done.                                                        *)
LEMMA OtherHead ==
  ASSUME HeadInv,
         \/ AppReturns \/ Start \/ NextItem \/ NoMoreItems \/ FileSent \/ FileEnds \/ Woken
         \/ Finish \/ (\E raises \in BOOLEAN : Close(raises))
         \/ \E n \in 1 .. content_length : SendFile(n)
         \/ SendFileAgain("hub") \/ SendFileAgain("error")
         \/ StartResponse \/ AppRaises \/ ItemFails
         \/ \E closed \in BOOLEAN : SetClosed(closed)
  PROVE  HeadInv'
<1>1. CASE \/ AppReturns \/ StartResponse \/ AppRaises \/ ItemFails
           \/ \E closed \in BOOLEAN : SetClosed(closed)
  BY <1>1 DEF AppReturns, StartResponse, AppRaises, ItemFails, SetClosed, HeadInv,
              PageComesFirst, flagVars, historyVars
<1>2. CASE Start
  BY <1>2 DEF Start, Send, HeadInv, PageComesFirst, historyVars
<1>3. CASE NextItem \/ NoMoreItems
  BY <1>3 DEF NextItem, NoMoreItems, Send, HeadInv, PageComesFirst, flagVars, historyVars
<1>4. CASE \/ FileSent \/ FileEnds \/ SendFileAgain("hub") \/ SendFileAgain("error")
           \/ \E n \in 1 .. content_length : SendFile(n)
  BY <1>4 DEF FileSent, FileEnds, SendFile, SendFileAgain, HeadInv, PageComesFirst,
              flagVars, historyVars, vars
<1>5. CASE Woken \/ Finish \/ \E raises \in BOOLEAN : Close(raises)
  BY <1>5 DEF Woken, Finish, Close, HeadInv, PageComesFirst, flagVars, historyVars
<1>. QED
  BY <1>1, <1>2, <1>3, <1>4, <1>5

(* send_error_page: nothing is on the wire when header_done does not say so.*)
LEMMA PageHead ==
  ASSUME HeadInv, ErrorPage
  PROVE  HeadInv'
<1>1. page' = page \/ (page' = Len(wire) /\ (wire = <<>> \/ headWaited))
  BY DEF ErrorPage, HeadInv
<1>2. wire = <<>> => Len(wire) = 0
  OBVIOUS
<1>. QED
  BY <1>1, <1>2 DEF ErrorPage, HeadInv, PageComesFirst

(* The error page is written before anything else, or after headers that    *)
(* had to wait (send_error_page).                                           *)
THEOREM PageFirst == Spec => []PageComesFirst
<1>1. Init => HeadInv
  BY DEF Init, HeadInv, PageComesFirst
<1>2. HeadInv /\ [Next]_vars => HeadInv'
  <2> SUFFICES ASSUME HeadInv, [Next]_vars PROVE HeadInv'
    OBVIOUS
  <2>1. CASE UNCHANGED vars
    BY <2>1 DEF vars, flagVars, historyVars, HeadInv, PageComesFirst
  <2>2. CASE Next
    BY <2>2, WriteHead, OtherHead, PageHead DEF Next, Steps, Taken
  <2>. QED
    BY <2>1, <2>2
<1>3. HeadInv => PageComesFirst
  BY DEF HeadInv
<1>. QED
  BY <1>1, <1>2, <1>3, PTL DEF Spec

----------------------------------------------------------------------------
(* Sequences of bytes, and what FlattenSeq makes of sequences of them.      *)
Byte == {"header", "item", "size", "last"} \X Nat \X Nat

(* Induction on the natural numbers, for a set of them.                     *)
LEMMA Induct ==
  ASSUME NEW S, 0 \in S, \A n \in Nat : n \in S => n + 1 \in S
  PROVE  Nat \subseteq S
<1>. DEFINE T == Nat \ S
            R == OpToRel(<, Nat)
<1>. SUFFICES ASSUME T # {} PROVE FALSE
  OBVIOUS
<1>1. IsWellFoundedOn(R, Nat)
  BY NatLessThanWellFounded
<1>2. \A x, y \in Nat : <<y, x>> \in R <=> y < x
  BY DEF OpToRel
<1>. HIDE DEF R
<1>3. PICK x \in T : \A y \in T : ~ (<<y, x>> \in R)
  BY <1>1, WFMin
<1>4. x \in Nat /\ x # 0
  BY <1>3
<1>5. x - 1 \in Nat /\ <<x - 1, x>> \in R
  BY <1>2, <1>4
<1>6. x - 1 \in S
  BY <1>3, <1>5
<1>. QED
  BY <1>3, <1>4, <1>5, <1>6

(* Bytes joined to bytes.                                                   *)
LEMMA Assoc ==
  ASSUME NEW a \in Seq(Byte), NEW b \in Seq(Byte), NEW c \in Seq(Byte)
  PROVE  (a \o b) \o c = a \o (b \o c)
BY ConcatAssociative

Joined(g, s, m) == \A i \in 1 .. m : g[i] = IF i = 1 THEN s[i] ELSE g[i - 1] \o s[i]

(* Parts can be joined one after the other.                                 *)
LEMMA JoinedExists ==
  ASSUME NEW s \in Seq(Seq(Byte))
  PROVE  \A m \in Nat : m <= Len(s) => \E g \in [1 .. m -> Seq(Byte)] : Joined(g, s, m)
<1>. DEFINE S == {m \in Nat : m <= Len(s) => \E g \in [1 .. m -> Seq(Byte)] : Joined(g, s, m)}
<1>1. 0 \in S
  <2>1. Joined([i \in 1 .. 0 |-> <<>>], s, 0) /\ [i \in 1 .. 0 |-> <<>>] \in [1 .. 0 -> Seq(Byte)]
    BY DEF Joined
  <2>. QED
    BY <2>1
<1>2. ASSUME NEW n \in Nat, n \in S, n + 1 <= Len(s)
      PROVE  \E g \in [1 .. n + 1 -> Seq(Byte)] : Joined(g, s, n + 1)
  <2>1. PICK g \in [1 .. n -> Seq(Byte)] : Joined(g, s, n)
    BY <1>2
  <2>. DEFINE last == IF n = 0 THEN s[1] ELSE g[n] \o s[n + 1]
              h == [i \in 1 .. n + 1 |-> IF i = n + 1 THEN last ELSE g[i]]
  <2>2. s[n + 1] \in Seq(Byte)
    BY <1>2
  <2>3. last \in Seq(Byte)
    BY <1>2, <2>1, <2>2, ConcatProperties
  <2>4. h \in [1 .. n + 1 -> Seq(Byte)]
    BY <2>3
  <2>5. ASSUME NEW i \in 1 .. n + 1
        PROVE  h[i] = IF i = 1 THEN s[i] ELSE h[i - 1] \o s[i]
    <3>1. CASE i = n + 1
      BY <3>1
    <3>2. CASE i # n + 1
      <4>1. i \in 1 .. n /\ (i # 1 => i - 1 \in 1 .. n)
        BY <3>2
      <4>2. g[i] = IF i = 1 THEN s[i] ELSE g[i - 1] \o s[i]
        BY <2>1, <4>1 DEF Joined
      <4>3. h[i] = g[i] /\ (i # 1 => h[i - 1] = g[i - 1])
        BY <3>2, <4>1
      <4>. QED
        BY <4>2, <4>3
    <3>. QED
      BY <3>1, <3>2
  <2>. HIDE DEF h, last
  <2>. QED
    BY <2>4, <2>5 DEF Joined
<1>3. \A n \in Nat : n \in S => n + 1 \in S
  BY <1>2
<1>. HIDE DEF S
<1>4. Nat \subseteq S
  BY <1>1, <1>3, Induct
<1>. QED
  BY <1>4 DEF S

(* The same parts, joined, are the same.                                    *)
LEMMA JoinedSame ==
  ASSUME NEW g, NEW h, NEW s, NEW t, NEW m \in Nat,
         Joined(g, s, m), Joined(h, t, m), \A i \in 1 .. m : s[i] = t[i]
  PROVE  \A i \in 1 .. m : g[i] = h[i]
<1>. DEFINE S == {i \in Nat : i \in 1 .. m => g[i] = h[i]}
<1>1. 0 \in S
  OBVIOUS
<1>2. ASSUME NEW i \in Nat, i \in S, i + 1 \in 1 .. m PROVE g[i + 1] = h[i + 1]
  <2>1. /\ g[i + 1] = IF i + 1 = 1 THEN s[i + 1] ELSE g[i + 1 - 1] \o s[i + 1]
        /\ h[i + 1] = IF i + 1 = 1 THEN t[i + 1] ELSE h[i + 1 - 1] \o t[i + 1]
    BY <1>2 DEF Joined
  <2>2. i # 0 => i \in 1 .. m /\ i + 1 # 1 /\ i + 1 - 1 = i
    BY <1>2
  <2>3. i # 0 => g[i + 1 - 1] = h[i + 1 - 1]
    BY <1>2, <2>2
  <2>4. s[i + 1] = t[i + 1]
    BY <1>2
  <2>5. CASE i = 0
    BY <2>1, <2>4, <2>5
  <2>. QED
    BY <2>1, <2>2, <2>3, <2>4, <2>5
<1>3. \A i \in Nat : i \in S => i + 1 \in S
  BY <1>2
<1>. HIDE DEF S
<1>4. Nat \subseteq S
  BY <1>1, <1>3, Induct
<1>. QED
  BY <1>4 DEF S

(* FlattenSeq joins the parts one after the other.                          *)
LEMMA FlattenIs ==
  ASSUME NEW s \in Seq(Seq(Byte)), s # <<>>
  PROVE  \E g \in [1 .. Len(s) -> Seq(Byte)] : Joined(g, s, Len(s)) /\ FlattenSeq(s) = g[Len(s)]
<1>. DEFINE n == Len(s)
            f == CHOOSE g : g = [i \in 1 .. n |-> IF i = 1 THEN s[i] ELSE g[i - 1] \o s[i]]
<1>1. n \in Nat /\ n # 0
  OBVIOUS
<1>2. PICK g \in [1 .. n -> Seq(Byte)] : Joined(g, s, n)
  BY <1>1, JoinedExists
<1>3. Joined(f, s, n)
  <2>1. g = [i \in 1 .. n |-> IF i = 1 THEN s[i] ELSE g[i - 1] \o s[i]]
    BY <1>2 DEF Joined
  <2>. HIDE DEF n
  <2>2. f = [i \in 1 .. n |-> IF i = 1 THEN s[i] ELSE f[i - 1] \o s[i]]
    BY <2>1, Zenon
  <2>. HIDE DEF f
  <2>. QED
    BY <2>2, Zenon DEF Joined
<1>4. FlattenSeq(s) = f[n]
  <2>1. Len(s) # 0
    BY <1>1
  <2>. QED
    BY <2>1, Zenon DEF FlattenSeq
<1>5. \A i \in 1 .. n : f[i] = g[i]
  <2>. HIDE DEF f
  <2>. QED
    BY <1>1, <1>2, <1>3, JoinedSame
<1>. HIDE DEF f
<1>6. FlattenSeq(s) = g[n]
  <2>1. n \in 1 .. n
    BY <1>1
  <2>. QED
    BY <1>4, <1>5, <2>1, Zenon
<1>. QED
  BY <1>2, <1>6, Zenon

(* No parts are no bytes.                                                   *)
LEMMA FlattenEmpty == FlattenSeq(<<>>) = <<>>
BY DEF FlattenSeq

First(s, n) == SubSeq(s, 1, n)
Flat(s, n) == FlattenSeq(First(s, n))

(* The first n elements of a sequence.                                      *)
LEMMA FirstIs ==
  ASSUME NEW S, NEW s \in Seq(S), NEW n \in 0 .. Len(s)
  PROVE  /\ First(s, n) \in Seq(S) /\ Len(First(s, n)) = n
         /\ \A i \in 1 .. n : First(s, n)[i] = s[i]
<1>1. SubSeq(s, 1, n) \in Seq(S)
  OBVIOUS
<1>2. Len(SubSeq(s, 1, n)) = n
  OBVIOUS
<1>3. ASSUME NEW i \in 1 .. n PROVE SubSeq(s, 1, n)[i] = s[i]
  OBVIOUS
<1>. QED
  BY <1>1, <1>2, <1>3 DEF First

(* None of them,                                                            *)
LEMMA FirstNone == \A s : First(s, 0) = <<>>
BY DEF First

(* and all of them.                                                         *)
LEMMA FirstAll ==
  ASSUME NEW S, NEW s \in Seq(S)
  PROVE  First(s, Len(s)) = s
BY SubSeqFull DEF First

(* What the first n parts are when joined: nothing, if n is 0;              *)
LEMMA FlatNone == \A s : Flat(s, 0) = <<>>
BY FirstNone, FlattenEmpty, Zenon DEF Flat

(* the next part comes after those before it;                               *)
LEMMA FlatNext ==
  ASSUME NEW s \in Seq(Seq(Byte)), NEW n \in 1 .. Len(s)
  PROVE  Flat(s, n) = Flat(s, n - 1) \o s[n] /\ Flat(s, n) \in Seq(Byte) /\ s[n] \in Seq(Byte)
<1>. DEFINE p == First(s, n)
            q == First(s, n - 1)
<1>0. n \in 0 .. Len(s) /\ n - 1 \in 0 .. Len(s) /\ n \in Nat /\ n - 1 \in Nat /\ n \in 1 .. n
  OBVIOUS
<1>1. /\ p \in Seq(Seq(Byte)) /\ Len(p) = n /\ \A i \in 1 .. n : p[i] = s[i]
  BY <1>0, FirstIs
<1>2. /\ q \in Seq(Seq(Byte)) /\ Len(q) = n - 1 /\ \A i \in 1 .. n - 1 : q[i] = s[i]
  BY <1>0, FirstIs
<1>3. s[n] \in Seq(Byte)
  OBVIOUS
<1>. HIDE DEF p, q
<1>4. PICK g : g \in [1 .. n -> Seq(Byte)] /\ Joined(g, p, n) /\ FlattenSeq(p) = g[n]
  <2>1. p # <<>>
    BY <1>0, <1>1
  <2>. QED
    BY <1>1, <2>1, FlattenIs
<1>5. g[n] = IF n = 1 THEN s[n] ELSE g[n - 1] \o s[n]
  BY <1>0, <1>1, <1>4 DEF Joined
<1>6. g[n] \in Seq(Byte)
  BY <1>0, <1>4
<1>7. CASE n = 1
  <2>1. q = First(s, 0)
    BY <1>7 DEF q
  <2>2. FlattenSeq(q) = <<>>
    BY <2>1, FirstNone, FlattenEmpty
  <2>3. <<>> \o s[n] = s[n]
    BY <1>3, ConcatEmptySeq
  <2>. QED
    BY <1>3, <1>4, <1>5, <1>6, <1>7, <2>2, <2>3 DEF p, q, Flat
<1>8. CASE n # 1
  <2>1. q # <<>> /\ n - 1 \in 1 .. n - 1
    BY <1>0, <1>2, <1>8
  <2>2. PICK h : h \in [1 .. n - 1 -> Seq(Byte)] /\ Joined(h, q, n - 1) /\ FlattenSeq(q) = h[n - 1]
    BY <1>2, <2>1, FlattenIs
  <2>3. \A i \in 1 .. n - 1 : h[i] = g[i]
    <3>1. ASSUME NEW i \in 1 .. n - 1 PROVE q[i] = p[i]
      <4>1. i \in 1 .. n
        BY <1>0
      <4>. QED
        BY <1>1, <1>2, <4>1
    <3>2. n - 1 <= n
      BY <1>0
    <3>. DEFINE k == n - 1
    <3>3. k \in Nat /\ k <= n /\ Joined(h, q, k) /\ \A i \in 1 .. k : q[i] = p[i]
      BY <1>0, <2>2, <3>1, <3>2
    <3>. HIDE DEF k
    <3>4. Joined(g, p, k)
      <4>1. ASSUME NEW i \in 1 .. k PROVE g[i] = IF i = 1 THEN p[i] ELSE g[i - 1] \o p[i]
        <5>1. i \in 1 .. n
          BY <1>0, <3>3
        <5>. QED
          BY <1>4, <5>1 DEF Joined
      <4>. QED
        BY <4>1 DEF Joined
    <3>5. \A i \in 1 .. k : h[i] = g[i]
      <4>1. k \in Nat /\ Joined(h, q, k) /\ \A i \in 1 .. k : q[i] = p[i]
        BY <3>3
      <4>. QED
        BY <3>4, <4>1, JoinedSame, SMTT(30)
    <3>. QED
      BY <3>5 DEF k
  <2>4. FlattenSeq(q) = g[n - 1]
    BY <2>1, <2>2, <2>3
  <2>. QED
    BY <1>3, <1>4, <1>5, <1>6, <1>8, <2>4 DEF p, q, Flat
<1>. QED
  BY <1>7, <1>8

(* bytes, in any case;                                                      *)
LEMMA FlatType ==
  ASSUME NEW s \in Seq(Seq(Byte)), NEW n \in 0 .. Len(s)
  PROVE  Flat(s, n) \in Seq(Byte) /\ Len(Flat(s, n)) \in Nat
<1>1. Flat(s, n) \in Seq(Byte)
  <2>1. CASE n = 0
    BY <2>1, FlatNone, EmptySeq
  <2>2. CASE n # 0
    <3>1. n \in 1 .. Len(s)
      BY <2>2
    <3>. QED
      BY <3>1, FlatNext
  <2>. QED
    BY <2>1, <2>2
<1>. QED
  BY <1>1, LenProperties

(* and FlattenSeq of the parts, if all of them are joined.                  *)
LEMMA FlattenAll ==
  ASSUME NEW s \in Seq(Seq(Byte))
  PROVE  /\ FlattenSeq(s) = Flat(s, Len(s))
         /\ FlattenSeq(s) \in Seq(Byte) /\ Len(FlattenSeq(s)) \in Nat
<1>1. FlattenSeq(s) = Flat(s, Len(s))
  BY FirstAll DEF Flat
<1>2. Len(s) \in 0 .. Len(s)
  OBVIOUS
<1>. QED
  BY <1>1, <1>2, FlatType

(* What fewer parts are begins what more of them are.                       *)
LEMMA FlatPrefix ==
  ASSUME NEW s \in Seq(Seq(Byte)), NEW m \in 0 .. Len(s)
  PROVE  \A n \in m .. Len(s) : \E r \in Seq(Byte) : Flat(s, n) = Flat(s, m) \o r
<1>. DEFINE S == {d \in Nat : m + d <= Len(s) =>
                    \E r \in Seq(Byte) : Flat(s, m + d) = Flat(s, m) \o r}
<1>0. Len(s) \in Nat /\ m \in Nat /\ m <= Len(s)
  OBVIOUS
<1>1. Flat(s, m) \in Seq(Byte)
  BY FlatType
<1>3. 0 \in S
  <2>1. Flat(s, m) = Flat(s, m) \o <<>> /\ <<>> \in Seq(Byte)
    BY <1>1, ConcatEmptySeq, EmptySeq
  <2>2. m + 0 = m
    BY <1>0
  <2>. QED
    BY <2>1, <2>2
<1>4. ASSUME NEW d \in Nat, d \in S, m + (d + 1) <= Len(s)
      PROVE  \E r \in Seq(Byte) : Flat(s, m + (d + 1)) = Flat(s, m) \o r
  <2>1. m + d <= Len(s) /\ m + (d + 1) \in 1 .. Len(s) /\ m + (d + 1) - 1 = m + d
    BY <1>0, <1>4
  <2>2. PICK r \in Seq(Byte) : Flat(s, m + d) = Flat(s, m) \o r
    BY <1>4, <2>1
  <2>. DEFINE k == m + (d + 1)
              p == Flat(s, m)
              e == s[k]
  <2>3. k \in 1 .. Len(s) /\ k - 1 = m + d
    BY <2>1
  <2>. HIDE DEF k, p
  <2>4. Flat(s, k) = Flat(s, k - 1) \o e /\ e \in Seq(Byte)
    BY <2>3, FlatNext
  <2>. HIDE DEF e
  <2>5. Flat(s, k) = (p \o r) \o e
    BY <2>2, <2>3, <2>4 DEF p
  <2>6. p \in Seq(Byte)
    BY <1>1 DEF p
  <2>7. (p \o r) \o e = p \o (r \o e) /\ r \o e \in Seq(Byte)
    BY <2>4, <2>6, ConcatAssociative, ConcatProperties
  <2>8. \E q \in Seq(Byte) : Flat(s, k) = p \o q
    BY <2>5, <2>7
  <2>. QED
    BY <2>8 DEF k, p
<1>5. Nat \subseteq S
  <2>1. \A d \in Nat : d \in S => d + 1 \in S
    <3>. TAKE d \in Nat
    <3>. HAVE d \in S
    <3>1. d + 1 \in Nat
      OBVIOUS
    <3>2. m + (d + 1) <= Len(s) => \E r \in Seq(Byte) : Flat(s, m + (d + 1)) = Flat(s, m) \o r
      BY <1>4
    <3>. QED
      BY <3>1, <3>2
  <2>. HIDE DEF S
  <2>. QED
    BY <1>3, <2>1, Induct
<1>. TAKE n \in m .. Len(s)
<1>6. n - m \in Nat /\ m + (n - m) = n /\ n <= Len(s)
  BY <1>0
<1>7. n - m \in S
  BY <1>5, <1>6
<1>. QED
  BY <1>6, <1>7

(* A part behind the others.                                                *)
LEMMA FlattenLast ==
  ASSUME NEW s \in Seq(Seq(Byte)), NEW a \in Seq(Byte)
  PROVE  FlattenSeq(Append(s, a)) = FlattenSeq(s) \o a
<1>. DEFINE t == Append(s, a)
            n == Len(s)
<1>1. /\ t \in Seq(Seq(Byte)) /\ Len(t) = n + 1 /\ t[n + 1] = a
      /\ n \in Nat /\ n + 1 \in 1 .. n + 1 /\ n \in 0 .. n + 1 /\ n + 1 - 1 = n
      /\ \A i \in 1 .. n : t[i] = s[i]
  OBVIOUS
<1>. HIDE DEF t
<1>2. First(t, n) = s
  <2>1. /\ First(t, n) \in Seq(Seq(Byte)) /\ Len(First(t, n)) = n
        /\ \A i \in 1 .. n : First(t, n)[i] = t[i]
    <3>1. t \in Seq(Seq(Byte)) /\ n \in 0 .. Len(t)
      BY <1>1
    <3>. HIDE DEF n
    <3>. QED
      BY <3>1, FirstIs
  <2>2. \A i \in 1 .. Len(First(t, n)) : First(t, n)[i] = s[i]
    BY <1>1, <2>1
  <2>. QED
    BY <2>1, <2>2, SeqEqual
<1>3. Flat(t, n + 1) = Flat(t, n) \o a
  <2>. DEFINE k == n + 1
  <2>1. k \in 1 .. Len(t) /\ k - 1 = n /\ t[k] = a
    BY <1>1
  <2>. HIDE DEF k
  <2>2. Flat(t, k) = Flat(t, k - 1) \o t[k]
    BY <1>1, <2>1, FlatNext
  <2>. QED
    BY <2>1, <2>2 DEF k
<1>4. FlattenSeq(t) = Flat(t, n + 1)
  BY <1>1, FlattenAll
<1>. HIDE DEF n
<1>. QED
  BY <1>1, <1>2, <1>3, <1>4 DEF t, Flat

(* Tuples of two and three are made by Append.                              *)
LEMMA AppendSecond ==
  ASSUME NEW B, NEW a \in B, NEW b \in B
  PROVE  <<a>> \in Seq(B) /\ Append(<<a>>, b) = <<a, b>>
<1>. DEFINE s == <<a>>
            t == <<a, b>>
            r == Append(s, b)
<1>1. s \in Seq(B) /\ Len(s) = 1 /\ s[1] = a
  OBVIOUS
<1>2. t \in Seq(B) /\ Len(t) = 2 /\ t[1] = a /\ t[2] = b
  OBVIOUS
<1>. HIDE DEF s, t
<1>3. r \in Seq(B) /\ Len(r) = 2 /\ r[1] = a /\ r[2] = b
  BY <1>1 DEF s
<1>. HIDE DEF r
<1>4. \A i \in 1 .. 2 : r[i] = t[i]
  BY <1>2, <1>3
<1>5. r = t
  BY <1>2, <1>3, <1>4, SeqEqual
<1>. QED
  BY <1>1, <1>5 DEF r, s, t

LEMMA AppendThird ==
  ASSUME NEW B, NEW a \in B, NEW b \in B, NEW c \in B
  PROVE  <<a, b>> \in Seq(B) /\ Append(<<a, b>>, c) = <<a, b, c>>
<1>. DEFINE s == <<a, b>>
            t == <<a, b, c>>
            r == Append(s, c)
<1>1. s \in Seq(B) /\ Len(s) = 2 /\ s[1] = a /\ s[2] = b
  OBVIOUS
<1>2. t \in Seq(B) /\ Len(t) = 3 /\ t[1] = a /\ t[2] = b /\ t[3] = c
  OBVIOUS
<1>. HIDE DEF s, t
<1>3. r \in Seq(B) /\ Len(r) = 3 /\ r[1] = a /\ r[2] = b /\ r[3] = c
  BY <1>1 DEF s
<1>. HIDE DEF r
<1>4. \A i \in 1 .. 3 : r[i] = t[i]
  BY <1>2, <1>3
<1>5. r = t
  BY <1>2, <1>3, <1>4, SeqEqual
<1>. QED
  BY <1>1, <1>5 DEF r, s, t

(* Buckets of one, two and three parts.                                     *)
LEMMA FlattenOne ==
  ASSUME NEW a \in Seq(Byte)
  PROVE  FlattenSeq(<<a>>) = a /\ <<a>> \in Seq(Seq(Byte))
<1>1. <<>> \in Seq(Seq(Byte)) /\ Append(<<>>, a) = <<a>> /\ <<a>> \in Seq(Seq(Byte))
  OBVIOUS
<1>2. FlattenSeq(Append(<<>>, a)) = FlattenSeq(<<>>) \o a
  BY <1>1, FlattenLast
<1>3. <<>> \o a = a
  BY ConcatEmptySeq
<1>. QED
  BY <1>1, <1>2, <1>3, FlattenEmpty, Zenon

LEMMA FlattenTwo ==
  ASSUME NEW a \in Seq(Byte), NEW b \in Seq(Byte)
  PROVE  FlattenSeq(<<a, b>>) = a \o b /\ <<a, b>> \in Seq(Seq(Byte))
<1>1. <<a>> \in Seq(Seq(Byte)) /\ Append(<<a>>, b) = <<a, b>>
  BY AppendSecond
<1>2. FlattenSeq(Append(<<a>>, b)) = FlattenSeq(<<a>>) \o b
  BY <1>1, FlattenLast
<1>3. FlattenSeq(<<a>>) = a
  BY FlattenOne
<1>4. <<a, b>> \in Seq(Seq(Byte))
  BY <1>1, AppendProperties
<1>. QED
  BY <1>1, <1>2, <1>3, <1>4, Zenon

LEMMA FlattenThree ==
  ASSUME NEW a \in Seq(Byte), NEW b \in Seq(Byte), NEW c \in Seq(Byte)
  PROVE  /\ FlattenSeq(<<a, b, c>>) = (a \o b) \o c
         /\ FlattenSeq(<<a, b, c>>) \in Seq(Byte) /\ <<a, b, c>> \in Seq(Seq(Byte))
<1>1. <<a, b>> \in Seq(Seq(Byte)) /\ Append(<<a, b>>, c) = <<a, b, c>>
  BY AppendThird
<1>2. FlattenSeq(Append(<<a, b>>, c)) = FlattenSeq(<<a, b>>) \o c
  BY <1>1, FlattenLast
<1>3. FlattenSeq(<<a, b>>) = a \o b
  BY FlattenTwo
<1>4. a \o b \in Seq(Byte)
  BY ConcatProperties
<1>5. (a \o b) \o c \in Seq(Byte)
  BY <1>4, ConcatProperties
<1>6. <<a, b, c>> \in Seq(Seq(Byte))
  BY <1>1, AppendProperties
<1>. QED
  BY <1>1, <1>2, <1>3, <1>5, <1>6, Zenon

(* An element in front of a sequence.                                       *)
LEMMA InFront ==
  ASSUME NEW B, NEW a \in B, NEW s \in Seq(B)
  PROVE  /\ <<a>> \o s \in Seq(B) /\ Len(<<a>> \o s) = Len(s) + 1
         /\ \A i \in 1 .. Len(s) + 1 : (<<a>> \o s)[i] = IF i <= 1 THEN a ELSE s[i - 1]
<1>. DEFINE u == <<a>>
            t == u \o s
<1>1. u \in Seq(B) /\ Len(u) = 1 /\ u[1] = a /\ Len(s) \in Nat
  OBVIOUS
<1>. HIDE DEF u
<1>2. /\ t \in Seq(B) /\ Len(t) = Len(u) + Len(s)
      /\ \A i \in 1 .. Len(u) + Len(s) : t[i] = IF i <= Len(u) THEN u[i] ELSE s[i - Len(u)]
  BY <1>1, ConcatProperties
<1>. HIDE DEF t
<1>3. ASSUME NEW i \in 1 .. Len(s) + 1 PROVE t[i] = IF i <= 1 THEN a ELSE s[i - 1]
  <2>1. t[i] = IF i <= 1 THEN u[i] ELSE s[i - 1]
    BY <1>1, <1>2
  <2>2. i <= 1 => u[i] = a
    BY <1>1
  <2>. QED
    BY <2>1, <2>2
<1>4. t \in Seq(B) /\ Len(t) = Len(s) + 1
  BY <1>1, <1>2
<1>. QED
  BY <1>3, <1>4 DEF t, u

(* A part in front of the others.                                           *)
LEMMA FlattenFirst ==
  ASSUME NEW a \in Seq(Byte), NEW s \in Seq(Seq(Byte))
  PROVE  FlattenSeq(<<a>> \o s) = a \o FlattenSeq(s) /\ <<a>> \o s \in Seq(Seq(Byte))
<1>. DEFINE N == Len(s)
            t == <<a>> \o s
            Q(i) == Flat(t, i + 1) = a \o Flat(s, i)
            S == {i \in Nat : i <= N => Q(i)}
<1>1. N \in Nat /\ <<a>> \in Seq(Seq(Byte)) /\ Len(<<a>>) = 1 /\ <<a>>[1] = a
  OBVIOUS
<1>2. /\ t \in Seq(Seq(Byte)) /\ Len(t) = N + 1
      /\ \A i \in 1 .. N + 1 : t[i] = IF i <= 1 THEN a ELSE s[i - 1]
  BY InFront
<1>. HIDE DEF t
<1>3. Q(0)
  <2>1. 1 \in 1 .. Len(t) /\ 1 - 1 = 0 /\ t[1] = a
    BY <1>1, <1>2
  <2>2. Flat(t, 1) = Flat(t, 1 - 1) \o t[1]
    BY <1>2, <2>1, FlatNext
  <2>3. Flat(t, 1 - 1) = <<>> /\ Flat(s, 0) = <<>>
    BY <2>1, FlatNone
  <2>4. <<>> \o a = a /\ a \o <<>> = a
    BY ConcatEmptySeq
  <2>5. Flat(t, 1) = a \o Flat(s, 0)
    BY <2>1, <2>2, <2>3, <2>4
  <2>. QED
    BY <2>5
<1>4. ASSUME NEW n \in Nat, Q(n), n + 1 <= N PROVE Q(n + 1)
  <2>. DEFINE k == n + 1
              m == k + 1
              f == Flat(s, n)
              e == s[k]
  <2>1. k \in 1 .. N /\ n \in 0 .. N /\ k - 1 = n /\ m \in 1 .. Len(t) /\ m - 1 = k /\ t[m] = e
    <3>1. n + 1 <= N
      BY <1>4
    <3>2. /\ k \in 1 .. N /\ n \in 0 .. N /\ k - 1 = n /\ m \in 1 .. N + 1
          /\ m - 1 = k /\ ~ m <= 1
      BY <1>1, <3>1
    <3>. HIDE DEF m, k
    <3>3. t[m] = s[m - 1]
      BY <1>2, <3>2
    <3>. QED
      BY <1>2, <3>2, <3>3
  <2>. HIDE DEF m
  <2>2. Flat(t, m) = Flat(t, m - 1) \o t[m]
    BY <1>2, <2>1, FlatNext
  <2>. HIDE DEF k
  <2>3. Flat(s, k) = f \o e /\ f \in Seq(Byte) /\ e \in Seq(Byte)
    BY <2>1, FlatNext, FlatType
  <2>4. Flat(t, k) = a \o f
    BY <1>4 DEF k
  <2>. HIDE DEF f, e
  <2>5. (a \o f) \o e = a \o (f \o e)
    BY <2>3, Assoc
  <2>6. Flat(t, m) = a \o Flat(s, k)
    BY <2>1, <2>2, <2>3, <2>4, <2>5
  <2>. QED
    BY <2>6 DEF k, m
<1>5. Q(N)
  <2>. HIDE DEF Q
  <2>1. 0 \in S
    BY <1>3
  <2>2. ASSUME NEW n \in Nat, n \in S PROVE n + 1 \in S
    BY <1>1, <1>4, <2>2
  <2>3. \A n \in Nat : n \in S => n + 1 \in S
    BY <2>2
  <2>. HIDE DEF S
  <2>4. N \in S
    BY <1>1, <2>1, <2>3, Induct
  <2>. QED
    BY <1>1, <2>4 DEF S
<1>6. FlattenSeq(t) = Flat(t, N + 1) /\ FlattenSeq(s) = Flat(s, N)
  <2>1. FlattenSeq(t) = Flat(t, Len(t))
    BY <1>2, FlattenAll
  <2>. QED
    BY <1>2, <2>1, FlattenAll
<1>. QED
  BY <1>2, <1>5, <1>6 DEF t

----------------------------------------------------------------------------
(* A sequence of bytes cut in two.                                          *)
LEMMA CutIs ==
  ASSUME NEW s \in Seq(Byte), NEW w \in 0 .. Len(s)
  PROVE  /\ SubSeq(s, 1, w) \in Seq(Byte) /\ Len(SubSeq(s, 1, w)) = w
         /\ SubSeq(s, w + 1, Len(s)) \in Seq(Byte)
         /\ Len(SubSeq(s, w + 1, Len(s))) = Len(s) - w
         /\ SubSeq(s, 1, w) \o SubSeq(s, w + 1, Len(s)) = s
<1>0. Len(s) \in Nat
  OBVIOUS
<1>1. SubSeq(s, 1, w) \in Seq(Byte) /\ Len(SubSeq(s, 1, w)) = w
  OBVIOUS
<1>2. /\ SubSeq(s, w + 1, Len(s)) \in Seq(Byte)
      /\ Len(SubSeq(s, w + 1, Len(s))) = Len(s) - w
  OBVIOUS
<1>3. SubSeq(s, 1, w) \o SubSeq(s, w + 1, Len(s)) = SubSeq(s, 1, Len(s))
  <2>1. 1 \in 1 .. Len(s) + 1 /\ w \in 1 - 1 .. Len(s) /\ Len(s) \in w .. Len(s)
    BY <1>0
  <2>. QED
    BY <2>1, ConcatAdjacentSubSeq
<1>4. SubSeq(s, 1, Len(s)) = s
  BY SubSeqFull
<1>. QED
  BY <1>1, <1>2, <1>3, <1>4

(* And in three.                                                            *)
LEMMA Between ==
  ASSUME NEW s \in Seq(Byte), NEW m \in 0 .. Len(s), NEW k \in m .. Len(s), NEW n \in k .. Len(s)
  PROVE  /\ SubSeq(s, m + 1, k) \in Seq(Byte)
         /\ SubSeq(s, m + 1, k) \o SubSeq(s, k + 1, n) = SubSeq(s, m + 1, n)
<1>0. Len(s) \in Nat
  OBVIOUS
<1>1. SubSeq(s, m + 1, k) \in Seq(Byte)
  OBVIOUS
<1>2. m + 1 \in 1 .. Len(s) + 1 /\ k \in m + 1 - 1 .. Len(s) /\ n \in k .. Len(s)
  BY <1>0
<1>. QED
  BY <1>1, <1>2, ConcatAdjacentSubSeq

(* What bytes are joined to is a prefix of the whole.                       *)
LEMMA Begins ==
  ASSUME NEW a \in Seq(Byte), NEW b \in Seq(Byte)
  PROVE  IsPrefix(a, a \o b) /\ SubSeq(a \o b, 1, Len(a)) = a
<1>. DEFINE c == a \o b
            n == Len(a)
<1>1. /\ c \in Seq(Byte) /\ Len(c) = Len(a) + Len(b)
      /\ \A i \in 1 .. Len(a) + Len(b) : c[i] = IF i <= Len(a) THEN a[i] ELSE b[i - Len(a)]
  BY ConcatProperties
<1>2. Len(a) \in Nat /\ Len(b) \in Nat
  BY LenProperties
<1>. HIDE DEF c
<1>3. n \in 0 .. Len(c) /\ n \in Nat
  BY <1>1, <1>2
<1>4. First(c, n) \in Seq(Byte) /\ Len(First(c, n)) = n /\ \A i \in 1 .. n : First(c, n)[i] = c[i]
  BY <1>1, <1>3, FirstIs
<1>5. ASSUME NEW i \in 1 .. n PROVE First(c, n)[i] = a[i]
  BY <1>1, <1>2, <1>4
<1>6. First(c, n) = a
  BY <1>4, <1>5, SeqEqual
<1>7. SubSeq(a, 1, Len(a)) = a
  BY SubSeqFull
<1>8. Len(a) <= Len(c)
  BY <1>1, <1>2
<1>. QED
  BY <1>6, <1>7, <1>8 DEF IsPrefix, First, c

----------------------------------------------------------------------------
(* writev_bucket goes on with what is left.                                 *)
Ends(s, w, i) == Len(Flat(s, i)) >= w /\ Len(Flat(s, i - 1)) < w

(* The bytes the socket took end in some part of the bucket.                *)
LEMMA EndExists ==
  ASSUME NEW s \in Seq(Seq(Byte)), NEW w \in 1 .. Len(FlattenSeq(s))
  PROVE  \E i \in 1 .. Len(s) : Ends(s, w, i)
<1>. DEFINE S == {i \in Nat : i <= Len(s) => Len(Flat(s, i)) < w}
            N == Len(s)
<1>0. N \in Nat /\ Len(FlattenSeq(s)) \in Nat
  BY FlattenAll
<1>. SUFFICES ASSUME ~ \E i \in 1 .. N : Ends(s, w, i) PROVE FALSE
  OBVIOUS
<1>1. 0 \in S
  <2>1. Flat(s, 0) = <<>> /\ Len(<<>>) = 0
    BY FlatNone
  <2>. QED
    BY <1>0, <2>1
<1>2. ASSUME NEW n \in Nat, n \in S, n + 1 <= N PROVE Len(Flat(s, n + 1)) < w
  <2>. DEFINE k == n + 1
  <2>1. k \in 1 .. N /\ k - 1 = n /\ k \in 0 .. N
    BY <1>0, <1>2
  <2>2. Len(Flat(s, n)) < w
    BY <1>0, <1>2
  <2>. HIDE DEF k
  <2>3. ~ Ends(s, w, k)
    BY <2>1
  <2>4. ~ (Len(Flat(s, k)) >= w)
    BY <2>1, <2>2, <2>3 DEF Ends
  <2>5. Len(Flat(s, k)) \in Nat
    BY <2>1, FlatType
  <2>. QED
    BY <1>0, <2>4, <2>5 DEF k
<1>3. \A n \in Nat : n \in S => n + 1 \in S
  BY <1>2
<1>. HIDE DEF S
<1>4. N \in S
  BY <1>0, <1>1, <1>3, Induct
<1>5. Len(Flat(s, N)) < w
  BY <1>0, <1>4 DEF S
<1>6. FlattenSeq(s) = Flat(s, N)
  BY FlattenAll
<1>. QED
  BY <1>0, <1>5, <1>6

Rest(s, w, p) == w - Len(Flat(s, p - 1))
Cut(s, w, p) ==
  [i \in DOMAIN s |->
     IF i < p THEN <<>>
     ELSE IF i = p THEN SubSeq(s[i], Rest(s, w, p) + 1, Len(s[i]))
     ELSE s[i]]

(* What was taken and what writev_bucket keeps of the parts are the         *)
(* bucket.                                                                  *)
LEMMA CutParts ==
  ASSUME NEW s \in Seq(Seq(Byte)), NEW w \in 1 .. Len(FlattenSeq(s)),
         NEW p \in 1 .. Len(s), Ends(s, w, p)
  PROVE  /\ Rest(s, w, p) \in 1 .. w
         /\ Cut(s, w, p) \in Seq(Seq(Byte)) /\ Len(Cut(s, w, p)) = Len(s)
         /\ FlattenSeq(s) = SubSeq(FlattenSeq(s), 1, w) \o FlattenSeq(Cut(s, w, p))
         /\ Len(FlattenSeq(Cut(s, w, p))) = Len(FlattenSeq(s)) - w
<1>. DEFINE N == Len(s)
            r == Rest(s, w, p)
            A == Cut(s, w, p)
            before == Flat(s, p - 1)
            e == s[p]
            e1 == SubSeq(e, 1, r)
            e2 == SubSeq(e, r + 1, Len(e))
            h == before \o e1
<1>0. N \in Nat /\ p - 1 \in 0 .. N /\ p \in 0 .. N /\ Len(FlattenSeq(s)) \in Nat /\ w \in Nat
  BY FlattenAll
<1>1. /\ before \in Seq(Byte) /\ Len(before) \in Nat
      /\ e \in Seq(Byte) /\ Len(e) \in Nat
      /\ Flat(s, p) = before \o e
  BY <1>0, FlatType, FlatNext, LenProperties
<1>. HIDE DEF e
<1>2. Len(Flat(s, p)) = Len(before) + Len(e)
  BY <1>1, ConcatProperties
<1>3. r \in 1 .. w /\ r \in 0 .. Len(e)
  BY <1>0, <1>1, <1>2 DEF Ends, Rest
<1>. HIDE DEF r
<1>4. e1 \in Seq(Byte) /\ Len(e1) = r /\ e2 \in Seq(Byte) /\ e1 \o e2 = e
  BY <1>1, <1>3, CutIs
<1>. HIDE DEF e1, e2
<1>5. /\ h \in Seq(Byte) /\ Len(h) = w
  <2>1. h \in Seq(Byte) /\ Len(h) = Len(before) + Len(e1)
    BY <1>1, <1>4, ConcatProperties
  <2>. QED
    BY <1>0, <1>1, <1>3, <1>4, <2>1 DEF r, Rest
<1>6. h \o e2 = Flat(s, p)
  <2>. HIDE DEF before
  <2>1. (before \o e1) \o e2 = before \o (e1 \o e2)
    BY <1>1, <1>4, Assoc
  <2>. QED
    BY <1>1, <1>4, <2>1
<1>. HIDE DEF h
<1>7. /\ A \in Seq(Seq(Byte)) /\ Len(A) = N
      /\ \A i \in 1 .. p - 1 : A[i] = <<>>
      /\ A[p] = e2
      /\ \A i \in p + 1 .. N : A[i] = s[i]
  <2>1. DOMAIN s = 1 .. N
    OBVIOUS
  <2>2. ASSUME NEW i \in 1 .. N
        PROVE  A[i] = IF i < p THEN <<>> ELSE IF i = p THEN e2 ELSE s[i]
    BY <2>1 DEF Cut, e2, e, r
  <2>3. ASSUME NEW i \in 1 .. N PROVE A[i] \in Seq(Byte)
    <3>1. s[i] \in Seq(Byte) /\ <<>> \in Seq(Byte)
      OBVIOUS
    <3>. QED
      BY <1>4, <2>2, <3>1
  <2>4. A = [i \in 1 .. N |-> A[i]]
    BY <2>1 DEF Cut
  <2>. HIDE DEF A
  <2>5. A \in Seq(Seq(Byte)) /\ Len(A) = N
    BY <1>0, <2>3, <2>4
  <2>6. A[p] = e2
    BY <2>2
  <2>7. \A i \in 1 .. p - 1 : A[i] = <<>>
    BY <1>0, <2>2
  <2>8. \A i \in p + 1 .. N : A[i] = s[i]
    BY <1>0, <2>2
  <2>. QED
    BY <2>5, <2>6, <2>7, <2>8
<1>. HIDE DEF A, before
<1>. DEFINE Q(i) == IF i < p THEN Flat(A, i) = <<>> ELSE h \o Flat(A, i) = Flat(s, i)
            S == {i \in Nat : i <= N => Q(i)}
<1>8. Q(0)
  BY <1>0, FlatNone
<1>9. ASSUME NEW n \in Nat, Q(n), n + 1 <= N PROVE Q(n + 1)
  <2>. DEFINE k == n + 1
  <2>1. k \in 1 .. N /\ k - 1 = n /\ n \in 0 .. N /\ k \in 1 .. Len(A)
    <3>1. n + 1 <= N
      BY <1>9
    <3>2. k \in 1 .. N /\ k - 1 = n /\ n \in 0 .. N
      BY <1>0, <3>1
    <3>. QED
      BY <1>7, <3>2
  <2>. HIDE DEF k
  <2>2. Flat(A, k) = Flat(A, n) \o A[k] /\ A[k] \in Seq(Byte) /\ Flat(A, n) \in Seq(Byte)
    BY <1>7, <2>1, FlatNext, FlatType
  <2>3. Flat(s, k) = Flat(s, n) \o s[k] /\ s[k] \in Seq(Byte)
    BY <2>1, FlatNext
  <2>4. CASE k < p
    <3>1. Flat(A, n) = <<>> /\ A[k] = <<>>
      BY <1>0, <1>7, <1>9, <2>1, <2>4
    <3>2. <<>> \o <<>> = <<>>
      BY ConcatEmptySeq, EmptySeq
    <3>. QED
      BY <2>2, <2>4, <3>1, <3>2 DEF k
  <2>5. CASE k = p
    <3>1. Flat(A, n) = <<>> /\ A[k] = e2
      BY <1>7, <1>9, <2>1, <2>5
    <3>2. <<>> \o e2 = e2
      BY <1>4, ConcatEmptySeq
    <3>3. h \o Flat(A, k) = Flat(s, k)
      BY <1>6, <2>2, <2>5, <3>1, <3>2
    <3>. QED
      BY <2>5, <3>3 DEF k
  <2>6. CASE k > p
    <3>1. h \o Flat(A, n) = Flat(s, n) /\ A[k] = s[k]
      <4>1. ~ n < p /\ k \in p + 1 .. N
        BY <1>0, <2>1, <2>6
      <4>2. h \o Flat(A, n) = Flat(s, n)
        BY <1>9, <4>1, Zenon
      <4>. QED
        BY <1>7, <4>1, <4>2, Zenon
    <3>. DEFINE f == Flat(A, n)
                a == A[k]
    <3>2. /\ f \in Seq(Byte) /\ a \in Seq(Byte)
          /\ Flat(A, k) = f \o a /\ h \o f = Flat(s, n) /\ a = s[k]
      BY <2>2, <3>1
    <3>. HIDE DEF f, a
    <3>3. (h \o f) \o a = h \o (f \o a)
      BY <1>5, <3>2, Assoc
    <3>4. h \o Flat(A, k) = Flat(s, k)
      BY <2>3, <3>2, <3>3
    <3>. QED
      BY <1>0, <2>1, <2>6, <3>4 DEF k
  <2>. QED
    BY <1>0, <2>1, <2>4, <2>5, <2>6
<1>10. Q(N)
  <2>. HIDE DEF Q
  <2>1. 0 \in S
    BY <1>8
  <2>2. ASSUME NEW n \in Nat, n \in S PROVE n + 1 \in S
    BY <1>0, <1>9, <2>2
  <2>3. \A n \in Nat : n \in S => n + 1 \in S
    BY <2>2
  <2>. HIDE DEF S
  <2>4. N \in S
    BY <1>0, <2>1, <2>3, Induct
  <2>. QED
    BY <1>0, <2>4 DEF S
<1>11. h \o FlattenSeq(A) = FlattenSeq(s)
  <2>1. FlattenSeq(A) = Flat(A, N) /\ FlattenSeq(s) = Flat(s, N)
    BY <1>7, FlattenAll
  <2>2. ~ N < p
    BY <1>0
  <2>. QED
    BY <1>10, <2>1, <2>2
<1>12. FlattenSeq(A) \in Seq(Byte) /\ Len(FlattenSeq(A)) \in Nat
  BY <1>7, FlattenAll
<1>. DEFINE c == FlattenSeq(A)
<1>13. c \in Seq(Byte) /\ Len(c) \in Nat /\ h \o c = FlattenSeq(s)
  BY <1>11, <1>12
<1>. HIDE DEF c
<1>14. SubSeq(FlattenSeq(s), 1, w) = h
  BY <1>5, <1>13, Begins
<1>15. Len(c) = Len(FlattenSeq(s)) - w
  <2>1. Len(h \o c) = w + Len(c)
    BY <1>5, <1>13, ConcatProperties
  <2>. QED
    BY <1>0, <1>13, <2>1
<1>. QED
  BY <1>3, <1>7, <1>13, <1>14, <1>15 DEF r, A, c

----------------------------------------------------------------------------
(* What a response promises, by the lengths l of its items, and whether it  *)
(* is chunked.                                                              *)
ItemOf(l, i)  == Part("item", i, l[i])
FrameOf(l, i, k) == IF l[i] = 0 THEN <<<<"last", 0, k>>>> ELSE <<<<"size", i, k>>>>
ChunkOf(l, i) == <<FrameOf(l, i, 1), ItemOf(l, i), FrameOf(l, i, 2)>>
PieceOf(l, ch, i) == IF ch THEN FlattenSeq(ChunkOf(l, i)) ELSE ItemOf(l, i)
PiecesOf(l, ch) == [i \in DOMAIN l |-> PieceOf(l, ch, i)]
Upto(l, ch, k) == Header \o Flat(PiecesOf(l, ch), k)

(* Bytes of each kind.                                                      *)
LEMMA PartIs ==
  ASSUME NEW what \in {"header", "item", "size", "last"}, NEW i \in Nat, NEW n \in Nat
  PROVE  Part(what, i, n) \in Seq(Byte) /\ Len(Part(what, i, n)) = n
<1>1. \A k \in 1 .. n : <<what, i, k>> \in Byte
  BY DEF Byte
<1>2. Part(what, i, n) \in [1 .. n -> Byte]
  BY <1>1 DEF Part
<1>. QED
  BY <1>2

LEMMA HeaderIs == Header \in Seq(Byte) /\ Len(Header) = HeadLen /\ HeadLen \in Nat \ {0}
BY PartIs, ResponseAssumption DEF Header

LEMMA LastChunkIs == LastChunk \in Seq(Byte)
BY PartIs DEF LastChunk

LEMMA ItemIs ==
  ASSUME NEW l \in Seq(Nat), NEW i \in 1 .. Len(l)
  PROVE  ItemOf(l, i) \in Seq(Byte) /\ Len(ItemOf(l, i)) = l[i] /\ l[i] \in Nat
<1>1. l[i] \in Nat /\ i \in Nat
  OBVIOUS
<1>. QED
  BY <1>1, PartIs DEF ItemOf

LEMMA FrameIs ==
  ASSUME NEW l \in Seq(Nat), NEW i \in 1 .. Len(l), NEW k \in Nat
  PROVE  FrameOf(l, i, k) \in Seq(Byte)
<1>1. <<"last", 0, k>> \in Byte /\ <<"size", i, k>> \in Byte
  BY DEF Byte
<1>2. \A b \in Byte : <<b>> \in Seq(Byte)
  OBVIOUS
<1>3. <<<<"last", 0, k>>>> \in Seq(Byte) /\ <<<<"size", i, k>>>> \in Seq(Byte)
  BY <1>1, <1>2
<1>. QED
  BY <1>3 DEF FrameOf

LEMMA ChunkIs ==
  ASSUME NEW l \in Seq(Nat), NEW i \in 1 .. Len(l)
  PROVE  /\ ChunkOf(l, i) \in Seq(Seq(Byte))
         /\ FlattenSeq(ChunkOf(l, i)) \in Seq(Byte)
<1>. DEFINE f == FrameOf(l, i, 1)
            d == ItemOf(l, i)
            g == FrameOf(l, i, 2)
<1>1. f \in Seq(Byte) /\ d \in Seq(Byte) /\ g \in Seq(Byte)
  BY FrameIs, ItemIs
<1>. HIDE DEF f, d, g
<1>2. <<f, d, g>> \in Seq(Seq(Byte)) /\ FlattenSeq(<<f, d, g>>) \in Seq(Byte)
  BY <1>1, FlattenThree
<1>. QED
  BY <1>2 DEF f, d, g, ChunkOf

(* The items, each with its framing, one after the other.                   *)
LEMMA PiecesIs ==
  ASSUME NEW l \in Seq(Nat), NEW ch \in BOOLEAN
  PROVE  /\ PiecesOf(l, ch) \in Seq(Seq(Byte)) /\ Len(PiecesOf(l, ch)) = Len(l)
         /\ \A i \in 1 .. Len(l) : /\ PieceOf(l, ch, i) \in Seq(Byte)
                                   /\ PiecesOf(l, ch)[i] = PieceOf(l, ch, i)
<1>1. ASSUME NEW i \in 1 .. Len(l) PROVE PieceOf(l, ch, i) \in Seq(Byte)
  BY ChunkIs, ItemIs DEF PieceOf
<1>2. DOMAIN l = 1 .. Len(l) /\ Len(l) \in Nat
  OBVIOUS
<1>3. PiecesOf(l, ch) \in [1 .. Len(l) -> Seq(Byte)]
  BY <1>1, <1>2 DEF PiecesOf
<1>4. \A i \in 1 .. Len(l) : PiecesOf(l, ch)[i] = PieceOf(l, ch, i)
  BY <1>2 DEF PiecesOf
<1>5. PiecesOf(l, ch) \in Seq(Seq(Byte)) /\ Len(PiecesOf(l, ch)) = Len(l)
  BY <1>2, <1>3
<1>. QED
  BY <1>1, <1>4, <1>5

(* The headers and the first k items are bytes, and the headers if k is 0.  *)
LEMMA UptoIs ==
  ASSUME NEW l \in Seq(Nat), NEW ch \in BOOLEAN, NEW k \in 0 .. Len(l)
  PROVE  /\ Upto(l, ch, k) \in Seq(Byte)
         /\ Len(Upto(l, ch, k)) = HeadLen + Len(Flat(PiecesOf(l, ch), k))
         /\ Len(Flat(PiecesOf(l, ch), k)) \in Nat
         /\ Upto(l, ch, 0) = Header
<1>. DEFINE p == PiecesOf(l, ch)
            f == Flat(p, k)
<1>1. p \in Seq(Seq(Byte)) /\ k \in 0 .. Len(p)
  BY PiecesIs
<1>. HIDE DEF p
<1>2. f \in Seq(Byte) /\ Len(f) \in Nat
  BY <1>1, FlatType
<1>3. Flat(p, 0) = <<>>
  BY FlatNone
<1>. HIDE DEF f
<1>4. Header \o f \in Seq(Byte) /\ Len(Header \o f) = HeadLen + Len(f)
  BY <1>2, HeaderIs, ConcatProperties
<1>5. Header \o <<>> = Header
  BY HeaderIs, ConcatEmptySeq
<1>. QED
  BY <1>2, <1>3, <1>4, <1>5 DEF f, p, Upto

(* The next item comes after those before it, and counts its length.        *)
LEMMA UptoNext ==
  ASSUME NEW l \in Seq(Nat), NEW ch \in BOOLEAN, NEW k \in 1 .. Len(l)
  PROVE  /\ Upto(l, ch, k) = Upto(l, ch, k - 1) \o PieceOf(l, ch, k)
         /\ ~ch => Len(Flat(PiecesOf(l, ch), k)) = Len(Flat(PiecesOf(l, ch), k - 1)) + l[k]
<1>. DEFINE p == PiecesOf(l, ch)
            f == Flat(p, k - 1)
            e == PieceOf(l, ch, k)
<1>1. /\ p \in Seq(Seq(Byte)) /\ k \in 1 .. Len(p) /\ k - 1 \in 0 .. Len(p)
      /\ p[k] = e /\ e \in Seq(Byte)
  BY PiecesIs
<1>2. ~ch => Len(e) = l[k] /\ l[k] \in Nat
  BY ItemIs DEF PieceOf
<1>. HIDE DEF p, e
<1>3. Flat(p, k) = f \o e /\ f \in Seq(Byte)
  BY <1>1, FlatNext, FlatType
<1>. HIDE DEF f
<1>4. Header \o (f \o e) = (Header \o f) \o e
  BY <1>1, <1>3, HeaderIs, Assoc
<1>5. Len(f \o e) = Len(f) + Len(e)
  BY <1>1, <1>3, ConcatProperties
<1>. QED
  BY <1>2, <1>3, <1>4, <1>5 DEF f, p, e, Upto

(* An earlier point of the response begins every later one, and is it if    *)
(* the later one is no longer.                                              *)
LEMMA UptoLater ==
  ASSUME NEW l \in Seq(Nat), NEW ch \in BOOLEAN, NEW k \in 0 .. Len(l), NEW n \in k .. Len(l)
  PROVE  \E r \in Seq(Byte) :
           /\ Upto(l, ch, n) = Upto(l, ch, k) \o r
           /\ Len(Flat(PiecesOf(l, ch), n)) <= Len(Flat(PiecesOf(l, ch), k)) => r = <<>>
<1>. DEFINE p == PiecesOf(l, ch)
            f == Flat(p, k)
<1>1. p \in Seq(Seq(Byte)) /\ k \in 0 .. Len(p) /\ n \in k .. Len(p)
  BY PiecesIs
<1>. HIDE DEF p
<1>2. f \in Seq(Byte) /\ Len(f) \in Nat
  BY <1>1, FlatType
<1>3. PICK r \in Seq(Byte) : Flat(p, n) = f \o r
  BY <1>1, FlatPrefix
<1>. HIDE DEF f
<1>4. Header \o (f \o r) = (Header \o f) \o r
  BY <1>2, HeaderIs, Assoc
<1>5. Len(f \o r) = Len(f) + Len(r) /\ Len(r) \in Nat
  BY <1>2, ConcatProperties, LenProperties
<1>6. Len(Flat(p, n)) <= Len(f) => r = <<>>
  BY <1>2, <1>3, <1>5, EmptySeq
<1>. QED
  BY <1>3, <1>4, <1>6 DEF f, p, Upto

----------------------------------------------------------------------------
(* The application's answer, and all that is promised for it.               *)
Whole(j, ch) ==
  IF j.status = 304 THEN Header
  ELSE Header \o (IF j.kind = "file" THEN ItemOf(j.items, 1) ELSE FlattenSeq(PiecesOf(j.items, ch)))
              \o (IF ch THEN LastChunk ELSE <<>>)

JobIs(j) ==
  /\ j.items \in Seq(Nat) /\ j.position \in Nat
  /\ \/ /\ j.kind = "file" /\ j.status = 200
        /\ Len(j.items) = 1 /\ j.items[1] \in Nat /\ j.position \in {0, j.items[1]}
        /\ j.length \in Nat \cup {NoLength}
     \/ /\ j.kind = "iter" /\ j.position = 0
        /\ j.length \in {NoLength, Len(FlattenSeq(PiecesOf(j.items, FALSE)))}

(* What the application answers is as JobIs says.                           *)
LEMMA JobShape ==
  ASSUME NEW j \in Jobs
  PROVE  JobIs(j)
<1>1. j \in IterJobs => \E l \in Lists : j \in ListJobs(l)
  BY Zenon DEF IterJobs
<1>2. j \in SendJobs => \E n \in FileLens : j \in FileJobs(n)
  BY Zenon DEF SendJobs
<1>3. ASSUME NEW l \in Lists, j \in ListJobs(l) PROVE JobIs(j)
  <2>1. /\ j.kind = "iter" /\ j.items = l /\ j.position = 0
        /\ j.length \in {NoLength, SizeOf(AllData(l))}
    BY <1>3 DEF ListJobs
  <2>2. PICK n \in 0 .. MaxItems : l \in [1 .. n -> ItemLens]
    BY DEF Lists
  <2>3. n \in Nat /\ ItemLens \subseteq Nat
    BY ResponseAssumption
  <2>4. l \in [1 .. n -> Nat]
    BY <2>2, <2>3
  <2>5. l \in Seq(Nat)
    BY <2>3, <2>4
  <2>6. AllData(l) = PiecesOf(l, FALSE)
    BY DEF AllData, PiecesOf, PieceOf, ItemOf
  <2>. QED
    <3>1. j.length \in {NoLength, Len(FlattenSeq(PiecesOf(j.items, FALSE)))}
      BY <2>1, <2>6 DEF SizeOf
    <3>2. j.items \in Seq(Nat) /\ j.position \in Nat
      BY <2>1, <2>5
    <3>. QED
      BY <2>1, <3>1, <3>2, Zenon DEF JobIs
<1>4. ASSUME NEW n \in FileLens, j \in FileJobs(n) PROVE JobIs(j)
  <2>1. /\ j.kind = "file" /\ j.items = <<n>> /\ j.status = 200 /\ j.position \in {0, n}
        /\ j.length \in {NoLength} \cup 0 .. n + 1
    BY <1>4 DEF FileJobs
  <2>2. n \in Nat
    BY ResponseAssumption
  <2>3. <<n>> \in Seq(Nat) /\ Len(<<n>>) = 1 /\ <<n>>[1] = n
    BY <2>2
  <2>4. /\ j.items \in Seq(Nat) /\ Len(j.items) = 1 /\ j.items[1] = n
        /\ j.position \in Nat /\ j.position \in {0, n} /\ j.length \in Nat \cup {NoLength}
    BY <2>1, <2>2, <2>3
  <2>. QED
    BY <2>1, <2>2, <2>4 DEF JobIs
<1>5. j \in IterJobs \/ j \in SendJobs
  BY DEF Jobs
<1>. QED
  BY <1>1, <1>2, <1>3, <1>4, <1>5

LEMMA JobClosable ==
  ASSUME NEW j \in Jobs
  PROVE  j.closable \in BOOLEAN
<1>1. j \in IterJobs => \E l \in Lists : j \in ListJobs(l)
  BY Zenon DEF IterJobs
<1>2. j \in SendJobs => \E n \in FileLens : j \in FileJobs(n)
  BY Zenon DEF SendJobs
<1>3. j \in IterJobs \/ j \in SendJobs
  BY DEF Jobs
<1>. QED
  BY <1>1, <1>2, <1>3 DEF ListJobs, FileJobs

(* Promised of the state is Whole of the answer.                            *)
LEMMA PromisedIs == Promised = Whole(job, chunked)
<1>1. \A i : Data(i) = ItemOf(job.items, i)
  BY DEF Data, ItemOf
<1>2. \A i : Chunk(i) = ChunkOf(job.items, i)
  BY <1>1 DEF Chunk, ChunkOf, Frame, FrameOf
<1>3. [i \in DOMAIN job.items |-> IF chunked THEN FlattenSeq(Chunk(i)) ELSE Data(i)]
        = PiecesOf(job.items, chunked)
  BY <1>1, <1>2 DEF PiecesOf, PieceOf
<1>. QED
  BY <1>1, <1>3 DEF Promised, Whole

(* All items.                                                               *)
LEMMA FlattenPieces ==
  ASSUME NEW l \in Seq(Nat), NEW ch \in BOOLEAN
  PROVE  /\ FlattenSeq(PiecesOf(l, ch)) = Flat(PiecesOf(l, ch), Len(l))
         /\ FlattenSeq(PiecesOf(l, ch)) \in Seq(Byte)
<1>. DEFINE p == PiecesOf(l, ch)
<1>1. p \in Seq(Seq(Byte)) /\ Len(p) = Len(l)
  BY PiecesIs
<1>. HIDE DEF p
<1>2. FlattenSeq(p) = Flat(p, Len(l)) /\ FlattenSeq(p) \in Seq(Byte)
  BY <1>1, FlattenAll
<1>. QED
  BY <1>2 DEF p

(* All that is promised: the headers, every item, and the last chunk.       *)
LEMMA WholeIs ==
  ASSUME NEW j, NEW ch \in BOOLEAN, JobIs(j), ch => j.kind = "iter" /\ j.status # 304
  PROVE  /\ Whole(j, ch) \in Seq(Byte)
         /\ j.status = 304 => Whole(j, ch) = Upto(j.items, ch, 0)
         /\ j.status # 304 /\ j.kind = "iter" =>
              /\ ch => Whole(j, ch) = Upto(j.items, ch, Len(j.items)) \o LastChunk
              /\ ~ch => Whole(j, ch) = Upto(j.items, ch, Len(j.items))
         /\ j.kind = "file" => Whole(j, ch) = Upto(j.items, ch, 0) \o ItemOf(j.items, 1)
<1>. DEFINE l == j.items
            u == Upto(l, ch, Len(l))
            d == ItemOf(l, 1)
<1>1. l \in Seq(Nat) /\ Len(l) \in 0 .. Len(l) /\ 0 \in 0 .. Len(l)
  BY DEF JobIs
<1>2. u \in Seq(Byte) /\ Upto(l, ch, 0) = Header /\ Header \in Seq(Byte) /\ LastChunk \in Seq(Byte)
  BY <1>1, UptoIs, HeaderIs, LastChunkIs
<1>3. u = Header \o FlattenSeq(PiecesOf(l, ch))
  BY <1>1, FlattenPieces DEF Upto
<1>4. CASE j.status = 304
  BY <1>2, <1>4 DEF Whole, JobIs
<1>5. CASE j.status # 304 /\ j.kind = "iter"
  <2>. HIDE DEF u, l
  <2>1. u \o <<>> = u /\ u \o LastChunk \in Seq(Byte)
    BY <1>2, ConcatEmptySeq, ConcatProperties
  <2>2. Whole(j, ch) = u \o (IF ch THEN LastChunk ELSE <<>>)
    BY <1>3, <1>5 DEF Whole, l
  <2>. QED
    BY <1>2, <1>5, <2>1, <2>2 DEF u, l
<1>6. CASE j.kind = "file"
  <2>1. 1 \in 1 .. Len(l) /\ j.status # 304 /\ ~ch
    BY <1>6 DEF JobIs
  <2>2. d \in Seq(Byte)
    BY <1>1, <2>1, ItemIs
  <2>. HIDE DEF d
  <2>3. (Header \o d) \o <<>> = Header \o d /\ Header \o d \in Seq(Byte)
    BY <1>2, <2>2, ConcatEmptySeq, ConcatProperties
  <2>4. Whole(j, ch) = (Header \o d) \o <<>>
    BY <1>6, <2>1 DEF Whole, d
  <2>. QED
    BY <1>2, <1>6, <2>1, <2>3, <2>4 DEF d
<1>. QED
  BY <1>4, <1>5, <1>6 DEF JobIs

(* What is sent of the items begins what is promised.                       *)
LEMMA UptoBegins ==
  ASSUME NEW j, NEW ch \in BOOLEAN, JobIs(j), ch => j.kind = "iter" /\ j.status # 304,
         NEW k \in 0 .. Len(j.items), j.kind = "file" \/ j.status = 304 => k = 0
  PROVE  \E r \in Seq(Byte) : Whole(j, ch) = Upto(j.items, ch, k) \o r
<1>. DEFINE l == j.items
            u == Upto(l, ch, k)
            z == Upto(l, ch, Len(l))
<1>1. l \in Seq(Nat) /\ Len(l) \in k .. Len(l)
  BY DEF JobIs
<1>2. u \in Seq(Byte)
  BY <1>1, UptoIs
<1>3. CASE j.status = 304
  <2>1. Whole(j, ch) = u
    BY <1>3, WholeIs
  <2>. HIDE DEF u
  <2>2. u \o <<>> = u /\ <<>> \in Seq(Byte)
    BY <1>2, ConcatEmptySeq, EmptySeq
  <2>. QED
    BY <2>1, <2>2 DEF u
<1>4. CASE j.kind = "file"
  <2>1. Whole(j, ch) = u \o ItemOf(l, 1)
    BY <1>4, WholeIs
  <2>2. ItemOf(l, 1) \in Seq(Byte)
    <3>1. 1 \in 1 .. Len(l)
      BY <1>4 DEF JobIs
    <3>. QED
      BY <1>1, <3>1, ItemIs
  <2>. QED
    BY <2>1, <2>2
<1>5. CASE j.status # 304 /\ j.kind = "iter"
  <2>1. PICK r \in Seq(Byte) : z = u \o r
    BY <1>1, UptoLater
  <2>. DEFINE t == IF ch THEN LastChunk ELSE <<>>
  <2>2. t \in Seq(Byte)
    BY LastChunkIs, EmptySeq
  <2>3. z \in Seq(Byte)
    BY <1>1, UptoIs
  <2>4. Whole(j, ch) = z \o t
    <3>1. z \o <<>> = z
      BY <2>3, ConcatEmptySeq
    <3>. QED
      BY <1>5, <3>1, WholeIs
  <2>. HIDE DEF u, t, z
  <2>5. (u \o r) \o t = u \o (r \o t) /\ r \o t \in Seq(Byte)
    BY <1>2, <2>2, Assoc, ConcatProperties
  <2>. QED
    BY <2>1, <2>4, <2>5 DEF u
<1>. QED
  BY <1>3, <1>4, <1>5 DEF JobIs

----------------------------------------------------------------------------
(* The inductive invariant of a response.                                   *)
Done      == Upto(job.items, chunked, item)
Size(k)   == Len(Flat(PiecesOf(job.items, chunked), k))
Pending   == pc = "write" \/ (pc = "hub" /\ bucket # <<>>)
InFile    == pc = "file" \/ (pc = "hub" /\ bucket = <<>>)
Iterated  == job.kind = "iter" /\ job.status # 304

\* content_length once the headers are written
LengthOf == IF job.kind = "file" /\ job.length = NoLength THEN job.items[1] ELSE job.length

Typed == TypeOK /\ wire \in Seq(Byte) /\ bucket \in Seq(Seq(Byte))

(* Where a response can be, and with what: chunks are for the items of an   *)
(* iterator and have no length; the headers come first, the last chunk after*)
(* all items.                                                               *)
Settled ==
  /\ chunked => Iterated /\ content_length = NoLength
  /\ ~Iterated => item = 0
  /\ pc \in {"app", "start"} =>
       /\ wire = <<>> /\ item = 0 /\ write_bytes = 0 /\ sent = job.position
       /\ ~headWaited /\ ~lastLost /\ ~chunked
  /\ pc \notin {"app", "start", "error", "closed"} =>
       content_length = LengthOf
  /\ pc \in {"body", "last"} => Iterated
  /\ pc = "last" => content_length # NoLength
  /\ InFile => job.kind = "file" /\ bucket = <<>>
  /\ pc = "write" /\ ctx = "last" => chunked /\ item = Len(job.items)
  /\ Pending /\ ctx = "item" => Iterated /\ item > 0
  /\ pc = "hub" /\ bucket # <<>> => ctx # "last"
  /\ Pending \/ pc \in {"body", "last"} => sent = job.position

(* What was sent, and what is left of a bucket, is the headers and the items*)
(* so far, or all; a file is sent from its position.                        *)
InPlace ==
  /\ Pending => /\ total >= SizeOf(bucket)
                /\ wire \o FlattenSeq(bucket) =
                     IF pc = "write" /\ ctx = "last" THEN Whole(job, chunked) ELSE Done
  /\ pc \in {"body", "last"} => wire = Done
  /\ InFile => /\ sent \in job.position .. job.items[1]
               /\ wire = Header \o SubSeq(ItemOf(job.items, 1), job.position + 1, sent)

Begun == \E r \in Seq(Byte) : Whole(job, chunked) = wire \o r

(* What is counted, where there is a length and the headers did not have to *)
(* wait.                                                                    *)
Counted ==
  content_length # NoLength /\ ~headWaited =>
    /\ pc = "body" => write_bytes = Size(item)
    /\ Pending /\ ctx = "head" => pc = "write" /\ write_bytes = 0 /\ item \in {0, 1}
    /\ Pending /\ ctx \in {"item", "late"} =>
         /\ Iterated /\ item > 0
         /\ total_size = job.items[item] /\ write_bytes = Size(item - 1)
    /\ InFile => sent = job.position + write_bytes

\* the Complete of Response, with Whole for Promised
Enough == IF job.kind = "file"
          THEN IsPrefix(Header \o Part("item", 1, content_length), wire)
          ELSE wire = Whole(job, chunked)

Ended ==
  /\ pc = "last" => headWaited \/ wire = Whole(job, chunked)
  /\ pc \in {"close", "ok"} => \/ Enough
                               \/ headWaited /\ content_length # NoLength
                               \/ lastLost

ResponseInv == Typed /\ Settled /\ InPlace /\ Begun /\ Counted /\ Ended

(* What the invariant says of the answer and the items so far.              *)
LEMMA Known ==
  ASSUME ResponseInv
  PROVE  /\ JobIs(job) /\ job.items \in Seq(Nat) /\ Len(job.items) \in Nat
         /\ chunked \in BOOLEAN /\ (chunked => job.kind = "iter" /\ job.status # 304)
         /\ item \in 0 .. Len(job.items)
         /\ (job.kind = "file" \/ job.status = 304 => item = 0)
         /\ Done \in Seq(Byte)
         /\ Whole(job, chunked) \in Seq(Byte)
<1>1. JobIs(job) /\ job.items \in Seq(Nat) /\ Len(job.items) \in Nat
  <2>1. job \in Jobs
    BY DEF ResponseInv, Typed, TypeOK
  <2>2. JobIs(job)
    BY <2>1, JobShape
  <2>3. job.items \in Seq(Nat)
    BY <2>2 DEF JobIs
  <2>. QED
    BY <2>2, <2>3, LenProperties
<1>2. /\ chunked \in BOOLEAN /\ (chunked => job.kind = "iter" /\ job.status # 304)
      /\ item \in 0 .. Len(job.items)
  BY DEF ResponseInv, Typed, TypeOK, Settled, Iterated
<1>3. job.kind = "file" \/ job.status = 304 => item = 0
  BY DEF ResponseInv, Settled, Iterated
<1>4. Done \in Seq(Byte)
  BY <1>1, <1>2, UptoIs DEF Done
<1>5. Whole(job, chunked) \in Seq(Byte)
  BY <1>1, <1>2, WholeIs
<1>. QED
  BY <1>1, <1>2, <1>3, <1>4, <1>5

(* It holds when the application is called.                                 *)
LEMMA InitResponse == Init => ResponseInv
<1>. SUFFICES ASSUME Init PROVE ResponseInv
  OBVIOUS
<1>1. job \in Jobs /\ chunked = FALSE /\ item = 0 /\ wire = <<>> /\ pc = "app" /\ bucket = <<>>
  BY DEF Init
<1>2. JobIs(job)
  BY <1>1, JobShape
<1>3. <<>> \in Seq(Byte) /\ <<>> \in Seq(Seq(Byte))
  OBVIOUS
<1>4. Len(job.items) \in Nat /\ job.position \in Nat
  <2>1. job.items \in Seq(Nat)
    BY <1>2 DEF JobIs
  <2>2. job.position \in Nat
    BY <1>2 DEF JobIs
  <2>. QED
    BY <2>1, <2>2, LenProperties
<1>5. TypeOK
  <2>1. /\ pc = "app" /\ ctx = "head" /\ total = 0 /\ total_size = 0 /\ item = 0
        /\ sent = job.position /\ write_bytes = 0 /\ content_length = NoLength /\ closes = 0
    BY DEF Init
  <2>2. /\ headers = FALSE /\ response = FALSE /\ chunked = FALSE /\ header_done = FALSE
        /\ self_closed = FALSE /\ response_closed = FALSE /\ headWaited = FALSE /\ lastLost = FALSE
    BY DEF Init
  <2>3. {headers, response, chunked, header_done, response_closed} \subseteq BOOLEAN
    BY <2>2
  <2>4. {self_closed, headWaited, lastLost} \subseteq BOOLEAN
    BY <2>2
  <2>5. item \in 0 .. Len(job.items) /\ sent \in Nat
    BY <1>4, <2>1
  <2>. QED
    BY <1>1, <2>1, <2>3, <2>4, <2>5 DEF TypeOK
<1>6. Begun
  <2>1. Whole(job, FALSE) \in Seq(Byte)
    BY <1>2, WholeIs
  <2>2. Whole(job, FALSE) = <<>> \o Whole(job, FALSE)
    BY <2>1, ConcatEmptySeq
  <2>. QED
    BY <1>1, <2>1, <2>2 DEF Begun
<1>7. Settled /\ InPlace /\ Counted /\ Ended
  BY DEF Init, Settled, InPlace, Counted, Ended, Pending, InFile, Iterated
<1>. QED
  BY <1>1, <1>3, <1>5, <1>6, <1>7 DEF ResponseInv, Typed

Placed == <<job, bucket, total, total_size, item, sent, write_bytes, content_length, chunked,
            wire, headWaited, lastLost>>

(* Begun is kept where nothing is sent.                                     *)
LEMMA StillBegun ==
  ASSUME Begun, UNCHANGED <<job, chunked, wire>>
  PROVE  Begun'
BY DEF Begun

(* Steps that only end something.                                           *)
LEMMA Quiet ==
  ASSUME ResponseInv, TypeOK', UNCHANGED Placed,
         \/ pc' \in {"error", "closed"}
         \/ UNCHANGED <<pc, ctx>>
         \/ pc = "app" /\ pc' = "start"
         \/ pc = "close" /\ pc' = "ok"
  PROVE  ResponseInv'
<1>1. Begun'
  BY StillBegun DEF ResponseInv, Placed
<1>2. Typed'
  BY DEF ResponseInv, Typed, Placed
<1>3. Done' = Done /\ Iterated' = Iterated
  BY DEF Done, Placed, Iterated
<1>4. Settled'
  BY <1>3 DEF LengthOf, ResponseInv, Settled, Placed, Pending, InFile
<1>5. InPlace'
  BY <1>3 DEF ResponseInv, InPlace, Placed, Pending, InFile, SizeOf
<1>6. Counted'
  BY <1>3 DEF ResponseInv, Counted, Placed, Pending, InFile, Size
<1>7. Ended'
  BY DEF ResponseInv, Ended, Enough, Placed
<1>. QED
  BY <1>1, <1>2, <1>4, <1>5, <1>6, <1>7 DEF ResponseInv

(* The application, its errors and close_response are such steps.           *)
LEMMA QuietSteps ==
  ASSUME ResponseInv,
         \/ AppReturns \/ StartResponse \/ AppRaises \/ ItemFails \/ FileEnds
         \/ \E closed \in BOOLEAN : SetClosed(closed)
         \/ SendFileAgain("error") \/ Finish \/ ErrorPage
         \/ \E raises \in BOOLEAN : Close(raises)
  PROVE  ResponseInv'
<1>0. TypeOK
  BY DEF ResponseInv, Typed
<1>1. CASE \/ AppReturns \/ StartResponse \/ AppRaises \/ ItemFails \/ FileEnds
           \/ SendFileAgain("error")
           \/ \E closed \in BOOLEAN : SetClosed(closed)
  <2>1. TypeOK'
    BY <1>0, <1>1 DEF TypeOK, AppReturns, StartResponse, AppRaises, ItemFails, FileEnds,
       SetClosed, SendFileAgain, vars, appVars, bucketVars, sizeVars, flagVars, closeVars, historyVars
  <2>2. /\ UNCHANGED Placed
        /\ \/ pc' \in {"error", "closed"}
           \/ UNCHANGED <<pc, ctx>>
           \/ pc = "app" /\ pc' = "start"
    BY <1>1 DEF Placed, AppReturns, StartResponse, AppRaises, ItemFails, FileEnds, SetClosed,
       SendFileAgain,
       vars, appVars, bucketVars, sizeVars, flagVars, closeVars, historyVars
  <2>. QED
    BY <2>1, <2>2, Quiet
<1>2. CASE Finish \/ ErrorPage \/ \E raises \in BOOLEAN : Close(raises)
  <2>1. TypeOK'
    <3>1. closes' \in Nat /\ response_closed' \in BOOLEAN /\ header_done' \in BOOLEAN
      <4>1. /\ closes \in Nat /\ response_closed \in BOOLEAN
            /\ header_done \in BOOLEAN /\ response \in BOOLEAN
        BY <1>0 DEF TypeOK
      <4>2. job.closable \in BOOLEAN
        BY <1>0, JobClosable DEF TypeOK
      <4>3. HasClose \in BOOLEAN
        BY <4>1, <4>2 DEF HasClose
      <4>. HIDE DEF HasClose
      <4>4. closes' \in {closes, closes + 1}
        BY <1>2 DEF Finish, ErrorPage, Close, CloseResponse
      <4>5. response_closed' \in BOOLEAN /\ header_done' \in BOOLEAN
        BY <1>2, <4>1, <4>3, Zenon DEF Finish, ErrorPage, Close, CloseResponse, flagVars
      <4>. QED
        BY <4>1, <4>4, <4>5
    <3>. QED
      BY <1>0, <1>2, <3>1 DEF TypeOK, Finish, ErrorPage, Close, appVars, bucketVars, sizeVars,
         flagVars, historyVars
  <2>2. /\ UNCHANGED Placed
        /\ \/ pc' \in {"error", "closed"}
           \/ pc = "close" /\ pc' = "ok"
    BY <1>2 DEF Placed, Finish, ErrorPage, Close, appVars, bucketVars, sizeVars, flagVars,
       historyVars
  <2>. QED
    BY <2>1, <2>2, Quiet
<1>. QED
  BY <1>1, <1>2

----------------------------------------------------------------------------
(* A file, and what is promised of it.                                      *)
LEMMA FileIs ==
  ASSUME ResponseInv, job.kind = "file"
  PROVE  /\ job.items[1] \in Nat /\ job.position \in {0, job.items[1]}
         /\ ItemOf(job.items, 1) \in Seq(Byte) /\ Len(ItemOf(job.items, 1)) = job.items[1]
         /\ Whole(job, chunked) = Header \o ItemOf(job.items, 1)
         /\ Done = Header /\ ~Iterated
<1>1. JobIs(job) /\ item = 0
  BY Known
<1>2. 1 \in 1 .. Len(job.items) /\ job.items[1] \in Nat /\ job.position \in {0, job.items[1]}
  BY <1>1 DEF JobIs
<1>3. ItemOf(job.items, 1) \in Seq(Byte) /\ Len(ItemOf(job.items, 1)) = job.items[1]
  BY <1>2, Known, ItemIs
<1>4. Upto(job.items, chunked, 0) = Header
  BY Known, UptoIs
<1>5. Whole(job, chunked) = Upto(job.items, chunked, 0) \o ItemOf(job.items, 1)
  BY Known, WholeIs
<1>. QED
  BY <1>1, <1>2, <1>3, <1>4, <1>5 DEF Done, Iterated

(* process_sendfile sends the next n bytes of the file.                     *)
LEMMA SendFileStep ==
  ASSUME ResponseInv, NEW n \in 1 .. content_length, SendFile(n)
  PROVE  ResponseInv'
<1>. DEFINE d == ItemOf(job.items, 1)
            a == SubSeq(d, job.position + 1, sent)
            b == SubSeq(d, sent + 1, sent + n)
            c == SubSeq(d, job.position + 1, sent + n)
<1>0. /\ pc = "file" /\ InFile /\ sent + n <= job.items[1]
      /\ sent' = sent + n /\ write_bytes' = write_bytes + n
      /\ wire' = wire \o SubSeq(Data(1), sent + 1, sent + n)
      /\ UNCHANGED <<job, appVars, pc, ctx, bucketVars, item, content_length, flagVars,
                     closeVars, historyVars>>
  BY DEF SendFile, InFile
<1>1. /\ job.kind = "file" /\ bucket = <<>>
      /\ sent \in job.position .. job.items[1] /\ wire = Header \o a
  BY <1>0 DEF ResponseInv, Settled, InPlace
<1>2. /\ job.items[1] \in Nat /\ job.position \in {0, job.items[1]}
      /\ d \in Seq(Byte) /\ Len(d) = job.items[1] /\ Whole(job, chunked) = Header \o d
      /\ ~Iterated
  BY <1>1, FileIs
<1>3. TypeOK /\ wire \in Seq(Byte) /\ bucket \in Seq(Seq(Byte))
  BY DEF ResponseInv, Typed
<1>4. n \in Nat /\ sent \in Nat /\ write_bytes \in Nat
  <2>1. content_length \in Nat \cup {-1}
    BY <1>3 DEF TypeOK, NoLength
  <2>. QED
    BY <1>1, <1>2, <1>3, <2>1 DEF TypeOK
<1>. DEFINE p == job.position
            k == sent
            m == sent + n
<1>. HIDE DEF d
<1>5. p = 0 /\ k \in 0 .. Len(d) /\ m \in k .. Len(d) /\ k \in Nat /\ m \in Nat /\ Len(d) \in Nat
  BY <1>0, <1>1, <1>2, <1>4
<1>6. /\ a \in Seq(Byte) /\ b \in Seq(Byte) /\ c \in Seq(Byte) /\ a \o b = c
      /\ SubSeq(d, m + 1, Len(d)) \in Seq(Byte) /\ c \o SubSeq(d, m + 1, Len(d)) = d
  <2>. HIDE DEF p, k, m
  <2>. DEFINE l == Len(d)
  <2>1. 0 \in 0 .. l /\ k \in 0 .. l /\ m \in k .. l /\ m \in 0 .. l /\ l \in m .. l /\ l \in l .. l
    BY <1>5
  <2>. HIDE DEF l
  <2>2. /\ SubSeq(d, 0 + 1, k) \in Seq(Byte)
        /\ SubSeq(d, 0 + 1, k) \o SubSeq(d, k + 1, m) = SubSeq(d, 0 + 1, m)
    BY <1>2, <2>1, Between DEF l
  <2>3. /\ SubSeq(d, 0 + 1, m) \in Seq(Byte)
        /\ SubSeq(d, 0 + 1, m) \o SubSeq(d, m + 1, l) = SubSeq(d, 0 + 1, l)
    BY <1>2, <2>1, Between DEF l
  <2>4. SubSeq(d, k + 1, m) \in Seq(Byte) /\ SubSeq(d, m + 1, l) \in Seq(Byte)
    BY <1>2, <2>1, Between DEF l
  <2>5. SubSeq(d, 1, l) = d
    BY <1>2, SubSeqFull DEF l
  <2>6. a = SubSeq(d, 0 + 1, k) /\ b = SubSeq(d, k + 1, m) /\ c = SubSeq(d, 0 + 1, m)
    BY <1>5 DEF p, k, m
  <2>. HIDE DEF a, b, c
  <2>7. SubSeq(d, 0 + 1, l) = d
    BY <2>5
  <2>. QED
    BY <2>2, <2>3, <2>4, <2>6, <2>7 DEF l
<1>8. wire' = Header \o c
  <2>1. Data(1) = d
    BY DEF Data, d, ItemOf
  <2>. HIDE DEF a, b, c
  <2>2. (Header \o a) \o b = Header \o (a \o b)
    <3>1. Header \in Seq(Byte) /\ a \in Seq(Byte) /\ b \in Seq(Byte)
      BY <1>6, HeaderIs
    <3>. QED
      BY <3>1, Assoc
  <2>. QED
    BY <1>0, <1>1, <1>6, <2>1, <2>2 DEF b
<1>9. wire' \in Seq(Byte)
  BY <1>6, <1>8, HeaderIs, ConcatProperties
<1>10. TypeOK'
  BY <1>0, <1>3, <1>4 DEF TypeOK, appVars, bucketVars, flagVars, closeVars, historyVars
<1>11. Begun'
  <2>. DEFINE r == SubSeq(d, m + 1, Len(d))
  <2>. HIDE DEF c, r
  <2>1. r \in Seq(Byte) /\ c \o r = d
    BY <1>6 DEF r, c
  <2>2. (Header \o c) \o r = Header \o (c \o r)
    <3>1. Header \in Seq(Byte) /\ c \in Seq(Byte)
      BY <1>6, HeaderIs DEF c
    <3>. QED
      BY <2>1, <3>1, Assoc
  <2>3. Whole(job, chunked) = wire' \o r
    BY <1>2, <1>8, <2>1, <2>2 DEF c
  <2>4. job' = job /\ chunked' = chunked
    BY <1>0 DEF flagVars
  <2>. QED
    BY <2>1, <2>3, <2>4 DEF Begun
<1>12. Settled'
  BY <1>0, <1>1, <1>2 DEF LengthOf, ResponseInv, Settled, Pending, InFile, Iterated, bucketVars, flagVars,
     historyVars
<1>13. InPlace'
  <2>0. sent' = sent + n /\ sent + n <= job.items[1]
    BY <1>0
  <2>1. sent' \in job.position .. job.items[1]
    BY <2>0, <1>1, <1>2, <1>4
  <2>. HIDE DEF d
  <2>2. wire' = Header \o SubSeq(d, job.position + 1, sent')
    BY <1>0, <1>8
  <2>. QED
    BY <1>0, <1>1, <2>1, <2>2 DEF InPlace, Pending, InFile, bucketVars, d
<1>14. Counted'
  <2>1. content_length # NoLength /\ ~headWaited => sent = job.position + write_bytes
    BY <1>0 DEF ResponseInv, Counted
  <2>2. job.position \in Nat
    BY <1>2
  <2>3. content_length # NoLength /\ ~headWaited => sent' = job.position + write_bytes'
    BY <1>0, <1>4, <2>1, <2>2
  <2>. QED
    BY <1>0, <1>1, <2>3 DEF Counted, Pending, InFile, bucketVars, historyVars
<1>15. Ended'
  BY <1>0 DEF Ended
<1>16. Typed'
  BY <1>0, <1>3, <1>9, <1>10 DEF Typed, bucketVars
<1>. QED
  BY <1>11, <1>12, <1>13, <1>14, <1>15, <1>16 DEF ResponseInv

(* It closes the response: all was sent, or the headers had been counted.   *)
LEMMA FileSentStep ==
  ASSUME ResponseInv, FileSent
  PROVE  ResponseInv'
<1>0. /\ pc = "file" /\ InFile /\ content_length <= write_bytes /\ pc' = "close"
      /\ UNCHANGED Placed /\ UNCHANGED <<appVars, ctx, flagVars, closeVars, historyVars>>
  BY DEF FileSent, InFile, Placed, bucketVars, sizeVars, flagVars, historyVars
<1>1. /\ job.kind = "file" /\ bucket = <<>> /\ content_length = LengthOf
      /\ sent \in job.position .. job.items[1]
      /\ wire = Header \o SubSeq(ItemOf(job.items, 1), job.position + 1, sent)
  BY <1>0 DEF ResponseInv, Settled, InPlace
<1>2. /\ job.items[1] \in Nat /\ job.position \in {0, job.items[1]}
      /\ ItemOf(job.items, 1) \in Seq(Byte) /\ Len(ItemOf(job.items, 1)) = job.items[1]
      /\ Whole(job, chunked) = Header \o ItemOf(job.items, 1)
  BY <1>1, FileIs
<1>3. TypeOK
  BY DEF ResponseInv, Typed
<1>4. content_length \in Nat /\ content_length # NoLength
  <2>1. job.length \in Nat \cup {NoLength}
    BY <1>1, Known DEF JobIs
  <2>. QED
    BY <1>1, <1>2, <2>1 DEF LengthOf, NoLength
<1>9. Enough \/ headWaited
  <2>. SUFFICES ASSUME ~headWaited
                PROVE  IsPrefix(Header \o Part("item", 1, content_length), wire)
    BY <1>1, <1>3 DEF Enough, TypeOK
  <2>. DEFINE d == ItemOf(job.items, 1)
              n == content_length
              y == Part("item", 1, n)
  <2>1. sent = job.position + write_bytes
    BY <1>0, <1>4 DEF ResponseInv, Counted
  <2>2. write_bytes \in Nat /\ sent \in Nat /\ sent <= job.items[1] /\ n <= write_bytes
    BY <1>0, <1>1, <1>2, <1>3 DEF TypeOK
  <2>3. d \in Seq(Byte) /\ Len(d) = job.items[1]
    BY <1>2
  <2>4. \E r \in Seq(Byte) : wire = (Header \o y) \o r
    <3>1. CASE job.position = 0
      <4>1. 0 \in 0 .. Len(d) /\ n \in 0 .. Len(d) /\ sent \in n .. Len(d)
        BY <1>2, <1>4, <2>1, <2>2, <2>3, <3>1
      <4>2. /\ SubSeq(d, 0 + 1, n) \in Seq(Byte) /\ SubSeq(d, n + 1, sent) \in Seq(Byte)
            /\ SubSeq(d, 0 + 1, n) \o SubSeq(d, n + 1, sent) = SubSeq(d, 0 + 1, sent)
        <5>. DEFINE k == sent
                    l == Len(d)
        <5>1. /\ 0 \in 0 .. l /\ n \in 0 .. l /\ n \in n .. l /\ k \in n .. l
              /\ l \in k .. l /\ k \in k .. l
          BY <1>2, <2>3, <4>1
        <5>. HIDE DEF d, n, k, l
        <5>2. /\ SubSeq(d, 0 + 1, n) \in Seq(Byte)
              /\ SubSeq(d, 0 + 1, n) \o SubSeq(d, n + 1, k) = SubSeq(d, 0 + 1, k)
          BY <2>3, <5>1, Between DEF l
        <5>3. SubSeq(d, n + 1, k) \in Seq(Byte)
          BY <2>3, <5>1, Between DEF l
        <5>. QED
          BY <5>2, <5>3 DEF k
      <4>3. SubSeq(d, 0 + 1, n) = y
        BY <1>2, <1>4, <2>3, <4>1 DEF ItemOf, Part
      <4>4. wire = Header \o SubSeq(d, 0 + 1, sent)
        BY <1>1, <3>1
      <4>. HIDE DEF d, n, y
      <4>5. (Header \o y) \o SubSeq(d, n + 1, sent) = Header \o (y \o SubSeq(d, n + 1, sent))
        BY <4>2, <4>3, HeaderIs, Assoc
      <4>. QED
        BY <4>2, <4>3, <4>4, <4>5
    <3>2. CASE job.position # 0
      <4>1. n = 0 /\ sent = job.position
        BY <1>1, <1>2, <1>4, <2>1, <2>2, <3>2
      <4>2. y = <<>>
        BY <4>1 DEF Part
      <4>3. SubSeq(d, job.position + 1, sent) = <<>>
        BY <1>2, <4>1, SubSeqEmpty
      <4>4. Header \o <<>> = Header /\ Header \in Seq(Byte) /\ <<>> \in Seq(Byte)
        BY HeaderIs, ConcatEmptySeq, EmptySeq
      <4>. HIDE DEF d, n, y
      <4>. QED
        BY <1>1, <4>2, <4>3, <4>4 DEF d
    <3>. QED
      BY <3>1, <3>2
  <2>5. Header \o y \in Seq(Byte) /\ wire \in Seq(Byte)
    <3>1. y \in Seq(Byte)
      BY <1>4 DEF Part, Byte
    <3>. QED
      BY <3>1, HeaderIs, ConcatProperties DEF ResponseInv, Typed
  <2>. HIDE DEF y
  <2>. QED
    BY <2>4, <2>5, Begins DEF y
<1>5. Typed'
  <2>1. TypeOK'
    BY <1>0, <1>3 DEF TypeOK, Placed, appVars, flagVars, closeVars, historyVars
  <2>. QED
    BY <1>0, <2>1 DEF ResponseInv, Typed, Placed
<1>6. Begun'
  BY <1>0, StillBegun DEF ResponseInv, Placed
<1>7. Settled' /\ InPlace' /\ Counted'
  BY <1>0, <1>1 DEF LengthOf, ResponseInv, Settled, InPlace, Counted, Pending, InFile, Iterated, Placed
<1>8. Ended'
  BY <1>0, <1>4, <1>9 DEF Ended, Enough, Placed
<1>. QED
  BY <1>5, <1>6, <1>7, <1>8 DEF ResponseInv

(* The greenlet waits for the socket, and is woken.                         *)
LEMMA WaitSteps ==
  ASSUME ResponseInv, SendFileAgain("hub") \/ Woken
  PROVE  ResponseInv'
<1>0. /\ UNCHANGED Placed /\ UNCHANGED <<appVars, flagVars, closeVars, historyVars>>
      /\ \/ pc = "file" /\ pc' = "hub" /\ ctx' = ctx
         \/ pc = "hub" /\ bucket # <<>> /\ pc' = "write" /\ ctx' = "late"
         \/ pc = "hub" /\ bucket = <<>> /\ pc' = "file" /\ ctx' = ctx
  BY DEF SendFileAgain, Woken, Placed, bucketVars, sizeVars, flagVars, historyVars
<1>1. TypeOK
  BY DEF ResponseInv, Typed
<1>2. TypeOK'
  BY <1>0, <1>1 DEF TypeOK, Placed, appVars, flagVars, closeVars, historyVars
<1>3. Typed'
  BY <1>0, <1>2 DEF ResponseInv, Typed, Placed
<1>4. Begun'
  BY <1>0, StillBegun DEF ResponseInv, Placed
<1>5. Done' = Done /\ Iterated' = Iterated
  BY <1>0 DEF Done, Placed, Iterated
<1>6. pc = "file" => bucket = <<>>
  BY DEF ResponseInv, Settled, InFile
<1>7. InFile' = InFile /\ Pending' = Pending /\ (Pending => pc # "write")
  BY <1>0, <1>6 DEF InFile, Pending, Placed
<1>8. Settled'
  BY <1>0, <1>5, <1>6, <1>7 DEF LengthOf, ResponseInv, Settled, Placed
<1>9. InPlace'
  BY <1>0, <1>5, <1>6, <1>7 DEF ResponseInv, InPlace, Placed, SizeOf
<1>10. Counted'
  <2>1. ctx \in {"head", "item", "late", "last"}
    BY <1>1 DEF TypeOK
  <2>2. Pending' => ctx' = "late" /\ pc = "hub" /\ ctx # "last"
    BY <1>0, <1>6 DEF ResponseInv, Settled, Pending, Placed
  <2>3. Size(item - 1)' = Size(item - 1)
    BY <1>0 DEF Size, Placed
  <2>4. UNCHANGED <<content_length, headWaited, write_bytes, total_size, item, sent, job>>
    BY <1>0 DEF Placed
  <2>5. pc' # "body"
    BY <1>0
  <2>6. content_length # NoLength /\ ~headWaited =>
          /\ Pending /\ ctx = "head" => pc = "write" /\ write_bytes = 0 /\ item \in {0, 1}
          /\ Pending /\ ctx \in {"item", "late"} =>
               /\ Iterated /\ item > 0
               /\ total_size = job.items[item] /\ write_bytes = Size(item - 1)
          /\ InFile => sent = job.position + write_bytes
    BY DEF ResponseInv, Counted
  <2>. QED
    BY <1>5, <1>7, <2>1, <2>2, <2>3, <2>4, <2>5, <2>6 DEF Counted
<1>11. Ended'
  BY <1>0 DEF Ended
<1>. QED
  BY <1>3, <1>4, <1>8, <1>9, <1>10, <1>11 DEF ResponseInv

(* The bucket of an item, chunked or not.                                   *)
LEMMA FramedIs ==
  ASSUME NEW i \in 1 .. Len(job.items), JobIs(job), chunked' \in BOOLEAN
  PROVE  /\ Framed(i) \in Seq(Seq(Byte))
         /\ FlattenSeq(Framed(i)) = PieceOf(job.items, chunked', i)
         /\ SizeOf(Framed(i)) \in Nat
         /\ ~chunked' => SizeOf(Framed(i)) = job.items[i]
<1>. DEFINE d == ItemOf(job.items, i)
<1>1. job.items \in Seq(Nat)
  BY DEF JobIs
<1>2. Data(i) = d
  BY DEF Data, ItemOf
<1>3. Chunk(i) = ChunkOf(job.items, i)
  BY <1>2 DEF Chunk, ChunkOf, Frame, FrameOf
<1>4. d \in Seq(Byte) /\ Len(d) = job.items[i]
  BY <1>1, ItemIs
<1>5. ChunkOf(job.items, i) \in Seq(Seq(Byte))
  BY <1>1, ChunkIs
<1>. HIDE DEF d
<1>6. <<d>> \in Seq(Seq(Byte)) /\ FlattenSeq(<<d>>) = d
  BY <1>4, FlattenOne
<1>7. CASE chunked'
  <2>1. Framed(i) = ChunkOf(job.items, i)
    BY <1>3, <1>7 DEF Framed
  <2>2. Len(FlattenSeq(ChunkOf(job.items, i))) \in Nat
    BY <1>5, FlattenAll
  <2>. QED
    BY <1>5, <1>7, <2>1, <2>2 DEF PieceOf, SizeOf
<1>8. CASE ~chunked'
  <2>1. Framed(i) = <<d>>
    BY <1>2, <1>8 DEF Framed
  <2>2. Len(d) \in Nat
    BY <1>4, LenProperties
  <2>. QED
    BY <1>4, <1>6, <1>8, <2>1, <2>2 DEF PieceOf, SizeOf, d
<1>. QED
  BY <1>7, <1>8

(* process_write sends the next item.                                       *)
LEMMA NextItemStep ==
  ASSUME ResponseInv, NextItem
  PROVE  ResponseInv'
<1>0. /\ pc = "body" /\ item < Len(job.items) /\ item' = item + 1
      /\ chunked' = chunked /\ pc' = "write" /\ ctx' = "item"
      /\ bucket' = Framed(item + 1) /\ total' = SizeOf(Framed(item + 1))
      /\ total_size' = SizeOf(Framed(item + 1))
      /\ UNCHANGED <<job, appVars, sent, write_bytes, content_length, header_done, closeVars,
                     wire, historyVars>>
  BY DEF NextItem, Send
<1>1. TypeOK /\ wire \in Seq(Byte)
  BY DEF ResponseInv, Typed
<1>2. /\ JobIs(job) /\ job.items \in Seq(Nat) /\ chunked \in BOOLEAN /\ Len(job.items) \in Nat
      /\ item \in 0 .. Len(job.items) /\ Done \in Seq(Byte)
  BY Known
<1>3. Iterated /\ wire = Done /\ sent = job.position
  BY <1>0 DEF ResponseInv, Settled, InPlace
<1>. DEFINE k == item + 1
<1>4. k \in 1 .. Len(job.items) /\ k - 1 = item /\ k > 0
  BY <1>0, <1>2
<1>5. item' = k
  BY <1>0
<1>. DEFINE b == Framed(k)
<1>6. bucket' = b /\ total' = SizeOf(b) /\ total_size' = SizeOf(b)
  BY <1>0
<1>. HIDE DEF k
<1>7. /\ b \in Seq(Seq(Byte)) /\ FlattenSeq(b) = PieceOf(job.items, chunked, k)
      /\ SizeOf(b) \in Nat /\ (~chunked => SizeOf(b) = job.items[k])
  BY <1>0, <1>2, <1>4, FramedIs
<1>8. Upto(job.items, chunked, k) = Done \o PieceOf(job.items, chunked, k)
  BY <1>2, <1>4, UptoNext DEF Done
<1>. HIDE DEF b
<1>9. wire' \o FlattenSeq(bucket') = Done' /\ Iterated'
  BY <1>0, <1>3, <1>5, <1>6, <1>7, <1>8 DEF Done, Iterated
<1>10. TypeOK'
  BY <1>0, <1>1, <1>4, <1>5, <1>6, <1>7 DEF TypeOK, appVars, closeVars, historyVars
<1>11. Typed'
  BY <1>0, <1>1, <1>6, <1>7, <1>10 DEF Typed
<1>12. Begun'
  BY <1>0, StillBegun DEF ResponseInv
<1>13. Settled'
  BY <1>0, <1>3, <1>4, <1>5, <1>9 DEF LengthOf, ResponseInv, Settled, Pending, InFile, Iterated, historyVars
<1>14. InPlace'
  <2>1. total' >= SizeOf(bucket')
    BY <1>6, <1>7
  <2>2. SizeOf(bucket)' = SizeOf(bucket')
    BY DEF SizeOf
  <2>. QED
    BY <1>0, <1>9, <2>1, <2>2 DEF InPlace, Pending, InFile
<1>15. Counted'
  <2>1. content_length # NoLength => ~chunked
    BY DEF ResponseInv, Settled
  <2>2. content_length # NoLength /\ ~headWaited => write_bytes = Size(item)
    BY <1>0 DEF ResponseInv, Counted
  <2>3. Size(item - 1)' = Len(Flat(PiecesOf(job.items, chunked), k - 1))
    BY <1>0, <1>5 DEF Size
  <2>4. UNCHANGED <<content_length, headWaited, write_bytes>>
    BY <1>0 DEF historyVars
  <2>5. content_length # NoLength /\ ~headWaited =>
          total_size' = job'.items[item'] /\ write_bytes' = Size(item - 1)'
    BY <1>0, <1>4, <1>5, <1>6, <1>7, <2>1, <2>2, <2>3, <2>4 DEF Size
  <2>. QED
    BY <1>0, <1>4, <1>5, <1>9, <2>4, <2>5 DEF Counted, InFile
<1>16. Ended'
  BY <1>0 DEF Ended
<1>. QED
  BY <1>11, <1>12, <1>13, <1>14, <1>15, <1>16 DEF ResponseInv

(* There are no more items: the last chunk, or the end.                     *)
LEMMA NoMoreItemsStep ==
  ASSUME ResponseInv, NoMoreItems
  PROVE  ResponseInv'
<1>0. /\ pc \in {"body", "last"} /\ (pc = "body" => item = Len(job.items))
      /\ UNCHANGED <<job, appVars, sizeVars, flagVars, closeVars, wire, historyVars>>
      /\ UNCHANGED <<item, sent, write_bytes, content_length, chunked, headWaited, lastLost>>
  BY DEF NoMoreItems, sizeVars, flagVars, historyVars
<1>1. TypeOK /\ wire \in Seq(Byte) /\ bucket \in Seq(Seq(Byte))
  BY DEF ResponseInv, Typed
<1>2. /\ JobIs(job) /\ job.items \in Seq(Nat) /\ chunked \in BOOLEAN
      /\ Done \in Seq(Byte) /\ (chunked => job.kind = "iter" /\ job.status # 304)
  BY Known
<1>3. Iterated /\ wire = Done /\ sent = job.position
  BY <1>0 DEF ResponseInv, Settled, InPlace
<1>4. Begun'
  BY <1>0, StillBegun DEF ResponseInv
<1>5. /\ chunked => pc = "body" /\ content_length = NoLength
      /\ pc = "last" => content_length # NoLength /\ (headWaited \/ wire = Whole(job, chunked))
  BY <1>0 DEF ResponseInv, Settled, Ended
<1>6. pc = "body" => Whole(job, chunked) = IF chunked THEN Done \o LastChunk ELSE Done
  <2>1. /\ chunked => Whole(job, chunked) = Upto(job.items, chunked, Len(job.items)) \o LastChunk
        /\ ~chunked => Whole(job, chunked) = Upto(job.items, chunked, Len(job.items))
    BY <1>2, <1>3, WholeIs DEF Iterated
  <2>. QED
    BY <1>0, <2>1 DEF Done
<1>7. CASE chunked
  <2>. DEFINE b == <<LastChunk>>
  <2>1. /\ pc' = "write" /\ ctx' = "last"
        /\ bucket' = b /\ total' = SizeOf(b) /\ total_size' = SizeOf(b)
    BY <1>7 DEF NoMoreItems, Send
  <2>2. b \in Seq(Seq(Byte)) /\ FlattenSeq(b) = LastChunk
    BY LastChunkIs, FlattenOne
  <2>3. SizeOf(b) \in Nat
    BY <2>2, FlattenAll DEF SizeOf
  <2>. HIDE DEF b
  <2>4. wire' \o FlattenSeq(bucket') = Whole(job', chunked')
    BY <1>0, <1>3, <1>5, <1>6, <1>7, <2>1, <2>2
  <2>5. TypeOK'
    BY <1>0, <1>1, <2>1, <2>3 DEF TypeOK, appVars, sizeVars, flagVars, closeVars, historyVars
  <2>6. Typed'
    BY <1>0, <1>1, <2>1, <2>2, <2>5 DEF Typed
  <2>7. Settled'
    BY <1>0, <1>3, <1>5, <1>7, <2>1 DEF LengthOf, ResponseInv, Settled, Pending, InFile, Iterated
  <2>8. InPlace'
    <3>1. total' >= SizeOf(bucket')
      BY <2>1, <2>3
    <3>2. SizeOf(bucket)' = SizeOf(bucket')
      BY DEF SizeOf
    <3>. QED
      BY <1>0, <1>3, <2>1, <2>4, <3>1, <3>2 DEF InPlace, Pending, InFile
  <2>9. Counted' /\ Ended'
    BY <1>0, <1>5, <1>7, <2>1 DEF Counted, Ended
  <2>. QED
    BY <1>4, <2>6, <2>7, <2>8, <2>9 DEF ResponseInv
<1>8. CASE ~chunked
  <2>1. pc' = "close" /\ UNCHANGED <<ctx, bucket, total, total_size>>
    BY <1>8 DEF NoMoreItems, bucketVars
  <2>2. wire = Whole(job, chunked) \/ (headWaited /\ content_length # NoLength)
    BY <1>0, <1>3, <1>5, <1>6, <1>8
  <2>3. TypeOK'
    BY <1>0, <1>1, <2>1 DEF TypeOK, appVars, sizeVars, flagVars, closeVars, historyVars
  <2>4. Typed'
    BY <1>0, <1>1, <2>1, <2>3 DEF Typed
  <2>5. Settled' /\ InPlace' /\ Counted'
    BY <1>0, <1>3, <1>8, <2>1 DEF LengthOf, ResponseInv, Settled, InPlace, Counted, Pending, InFile, Iterated
  <2>6. Ended'
    BY <1>0, <1>3, <2>1, <2>2 DEF Ended, Enough, Iterated
  <2>. QED
    BY <1>4, <2>4, <2>5, <2>6 DEF ResponseInv
<1>. QED
  BY <1>2, <1>7, <1>8

(* write_headers sends the headers, with the first item.                    *)
LEMMA StartStep ==
  ASSUME ResponseInv, Start
  PROVE  ResponseInv'
<1>0. /\ pc = "start"
      /\ UNCHANGED <<job, appVars, header_done, closeVars, wire, historyVars>>
      /\ UNCHANGED <<sent, write_bytes, headWaited, lastLost>>
  BY DEF Start, sizeVars, historyVars
<1>1. TypeOK /\ wire \in Seq(Byte)
  BY DEF ResponseInv, Typed
<1>2. /\ JobIs(job) /\ job.items \in Seq(Nat) /\ Len(job.items) \in Nat
      /\ wire = <<>> /\ write_bytes = 0 /\ sent = job.position /\ ~headWaited /\ ~lastLost
  BY <1>0, Known DEF ResponseInv, Settled
<1>3. CASE ~headers
  <2>1. UNCHANGED Placed /\ pc' = "error" /\ UNCHANGED <<ctx, flagVars>>
    BY <1>0, <1>3 DEF Start, Placed, bucketVars, sizeVars, flagVars
  <2>2. TypeOK'
    BY <1>0, <1>1, <2>1 DEF TypeOK, Placed, appVars, flagVars, closeVars, historyVars
  <2>. QED
    BY <2>1, <2>2, Quiet
<1>4. CASE headers
  <2>. DEFINE first == job.kind = "iter" /\ job.status # 304 /\ job.items # <<>>
              k == IF first THEN 1 ELSE 0
              f == IF first THEN Framed(1) ELSE <<>>
              b == <<Header>> \o f
  <2>1. /\ item' = k
        /\ content_length' = LengthOf
        /\ chunked' = (first /\ ~IsNoBody /\ job.minor = 1 /\ job.length = NoLength)
        /\ pc' = "write" /\ ctx' = "head"
        /\ bucket' = b /\ total' = SizeOf(b) /\ total_size' = SizeOf(b)
    BY <1>4 DEF Start, Send, LengthOf
  <2>2. chunked' \in BOOLEAN
    BY <2>1
  <2>3. chunked' => first /\ job.length = NoLength
    BY <2>1
  <2>4. first \in BOOLEAN /\ (first => 1 \in 1 .. Len(job.items))
    BY <1>2
  <2>5. first => /\ f \in Seq(Seq(Byte))
                 /\ FlattenSeq(f) = PieceOf(job.items, chunked', 1)
    BY <1>2, <2>2, <2>4, FramedIs
  <2>6. ~first => f \in Seq(Seq(Byte)) /\ FlattenSeq(f) = <<>>
    BY FlattenEmpty
  <2>7. /\ first => Upto(job.items, chunked', 1) = Header \o PieceOf(job.items, chunked', 1)
        /\ Upto(job.items, chunked', 0) = Header
    <3>1. Upto(job.items, chunked', 0) = Header
      <4>1. 0 \in 0 .. Len(job.items)
        BY <1>2
      <4>. QED
        BY <1>2, <2>2, <4>1, UptoIs
    <3>2. first => Upto(job.items, chunked', 1) =
                     Upto(job.items, chunked', 1 - 1) \o PieceOf(job.items, chunked', 1)
      BY <1>2, <2>2, <2>4, UptoNext
    <3>3. 1 - 1 = 0
      OBVIOUS
    <3>. QED
      BY <3>1, <3>2, <3>3
  <2>8. f \in Seq(Seq(Byte))
    BY <2>4, <2>5, <2>6
  <2>9. FlattenSeq(b) = Header \o FlattenSeq(f) /\ b \in Seq(Seq(Byte))
    <3>. HIDE DEF f
    <3>. QED
      BY <2>8, HeaderIs, FlattenFirst
  <2>10. FlattenSeq(b) = Upto(job.items, chunked', k)
    <3>1. Header \o <<>> = Header
      BY HeaderIs, ConcatEmptySeq
    <3>2. CASE first
      <4>1. FlattenSeq(b) = Header \o PieceOf(job.items, chunked', 1)
        <5>. HIDE DEF f, b
        <5>. QED
          BY <2>5, <2>9, <3>2
      <4>. HIDE DEF b
      <4>. QED
        BY <2>7, <3>2, <4>1
    <3>3. CASE ~first
      <4>1. FlattenSeq(b) = Header
        <5>. HIDE DEF f, b
        <5>. QED
          BY <2>6, <2>9, <3>1, <3>3
      <4>. HIDE DEF b
      <4>. QED
        BY <2>7, <3>3, <4>1
    <3>. QED
      BY <3>2, <3>3
  <2>11. SizeOf(b) \in Nat
    BY <2>9, FlattenAll DEF SizeOf
  <2>12. first => job.kind = "iter" /\ job.status # 304
    OBVIOUS
  <2>13. k \in 0 .. Len(job.items) /\ k \in {0, 1} /\ (~first => k = 0)
    BY <1>2, <2>4
  <2>14. ~Iterated => ~first
    BY DEF Iterated
  <2>. HIDE DEF b, f, first, k
  <2>15. wire' \o FlattenSeq(bucket') = Done'
    <3>1. Header \in Seq(Byte) /\ FlattenSeq(b) \in Seq(Byte)
      BY <2>9, HeaderIs, FlattenAll
    <3>2. <<>> \o FlattenSeq(b) = FlattenSeq(b)
      BY <3>1, ConcatEmptySeq
    <3>. QED
      BY <1>0, <1>2, <2>1, <2>10, <3>2 DEF Done
  <2>16. content_length' \in Nat \cup {NoLength}
    <3>1. JobIs(job)
      BY <1>2
    <3>2. job.kind = "file" => job.items[1] \in Nat /\ job.length \in Nat \cup {NoLength}
      BY <3>1 DEF JobIs
    <3>3. job.kind # "file" => job.length \in Nat \cup {NoLength}
      <4>1. Len(FlattenSeq(PiecesOf(job.items, FALSE))) \in Nat
        BY <1>2, FlattenPieces, LenProperties
      <4>. QED
        BY <3>1, <4>1 DEF JobIs
    <3>. QED
      BY <2>1, <3>2, <3>3 DEF LengthOf
  <2>17. TypeOK'
    BY <1>0, <1>1, <2>1, <2>2, <2>11, <2>13, <2>16 DEF TypeOK, appVars, closeVars, historyVars
  <2>18. Typed'
    BY <1>0, <1>1, <2>1, <2>9, <2>17 DEF Typed
  <2>19. Begun'
    <3>1. Whole(job', chunked') \in Seq(Byte)
      BY <1>0, <1>2, <2>2, <2>3, <2>12, WholeIs
    <3>2. <<>> \o Whole(job', chunked') = Whole(job', chunked')
      BY <3>1, ConcatEmptySeq
    <3>. QED
      BY <1>0, <1>2, <3>1, <3>2 DEF Begun
  <2>20. Settled'
    <3>1. chunked' => Iterated' /\ content_length' = NoLength
      BY <1>0, <2>1, <2>3, <2>12 DEF Iterated, LengthOf
    <3>2. ~Iterated' => item' = 0
      BY <1>0, <2>1, <2>13, <2>14 DEF Iterated
    <3>. QED
      BY <1>0, <1>2, <2>1, <3>1, <3>2 DEF Settled, Pending, InFile, LengthOf
  <2>21. InPlace'
    <3>1. total' >= SizeOf(bucket')
      BY <2>1, <2>11
    <3>2. SizeOf(bucket)' = SizeOf(bucket')
      BY DEF SizeOf
    <3>. QED
      BY <1>0, <1>2, <2>1, <2>15, <3>1, <3>2 DEF InPlace, Pending, InFile
  <2>22. Counted' /\ Ended'
    BY <1>0, <1>2, <2>1, <2>13 DEF Counted, Ended, InFile
  <2>. QED
    BY <2>18, <2>19, <2>20, <2>21, <2>22 DEF ResponseInv
<1>. QED
  BY <1>3, <1>4

(* A bucket that is sent: back in the caller of writev_bucket.              *)
LEMMA WrittenStep ==
  ASSUME ResponseInv, Writing, Written, wire' \in Seq(Byte),
         wire' = IF ctx = "last" THEN Whole(job, chunked) ELSE Done
  PROVE  ResponseInv'
<1>0. /\ pc = "write" /\ Pending
      /\ bucket' = <<>> /\ total' = 0 /\ total_size' = 0
      /\ UNCHANGED <<job, appVars, page, ctx, item, sent, chunked, closeVars, headWaited, lastLost>>
  BY DEF Writing, Written, Pending
<1>1. TypeOK /\ wire \in Seq(Byte)
  BY DEF ResponseInv, Typed
<1>2. /\ JobIs(job) /\ job.items \in Seq(Nat) /\ Len(job.items) \in Nat /\ chunked \in BOOLEAN
      /\ item \in 0 .. Len(job.items) /\ (chunked => job.kind = "iter" /\ job.status # 304)
      /\ (job.kind = "file" \/ job.status = 304 => item = 0)
      /\ Done \in Seq(Byte) /\ Whole(job, chunked) \in Seq(Byte)
  BY Known
<1>3. /\ sent = job.position
      /\ content_length = LengthOf
      /\ (chunked => Iterated /\ content_length = NoLength) /\ (~Iterated => item = 0)
      /\ (ctx = "item" => Iterated /\ item > 0)
      /\ (ctx = "last" => chunked)
  BY <1>0 DEF ResponseInv, Settled
<1>4. /\ content_length' = content_length
      /\ header_done' \in BOOLEAN
      /\ \/ ctx = "head" /\ pc' = After
            /\ write_bytes' = write_bytes + (IF item > 0 THEN job.items[1] ELSE 0)
         \/ ctx = "item" /\ write_bytes' = write_bytes + job.items[item]
            /\ pc' = IF content_length # NoLength /\ content_length <= write_bytes'
                     THEN "last" ELSE "body"
         \/ ctx = "late" /\ pc' = After /\ write_bytes' = write_bytes + total_size
         \/ ctx = "last" /\ pc' = "close" /\ write_bytes' = write_bytes
  BY <1>1 DEF Written, SentHead, SentItem, SentLate, SentLast, TypeOK
<1>5. write_bytes' \in Nat /\ write_bytes \in Nat /\ total_size \in Nat
  <2>1. write_bytes \in Nat /\ total_size \in Nat
    BY <1>1 DEF TypeOK
  <2>2. item > 0 => job.items[1] \in Nat /\ job.items[item] \in Nat
    <3>1. item > 0 => 1 \in 1 .. Len(job.items) /\ item \in 1 .. Len(job.items)
      BY <1>2
    <3>. QED
      BY <1>2, <3>1, ElementOfSeq
  <2>. QED
    BY <1>3, <1>4, <2>1, <2>2
<1>6. /\ pc' \in {"file", "ok", "body", "last", "close"}
      /\ (pc' = "file" => job.kind = "file")
      /\ (pc' = "ok" => job.status = 304)
      /\ (pc' \in {"body", "last"} => Iterated)
      /\ (pc' = "last" => /\ ctx = "item" /\ content_length # NoLength
                          /\ content_length <= write_bytes')
      /\ (pc' = "close" => ctx = "last")
      /\ (pc' \in {"file", "ok", "body", "last"} => ctx # "last")
  <2>1. After \in {"file", "ok", "body"} /\ (After = "file" => job.kind = "file")
        /\ (After = "ok" => job.status = 304) /\ (After = "body" => Iterated)
    BY <1>2 DEF After, Iterated, JobIs
  <2>. QED
    BY <1>3, <1>4, <2>1
<1>7. TypeOK'
  BY <1>0, <1>1, <1>4, <1>5, <1>6 DEF TypeOK, appVars, closeVars
<1>8. Typed'
  BY <1>0, <1>7 DEF Typed
<1>9. /\ Done' = Done /\ Iterated' = Iterated /\ LengthOf' = LengthOf
      /\ Whole(job, chunked)' = Whole(job, chunked)
  BY <1>0 DEF Done, Iterated, LengthOf
<1>10. Begun'
  <2>1. CASE ctx = "last"
    <3>1. wire' \o <<>> = wire' /\ <<>> \in Seq(Byte)
      BY ConcatEmptySeq, EmptySeq
    <3>2. Whole(job, chunked) = wire'
      BY <2>1
    <3>. QED
      BY <1>0, <3>1, <3>2 DEF Begun
  <2>2. CASE ctx # "last"
    <3>1. \E r \in Seq(Byte) : Whole(job, chunked) = Done \o r
      BY <1>2, UptoBegins DEF Done
    <3>. QED
      BY <1>0, <2>2, <3>1 DEF Begun
  <2>. QED
    BY <2>1, <2>2
<1>11. Settled'
  BY <1>0, <1>3, <1>4, <1>6, <1>9 DEF Settled, Pending, InFile
<1>12. InPlace'
  <2>1. pc' = "file" => /\ sent' \in job.position .. job.items[1]
                        /\ wire' = Header \o SubSeq(ItemOf(job.items, 1), job.position + 1, sent')
    <3>. SUFFICES ASSUME pc' = "file"
                  PROVE  /\ sent' \in job.position .. job.items[1]
                         /\ wire' = Header \o SubSeq(ItemOf(job.items, 1), job.position + 1, sent')
      OBVIOUS
    <3>1. job.kind = "file" /\ ctx # "last"
      BY <1>6
    <3>2. job.items[1] \in Nat /\ job.position \in {0, job.items[1]} /\ Done = Header
      BY <3>1, FileIs
    <3>3. sent' = job.position
      BY <1>0, <1>3
    <3>4. SubSeq(ItemOf(job.items, 1), job.position + 1, sent') = <<>>
      BY <3>2, <3>3, SubSeqEmpty
    <3>5. Header \o <<>> = Header
      BY HeaderIs, ConcatEmptySeq
    <3>. QED
      BY <3>1, <3>2, <3>3, <3>4, <3>5
  <2>2. pc' \in {"body", "last"} => wire' = Done'
    BY <1>6, <1>9
  <2>. QED
    BY <1>0, <1>6, <2>1, <2>2 DEF InPlace, Pending, InFile
<1>13. content_length # NoLength /\ ~headWaited =>
         /\ pc' \in {"body", "last"} => write_bytes' = Size(item)
         /\ pc' = "file" => write_bytes' = 0
  <2>. SUFFICES ASSUME content_length # NoLength, ~headWaited
                PROVE  /\ pc' \in {"body", "last"} => write_bytes' = Size(item)
                       /\ pc' = "file" => write_bytes' = 0
    OBVIOUS
  <2>1. /\ ~chunked
        /\ ctx = "head" => write_bytes = 0 /\ item \in {0, 1}
        /\ ctx \in {"item", "late"} =>
             Iterated /\ item > 0 /\ total_size = job.items[item] /\ write_bytes = Size(item - 1)
    BY <1>0, <1>3 DEF ResponseInv, Counted
  <2>2. item > 0 => /\ Size(item) = Size(item - 1) + job.items[item]
    <3>1. item > 0 => item \in 1 .. Len(job.items)
      BY <1>2
    <3>. QED
      BY <1>2, <2>1, <3>1, UptoNext DEF Size
  <2>3. Size(0) = 0
    BY FlatNone DEF Size
  <2>4. item = 1 => Size(item) = job.items[1] /\ job.items[1] \in Nat
    <3>1. item = 1 => item \in 1 .. Len(job.items)
      BY <1>2
    <3>2. item = 1 => job.items[1] \in Nat
      BY <1>2, <3>1, ElementOfSeq
    <3>3. item = 1 => item - 1 = 0
      OBVIOUS
    <3>4. item = 1 => Size(item) = 0 + job.items[1]
      BY <2>2, <2>3, <3>3
    <3>. QED
      BY <3>2, <3>4
  <2>5. CASE ctx = "head"
    <3>1. item = 0 => write_bytes' = 0 /\ Size(item) = 0
      BY <1>4, <2>1, <2>3, <2>5
    <3>2. item = 1 => write_bytes' = job.items[1]
      BY <1>4, <2>1, <2>4, <2>5
    <3>3. pc' = "file" => item = 0
      BY <1>2, <1>6
    <3>. QED
      BY <2>1, <2>4, <2>5, <3>1, <3>2, <3>3
  <2>6. CASE ctx \in {"item", "late"}
    <3>1. write_bytes' = Size(item - 1) + job.items[item]
      BY <1>4, <2>1, <2>6
    <3>2. pc' # "file"
      BY <1>2, <1>6, <2>1, <2>6 DEF Iterated
    <3>. QED
      BY <2>1, <2>2, <2>6, <3>1, <3>2
  <2>7. CASE ctx = "last"
    BY <1>6, <2>7
  <2>. QED
    BY <1>4, <2>5, <2>6, <2>7
<1>14. Counted'
  <2>1. Size(item)' = Size(item)
    BY <1>0 DEF Size
  <2>2. job.position \in Nat
    BY <1>2 DEF JobIs
  <2>. QED
    BY <1>0, <1>3, <1>4, <1>6, <1>13, <2>1, <2>2 DEF Counted, Pending, InFile
<1>15. pc' = "last" /\ ~headWaited => Done = Whole(job, chunked)
  <2>. SUFFICES ASSUME pc' = "last", ~headWaited PROVE Done = Whole(job, chunked)
    OBVIOUS
  <2>. DEFINE n == Len(job.items)
  <2>1. /\ Iterated /\ content_length # NoLength /\ content_length <= write_bytes'
        /\ write_bytes' = Size(item)
    BY <1>6, <1>13
  <2>2. ~chunked /\ content_length = job.length /\ job.kind = "iter" /\ job.status # 304
    BY <1>3, <2>1 DEF Iterated, LengthOf
  <2>3. content_length = Len(FlattenSeq(PiecesOf(job.items, FALSE)))
    BY <1>2, <2>1, <2>2 DEF JobIs
  <2>4. PiecesOf(job.items, chunked) = PiecesOf(job.items, FALSE)
    BY <1>2, <2>2
  <2>5. content_length = Size(n)
    BY <1>2, <2>3, <2>4, FlattenPieces DEF Size
  <2>6. n \in item .. Len(job.items)
    BY <1>2
  <2>7. PICK r \in Seq(Byte) :
          /\ Upto(job.items, chunked, n) = Done \o r
          /\ Size(n) <= Size(item) => r = <<>>
    <3>. HIDE DEF n
    <3>. QED
      BY <1>2, <2>6, UptoLater DEF Done, Size
  <2>8. Upto(job.items, chunked, n) = Done
    <3>1. Done \o <<>> = Done
      BY <1>2, ConcatEmptySeq
    <3>. QED
      BY <2>1, <2>5, <2>7, <3>1
  <2>. QED
    BY <1>2, <2>2, <2>8, WholeIs
<1>16. job.status = 304 => Done = Whole(job, chunked)
  BY <1>2, WholeIs DEF Done
<1>17. Ended'
  <2>1. pc' \in {"close", "ok"} => job.kind # "file"
    <3>1. chunked => job.kind = "iter"
      BY <1>2
    <3>2. job.status = 304 => job.kind # "file"
      BY <1>2 DEF JobIs
    <3>. QED
      BY <1>3, <1>6, <3>1, <3>2
  <2>. QED
    BY <1>0, <1>6, <1>9, <1>15, <1>16, <2>1 DEF Ended, Enough
<1>. QED
  BY <1>8, <1>10, <1>11, <1>12, <1>14, <1>17 DEF ResponseInv

----------------------------------------------------------------------------
(* The bucket that is being written, and what has been sent.                *)
LEMMA BucketIs ==
  ASSUME ResponseInv, Writing
  PROVE  /\ bucket \in Seq(Seq(Byte)) /\ wire \in Seq(Byte)
         /\ FlattenSeq(bucket) \in Seq(Byte) /\ SizeOf(bucket) = Len(FlattenSeq(bucket))
         /\ SizeOf(bucket) \in Nat /\ total \in Nat /\ total >= SizeOf(bucket)
         /\ wire \o FlattenSeq(bucket) = IF ctx = "last" THEN Whole(job, chunked) ELSE Done
         /\ pc = "write" /\ Pending
<1>1. pc = "write" /\ Pending
  BY DEF Writing, Pending
<1>2. bucket \in Seq(Seq(Byte)) /\ wire \in Seq(Byte) /\ TypeOK
  BY DEF ResponseInv, Typed
<1>3. FlattenSeq(bucket) \in Seq(Byte) /\ Len(FlattenSeq(bucket)) \in Nat
  BY <1>2, FlattenAll
<1>4. total \in Nat
  BY <1>2 DEF TypeOK
<1>. QED
  BY <1>1, <1>2, <1>3, <1>4 DEF ResponseInv, InPlace, SizeOf

(* What is left of the iov when the socket took w bytes: PartOf finds a     *)
(* part, and Advanced cuts there.                                           *)
LEMMA AdvancedIs ==
  ASSUME bucket \in Seq(Seq(Byte)), NEW w \in 1 .. SizeOf(bucket)
  PROVE  /\ RestOf(w) \in 1 .. w
         /\ Advanced(w) \in Seq(Seq(Byte))
         /\ FlattenSeq(bucket) = SubSeq(FlattenSeq(bucket), 1, w) \o FlattenSeq(Advanced(w))
         /\ SizeOf(Advanced(w)) = SizeOf(bucket) - w
<1>0. w \in 1 .. Len(FlattenSeq(bucket))
  BY DEF SizeOf
<1>1. DOMAIN bucket = 1 .. Len(bucket)
  OBVIOUS
<1>2. \A i \in 1 .. Len(bucket) :
        Ends(bucket, w, i) <=> /\ SizeOf(SubSeq(bucket, 1, i)) >= w
                               /\ SizeOf(SubSeq(bucket, 1, i - 1)) < w
  BY DEF Ends, SizeOf, Flat, First
<1>3. \E i \in 1 .. Len(bucket) : Ends(bucket, w, i)
  BY <1>0, EndExists
<1>4. PartOf(w) \in 1 .. Len(bucket) /\ Ends(bucket, w, PartOf(w))
  <2>. DEFINE P(i) == /\ SizeOf(SubSeq(bucket, 1, i)) >= w
                      /\ SizeOf(SubSeq(bucket, 1, i - 1)) < w
  <2>1. \E i \in DOMAIN bucket : P(i)
    BY <1>1, <1>2, <1>3
  <2>2. PartOf(w) = CHOOSE i \in DOMAIN bucket : P(i)
    BY DEF PartOf
  <2>. HIDE DEF P
  <2>3. PartOf(w) \in DOMAIN bucket /\ P(PartOf(w))
    BY <2>1, <2>2
  <2>. QED
    BY <1>1, <1>2, <2>3 DEF P
<1>5. RestOf(w) = Rest(bucket, w, PartOf(w))
  BY DEF RestOf, Rest, SizeOf, Flat, First
<1>6. Advanced(w) = Cut(bucket, w, PartOf(w))
  BY <1>5 DEF Advanced, Cut
<1>. DEFINE p == PartOf(w)
<1>7. p \in 1 .. Len(bucket) /\ Ends(bucket, w, p)
  BY <1>4
<1>. HIDE DEF p
<1>8. /\ Rest(bucket, w, p) \in 1 .. w
      /\ Cut(bucket, w, p) \in Seq(Seq(Byte))
      /\ FlattenSeq(bucket) = SubSeq(FlattenSeq(bucket), 1, w) \o FlattenSeq(Cut(bucket, w, p))
      /\ Len(FlattenSeq(Cut(bucket, w, p))) = Len(FlattenSeq(bucket)) - w
  BY <1>0, <1>7, CutParts
<1>. QED
  BY <1>5, <1>6, <1>8 DEF p, SizeOf

(* The socket takes some of the bucket, or all of it.                       *)
LEMMA SomeWritten ==
  ASSUME ResponseInv, NEW w \in 1 .. SizeOf(bucket), Write(w)
  PROVE  ResponseInv'
<1>. DEFINE f == FlattenSeq(bucket)
            s == SubSeq(f, 1, w)
<1>0. Writing /\ wire' = wire \o s /\ UNCHANGED <<job, appVars, page>>
  BY DEF Write, Writing
<1>1. /\ bucket \in Seq(Seq(Byte)) /\ wire \in Seq(Byte)
      /\ f \in Seq(Byte) /\ SizeOf(bucket) = Len(f)
      /\ SizeOf(bucket) \in Nat /\ total \in Nat /\ total >= SizeOf(bucket)
      /\ wire \o f = IF ctx = "last" THEN Whole(job, chunked) ELSE Done
      /\ pc = "write" /\ Pending
  BY <1>0, BucketIs
<1>2. w \in Nat /\ w <= Len(f) /\ w \in 0 .. Len(f) /\ w >= 1
  BY <1>1
<1>. HIDE DEF f
<1>3. s \in Seq(Byte)
  BY <1>1, <1>2, CutIs
<1>4. wire' \in Seq(Byte)
  <2>. HIDE DEF s
  <2>. QED
    BY <1>0, <1>1, <1>3, ConcatProperties
<1>5. CASE ~(total > w)
  <2>1. Written
    BY <1>5 DEF Write
  <2>2. w = Len(f)
    BY <1>1, <1>2, <1>5
  <2>3. s = f
    BY <1>1, <2>2, SubSeqFull
  <2>4. wire' = IF ctx = "last" THEN Whole(job, chunked) ELSE Done
    BY <1>0, <1>1, <2>3
  <2>. QED
    BY <1>0, <1>4, <2>1, <2>4, WrittenStep
<1>6. CASE total > w
  <2>1. /\ bucket' = Advanced(w) /\ total' = total - RestOf(w)
        /\ UNCHANGED <<pc, ctx, total_size, sizeVars, flagVars, closeVars, headWaited, lastLost>>
    BY <1>6 DEF Write
  <2>2. UNCHANGED <<item, sent, write_bytes, content_length, chunked, header_done>>
    BY <2>1 DEF sizeVars, flagVars
  <2>. DEFINE r == RestOf(w)
              A == Advanced(w)
              g == FlattenSeq(A)
  <2>3. /\ r \in 1 .. w /\ A \in Seq(Seq(Byte))
        /\ f = s \o g /\ SizeOf(A) = SizeOf(bucket) - w
    BY <1>1, AdvancedIs DEF f
  <2>4. g \in Seq(Byte)
    <3>. HIDE DEF A
    <3>. QED
      BY <2>3, FlattenAll
  <2>. HIDE DEF A, r
  <2>5. bucket' = A /\ total' = total - r
    BY <2>1 DEF A, r
  <2>6. wire' \o FlattenSeq(bucket') = IF ctx = "last" THEN Whole(job, chunked) ELSE Done
    <3>1. FlattenSeq(bucket') = g
      BY <2>5
    <3>. HIDE DEF s, g
    <3>2. (wire \o s) \o g = wire \o (s \o g)
      BY <1>1, <1>3, <2>4, Assoc
    <3>. QED
      BY <1>0, <1>1, <2>3, <3>1, <3>2
  <2>7. total' \in Nat /\ total' >= SizeOf(A)
    BY <1>1, <1>2, <1>6, <2>3, <2>5
  <2>8. TypeOK'
    <3>1. TypeOK
      BY DEF ResponseInv, Typed
    <3>. QED
      BY <1>0, <2>1, <2>2, <2>7, <3>1 DEF TypeOK, appVars, closeVars
  <2>9. Typed'
    BY <1>4, <2>3, <2>5, <2>8 DEF Typed
  <2>10. Done' = Done /\ Iterated' = Iterated /\ Whole(job, chunked)' = Whole(job, chunked)
    BY <1>0, <2>2 DEF Done, Iterated
  <2>11. Begun'
    <3>1. FlattenSeq(bucket') \in Seq(Byte)
      BY <2>4, <2>5
    <3>2. CASE ctx = "last"
      BY <1>0, <2>2, <2>6, <3>1, <3>2 DEF Begun
    <3>3. CASE ctx # "last"
      <4>1. PICK q \in Seq(Byte) : Whole(job, chunked) = Done \o q
        BY Known, UptoBegins DEF Done
      <4>. DEFINE x == wire'
                  y == FlattenSeq(bucket')
      <4>2. Done = x \o y /\ x \in Seq(Byte) /\ y \in Seq(Byte)
        BY <1>4, <2>6, <3>1, <3>3
      <4>. HIDE DEF x, y
      <4>3. (x \o y) \o q = x \o (y \o q) /\ y \o q \in Seq(Byte)
        BY <4>2, Assoc, ConcatProperties
      <4>4. \E z \in Seq(Byte) : Whole(job, chunked) = x \o z
        BY <4>1, <4>2, <4>3
      <4>. QED
        BY <1>0, <2>2, <4>4 DEF Begun, x
    <3>. QED
      BY <3>2, <3>3
  <2>12. Settled'
    BY <1>0, <1>1, <2>1, <2>2, <2>10 DEF LengthOf, ResponseInv, Settled, Pending, InFile
  <2>13. InPlace'
    <3>1. SizeOf(bucket)' = SizeOf(bucket')
      BY DEF SizeOf
    <3>2. total' >= SizeOf(bucket')
      BY <2>5, <2>7
    <3>. QED
      BY <1>1, <2>1, <2>6, <2>10, <3>1, <3>2 DEF InPlace, Pending, InFile
  <2>14. Counted'
    <3>1. Size(item - 1)' = Size(item - 1)
      BY <1>0, <2>2 DEF Size
    <3>. QED
      BY <1>0, <1>1, <2>1, <2>2, <2>10, <3>1 DEF ResponseInv, Counted, Pending, InFile
  <2>15. Ended'
    BY <1>1, <2>1 DEF Ended
  <2>. QED
    BY <2>9, <2>11, <2>12, <2>13, <2>14, <2>15 DEF ResponseInv
<1>7. total > w \/ ~(total > w)
  OBVIOUS
<1>. QED
  BY <1>5, <1>6, <1>7

(* There was nothing to write.                                              *)
LEMMA NothingWritten ==
  ASSUME ResponseInv, WriteNothing
  PROVE  ResponseInv'
<1>0. Writing /\ Written /\ SizeOf(bucket) = 0 /\ wire' = wire
  BY DEF WriteNothing
<1>. DEFINE f == FlattenSeq(bucket)
<1>1. /\ wire \in Seq(Byte) /\ f \in Seq(Byte) /\ SizeOf(bucket) = Len(f)
      /\ wire \o f = IF ctx = "last" THEN Whole(job, chunked) ELSE Done
  BY <1>0, BucketIs
<1>. HIDE DEF f
<1>2. f = <<>>
  BY <1>0, <1>1, EmptySeq
<1>3. wire \o <<>> = wire
  BY <1>1, ConcatEmptySeq
<1>4. wire' = IF ctx = "last" THEN Whole(job, chunked) ELSE Done
  BY <1>0, <1>1, <1>2, <1>3
<1>. QED
  BY <1>0, <1>1, <1>4, WrittenStep

(* The socket takes nothing for now, or no more at all.                     *)
LEMMA NotWritten ==
  ASSUME ResponseInv, WriteAgain \/ WriteFails
  PROVE  ResponseInv'
<1>0. /\ Writing /\ SizeOf(bucket) > 0
      /\ UNCHANGED <<job, appVars, page, ctx, total, total_size, chunked, closeVars, wire>>
      /\ UNCHANGED <<item, sent, write_bytes, content_length>>
  BY DEF WriteAgain, WriteFails, Writing, sizeVars, flagVars
<1>1. pc = "write" /\ Pending
  BY <1>0, BucketIs
<1>2. TypeOK /\ wire \in Seq(Byte) /\ bucket \in Seq(Seq(Byte)) /\ <<>> \in Seq(Seq(Byte))
  BY DEF ResponseInv, Typed
<1>3. bucket # <<>>
  <2>1. SizeOf(<<>>) = 0
    BY FlattenEmpty DEF SizeOf
  <2>. QED
    BY <1>0, <2>1
<1>4. Begun'
  BY <1>0, StillBegun DEF ResponseInv
<1>5. Done' = Done /\ Iterated' = Iterated
  BY <1>0 DEF Done, Iterated
<1>6. /\ header_done' \in BOOLEAN /\ lastLost' \in BOOLEAN /\ headWaited' \in BOOLEAN
  BY <1>2 DEF WriteAgain, WriteFails, TypeOK, flagVars
<1>7. \/ /\ ctx = "last" /\ pc' = "close" /\ lastLost' = TRUE /\ bucket' = <<>>
      \/ /\ ctx # "last" /\ pc' = "hub" /\ bucket' = bucket
         /\ headWaited' = (headWaited \/ ctx = "head")
      \/ /\ pc' = "error" /\ bucket' = <<>>
  BY DEF WriteAgain, WriteFails
<1>8. TypeOK'
  BY <1>0, <1>2, <1>6, <1>7 DEF TypeOK, appVars, closeVars
<1>9. Typed'
  BY <1>0, <1>2, <1>7, <1>8 DEF Typed
<1>10. Settled'
  BY <1>0, <1>1, <1>3, <1>5, <1>7 DEF LengthOf, ResponseInv, Settled, Pending, InFile
<1>11. InPlace'
  BY <1>0, <1>1, <1>3, <1>5, <1>7 DEF ResponseInv, InPlace, Pending, InFile, SizeOf
<1>12. Counted'
  <2>1. CASE pc' = "hub"
    <3>1. bucket' = bucket /\ headWaited' = (headWaited \/ ctx = "head") /\ ctx # "last"
      BY <1>7, <2>1
    <3>2. Size(item - 1)' = Size(item - 1)
      BY <1>0 DEF Size
    <3>. QED
      BY <1>0, <1>1, <1>3, <1>5, <2>1, <3>1, <3>2 DEF ResponseInv, Counted, Pending, InFile
  <2>2. CASE pc' \in {"close", "error"}
    BY <2>2 DEF Counted, Pending, InFile
  <2>. QED
    BY <1>7, <2>1, <2>2
<1>13. Ended'
  BY <1>7 DEF Ended
<1>. QED
  BY <1>4, <1>9, <1>10, <1>11, <1>12, <1>13 DEF ResponseInv

(* Every step keeps the invariant.                                          *)
LEMMA ResponseStep ==
  ASSUME ResponseInv, [Next]_vars
  PROVE  ResponseInv'
<1>1. CASE UNCHANGED vars
  <2>1. UNCHANGED Placed /\ UNCHANGED <<pc, ctx>>
    BY <1>1 DEF vars, Placed, bucketVars, sizeVars, flagVars, historyVars
  <2>2. TypeOK'
    BY <1>1 DEF ResponseInv, Typed, TypeOK, vars, appVars, bucketVars, sizeVars, flagVars,
       closeVars, historyVars
  <2>. QED
    BY <2>1, <2>2, Quiet
<1>2. CASE Next
  BY <1>2, QuietSteps, SendFileStep, FileSentStep, WaitSteps, NextItemStep, NoMoreItemsStep,
     StartStep, SomeWritten, NothingWritten, NotWritten DEF Next, Steps, Taken
<1>. QED
  BY <1>1, <1>2

(* Every byte is sent once and in its place, whatever the socket takes of   *)
(* each writev and sendfile, for responses of any size (writev_bucket,      *)
(* process_sendfile).                                                       *)
THEOREM InOrderAlways == Spec => []OrderInv
<1>1. ResponseInv => OrderInv
  <2>. SUFFICES ASSUME ResponseInv PROVE OrderInv
    OBVIOUS
  <2>1. PICK r \in Seq(Byte) : Whole(job, chunked) = wire \o r
    BY DEF ResponseInv, Begun
  <2>2. wire \in Seq(Byte) /\ TypeOK
    BY DEF ResponseInv, Typed
  <2>3. IsPrefix(wire, Whole(job, chunked))
    BY <2>1, <2>2, Begins
  <2>4. IsPrefix(wire, Promised)
    BY <2>3, PromisedIs
  <2>. QED
    BY <2>2, <2>4 DEF OrderInv, InOrder
<1>. QED
  BY InitResponse, ResponseStep, <1>1, PTL DEF Spec

(* A response that app_handler takes for sent is complete, but for headers  *)
(* that had to wait and were counted as body, and a last chunk that nobody  *)
(* looked after (process_write, response.c:889, 905).                       *)
THEOREM WholeWhenOk == Spec => []CompleteWhenOk
<1>1. ResponseInv => CompleteWhenOk
  BY PromisedIs DEF ResponseInv, Ended, Enough, Complete, CompleteWhenOk
<1>. QED
  BY InitResponse, ResponseStep, <1>1, PTL DEF Spec

=============================================================================
