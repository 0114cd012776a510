--------------------------- MODULE HttpConnectProofs ---------------------------
(***************************************************************************)
(* Proofs about HttpConnect, for any number of connections and bytes, and  *)
(* blocks cut anywhere: an open stream carries what the proxy sent behind  *)
(* its header, and bytesWritten() reports the user's bytes only.           *)
(***************************************************************************)
EXTENDS HttpConnect, SequenceTheorems, FiniteSetTheorems, TLAPS

-----------------------------------------------------------------------------
(* The invariant.                                                          *)

Datum == {"data"} \X (1..MaxData)

\* s is the part of w behind its first o units.
Matches(s, o, w) == \A i \in 1..Len(s) : s[i] = w[o + i]

\* What the proxy sends: k lines, the empty one, and the data of the tunnel.
AnswerOf(k, status) ==
  [i \in Nat |-> IF i > 2 * k + 2 THEN Data(i - (2 * k + 2))
                 ELSE IF i \in {2, 4, 6} THEN LF
                 ELSE IF i = 2 * k + 1 THEN CR
                 ELSE <<IF i = 1 THEN status ELSE "field", 0>>]

Tunnel == [i \in Nat |-> Data(i)]

\* Of an answer with k lines, h units have been taken off the buffer.
InAnswer(k, h) ==
  /\ h <= 2 * k
  /\ headerLines = IF h = 0 THEN "none" ELSE answer
  /\ h + Len(recvBuf) + Len(wire) = 2 * k + 2 + sent
  /\ Matches(recvBuf, h, AnswerOf(k, answer))
  /\ Matches(wire, h + Len(recvBuf), AnswerOf(k, answer))

\* Nothing is left of an earlier connection.
Fresh ==
  /\ sock = "idle" => unsent = <<>>
  /\ sock = "connecting" =>
       /\ ~active
       /\ unsent = <<>> /\ recvBuf = <<>> /\ wire = <<>> /\ got = <<>>
       /\ asked = 0 /\ answer = "none" /\ sent = 0 /\ wrote = 0 /\ reported = 0

\* The header is still being read.
Reading ==
  sock = "connected" /\ ~active =>
    /\ ~inConnected /\ got = <<>>
    /\ answer = "none" => recvBuf = <<>> /\ wire = <<>> /\ headerLines = "none" /\ sent = 0
    /\ answer # "none" => \E k \in 1..2, h \in {0, 2, 4} : InAnswer(k, h)

\* The request goes first, and toWrite says how much of it is still to go.
Counted ==
  sock \in {"connected", "closing"} =>
    /\ asked + toWrite = 2
    /\ \A i \in 1..Len(unsent) : IsUser(unsent[i]) <=> i > toWrite
    /\ Len(unsent) >= toWrite
    /\ reported + Len(unsent) = wrote + toWrite
    /\ ~active => wrote = 0 /\ reported = 0

\* The stream is open: what has been made available, what came with the header
\* and what has not arrived yet are the data of the tunnel.
Open ==
  active =>
    /\ sock \in {"connected", "closing"}
    /\ answer = "200"
    /\ recvBuf # <<>> => inConnected
    /\ Len(got) + Len(recvBuf) + Len(wire) = sent
    /\ Matches(got, 0, Tunnel)
    /\ Matches(recvBuf, Len(got), Tunnel)
    /\ Matches(wire, Len(got) + Len(recvBuf), Tunnel)

InSlot == inConnected => recvBuf \in Seq(Datum)

IInv ==
  /\ TypeOK
  /\ Fresh
  /\ Reading
  /\ Counted
  /\ Open
  /\ InSlot

-----------------------------------------------------------------------------
(* Sequences.                                                              *)

\* The two parts of a sequence.
LEMMA Parts ==
  ASSUME NEW S, NEW s \in Seq(S), NEW n \in 0..Len(s)
  PROVE  /\ SubSeq(s, 1, n) \in Seq(S) /\ Len(SubSeq(s, 1, n)) = n
         /\ \A i \in 1..n : SubSeq(s, 1, n)[i] = s[i]
         /\ Drop(s, n) \in Seq(S) /\ Len(Drop(s, n)) = Len(s) - n
         /\ \A i \in 1..(Len(s) - n) : Drop(s, n)[i] = s[n + i]
<1>1. Len(s) \in Nat /\ n \in Nat /\ n <= Len(s) /\ n + 1 \in Int /\ 1 \in Int /\ n \in Int /\ Len(s) \in Int
  BY LenProperties, SMT
<1>2. \A i \in 1..Len(s) : s[i] \in S
  BY ElementOfSeq
<1>3. (\A i \in 1..n : s[i] \in S) /\ (\A i \in (n + 1)..Len(s) : s[i] \in S)
  BY <1>1, <1>2, SMT
<1>4. /\ SubSeq(s, 1, n) \in Seq(S)
      /\ Len(SubSeq(s, 1, n)) = IF 1 <= n THEN n - 1 + 1 ELSE 0
      /\ \A i \in 1..(n - 1 + 1) : SubSeq(s, 1, n)[i] = s[1 + i - 1]
  BY <1>1, <1>3, SubSeqProperties
<1>5. /\ Drop(s, n) \in Seq(S)
      /\ Len(Drop(s, n)) = IF n + 1 <= Len(s) THEN Len(s) - (n + 1) + 1 ELSE 0
      /\ \A i \in 1..(Len(s) - (n + 1) + 1) : Drop(s, n)[i] = s[(n + 1) + i - 1]
  BY <1>1, <1>3, SubSeqProperties DEF Drop
<1> HIDE DEF Drop
<1>6. Len(SubSeq(s, 1, n)) = n /\ \A i \in 1..n : SubSeq(s, 1, n)[i] = s[i]
  BY <1>1, <1>4, SMT
<1>7. Len(Drop(s, n)) = Len(s) - n /\ \A i \in 1..(Len(s) - n) : Drop(s, n)[i] = s[n + i]
  BY <1>1, <1>5, SMT
<1> QED
  BY <1>4, <1>5, <1>6, <1>7

\* Two parts of w, one behind the other, are a part of it.
LEMMA MatchesJoined ==
  ASSUME NEW S, NEW s \in Seq(S), NEW t \in Seq(S), NEW o \in Nat, NEW w,
         Matches(s, o, w), Matches(t, o + Len(s), w)
  PROVE  /\ s \o t \in Seq(S) /\ Len(s \o t) = Len(s) + Len(t)
         /\ Matches(s \o t, o, w)
<1>1. Len(s) \in Nat /\ Len(t) \in Nat
  BY LenProperties
<1>2. /\ s \o t \in Seq(S) /\ Len(s \o t) = Len(s) + Len(t)
      /\ \A i \in 1..(Len(s) + Len(t)) : (s \o t)[i] = IF i <= Len(s) THEN s[i] ELSE t[i - Len(s)]
  BY ConcatProperties
<1>3. ASSUME NEW i \in 1..(Len(s) + Len(t)) PROVE (s \o t)[i] = w[o + i]
  <2>1. CASE i <= Len(s)
    <3>1. i \in 1..Len(s)
      BY <2>1, SMT
    <3> QED
      BY <1>2, <2>1, <3>1 DEF Matches
  <2>2. CASE ~(i <= Len(s))
    <3>1. i - Len(s) \in 1..Len(t) /\ o + Len(s) + (i - Len(s)) = o + i
      BY <1>1, <2>2, SMT
    <3> QED
      BY <1>2, <2>2, <3>1 DEF Matches
  <2> QED
    BY <2>1, <2>2
<1> QED
  BY <1>2, <1>3 DEF Matches

\* A part of w, cut in two.
LEMMA MatchesCut ==
  ASSUME NEW S, NEW s \in Seq(S), NEW n \in 0..Len(s), NEW o \in Nat, NEW w, Matches(s, o, w)
  PROVE  Matches(SubSeq(s, 1, n), o, w) /\ Matches(Drop(s, n), o + n, w)
<1>1. Len(s) \in Nat /\ n \in Nat /\ n <= Len(s)
  BY LenProperties, SMT
<1>2. Matches(SubSeq(s, 1, n), o, w)
  <2>1. \A i \in 1..n : i \in 1..Len(s)
    BY <1>1, SMT
  <2> QED
    BY <2>1, Parts DEF Matches
<1>3. Matches(Drop(s, n), o + n, w)
  <2>1. \A i \in 1..(Len(s) - n) : n + i \in 1..Len(s) /\ o + (n + i) = o + n + i
    BY <1>1, SMT
  <2>2. /\ Len(Drop(s, n)) = Len(s) - n
        /\ \A i \in 1..(Len(s) - n) : Drop(s, n)[i] = s[n + i]
    BY Parts
  <2> QED
    BY <2>1, <2>2 DEF Matches
<1> QED
  BY <1>2, <1>3

\* Nothing is a part of anything.
LEMMA Nothing ==
  /\ \A S : <<>> \in Seq(S)
  /\ Len(<<>>) = 0
  /\ \A o, w : Matches(<<>>, o, w)
<1>1. Len(<<>>) = 0 /\ 1..0 = {}
  BY LenProperties, EmptySeq, SMT
<1> QED
  BY <1>1, EmptySeq DEF Matches

\* The data of the tunnel.
LEMMA TunnelData ==
  ASSUME NEW s \in Seq(Incoming), NEW o \in Nat, Matches(s, o, Tunnel), sent \in 0..MaxData, o + Len(s) <= sent
  PROVE  s \in Seq(Datum)
<1>1. ASSUME NEW i \in 1..Len(s) PROVE s[i] \in Datum
  <2>1. o + i \in Nat /\ o + i \in 1..MaxData
    BY HttpConnectAssumption, LenProperties, SMT
  <2>2. s[i] = Data(o + i)
    BY <2>1 DEF Matches, Tunnel
  <2> QED
    BY <2>1, <2>2 DEF Data, Datum
<1>2. Len(s) \in Nat /\ s = [i \in 1..Len(s) |-> s[i]]
  BY LenProperties
<1>3. s \in [1..Len(s) -> Datum]
  BY <1>1, <1>2
<1> QED
  BY <1>2, <1>3, SeqDef

\* The units of a header are told from each other, and from the data.
LEMMA UnitsDiffer ==
  /\ CR \in Incoming /\ LF \in Incoming /\ CR # LF
  /\ \A t \in Statuses \cup {"field"} : <<t, 0>> \in Incoming /\ <<t, 0>> \notin {CR, LF} /\ t # "none"
  /\ \A n : Data(n) \notin {CR, LF}
  /\ Datum \subseteq Incoming
  /\ \A n \in 1..MaxData : Data(n) \in Datum
BY HttpConnectAssumption DEF Incoming, CR, LF, Data, Datum

-----------------------------------------------------------------------------
(* Header lines in a buffer.                                               *)

\* Where the lines end in a part of an answer: behind every second unit of the
\* header, and the header behind its empty line.
LEMMA EndsFound ==
  ASSUME NEW buf \in Seq(Incoming), NEW k \in 1..2, NEW h \in {0, 2, 4}, h <= 2 * k,
         NEW status \in Statuses, Matches(buf, h, AnswerOf(k, status))
  PROVE  /\ \A n : n \in LineEnds(buf) <=> n \in {2, 4, 6} /\ h + n <= 2 * k + 2 /\ n <= Len(buf)
         /\ \A n : n \in HeaderEnds(buf) <=> n = 2 * k + 2 - h /\ n <= Len(buf)
<1>1. Len(buf) \in Nat /\ DOMAIN buf = 1..Len(buf)
  BY LenProperties
<1>2. ASSUME NEW i \in 1..Len(buf)
      PROVE  /\ buf[i] = LF <=> i \in {2, 4, 6} /\ h + i <= 2 * k + 2
             /\ buf[i] = CR <=> h + i = 2 * k + 1
  <2> DEFINE j == h + i
  <2>1. j \in Nat /\ buf[i] = AnswerOf(k, status)[j]
    BY <1>1 DEF Matches
  <2>2. buf[i] = IF j > 2 * k + 2 THEN Data(j - (2 * k + 2))
                 ELSE IF j \in {2, 4, 6} THEN LF
                 ELSE IF j = 2 * k + 1 THEN CR
                 ELSE <<IF j = 1 THEN status ELSE "field", 0>>
    BY <2>1 DEF AnswerOf
  <2>3. /\ j > 2 * k + 2 => ~(j <= 2 * k + 2) /\ j # 2 * k + 1
        /\ ~(j > 2 * k + 2) => j <= 2 * k + 2 /\ (j \in {2, 4, 6} <=> i \in {2, 4, 6})
        /\ j = 2 * k + 1 => ~(j > 2 * k + 2) /\ j \notin {2, 4, 6}
    BY <1>1, SMT
  <2> HIDE DEF j
  <2>4. buf[i] = LF <=> ~(j > 2 * k + 2) /\ j \in {2, 4, 6}
    BY <2>2, UnitsDiffer
  <2>5. buf[i] = CR <=> j = 2 * k + 1
    BY <2>2, <2>3, UnitsDiffer
  <2> QED
    BY <2>3, <2>4, <2>5 DEF j
<1>3. \A n : n \in LineEnds(buf) <=> n \in 1..Len(buf) /\ n > 1 /\ buf[n] = LF
  BY <1>1 DEF LineEnds
<1>4. ASSUME NEW n
      PROVE  n \in LineEnds(buf) <=> n \in {2, 4, 6} /\ h + n <= 2 * k + 2 /\ n <= Len(buf)
  <2>1. n \in {2, 4, 6} /\ n <= Len(buf) => n \in 1..Len(buf) /\ n > 1
    BY <1>1, SMT
  <2>2. n \in 1..Len(buf) => n <= Len(buf)
    BY <1>1, SMT
  <2> QED
    BY <1>2, <1>3, <2>1, <2>2
<1>5. ASSUME NEW n
      PROVE  n \in HeaderEnds(buf) <=> n = 2 * k + 2 - h /\ n <= Len(buf)
  <2>1. n \in HeaderEnds(buf) <=> n \in LineEnds(buf) /\ buf[n - 1] = CR
    BY DEF HeaderEnds
  <2>2. CASE n \in LineEnds(buf)
    <3>1. n \in {2, 4, 6} /\ h + n <= 2 * k + 2 /\ n <= Len(buf)
      BY <1>4, <2>2
    <3>2. n - 1 \in 1..Len(buf) /\ (h + (n - 1) = 2 * k + 1 <=> n = 2 * k + 2 - h)
      BY <1>1, <3>1, SMT
    <3> QED
      BY <1>2, <2>1, <2>2, <3>1, <3>2
  <2>3. CASE n \notin LineEnds(buf)
    <3>1. n = 2 * k + 2 - h => n \in {2, 4, 6} /\ h + n <= 2 * k + 2
      BY SMT
    <3> QED
      BY <1>4, <2>1, <2>3, <3>1
  <2> QED
    BY <2>2, <2>3
<1> QED
  BY <1>4, <1>5

\* What extractLine() takes: the rest of the header, or the whole lines there are.
LEMMA ExtentFound ==
  ASSUME NEW buf \in Seq(Incoming), NEW k \in 1..2, NEW h \in {0, 2, 4}, h <= 2 * k,
         NEW status \in Statuses, Matches(buf, h, AnswerOf(k, status))
  PROVE  /\ HeaderEnds(buf) # {} => Extent(buf) = 2 * k + 2 - h /\ Extent(buf) <= Len(buf)
         /\ HeaderEnds(buf) = {} => h + Len(buf) < 2 * k + 2
         /\ HeaderEnds(buf) = {} => Extent(buf) = 2 * (Len(buf) \div 2)
         /\ LineEnds(buf) # {} <=> Len(buf) >= 2
<1>1. Len(buf) \in Nat /\ h \in Nat /\ k \in Nat
  BY LenProperties, SMT
<1>2. /\ \A n : n \in LineEnds(buf) <=> n \in {2, 4, 6} /\ h + n <= 2 * k + 2 /\ n <= Len(buf)
      /\ \A n : n \in HeaderEnds(buf) <=> n = 2 * k + 2 - h /\ n <= Len(buf)
  BY EndsFound
<1>3. 2 * k + 2 - h \in Nat /\ h + 2 <= 2 * k + 2
  BY SMT
<1>4. HeaderEnds(buf) # {} <=> 2 * k + 2 - h <= Len(buf)
  BY <1>2
<1>5. LineEnds(buf) # {} <=> Len(buf) >= 2
  <2>1. Len(buf) >= 2 => 2 \in LineEnds(buf)
    BY <1>1, <1>2, <1>3, SMT
  <2>2. ASSUME NEW n, n \in {2, 4, 6}, n <= Len(buf) PROVE Len(buf) >= 2
    BY <1>1, <2>2, SMT
  <2> QED
    BY <1>2, <2>1, <2>2
<1>6. CASE HeaderEnds(buf) # {}
  <2>1. HeaderEnds(buf) = {2 * k + 2 - h}
    BY <1>2, <1>4, <1>6
  <2>2. Extent(buf) = Min({2 * k + 2 - h})
    BY <2>1 DEF Extent
  <2>3. Min({2 * k + 2 - h}) = 2 * k + 2 - h
    BY <1>3, SMT DEF Min
  <2> QED
    BY <1>4, <1>5, <1>6, <2>2, <2>3
<1>7. CASE HeaderEnds(buf) = {}
  <2> DEFINE S == LineEnds(buf) \cup {0}
             e == 2 * (Len(buf) \div 2)
  <2>1. h + Len(buf) < 2 * k + 2
    BY <1>1, <1>3, <1>4, <1>7, SMT
  <2>2. Extent(buf) = Max(S)
    BY <1>7 DEF Extent
  <2>3. e \in {0, 2, 4} /\ e <= Len(buf) /\ Len(buf) < e + 2
    BY <1>1, <2>1, SMT
  <2>4. e \in S
    <3>1. h + e <= 2 * k + 2
      BY <1>1, <2>1, <2>3, SMT
    <3> QED
      BY <1>2, <2>3, <3>1
  <2>5. e \in Nat /\ \A n \in S : n \in Nat /\ e >= n
    <3>1. \A n \in {2, 4, 6} : n <= Len(buf) => n \in Nat /\ e >= n
      BY <1>1, <2>3, SMT
    <3>2. e \in Nat /\ 0 \in Nat /\ e >= 0
      BY <2>3, SMT
    <3> QED
      BY <1>2, <3>1, <3>2
  <2> HIDE DEF S, e
  <2>6. Max(S) = e
    <3>1. Max(S) \in S /\ \A n \in S : Max(S) >= n
      BY <2>4, <2>5, Zenon DEF Max
    <3>2. ASSUME NEW m \in S, \A n \in S : m >= n PROVE m = e
      BY <2>4, <2>5, <3>2, SMT
    <3> QED
      BY <3>1, <3>2, Zenon
  <2> QED
    BY <1>5, <1>7, <2>1, <2>2, <2>6 DEF e
<1> QED
  BY <1>6, <1>7

\* The first line of an answer is the status.
LEMMA FirstLineFound ==
  ASSUME NEW buf \in Seq(Incoming), NEW k \in 1..2, NEW h \in {0, 2, 4}, h <= 2 * k,
         answer \in Statuses, Matches(buf, h, AnswerOf(k, answer)),
         headerLines = IF h = 0 THEN "none" ELSE answer
  PROVE  FirstLine(buf) = IF h = 0 /\ Len(buf) < 2 THEN "none" ELSE answer
<1>1. Len(buf) \in Nat /\ answer # "none"
  BY LenProperties, UnitsDiffer
<1>2. LineEnds(buf) # {} <=> Len(buf) >= 2
  BY ExtentFound
<1>3. Len(buf) < 2 <=> ~(Len(buf) >= 2)
  BY <1>1, SMT
<1>4. CASE h = 0 /\ Len(buf) >= 2
  <2>1. /\ 1 \in 1..Len(buf) /\ h + 1 = 1 /\ 1 \in Nat
        /\ ~(1 > 2 * k + 2) /\ 1 \notin {2, 4, 6} /\ 1 # 2 * k + 1
    BY <1>1, <1>4, SMT
  <2>2. buf[1] = <<answer, 0>>
    BY <2>1 DEF Matches, AnswerOf
  <2> QED
    BY <1>2, <1>3, <1>4, <2>2 DEF FirstLine
<1>5. CASE h # 0
  BY <1>1, <1>5 DEF FirstLine
<1>6. CASE h = 0 /\ ~(Len(buf) >= 2)
  BY <1>2, <1>3, <1>6 DEF FirstLine
<1> QED
  BY <1>4, <1>5, <1>6

-----------------------------------------------------------------------------
(* The proxy.                                                              *)

\* A line is a part of w if its two units are.
LEMMA LineMatches ==
  ASSUME NEW text \in Statuses \cup {"field", "none"}, NEW o \in Nat, NEW w,
         w[o + 1] = IF text = "none" THEN CR ELSE <<text, 0>>,
         w[o + 2] = LF
  PROVE  Line(text) \in Seq(Incoming) /\ Len(Line(text)) = 2 /\ Matches(Line(text), o, w)
<1> DEFINE a == IF text = "none" THEN CR ELSE <<text, 0>>
           l == Line(text)
<1>1. l = <<a, LF>> /\ a \in Incoming /\ LF \in Incoming
  BY UnitsDiffer DEF Line
<1> HIDE DEF a, l
<1>2. l \in Seq(Incoming) /\ Len(l) = 2 /\ l[1] = a /\ l[2] = LF
  BY <1>1, SMT
<1>3. 1..2 = {1, 2}
  BY SMT
<1>4. w[o + 1] = a
  BY DEF a
<1>5. Matches(l, o, w)
  BY <1>2, <1>3, <1>4 DEF Matches
<1> QED
  BY <1>2, <1>5 DEF l

\* What the proxy sends in answer to the request.
LEMMA AnswerMatches ==
  ASSUME NEW status \in Statuses, NEW field \in BOOLEAN, NEW n \in 0..MaxData, NEW w,
         w = Line(status) \o (IF field THEN Line("field") ELSE <<>>) \o Line("none")
             \o [i \in 1..n |-> Data(i)]
  PROVE  \E k \in 1..2 : /\ w \in Seq(Incoming) /\ Len(w) = 2 * k + 2 + n
                         /\ Matches(w, 0, AnswerOf(k, status))
<1> DEFINE k == IF field THEN 2 ELSE 1
           s == Line(status)
           f == IF field THEN Line("field") ELSE <<>>
           e == Line("none")
           d == [i \in 1..n |-> Data(i)]
           a == AnswerOf(k, status)
<1>1. /\ k \in 1..2 /\ n \in Nat
      /\ a[1] = <<status, 0>> /\ a[2] = LF
      /\ field => a[3] = <<"field", 0>> /\ a[4] = LF
      /\ a[2 * k + 1] = CR /\ a[2 * k + 2] = LF
      /\ \A i \in 1..n : a[2 * k + 2 + i] = Data(i)
  <2>1. k \in 1..2 /\ k \in Nat /\ n \in Nat
    BY HttpConnectAssumption, SMT
  <2>2. a[1] = <<status, 0>> /\ a[2] = LF
    <3>1. 1 \in Nat /\ 2 \in Nat /\ ~(1 > 2 * k + 2) /\ ~(2 > 2 * k + 2) /\ 1 \notin {2, 4, 6} /\ 1 # 2 * k + 1
      BY <2>1, SMT
    <3> QED
      BY <3>1 DEF AnswerOf
  <2>3. field => a[3] = <<"field", 0>> /\ a[4] = LF
    <3>1. field => 3 \in Nat /\ 4 \in Nat /\ ~(3 > 2 * k + 2) /\ ~(4 > 2 * k + 2) /\ 3 \notin {2, 4, 6} /\ 3 # 2 * k + 1 /\ 3 # 1
      BY <2>1, SMT
    <3> QED
      BY <3>1 DEF AnswerOf
  <2>4. a[2 * k + 1] = CR /\ a[2 * k + 2] = LF
    <3>1. /\ 2 * k + 1 \in Nat /\ 2 * k + 2 \in Nat /\ ~(2 * k + 1 > 2 * k + 2) /\ ~(2 * k + 2 > 2 * k + 2)
          /\ 2 * k + 1 \notin {2, 4, 6} /\ 2 * k + 2 \in {2, 4, 6}
      BY <2>1, SMT
    <3> QED
      BY <3>1 DEF AnswerOf
  <2>5. ASSUME NEW i \in 1..n PROVE a[2 * k + 2 + i] = Data(i)
    <3>1. 2 * k + 2 + i \in Nat /\ 2 * k + 2 + i > 2 * k + 2 /\ 2 * k + 2 + i - (2 * k + 2) = i
      BY <2>1, SMT
    <3> QED
      BY <3>1 DEF AnswerOf
  <2> QED
    BY <2>1, <2>2, <2>3, <2>4, <2>5
<1> HIDE DEF a
<1>2. s \in Seq(Incoming) /\ Len(s) = 2 /\ Matches(s, 0, a)
  <2>1. 0 + 1 = 1 /\ 0 + 2 = 2 /\ 0 \in Nat
    BY SMT
  <2> QED
    BY <1>1, <2>1, UnitsDiffer, LineMatches
<1>3. f \in Seq(Incoming) /\ Len(f) = 2 * k - 2 /\ Matches(f, 2, a)
  <2>1. CASE field
    <3>1. 2 + 1 = 3 /\ 2 + 2 = 4 /\ 2 \in Nat /\ 2 * 2 - 2 = 2
      BY SMT
    <3>2. Line("field") \in Seq(Incoming) /\ Len(Line("field")) = 2 /\ Matches(Line("field"), 2, a)
      BY <1>1, <2>1, <3>1, LineMatches
    <3> QED
      BY <2>1, <3>1, <3>2
  <2>2. CASE ~field
    <3>1. 2 * 1 - 2 = 0
      BY SMT
    <3> QED
      BY <2>2, <3>1, Nothing
  <2> QED
    BY <2>1, <2>2
<1>4. e \in Seq(Incoming) /\ Len(e) = 2 /\ Matches(e, 2 * k, a)
  <2>1. 2 * k \in Nat
    BY SMT
  <2> QED
    BY <1>1, <2>1, LineMatches
<1>5. d \in Seq(Incoming) /\ Len(d) = n /\ Matches(d, 2 * k + 2, a)
  <2>1. \A i \in 1..n : Data(i) \in Incoming
    <3>1. \A i \in 1..n : i \in 1..MaxData
      BY HttpConnectAssumption, SMT
    <3> QED
      BY <3>1, UnitsDiffer
  <2>2. d \in Seq(Incoming) /\ Len(d) = n
    BY <1>1, <2>1, SMT
  <2> QED
    BY <1>1, <2>2 DEF Matches
<1> HIDE DEF s, f, e, d, k
<1>6. w = s \o f \o e \o d
  BY DEF s, f, e, d
<1>7. s \o f \in Seq(Incoming) /\ Len(s \o f) = 2 * k /\ Matches(s \o f, 0, a)
  <2>1. 0 \in Nat /\ 0 + 2 = 2 /\ 2 + (2 * k - 2) = 2 * k
    BY <1>1, SMT
  <2> QED
    BY <1>2, <1>3, <2>1, MatchesJoined, ZenonT(60)
<1> DEFINE x == s \o f
<1> HIDE DEF x
<1>8. x \o e \in Seq(Incoming) /\ Len(x \o e) = 2 * k + 2 /\ Matches(x \o e, 0, a)
  <2>1. 0 \in Nat /\ 0 + 2 * k = 2 * k
    BY <1>1, SMT
  <2>2. x \in Seq(Incoming) /\ Len(x) = 2 * k /\ Matches(x, 0, a)
    BY <1>7 DEF x
  <2> QED
    BY <1>4, <2>1, <2>2, MatchesJoined, ZenonT(60)
<1> DEFINE y == x \o e
<1> HIDE DEF y
<1>9. y \o d \in Seq(Incoming) /\ Len(y \o d) = 2 * k + 2 + n /\ Matches(y \o d, 0, a)
  <2>1. 0 \in Nat /\ 0 + (2 * k + 2) = 2 * k + 2
    BY <1>1, SMT
  <2>2. y \in Seq(Incoming) /\ Len(y) = 2 * k + 2 /\ Matches(y, 0, a)
    BY <1>8 DEF y
  <2> QED
    BY <1>5, <2>1, <2>2, MatchesJoined
<1>10. w = y \o d
  BY <1>6 DEF x, y
<1> QED
  BY <1>1, <1>9, <1>10 DEF a

-----------------------------------------------------------------------------
(* The initial state, and the steps.                                       *)

LEMMA InitIInv == Init => IInv
<1> SUFFICES ASSUME Init PROVE IInv
  OBVIOUS
<1>1. 0 \in 0..2 /\ 0 \in 0..MaxData /\ 0 \in 0..MaxCalls
  BY HttpConnectAssumption, SMT
<1>2. TypeOK
  BY <1>1, Nothing DEF Init, TypeOK
<1> QED
  BY <1>2 DEF Init, IInv, Fresh, Reading, Counted, Open, InSlot

\* Without a socket there is little to keep.
LEMMA IdleIInv ==
  ASSUME TypeOK', InSlot', sock' = "idle", unsent' = <<>>, active' = FALSE
  PROVE  IInv'
BY DEF IInv, Fresh, Reading, Counted, Open

LEMMA ConnectToHostIInv == IInv /\ ConnectToHost => IInv'
<1> SUFFICES ASSUME IInv, ConnectToHost PROVE IInv'
  OBVIOUS
<1>1. 0 \in 0..2 /\ 0 \in 0..MaxData /\ calls' \in 0..MaxCalls
  BY HttpConnectAssumption, SMT DEF IInv, TypeOK, ConnectToHost
<1>2. TypeOK'
  BY <1>1, Nothing DEF IInv, TypeOK, ConnectToHost, Reset
<1> QED
  BY <1>2, Nothing DEF IInv, ConnectToHost, Reset, Fresh, Reading, Counted, Open, InSlot

LEMMA WriteIInv == IInv /\ Write => IInv'
<1> SUFFICES ASSUME IInv, Write PROVE IInv'
  OBVIOUS
<1>1. /\ wrote \in Nat /\ wrote' = wrote + 1 /\ wrote' \in 0..MaxData /\ wrote + 1 \in 1..(MaxData + 2)
      /\ toWrite \in Nat /\ reported \in Nat
  BY HttpConnectAssumption, SMT DEF IInv, TypeOK, Write
<1>2. Data(wrote + 1) \in Outgoing /\ IsUser(Data(wrote + 1))
  BY <1>1 DEF Outgoing, Data, IsUser
<1>3. unsent \in Seq(Outgoing) /\ Len(unsent) \in Nat
  BY LenProperties DEF IInv, TypeOK
<1>4. /\ unsent' \in Seq(Outgoing) /\ Len(unsent') = Len(unsent) + 1
      /\ \A i \in 1..Len(unsent) : unsent'[i] = unsent[i]
      /\ unsent'[Len(unsent) + 1] = Data(wrote + 1)
  BY <1>2, <1>3, AppendProperties DEF Write
<1>5. TypeOK'
  BY <1>1, <1>4 DEF IInv, TypeOK, Write, streamVars, proxyVars
<1>6. Counted'
  <2>1. /\ asked + toWrite = 2 /\ Len(unsent) >= toWrite /\ reported + Len(unsent) = wrote + toWrite
        /\ \A i \in 1..Len(unsent) : IsUser(unsent[i]) <=> i > toWrite
    BY DEF IInv, Counted, Write
  <2>2. /\ Len(unsent') >= toWrite /\ Len(unsent) + 1 > toWrite
        /\ reported + Len(unsent') = wrote' + toWrite
        /\ \A i \in 1..Len(unsent') : i \in 1..Len(unsent) \/ i = Len(unsent) + 1
    BY <1>1, <1>3, <1>4, <2>1, SMT
  <2>3. \A i \in 1..Len(unsent') : IsUser(unsent'[i]) <=> i > toWrite
    BY <1>2, <1>4, <2>1, <2>2
  <2> QED
    BY <2>1, <2>2, <2>3 DEF Counted, Write, streamVars, proxyVars, IsUser
<1> QED
  BY <1>5, <1>6 DEF IInv, Fresh, Reading, Open, InSlot, InAnswer, Matches, Write, streamVars, proxyVars

\* A call of close(), also in the slot of connected().
LEMMA CloseIInv == IInv /\ Close => IInv'
<1> SUFFICES ASSUME IInv, Close PROVE IInv'
  OBVIOUS
<1>1. TypeOK'
  BY DEF IInv, TypeOK, Close, CloseSock, Reset, streamVars, proxyVars
<1>2. CASE unsent = <<>>
  <2>1. sock' = "idle" /\ unsent' = <<>> /\ active' = FALSE /\ InSlot'
    BY <1>2 DEF IInv, Close, CloseSock, Reset, InSlot
  <2> QED
    BY <1>1, <2>1, IdleIInv
<1>3. CASE unsent # <<>>
  <2>1. sock = "connected" /\ sock' = "closing"
    BY <1>3 DEF IInv, Fresh, Close, CloseSock
  <2> QED
    BY <1>1, <1>3, <2>1 DEF IInv, Fresh, Reading, Counted, Open, InSlot, Matches, Close, CloseSock, streamVars, proxyVars
<1> QED
  BY <1>2, <1>3

LEMMA SockConnectedIInv == IInv /\ SockConnected => IInv'
<1> SUFFICES ASSUME IInv, SockConnected PROVE IInv'
  OBVIOUS
<1>1. /\ Request \in Seq(Outgoing) /\ Len(Request) = 2
      /\ \A i \in 1..2 : ~IsUser(Request[i]) /\ ~(i > 2)
      /\ 2 \in 0..2 /\ 0 + 2 = 2 /\ 2 >= 2
  <2>1. 1 \in 1..(MaxData + 2) /\ 2 \in 1..(MaxData + 2)
    BY HttpConnectAssumption, SMT
  <2>2. <<"request", 1>> \in Outgoing /\ <<"request", 2>> \in Outgoing
    BY <2>1 DEF Outgoing
  <2>3. /\ Request \in Seq(Outgoing) /\ Len(Request) = 2
        /\ Request[1] = <<"request", 1>> /\ Request[2] = <<"request", 2>>
    BY <2>2 DEF Request
  <2>4. \A i \in 1..2 : (i = 1 \/ i = 2) /\ ~(i > 2)
    BY SMT
  <2>5. 2 \in 0..2 /\ 0 + 2 = 2 /\ 2 >= 2
    BY SMT
  <2> QED
    BY <2>3, <2>4, <2>5 DEF IsUser
<1>2. TypeOK'
  BY <1>1 DEF IInv, TypeOK, SockConnected, histVars, proxyVars
<1>3. Counted'
  BY <1>1 DEF IInv, Fresh, Counted, SockConnected, histVars, proxyVars, IsUser
<1> QED
  BY <1>2, <1>3 DEF IInv, Fresh, Reading, Open, InSlot, SockConnected, Loop, histVars, proxyVars

\* The slot of connected() returns, perhaps in another connection than it began.
LEMMA ConnectedReturnsIInv == IInv /\ ConnectedReturns => IInv'
<1> SUFFICES ASSUME IInv, ConnectedReturns PROVE IInv'
  OBVIOUS
<1>1. /\ recvBuf \in Seq(Datum) /\ got \in Seq(Datum) /\ wire \in Seq(Incoming)
      /\ Len(recvBuf) \in Nat /\ Len(got) \in Nat /\ Len(wire) \in Nat
  <2>1. recvBuf \in Seq(Datum) /\ got \in Seq(Datum) /\ wire \in Seq(Incoming)
    BY DEF IInv, TypeOK, InSlot, ConnectedReturns, Datum
  <2> QED
    BY <2>1, LenProperties
<1>2. got' = got \o recvBuf /\ recvBuf' = <<>> /\ got' \in Seq(Datum) /\ Len(got') = Len(got) + Len(recvBuf)
  BY <1>1, ConcatProperties DEF ConnectedReturns
<1>3. TypeOK'
  BY <1>2, Nothing, ZenonT(60) DEF IInv, TypeOK, ConnectedReturns, proxyVars, sockVars, Datum
<1>4. Open'
  <2> SUFFICES ASSUME active PROVE Open'
    BY DEF Open, ConnectedReturns
  <2>1. /\ Matches(got, 0, Tunnel) /\ Matches(recvBuf, Len(got), Tunnel)
        /\ Matches(wire, Len(got) + Len(recvBuf), Tunnel)
        /\ Len(got) + Len(recvBuf) + Len(wire) = sent
    BY DEF IInv, Open
  <2>2. Matches(got', 0, Tunnel)
    <3>1. 0 + Len(got) = Len(got) /\ 0 \in Nat
      BY <1>1, SMT
    <3> QED
      BY <1>1, <1>2, <2>1, <3>1, MatchesJoined
  <2>3. Len(got') + Len(recvBuf') = Len(got) + Len(recvBuf)
    BY <1>1, <1>2, Nothing, SMT
  <2>4. Matches(recvBuf', Len(got'), Tunnel)
    BY <1>2, Nothing
  <2>5. sock' = sock /\ answer' = answer /\ wire' = wire /\ sent' = sent
    BY DEF ConnectedReturns, sockVars, proxyVars
  <2>6. Len(got') + Len(recvBuf') + Len(wire') = sent'
    BY <2>1, <2>3, <2>5
  <2>7. Matches(wire', Len(got') + Len(recvBuf'), Tunnel)
    BY <2>1, <2>3, <2>5
  <2> QED
    BY <1>2, <2>2, <2>4, <2>5, <2>6, <2>7 DEF IInv, Open, Matches, Tunnel
<1>5. Fresh' /\ InSlot' /\ Reading'
  <2>1. sock = "connecting" => got' = <<>>
    BY <1>1, <1>2, ConcatEmptySeq DEF IInv, Fresh
  <2> QED
    BY <1>2, <2>1 DEF IInv, Fresh, Reading, InSlot, ConnectedReturns, sockVars, proxyVars
<1> QED
  BY <1>3, <1>4, <1>5 DEF IInv, Counted, ConnectedReturns, sockVars, proxyVars

\* Of the first n units that are sent, those of the request.
LEMMA RequestSent ==
  ASSUME TypeOK, Counted, sock \in {"connected", "closing"}, NEW n \in 1..Len(unsent)
  PROVE  Cardinality({i \in 1..n : ~IsUser(unsent[i])}) = Min({n, toWrite})
<1> DEFINE m == IF n <= toWrite THEN n ELSE toWrite
<1>1. n \in Nat /\ toWrite \in Nat /\ Len(unsent) \in Nat /\ n <= Len(unsent) /\ m \in Nat
  <2>1. Len(unsent) \in Nat /\ toWrite \in Nat
    BY LenProperties DEF TypeOK
  <2> QED
    BY <2>1, SMT
<1>2. {i \in 1..n : ~IsUser(unsent[i])} = 1..m
  <2>1. \A i \in 1..n : i \in 1..Len(unsent) /\ (i \in 1..m <=> ~(i > toWrite))
    BY <1>1, SMT
  <2>2. 1..m \subseteq 1..n
    BY <1>1, SMT
  <2> HIDE DEF m
  <2> QED
    BY <2>1, <2>2 DEF Counted
<1>3. Cardinality(1..m) = m
  <2>1. 1 \in Int /\ m \in Int /\ m - 1 + 1 = m /\ (1 > m => m = 0)
    BY <1>1, SMT
  <2>2. Cardinality(1..m) = IF 1 > m THEN 0 ELSE m - 1 + 1
    BY <2>1, FS_Interval
  <2> QED
    BY <2>1, <2>2
<1>4. Min({n, toWrite}) = m
  BY <1>1, SMT DEF Min
<1> QED
  BY <1>2, <1>3, <1>4

LEMMA SockBytesWrittenIInv ==
  ASSUME IInv, NEW n \in Nat, SockBytesWritten(n)
  PROVE  IInv'
<1> DEFINE size == IF n <= toWrite THEN n ELSE toWrite
<1>1. sock \in {"connected", "closing"}
  <2>1. unsent # <<>>
    BY Nothing, SMT DEF SockBytesWritten
  <2> QED
    BY <2>1 DEF IInv, TypeOK, Fresh, SockBytesWritten
<1>2. /\ n \in 1..Len(unsent) /\ n \in 0..Len(unsent) /\ n <= Len(unsent)
      /\ Len(unsent) \in Nat /\ toWrite \in Nat /\ asked \in Nat /\ reported \in Nat /\ wrote \in Nat
      /\ wrote <= MaxData /\ MaxData \in Nat /\ unsent \in Seq(Outgoing)
  <2>1. unsent \in Seq(Outgoing) /\ Len(unsent) \in Nat
    BY LenProperties DEF IInv, TypeOK
  <2>2. /\ toWrite \in 0..2 /\ asked \in 0..2 /\ reported \in 0..MaxData /\ wrote \in 0..MaxData
        /\ n \in 1..Len(unsent)
    BY DEF IInv, TypeOK, SockBytesWritten
  <2> QED
    BY <2>1, <2>2, HttpConnectAssumption, SMT
<1>3. Min({n, toWrite}) = size /\ Cardinality({i \in 1..n : ~IsUser(unsent[i])}) = size
  <2>1. Min({n, toWrite}) = size
    BY <1>2, SMT DEF Min
  <2> QED
    BY <1>1, <1>2, <2>1, RequestSent DEF IInv
<1>4. /\ unsent' = Drop(unsent, n)
      /\ asked' = asked + size /\ toWrite' = toWrite - size
      /\ reported' = IF active THEN reported + (n - size) ELSE reported
      /\ UNCHANGED <<inHeader, headerLines, recvBuf, inConnected, calls, got, wrote, wire, answer, sent, gone>>
  BY <1>3 DEF SockBytesWritten
<1>5. /\ unsent' \in Seq(Outgoing) /\ Len(unsent') = Len(unsent) - n
      /\ \A i \in 1..(Len(unsent) - n) : unsent'[i] = unsent[n + i]
  BY <1>2, <1>4, Parts
<1>6. /\ asked + toWrite = 2 /\ Len(unsent) >= toWrite /\ reported + Len(unsent) = wrote + toWrite
      /\ ~active => wrote = 0 /\ reported = 0
      /\ \A i \in 1..Len(unsent) : IsUser(unsent[i]) <=> i > toWrite
  BY <1>1 DEF IInv, Counted
<1>7. /\ asked' + toWrite' = 2 /\ Len(unsent') >= toWrite' /\ reported' + Len(unsent') = wrote + toWrite'
      /\ ~active => reported' = 0
      /\ asked' \in 0..2 /\ toWrite' \in 0..2 /\ reported' \in 0..MaxData
  <2>1. asked' = asked + size /\ toWrite' = toWrite - size /\ Len(unsent') = Len(unsent) - n
    BY <1>4, <1>5
  <2>2. /\ (asked + size) + (toWrite - size) = 2 /\ asked + size \in 0..2 /\ toWrite - size \in 0..2
        /\ Len(unsent) - n >= toWrite - size
    BY <1>2, <1>6, SMT
  <2>3. CASE active
    <3>1. reported' = reported + (n - size)
      BY <1>4, <2>3
    <3>2. /\ (reported + (n - size)) + (Len(unsent) - n) = wrote + (toWrite - size)
          /\ reported + (n - size) \in 0..MaxData
      BY <1>2, <1>6, SMT
    <3> QED
      BY <2>1, <2>2, <2>3, <3>1, <3>2
  <2>4. CASE ~active
    <3>1. reported' = 0 /\ reported = 0 /\ wrote = 0
      BY <1>4, <1>6, <2>4
    <3>2. 0 + (Len(unsent) - n) = 0 + (toWrite - size) /\ 0 \in 0..MaxData
      BY <1>2, <1>6, <3>1, SMT
    <3> QED
      BY <2>1, <2>2, <3>1, <3>2
  <2> QED
    BY <2>3, <2>4
<1>8. ASSUME NEW i \in 1..Len(unsent') PROVE IsUser(unsent'[i]) <=> i > toWrite'
  <2>1. n + i \in 1..Len(unsent) /\ i \in 1..(Len(unsent) - n) /\ (n + i > toWrite <=> i > toWrite - size)
    BY <1>2, <1>5, SMT
  <2> QED
    BY <1>4, <1>5, <1>6, <2>1
<1> HIDE DEF size
<1>9. CASE sock = "closing" /\ unsent' = <<>>
  <2>1. sock' = "idle" /\ active' = FALSE
    BY <1>9 DEF SockBytesWritten
  <2>2. TypeOK'
    BY <1>4, <1>5, <1>7, <1>9, <2>1 DEF IInv, TypeOK, SockBytesWritten
  <2> QED
    BY <1>4, <1>9, <2>1, <2>2, IdleIInv DEF IInv, InSlot
<1>10. CASE ~(sock = "closing" /\ unsent' = <<>>)
  <2>1. sock' = sock /\ active' = active /\ outcome' = outcome
    BY <1>10 DEF SockBytesWritten
  <2>2. TypeOK'
    BY <1>4, <1>5, <1>7, <2>1 DEF IInv, TypeOK
  <2>3. Counted'
    BY <1>4, <1>6, <1>7, <1>8, <2>1 DEF Counted, IsUser
  <2>4. Fresh' /\ InSlot'
    BY <1>1, <1>4, <2>1 DEF IInv, Fresh, InSlot
  <2>5. Reading'
    BY <1>4, <2>1 DEF IInv, Reading, InAnswer, Matches
  <2>6. Open'
    BY <1>4, <2>1 DEF IInv, Open, Matches
  <2> QED
    BY <2>2, <2>3, <2>4, <2>5, <2>6 DEF IInv
<1> QED
  BY <1>9, <1>10

\* The connection is gone.
LEMMA SockConnectionClosedIInv == IInv /\ SockConnectionClosed => IInv'
<1> SUFFICES ASSUME IInv, SockConnectionClosed PROVE IInv'
  OBVIOUS
<1>1. TypeOK' /\ InSlot'
  BY Nothing DEF IInv, TypeOK, InSlot, SockConnectionClosed, Reset, proxyVars
<1> QED
  BY <1>1, IdleIInv DEF SockConnectionClosed, Reset

LEMMA SockErrorIInv == IInv /\ SockError => IInv'
<1> SUFFICES ASSUME IInv, SockError PROVE IInv'
  OBVIOUS
<1>1. TypeOK' /\ InSlot'
  BY Nothing DEF IInv, TypeOK, InSlot, SockError, Reset, proxyVars
<1> QED
  BY <1>1, IdleIInv DEF SockError, Reset

\* A block, and what is left behind it.
LEMMA BlockArrived ==
  ASSUME IInv, NEW n \in 1..Len(wire)
  PROVE  /\ SubSeq(wire, 1, n) \in Seq(Incoming) /\ Len(SubSeq(wire, 1, n)) = n /\ n \in Nat
         /\ Drop(wire, n) \in Seq(Incoming) /\ n + Len(Drop(wire, n)) = Len(wire) /\ Len(Drop(wire, n)) \in Nat
         /\ recvBuf \in Seq(Incoming) /\ Len(recvBuf) \in Nat
         /\ \A w : \A o \in Nat : Matches(wire, o, w) =>
              Matches(SubSeq(wire, 1, n), o, w) /\ Matches(Drop(wire, n), o + n, w)
<1> DEFINE block == SubSeq(wire, 1, n)
           rest == Drop(wire, n)
<1>1. wire \in Seq(Incoming) /\ recvBuf \in Seq(Incoming) /\ Len(wire) \in Nat /\ Len(recvBuf) \in Nat
  <2>1. wire \in Seq(Incoming) /\ recvBuf \in Seq(Incoming)
    BY DEF IInv, TypeOK
  <2> QED
    BY <2>1, LenProperties
<1>2. n \in 0..Len(wire) /\ n \in Nat /\ n + (Len(wire) - n) = Len(wire) /\ Len(wire) - n \in Nat
  BY <1>1, SMT
<1>3. /\ block \in Seq(Incoming) /\ Len(block) = n
      /\ rest \in Seq(Incoming) /\ Len(rest) = Len(wire) - n
  BY <1>1, <1>2, Parts
<1>4. \A w : \A o \in Nat : Matches(wire, o, w) => Matches(block, o, w) /\ Matches(rest, o + n, w)
  BY <1>1, <1>2, MatchesCut
<1> QED
  BY <1>1, <1>2, <1>3, <1>4

\* A block of the header, with what is left of earlier ones.
LEMMA HeaderArrived ==
  ASSUME IInv, sock = "connected", ~active, NEW n \in 1..Len(wire),
         NEW buf, buf = recvBuf \o SubSeq(wire, 1, n), NEW rest, rest = Drop(wire, n)
  PROVE  /\ answer \in Statuses
         /\ buf \in Seq(Incoming) /\ rest \in Seq(Incoming) /\ Len(buf) \in Nat /\ Len(rest) \in Nat
         /\ \E k \in 1..2, h \in {0, 2, 4} :
              /\ h <= 2 * k
              /\ headerLines = IF h = 0 THEN "none" ELSE answer
              /\ h + Len(buf) + Len(rest) = 2 * k + 2 + sent
              /\ Matches(buf, h, AnswerOf(k, answer))
              /\ Matches(rest, h + Len(buf), AnswerOf(k, answer))
<1> DEFINE block == SubSeq(wire, 1, n)
<1>1. /\ block \in Seq(Incoming) /\ Len(block) = n /\ n \in Nat
      /\ rest \in Seq(Incoming) /\ n + Len(rest) = Len(wire) /\ Len(rest) \in Nat
      /\ recvBuf \in Seq(Incoming) /\ Len(recvBuf) \in Nat
      /\ \A w : \A o \in Nat : Matches(wire, o, w) => Matches(block, o, w) /\ Matches(rest, o + n, w)
  BY BlockArrived
<1>2. wire # <<>>
  BY Nothing, SMT
<1>3. answer # "none" /\ \E k \in 1..2, h \in {0, 2, 4} : InAnswer(k, h)
  BY <1>2 DEF IInv, Reading
<1>4. answer \in Statuses
  BY <1>3 DEF IInv, TypeOK
<1>5. PICK k \in 1..2, h \in {0, 2, 4} : InAnswer(k, h)
  BY <1>3
<1> HIDE DEF block
<1>6. /\ h <= 2 * k /\ headerLines = (IF h = 0 THEN "none" ELSE answer)
      /\ h + Len(recvBuf) + Len(wire) = 2 * k + 2 + sent
      /\ Matches(recvBuf, h, AnswerOf(k, answer))
      /\ Matches(wire, h + Len(recvBuf), AnswerOf(k, answer))
  BY <1>5 DEF InAnswer
<1>7. h \in Nat /\ h + Len(recvBuf) \in Nat
  BY <1>1, SMT
<1>8. /\ Matches(block, h + Len(recvBuf), AnswerOf(k, answer))
      /\ Matches(rest, h + Len(recvBuf) + n, AnswerOf(k, answer))
  BY <1>1, <1>6, <1>7
<1>9. /\ recvBuf \o block \in Seq(Incoming) /\ Len(recvBuf \o block) = Len(recvBuf) + Len(block)
      /\ Matches(recvBuf \o block, h, AnswerOf(k, answer))
  BY <1>1, <1>6, <1>7, <1>8, MatchesJoined
<1>10. buf = recvBuf \o block
  BY DEF block
<1>11. /\ Len(buf) \in Nat /\ h + Len(recvBuf) + n = h + Len(buf)
       /\ h + Len(buf) + Len(rest) = h + Len(recvBuf) + Len(wire)
  <2>1. Len(buf) = Len(recvBuf) + n /\ n + Len(rest) = Len(wire)
    BY <1>1, <1>9, <1>10
  <2>2. \A r \in Nat : r + n \in Nat /\ h + r + n = h + (r + n)
    BY <1>1, SMT
  <2>3. \A r \in Nat : \A l \in Nat : h + (r + n) + l = h + r + (n + l)
    BY <1>1, SMT
  <2>4. Len(buf) \in Nat /\ h + Len(recvBuf) + n = h + Len(buf)
    BY <1>1, <2>1, <2>2
  <2>5. h + (Len(recvBuf) + n) + Len(rest) = h + Len(recvBuf) + (n + Len(rest))
    BY <1>1, <2>3
  <2> QED
    BY <2>1, <2>4, <2>5
<1> QED
  BY <1>1, <1>4, <1>6, <1>8, <1>9, <1>10, <1>11

\* The header goes on.
LEMMA ReadHeaderIInv ==
  ASSUME IInv, sock = "connected", ~active, ~inConnected, NEW n \in 1..Len(wire),
         ReadHeader(recvBuf \o SubSeq(wire, 1, n)), wire' = Drop(wire, n), UNCHANGED <<asked, answer, sent, gone>>
  PROVE  IInv'
<1> DEFINE buf == recvBuf \o SubSeq(wire, 1, n)
           e == 2 * (Len(buf) \div 2)
<1>1. /\ answer \in Statuses
      /\ buf \in Seq(Incoming) /\ wire' \in Seq(Incoming) /\ Len(buf) \in Nat /\ Len(wire') \in Nat
      /\ \E k \in 1..2, h \in {0, 2, 4} :
           /\ h <= 2 * k
           /\ headerLines = IF h = 0 THEN "none" ELSE answer
           /\ h + Len(buf) + Len(wire') = 2 * k + 2 + sent
           /\ Matches(buf, h, AnswerOf(k, answer))
           /\ Matches(wire', h + Len(buf), AnswerOf(k, answer))
  BY HeaderArrived
<1>2. PICK k \in 1..2, h \in {0, 2, 4} :
           /\ h <= 2 * k
           /\ headerLines = IF h = 0 THEN "none" ELSE answer
           /\ h + Len(buf) + Len(wire') = 2 * k + 2 + sent
           /\ Matches(buf, h, AnswerOf(k, answer))
           /\ Matches(wire', h + Len(buf), AnswerOf(k, answer))
  BY <1>1
<1>3. /\ HeaderEnds(buf) = {} /\ recvBuf' = Drop(buf, Extent(buf)) /\ headerLines' = FirstLine(buf)
      /\ UNCHANGED <<sockVars, toWrite, active, inHeader, inConnected, histVars>>
  BY DEF ReadHeader
<1> HIDE DEF buf
<1>4. Extent(buf) = e /\ h + Len(buf) < 2 * k + 2
  BY <1>1, <1>2, <1>3, ExtentFound
<1>5. headerLines' = IF h = 0 /\ Len(buf) < 2 THEN "none" ELSE answer
  BY <1>1, <1>2, <1>3, FirstLineFound
<1>6. /\ e \in 0..Len(buf) /\ e \in Nat /\ h + e \in {0, 2, 4} /\ h + e <= 2 * k
      /\ h + e = 0 <=> h = 0 /\ Len(buf) < 2
      /\ h \in Nat
  <2>1. \A l \in Nat : h + l < 2 * k + 2 =>
          /\ 2 * (l \div 2) \in 0..l /\ 2 * (l \div 2) \in Nat
          /\ h + 2 * (l \div 2) \in {0, 2, 4} /\ h + 2 * (l \div 2) <= 2 * k
          /\ h + 2 * (l \div 2) = 0 <=> h = 0 /\ l < 2
    BY SMT
  <2>2. h \in Nat
    BY SMT
  <2> QED
    BY <1>1, <1>4, <2>1, <2>2
<1> HIDE DEF e
<1>7. /\ recvBuf' \in Seq(Incoming) /\ Len(recvBuf') = Len(buf) - e
      /\ Matches(recvBuf', h + e, AnswerOf(k, answer))
  <2>1. recvBuf' = Drop(buf, e)
    BY <1>3, <1>4
  <2> QED
    BY <1>1, <1>2, <1>6, <2>1, Parts, MatchesCut, ZenonT(60)
<1>8. /\ h + e + Len(recvBuf') = h + Len(buf)
      /\ h + e + Len(recvBuf') + Len(wire') = 2 * k + 2 + sent
  <2>1. h + e + (Len(buf) - e) = h + Len(buf)
    BY <1>1, <1>6, SMT
  <2> QED
    BY <1>2, <1>7, <2>1
<1>9. TypeOK'
  BY <1>1, <1>3, <1>5, <1>7 DEF IInv, TypeOK, sockVars, histVars
<1>10. PICK g \in {0, 2, 4} : g = h + e
  BY <1>6
<1>10a. InAnswer(k, g)'
  <2>1. headerLines' = IF g = 0 THEN "none" ELSE answer
    BY <1>5, <1>6, <1>10
  <2>2. g <= 2 * k /\ g + Len(recvBuf') = h + Len(buf) /\ g + Len(recvBuf') + Len(wire') = 2 * k + 2 + sent
    BY <1>6, <1>8, <1>10
  <2>3. Matches(recvBuf', g, AnswerOf(k, answer)) /\ Matches(wire', g + Len(recvBuf'), AnswerOf(k, answer))
    BY <1>2, <1>7, <1>10, <2>2
  <2>4. answer' = answer /\ sent' = sent /\ AnswerOf(k, answer') = AnswerOf(k, answer)
    OBVIOUS
  <2> QED
    BY <2>1, <2>2, <2>3, <2>4, Zenon DEF InAnswer, Matches
<1>11. Reading'
  <2>1. answer' # "none"
    BY <1>1, UnitsDiffer
  <2>2. (\E m \in 1..2, x \in {0, 2, 4} : InAnswer(m, x))'
    BY <1>10a
  <2> QED
    BY <1>3, <2>1, <2>2 DEF IInv, Reading, sockVars, histVars
<1> QED
  BY <1>3, <1>9, <1>11 DEF IInv, Fresh, Counted, Open, InSlot, sockVars, histVars

\* What is behind the header is the data of the tunnel.
LEMMA BehindHeader ==
  ASSUME NEW k \in 1..2, NEW status, NEW s \in Seq(Incoming), NEW o \in Nat,
         Matches(s, 2 * k + 2 + o, AnswerOf(k, status))
  PROVE  Matches(s, o, Tunnel)
<1>1. ASSUME NEW i \in 1..Len(s) PROVE s[i] = Tunnel[o + i]
  <2> DEFINE j == 2 * k + 2 + o + i
  <2>1. j \in Nat /\ j > 2 * k + 2 /\ j - (2 * k + 2) = o + i /\ o + i \in Nat
    BY LenProperties, SMT
  <2>2. s[i] = AnswerOf(k, status)[j]
    BY <1>1 DEF Matches
  <2> HIDE DEF j
  <2> QED
    BY <2>1, <2>2 DEF AnswerOf, Tunnel
<1> QED
  BY <1>1 DEF Matches

\* The header has come: the stream is open, or the proxy refuses.
LEMMA ReadStatusIInv ==
  ASSUME IInv, sock = "connected", ~active, ~inConnected, NEW n \in 1..Len(wire),
         ReadStatus(recvBuf \o SubSeq(wire, 1, n)), wire' = Drop(wire, n), UNCHANGED <<asked, answer, sent, gone>>
  PROVE  IInv'
<1> DEFINE buf == recvBuf \o SubSeq(wire, 1, n)
<1>1. /\ answer \in Statuses
      /\ buf \in Seq(Incoming) /\ wire' \in Seq(Incoming) /\ Len(buf) \in Nat /\ Len(wire') \in Nat
      /\ \E k \in 1..2, h \in {0, 2, 4} :
           /\ h <= 2 * k
           /\ headerLines = IF h = 0 THEN "none" ELSE answer
           /\ h + Len(buf) + Len(wire') = 2 * k + 2 + sent
           /\ Matches(buf, h, AnswerOf(k, answer))
           /\ Matches(wire', h + Len(buf), AnswerOf(k, answer))
  BY HeaderArrived
<1>2. PICK k \in 1..2, h \in {0, 2, 4} :
           /\ h <= 2 * k
           /\ headerLines = IF h = 0 THEN "none" ELSE answer
           /\ h + Len(buf) + Len(wire') = 2 * k + 2 + sent
           /\ Matches(buf, h, AnswerOf(k, answer))
           /\ Matches(wire', h + Len(buf), AnswerOf(k, answer))
  BY <1>1
<1>3. /\ HeaderEnds(buf) # {} /\ inHeader' = FALSE /\ headerLines' = "none"
      /\ UNCHANGED <<toWrite, calls, got, wrote, reported>>
  BY DEF ReadStatus
<1>4. \/ /\ FirstLine(buf) = "200" /\ recvBuf' = Drop(buf, Extent(buf))
         /\ active' = TRUE /\ inConnected' = TRUE /\ outcome' = "open" /\ UNCHANGED sockVars
      \/ /\ FirstLine(buf) # "200" /\ recvBuf' = <<>>
         /\ active' = FALSE /\ CloseSock /\ outcome' = "failed" /\ UNCHANGED inConnected
  BY DEF ReadStatus
<1> HIDE DEF buf
<1>5. CASE FirstLine(buf) # "200"
  <2>1. /\ recvBuf' = <<>> /\ active' = FALSE /\ outcome' = "failed" /\ inConnected' = inConnected
        /\ unsent' = unsent
        /\ sock' = IF unsent # <<>> THEN "closing" ELSE "idle"
    BY <1>4, <1>5 DEF CloseSock
  <2>2. TypeOK'
    BY <1>1, <1>3, <2>1, Nothing DEF IInv, TypeOK
  <2>3. Counted'
    BY <1>3, <2>1 DEF IInv, Counted
  <2> QED
    BY <1>3, <2>1, <2>2, <2>3, Nothing DEF IInv, Fresh, Reading, Open, InSlot
<1>6. CASE FirstLine(buf) = "200"
  <2> DEFINE e == 2 * k + 2 - h
  <2>1. /\ recvBuf' = Drop(buf, Extent(buf)) /\ active' = TRUE /\ inConnected' = TRUE
        /\ outcome' = "open" /\ sock' = sock /\ unsent' = unsent
    BY <1>4, <1>6 DEF sockVars
  <2>2. Extent(buf) = e /\ e <= Len(buf)
    BY <1>1, <1>2, <1>3, ExtentFound
  <2>3. e \in 0..Len(buf) /\ e \in Nat /\ h \in Nat /\ h + e = 2 * k + 2 + 0 /\ e >= 2 /\ 0 \in Nat
    <3>1. e \in Nat /\ h \in Nat /\ h + e = 2 * k + 2 + 0 /\ e >= 2 /\ 0 \in Nat
      BY <1>2, SMT
    <3>2. \A l \in Nat : e \in Nat /\ e <= l => e \in 0..l
      BY SMT
    <3> QED
      BY <1>1, <2>2, <3>1, <3>2
  <2>4. answer = "200"
    <3>1. \A l \in Nat : 2 <= e /\ e <= l => ~(l < 2)
      BY <2>3, SMT
    <3>2. ~(Len(buf) < 2)
      <4>1. 2 <= e
        BY <2>3, SMT
      <4> QED
        BY <1>1, <2>2, <3>1, <4>1
    <3> QED
      BY <1>1, <1>2, <1>6, <3>2, FirstLineFound
  <2> HIDE DEF e
  <2>5. /\ recvBuf' \in Seq(Incoming) /\ Len(recvBuf') = Len(buf) - e
        /\ Matches(recvBuf', 2 * k + 2 + 0, AnswerOf(k, answer))
    <3>1. recvBuf' = Drop(buf, e)
      BY <2>1, <2>2
    <3> QED
      BY <1>1, <1>2, <2>3, <3>1, Parts, MatchesCut
  <2>6. Matches(recvBuf', 0, Tunnel)
    BY <2>3, <2>5, BehindHeader
  <2>7. Len(recvBuf') \in Nat /\ h + Len(buf) = 2 * k + 2 + Len(recvBuf') /\ Len(recvBuf') + Len(wire') = sent
    <3>1. \A l, p \in Nat : e \in 0..l /\ h + l + p = 2 * k + 2 + sent =>
             l - e \in Nat /\ h + l = 2 * k + 2 + (l - e) /\ (l - e) + p = sent
      <4>1. sent \in Nat /\ h + e = 2 * k + 2
        BY <2>3, HttpConnectAssumption, SMT DEF IInv, TypeOK
      <4> QED
        BY <2>3, <4>1, SMT
    <3>2. /\ Len(buf) - e \in Nat /\ h + Len(buf) = 2 * k + 2 + (Len(buf) - e)
          /\ (Len(buf) - e) + Len(wire') = sent
      BY <1>1, <1>2, <2>3, <3>1
    <3> QED
      BY <2>5, <3>2
  <2>8. Matches(wire', Len(recvBuf'), Tunnel)
    BY <1>1, <1>2, <2>7, BehindHeader
  <2>9. got = <<>> /\ Len(got) = 0 /\ Matches(got, 0, Tunnel)
    BY Nothing DEF IInv, Reading
  <2>10. 0 + Len(recvBuf') = Len(recvBuf') /\ 0 + Len(recvBuf') + Len(wire') = sent
    <3>1. \A l \in Nat : 0 + l = l
      BY SMT
    <3> QED
      BY <2>7, <3>1
  <2>11. recvBuf' \in Seq(Datum)
    <3>1. \A l, p \in Nat : l + p = sent => 0 + l <= sent
      BY SMT
    <3>2. sent \in 0..MaxData /\ 0 + Len(recvBuf') <= sent
      BY <1>1, <2>7, <3>1 DEF IInv, TypeOK
    <3> QED
      BY <2>3, <2>5, <2>6, <3>2, TunnelData
  <2>12. TypeOK'
    BY <1>1, <1>3, <2>1, <2>5 DEF IInv, TypeOK
  <2>13. Open'
    <3>1. got' = got /\ answer' = answer /\ sent' = sent
      BY <1>3
    <3>2. /\ Len(got') + Len(recvBuf') + Len(wire') = sent'
          /\ Matches(got', 0, Tunnel)
          /\ Matches(recvBuf', Len(got'), Tunnel)
          /\ Matches(wire', Len(got') + Len(recvBuf'), Tunnel)
      BY <2>6, <2>8, <2>9, <2>10, <3>1
    <3> QED
      BY <2>1, <2>4, <3>1, <3>2 DEF Open, Matches, Tunnel
  <2>14. Counted'
    BY <1>3, <2>1 DEF IInv, Counted
  <2> QED
    BY <2>1, <2>11, <2>12, <2>13, <2>14 DEF IInv, Fresh, Reading, InSlot
<1> QED
  BY <1>5, <1>6

\* A block of the tunnel.
LEMMA TunnelIIInv ==
  ASSUME IInv, sock = "connected", active, ~inConnected, NEW n \in 1..Len(wire),
         got' = got \o SubSeq(wire, 1, n), wire' = Drop(wire, n),
         UNCHANGED <<sockVars, streamVars, inConnected, calls, outcome, wrote, reported, asked, answer, sent, gone>>
  PROVE  IInv'
<1> DEFINE block == SubSeq(wire, 1, n)
           rest == Drop(wire, n)
           g == Len(got)
<1>1. /\ block \in Seq(Incoming) /\ Len(block) = n /\ n \in Nat
      /\ rest \in Seq(Incoming) /\ n + Len(rest) = Len(wire) /\ Len(rest) \in Nat
      /\ \A w : \A o \in Nat : Matches(wire, o, w) => Matches(block, o, w) /\ Matches(rest, o + n, w)
  BY BlockArrived
<1> HIDE DEF block, rest
<1>2. recvBuf = <<>> /\ Len(recvBuf) = 0
  BY Nothing DEF IInv, Open
<1>3. /\ answer = "200" /\ g + 0 + Len(wire) = sent
      /\ Matches(got, 0, Tunnel) /\ Matches(wire, g + 0, Tunnel)
  BY <1>2 DEF IInv, Open
<1>4. got \in Seq(Datum) /\ g \in Nat /\ sent \in 0..MaxData
  BY LenProperties DEF IInv, TypeOK, Datum
<1> HIDE DEF g
<1>5. /\ g + 0 = g /\ 0 + g = g /\ 0 \in Nat /\ g + n + Len(rest) = sent /\ g + n <= sent
      /\ g + n + 0 + Len(rest) = sent /\ g + n + 0 = g + n
  <2>1. n \in Nat /\ sent \in Nat
    BY <1>1, <1>4, HttpConnectAssumption, SMT
  <2>2. \A x \in Nat : /\ x + 0 = x /\ 0 + x = x /\ 0 \in Nat /\ x + n + 0 = x + n
                      /\ \A r \in Nat : x + 0 + (n + r) = sent =>
                           x + n + r = sent /\ x + n <= sent /\ x + n + 0 + r = sent
    BY <2>1, SMT
  <2>3. g + 0 + (n + Len(rest)) = sent
    BY <1>1, <1>3
  <2> QED
    BY <1>1, <1>4, <2>2, <2>3
<1>6. Matches(block, g, Tunnel) /\ Matches(rest, g + n, Tunnel)
  BY <1>1, <1>3, <1>4, <1>5
<1>7. block \in Seq(Datum)
  BY <1>1, <1>4, <1>5, <1>6, TunnelData
<1>8. got' \in Seq(Datum) /\ Len(got') = g + n /\ Matches(got', 0, Tunnel)
  <2>1. Matches(block, 0 + Len(got), Tunnel) /\ got' = got \o block
    BY <1>5, <1>6 DEF block, g
  <2>2. Len(got) = g
    BY DEF g
  <2>3. /\ got \o block \in Seq(Datum) /\ Len(got \o block) = Len(got) + Len(block)
        /\ Matches(got \o block, 0, Tunnel)
    BY <1>3, <1>4, <1>5, <1>7, <2>1, MatchesJoined
  <2> QED
    BY <1>1, <2>1, <2>2, <2>3
<1>9. wire' = rest
  BY DEF rest
<1>10. TypeOK'
  BY <1>1, <1>8, <1>9 DEF IInv, TypeOK, sockVars, streamVars, Datum
<1>11. Open'
  <2>1. recvBuf' = <<>> /\ Len(recvBuf') = 0 /\ Matches(recvBuf', Len(got'), Tunnel)
    BY <1>2, Nothing DEF streamVars
  <2>2. Len(got') + Len(recvBuf') + Len(wire') = sent /\ Matches(wire', Len(got') + Len(recvBuf'), Tunnel)
    BY <1>5, <1>6, <1>8, <1>9, <2>1
  <2>3. sock' = sock /\ answer' = answer /\ sent' = sent
    BY DEF sockVars
  <2> QED
    BY <1>3, <1>8, <2>1, <2>2, <2>3 DEF Open, Matches, Tunnel
<1> QED
  BY <1>2, <1>10, <1>11, Nothing DEF IInv, Fresh, Reading, Counted, InSlot, sockVars, streamVars

LEMMA SockReadyReadIInv ==
  ASSUME IInv, NEW n \in Nat, SockReadyRead(n)
  PROVE  IInv'
<1>1. /\ sock = "connected" /\ ~inConnected /\ n \in 1..Len(wire) /\ wire' = Drop(wire, n)
      /\ UNCHANGED <<asked, answer, sent, gone>>
  BY DEF SockReadyRead, Loop
<1>2. CASE ~active /\ ReadHeader(recvBuf \o SubSeq(wire, 1, n))
  BY <1>1, <1>2, ReadHeaderIInv
<1>3. CASE ~active /\ ReadStatus(recvBuf \o SubSeq(wire, 1, n))
  BY <1>1, <1>3, ReadStatusIInv
<1>4. CASE /\ active
           /\ got' = got \o SubSeq(wire, 1, n)
           /\ UNCHANGED <<sockVars, streamVars, inConnected, calls, outcome, wrote, reported>>
  BY <1>1, <1>4, TunnelIIInv
<1> QED
  BY <1>2, <1>3, <1>4 DEF SockReadyRead

\* The proxy answers.
LEMMA AnswerIInv ==
  ASSUME IInv, NEW status \in Statuses, NEW field \in BOOLEAN, NEW n \in 0..MaxData,
         Answer(status, field, n)
  PROVE  IInv'
<1>1. PICK k \in 1..2 : /\ wire' \in Seq(Incoming) /\ Len(wire') = 2 * k + 2 + n
                        /\ Matches(wire', 0, AnswerOf(k, status))
  BY AnswerMatches DEF Answer
<1>2. /\ answer = "none" /\ answer' = status /\ sent' = n /\ answer' # "none"
      /\ UNCHANGED <<sockVars, streamVars, inConnected, histVars, asked, gone>>
  BY UnitsDiffer DEF Answer
<1>3. sock \in {"connected", "closing"} /\ ~active
  <2>1. sock # "connecting"
    BY SMT DEF IInv, Fresh, Answer
  <2> QED
    BY <1>2, <2>1 DEF IInv, TypeOK, Open, Answer
<1>4. TypeOK'
  BY <1>1, <1>2 DEF IInv, TypeOK, sockVars, streamVars, histVars
<1>5. Reading'
  <2> SUFFICES ASSUME sock = "connected" PROVE Reading'
    BY <1>2 DEF Reading, sockVars
  <2>1. ~inConnected /\ got = <<>> /\ recvBuf = <<>> /\ headerLines = "none"
    BY <1>2, <1>3 DEF IInv, Reading
  <2>2. 0 \in {0, 2, 4} /\ 0 <= 2 * k /\ 0 + 0 = 0 /\ 0 + 0 + (2 * k + 2 + n) = 2 * k + 2 + n
    BY HttpConnectAssumption, SMT
  <2>3. InAnswer(k, 0)'
    <3>1. headerLines' = "none" /\ recvBuf' = <<>> /\ Len(recvBuf') = 0
      BY <1>2, <2>1, Nothing DEF streamVars
    <3>2. Matches(recvBuf', 0, AnswerOf(k, answer'))
      BY <3>1, Nothing
    <3>3. Matches(wire', 0 + Len(recvBuf'), AnswerOf(k, answer'))
      BY <1>1, <1>2, <2>2, <3>1
    <3>4. 0 + Len(recvBuf') + Len(wire') = 2 * k + 2 + sent'
      BY <1>1, <1>2, <2>2, <3>1
    <3> QED
      BY <2>2, <3>1, <3>2, <3>3, <3>4 DEF InAnswer, Matches, AnswerOf
  <2>4. (\E m \in 1..2, x \in {0, 2, 4} : InAnswer(m, x))'
    BY <2>2, <2>3
  <2> QED
    BY <1>2, <1>3, <2>1, <2>4 DEF Reading, sockVars, streamVars, histVars
<1> QED
  BY <1>2, <1>3, <1>4, <1>5 DEF IInv, Fresh, Counted, Open, InSlot, sockVars, streamVars, histVars

\* The proxy relays a byte.
LEMMA RelayIInv == IInv /\ Relay => IInv'
<1> SUFFICES ASSUME IInv, Relay PROVE IInv'
  OBVIOUS
<1> DEFINE c == sent + 1
           l == Len(wire)
<1>1. /\ answer = "200" /\ sent' = c /\ wire' = Append(wire, Data(c))
      /\ UNCHANGED <<sockVars, streamVars, inConnected, histVars, asked, answer, gone>>
  BY DEF Relay
<1>2. sent \in Nat /\ c \in 1..MaxData /\ c \in 0..MaxData
  BY HttpConnectAssumption, SMT DEF IInv, TypeOK, Relay
<1>3. wire \in Seq(Incoming) /\ l \in Nat /\ got \in Seq(Datum) /\ Len(got) \in Nat /\ recvBuf \in Seq(Incoming)
      /\ Len(recvBuf) \in Nat
  <2>1. wire \in Seq(Incoming) /\ got \in Seq(Datum) /\ recvBuf \in Seq(Incoming)
    BY DEF IInv, TypeOK, Datum
  <2> QED
    BY <2>1, LenProperties
<1>4. /\ wire' \in Seq(Incoming) /\ Len(wire') = l + 1
      /\ \A i \in 1..l : wire'[i] = wire[i]
      /\ wire'[l + 1] = Data(c)
  <2>1. Data(c) \in Incoming
    BY <1>2, UnitsDiffer
  <2> QED
    BY <1>1, <1>3, <2>1, AppendProperties
<1> HIDE DEF c, l
<1>5. ASSUME NEW o, NEW w, Matches(wire, o, w), w[o + (l + 1)] = Data(c)
      PROVE  Matches(wire', o, w)
  <2>1. \A i \in 1..(l + 1) : i \in 1..l \/ i = l + 1
    BY <1>3, SMT
  <2> QED
    BY <1>4, <1>5, <2>1 DEF Matches, l
<1>6. sock # "connecting"
  BY <1>1 DEF IInv, Fresh
<1>7. TypeOK'
  BY <1>1, <1>2, <1>4 DEF IInv, TypeOK, sockVars, streamVars, histVars
<1>8. Reading'
  <2> SUFFICES ASSUME sock = "connected", ~active PROVE Reading'
    BY <1>1 DEF Reading, sockVars, streamVars
  <2>1. PICK k \in 1..2, h \in {0, 2, 4} : InAnswer(k, h)
    BY <1>1 DEF IInv, Reading
  <2>2. /\ h <= 2 * k /\ headerLines = (IF h = 0 THEN "none" ELSE answer)
        /\ h + Len(recvBuf) + l = 2 * k + 2 + sent
        /\ Matches(recvBuf, h, AnswerOf(k, answer))
        /\ Matches(wire, h + Len(recvBuf), AnswerOf(k, answer))
    BY <2>1 DEF InAnswer, l
  <2>3. /\ h + Len(recvBuf) + (l + 1) = 2 * k + 2 + c
        /\ 2 * k + 2 + c \in Nat /\ 2 * k + 2 + c > 2 * k + 2 /\ (2 * k + 2 + c) - (2 * k + 2) = c
    BY <1>2, <1>3, <2>2, SMT DEF c
  <2>4. AnswerOf(k, answer)[h + Len(recvBuf) + (l + 1)] = Data(c)
    BY <2>3 DEF AnswerOf
  <2>5. Matches(wire', h + Len(recvBuf), AnswerOf(k, answer))
    BY <1>5, <2>2, <2>4
  <2>6. headerLines' = headerLines /\ recvBuf' = recvBuf /\ answer' = answer
    BY <1>1 DEF streamVars
  <2>7. h + Len(recvBuf') + Len(wire') = 2 * k + 2 + sent'
    BY <1>1, <1>4, <2>3, <2>6
  <2>8. InAnswer(k, h)'
    BY <2>2, <2>5, <2>6, <2>7, ZenonT(60) DEF InAnswer, Matches, AnswerOf
  <2> QED
    BY <1>1, <2>8 DEF IInv, Reading, sockVars, streamVars, histVars
<1>9. Open'
  <2> SUFFICES ASSUME active PROVE Open'
    BY <1>1 DEF Open, streamVars
  <2> DEFINE o == Len(got) + Len(recvBuf)
  <2>1. /\ sock \in {"connected", "closing"}
        /\ recvBuf # <<>> => inConnected
        /\ o + l = sent
        /\ Matches(got, 0, Tunnel) /\ Matches(recvBuf, Len(got), Tunnel) /\ Matches(wire, o, Tunnel)
    BY DEF IInv, Open, l
  <2>2. o \in Nat /\ o + (l + 1) = c
    BY <1>2, <1>3, <2>1, SMT DEF c
  <2> HIDE DEF o
  <2>3. Matches(wire', o, Tunnel)
    <3>1. Tunnel[o + (l + 1)] = Data(c)
      BY <1>2, <2>2 DEF Tunnel
    <3> QED
      BY <1>5, <2>1, <3>1
  <2>4. sock' = sock /\ recvBuf' = recvBuf /\ got' = got /\ answer' = answer /\ inConnected' = inConnected
    BY <1>1 DEF sockVars, streamVars, histVars
  <2>5. Len(got') + Len(recvBuf') + Len(wire') = sent' /\ Matches(wire', Len(got') + Len(recvBuf'), Tunnel)
    BY <1>1, <1>4, <2>2, <2>3, <2>4 DEF o
  <2>6. Matches(got', 0, Tunnel) /\ Matches(recvBuf', Len(got'), Tunnel)
    BY <2>1, <2>4
  <2>7. sock' \in {"connected", "closing"} /\ answer' = "200" /\ (recvBuf' # <<>> => inConnected')
    BY <1>1, <2>1, <2>4
  <2> QED
    BY <2>5, <2>6, <2>7 DEF Open, Matches, Tunnel
<1> QED
  BY <1>1, <1>6, <1>7, <1>8, <1>9 DEF IInv, Fresh, Counted, InSlot, sockVars, streamVars, histVars

LEMMA LeaveIInv == IInv /\ Leave => IInv'
BY DEF IInv, TypeOK, Fresh, Reading, Counted, Open, InSlot, InAnswer, Matches, Leave, sockVars, streamVars, histVars

LEMMA NextIInv == IInv /\ [Next]_vars => IInv'
<1> SUFFICES ASSUME IInv, [Next]_vars PROVE IInv'
  OBVIOUS
<1>1. CASE UNCHANGED vars
  BY <1>1 DEF IInv, TypeOK, Fresh, Reading, Counted, Open, InSlot, InAnswer, Matches,
              vars, sockVars, streamVars, histVars, proxyVars
<1>2. CASE Arrival
  <2>1. \A n \in 1..(MaxData + 6) : n \in Nat
    BY SMT
  <2> QED
    BY <1>2, <2>1, SockReadyReadIInv DEF Arrival
<1>3. CASE Sending
  <2>1. \A n \in 1..(MaxData + 2) : n \in Nat
    BY SMT
  <2> QED
    BY <1>3, <2>1, SockBytesWrittenIInv DEF Sending
<1>4. CASE Reply
  BY <1>4, AnswerIInv DEF Reply
<1> QED
  BY <1>1, <1>2, <1>3, <1>4, ConnectToHostIInv, WriteIInv, CloseIInv, SockConnectedIInv, ConnectedReturnsIInv,
     SockConnectionClosedIInv, SockErrorIInv, RelayIInv, LeaveIInv DEF Next

-----------------------------------------------------------------------------
(* The theorems.                                                           *)

\* What the stream, its socket and the proxy know of each other, in every
\* reachable state, also while the slot of connected() runs and calls back.
THEOREM InductiveInvariant == Spec => []IInv
<1>1. Init => IInv
  BY InitIInv
<1>2. IInv /\ [Next]_vars => IInv'
  BY NextIInv
<1> QED
  BY <1>1, <1>2, PTL DEF Spec

\* The state of the stream stays within its types.
THEOREM TypeCorrect == Spec => []TypeOK
<1>1. IInv => TypeOK
  BY DEF IInv
<1> QED
  BY <1>1, InductiveInvariant, PTL

\* sock_readyRead() puts the lines of the header together however they are cut
\* into blocks, and what the program reads behind them is what the proxy sent.
THEOREM TunnelIsIntact == Spec => []TunnelIntact
<1>1. IInv => TunnelIntact
  <2> SUFFICES ASSUME IInv, active PROVE TunnelIntact
    BY DEF TunnelIntact
  <2> DEFINE s == got \o recvBuf
             t == s \o wire
  <2>1. got \in Seq(Incoming) /\ recvBuf \in Seq(Incoming) /\ wire \in Seq(Incoming)
    <3>1. got \in Seq(Datum) /\ Datum \subseteq Incoming
      BY UnitsDiffer DEF IInv, TypeOK, Datum
    <3> QED
      BY <3>1, SeqMonotonic DEF IInv, TypeOK
  <2>2. /\ answer = "200" /\ (recvBuf # <<>> => inConnected)
        /\ Len(got) + Len(recvBuf) + Len(wire) = sent
        /\ Matches(got, 0, Tunnel) /\ Matches(recvBuf, Len(got), Tunnel)
        /\ Matches(wire, Len(got) + Len(recvBuf), Tunnel)
    BY DEF IInv, Open
  <2>3. 0 \in Nat /\ Len(got) \in Nat /\ Len(recvBuf) \in Nat /\ \A n \in Nat : 0 + n = n
    BY <2>1, LenProperties, SMT
  <2>4. s \in Seq(Incoming) /\ Len(s) = Len(got) + Len(recvBuf) /\ Matches(s, 0, Tunnel)
    BY <2>1, <2>2, <2>3, MatchesJoined
  <2> HIDE DEF s
  <2>5. t \in Seq(Incoming) /\ Len(t) = Len(s) + Len(wire) /\ Matches(t, 0, Tunnel)
    <3>1. Len(s) \in Nat
      BY <2>4, LenProperties
    <3>2. Matches(wire, 0 + Len(s), Tunnel)
      BY <2>2, <2>3, <2>4, <3>1
    <3> QED
      BY <2>1, <2>3, <2>4, <3>2, MatchesJoined
  <2>6. t = [i \in 1..sent |-> Data(i)]
    <3> HIDE DEF t
    <3>1. Len(t) = sent /\ t = [i \in 1..Len(t) |-> t[i]]
      BY <2>2, <2>4, <2>5, LenProperties
    <3>2. ASSUME NEW i \in 1..Len(t) PROVE t[i] = Data(i)
      <4>1. i \in Nat /\ 0 + i = i
        BY <2>3, SMT
      <4> QED
        BY <2>5, <4>1 DEF Matches, Tunnel
    <3> QED
      BY <3>1, <3>2
  <2> QED
    BY <2>2, <2>6 DEF TunnelIntact, s, t
<1> QED
  BY <1>1, InductiveInvariant, PTL

\* sock_bytesWritten() hides the units of the request, which go through the same
\* socket as the user's bytes, and no others.
THEOREM UserDataIsCounted == Spec => []BytesWrittenCountsUserData
<1>1. IInv => BytesWrittenCountsUserData
  <2> SUFFICES ASSUME IInv, active
               PROVE  reported + Cardinality({i \in DOMAIN unsent : IsUser(unsent[i])}) = wrote
    BY DEF BytesWrittenCountsUserData
  <2> DEFINE l == Len(unsent)
  <2>1. /\ \A i \in 1..l : IsUser(unsent[i]) <=> i > toWrite
        /\ l >= toWrite /\ reported + l = wrote + toWrite
    BY DEF IInv, Open, Counted
  <2>2. l \in Nat /\ toWrite \in Nat /\ reported \in Nat /\ wrote \in Nat /\ DOMAIN unsent = 1..l
    <3>1. l \in Nat /\ DOMAIN unsent = 1..l
      BY LenProperties DEF IInv, TypeOK
    <3>2. toWrite \in 0..2 /\ reported \in 0..MaxData /\ wrote \in 0..MaxData
      BY DEF IInv, TypeOK
    <3> QED
      BY <3>1, <3>2, HttpConnectAssumption, SMT
  <2> HIDE DEF l
  <2>3. {i \in DOMAIN unsent : IsUser(unsent[i])} = (toWrite + 1)..l
    <3>1. \A i : i \in (toWrite + 1)..l <=> i \in 1..l /\ i > toWrite
      BY <2>2, SMT
    <3> QED
      BY <2>1, <2>2, <3>1
  <2>4. Cardinality((toWrite + 1)..l) = l - toWrite
    <3>1. /\ toWrite + 1 \in Int /\ l \in Int
          /\ (IF toWrite + 1 > l THEN 0 ELSE l - (toWrite + 1) + 1) = l - toWrite
      BY <2>1, <2>2, SMT
    <3> QED
      BY <3>1, FS_Interval
  <2>5. reported + (l - toWrite) = wrote
    BY <2>1, <2>2, SMT
  <2> QED
    BY <2>3, <2>4, <2>5
<1> QED
  BY <1>1, InductiveInvariant, PTL

=============================================================================
