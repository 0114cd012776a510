----------------------------- MODULE HttpPollProofs -----------------------------
(***************************************************************************)
(* Proofs about HttpPoll, for chains of any length, any number of bytes    *)
(* and sessions, and blocks cut anywhere: the server takes every packet,   *)
(* what is written goes out once, and what it sends is delivered once.     *)
(*                                                                         *)
(* They hold for a program that may call close() in any slot, and write()  *)
(* in any but those of syncStarted() and syncFinished(), in which it would *)
(* start a second packet on top of the one that is being made or counted.  *)
(***************************************************************************)
EXTENDS HttpPoll, SequenceTheorems, WellFoundedInduction, TLAPS

-----------------------------------------------------------------------------
(* The stack of handlers.                                                  *)

\* Where the innermost handler is, and the outermost.
TopOf(s)  == IF s = <<>> THEN "loop" ELSE Last(s).at
BaseOf(s) == IF s = <<>> THEN "loop" ELSE Head(s).at

top  == TopOf(stack)
base == BaseOf(stack)

\* A packet has its keys and is not posted yet.
Pending == top \in {"connecting", "syncStarted"}

\* One handler at most, and a second that write() has started in its slot.
Nested(f, g) == f.at \in {"connected", "bytesWritten", "readyRead"} /\ g.at = "syncStarted"

Shaped(s) ==
  \/ s = <<>>
  \/ \E f \in Frames : s = <<f>>
  \/ \E f, g \in Frames : s = <<f, g>> /\ Nested(f, g)

\* The sequences of one and of two handlers.
LEMMA OneFrame ==
  ASSUME NEW f \in Frames
  PROVE  /\ <<f>> \in Seq(Frames) /\ <<f>> # <<>> /\ Len(<<f>>) = 1
         /\ Last(<<f>>) = f /\ Head(<<f>>) = f /\ Front(<<f>>) = <<>>
         /\ Append(<<>>, f) = <<f>>
<1>1. SubSeq(<<f>>, 1, 1 - 1) = <<>>
  BY SubSeqEmpty, SMT
<1>2. Len(<<f>>) = 1 /\ <<f>> # <<>> /\ Head(<<f>>) = f /\ <<f>>[1] = f /\ Append(<<>>, f) = <<f>>
  BY SMT
<1> QED
  BY <1>1, <1>2 DEF Last, Front

LEMMA TwoFrames ==
  ASSUME NEW f \in Frames, NEW g \in Frames
  PROVE  /\ <<f, g>> \in Seq(Frames) /\ <<f, g>> # <<>> /\ Len(<<f, g>>) = 2
         /\ Last(<<f, g>>) = g /\ Head(<<f, g>>) = f /\ Front(<<f, g>>) = <<f>>
         /\ Append(<<f>>, g) = <<f, g>>
<1>1. Len(<<f, g>>) = 2 /\ <<f, g>> # <<>> /\ Head(<<f, g>>) = f /\ <<f, g>>[2] = g /\ <<f, g>>[1] = f
  BY SMT
<1>2. <<f, g>> \in Seq(Frames) /\ <<f>> \in Seq(Frames) /\ Len(<<f>>) = 1 /\ <<f>>[1] = f
  BY SMT
<1>3. /\ SubSeq(<<f, g>>, 1, 2 - 1) \in Seq(Frames)
      /\ Len(SubSeq(<<f, g>>, 1, 2 - 1)) = 1
      /\ SubSeq(<<f, g>>, 1, 2 - 1)[1] = f
  BY <1>1, <1>2, SubSeqProperties, SMT
<1>4. SubSeq(<<f, g>>, 1, 2 - 1) = <<f>>
  <2>1. \A i \in 1..1 : SubSeq(<<f, g>>, 1, 2 - 1)[i] = <<f>>[i]
    BY <1>2, <1>3, SMT
  <2> QED
    BY <1>2, <1>3, <2>1, SeqEqual, Zenon
<1>5. Append(<<f>>, g) = <<f, g>>
  <2>1. /\ Append(<<f>>, g) \in Seq(Frames) /\ Len(Append(<<f>>, g)) = Len(<<f>>) + 1
        /\ \A i \in 1..Len(<<f>>) : Append(<<f>>, g)[i] = <<f>>[i]
        /\ Append(<<f>>, g)[Len(<<f>>) + 1] = g
    <3>1. ASSUME NEW s \in Seq(Frames)
          PROVE  /\ Append(s, g) \in Seq(Frames) /\ Len(Append(s, g)) = Len(s) + 1
                 /\ \A i \in 1..Len(s) : Append(s, g)[i] = s[i]
                 /\ Append(s, g)[Len(s) + 1] = g
      BY AppendProperties
    <3> QED
      BY <1>2, <3>1
  <2>2. Len(Append(<<f>>, g)) = 2
    BY <1>2, <2>1, SMT
  <2>3. \A i \in 1..2 : Append(<<f>>, g)[i] = <<f, g>>[i]
    BY <1>1, <1>2, <2>1, SMT
  <2> QED
    BY <1>1, <1>2, <2>1, <2>2, <2>3, SeqEqual, Zenon
<1> QED
  BY <1>1, <1>2, <1>4, <1>5 DEF Last, Front

LEMMA NoFrame == Shaped(<<>>) /\ TopOf(<<>>) = "loop" /\ BaseOf(<<>>) = "loop"
BY DEF Shaped, TopOf, BaseOf

LEMMA ShapeOfOne ==
  ASSUME NEW f \in Frames
  PROVE  Shaped(<<f>>) /\ TopOf(<<f>>) = f.at /\ BaseOf(<<f>>) = f.at
BY OneFrame DEF Shaped, TopOf, BaseOf

LEMMA ShapeOfTwo ==
  ASSUME NEW f \in Frames, NEW g \in Frames, Nested(f, g)
  PROVE  Shaped(<<f, g>>) /\ TopOf(<<f, g>>) = g.at /\ BaseOf(<<f, g>>) = f.at
BY TwoFrames DEF Shaped, TopOf, BaseOf

\* In a place, the stack is not empty.
LEMMA AtTop ==
  /\ \A places : "loop" \notin places => (At(places) <=> top \in places)
  /\ Shaped(stack) => (stack = <<>> <=> top = "loop") /\ (stack = <<>> <=> base = "loop")
  /\ Shaped(stack) => \A slots : MayCall(slots) <=> top = "loop" \/ top \in slots
  /\ Shaped(stack) => top \in Places \cup {"loop"}
<1>1. \A places : "loop" \notin places => (At(places) <=> top \in places)
  BY DEF At, top, TopOf
<1>2. ASSUME Shaped(stack), stack # <<>>
      PROVE  top = Last(stack).at /\ top \in Places /\ base \in Places
  <2>1. CASE \E f \in Frames : stack = <<f>>
    BY <2>1, ShapeOfOne DEF top, base, Frames, Places, Slots, TopOf, BaseOf
  <2>2. CASE \E f, g \in Frames : stack = <<f, g>> /\ Nested(f, g)
    BY <2>2, ShapeOfTwo DEF top, base, Frames, Places, Slots, TopOf, BaseOf
  <2> QED
    BY <1>2, <2>1, <2>2 DEF Shaped, top, TopOf
<1>3. "loop" \notin Places
  BY DEF Places, Slots
<1>4. stack = <<>> => top = "loop" /\ base = "loop"
  BY NoFrame DEF top, base
<1> QED
  BY <1>1, <1>2, <1>3, <1>4 DEF MayCall

\* But for the one that write() starts, a handler is alone.
LEMMA OnlyOne ==
  ASSUME Shaped(stack), top \notin {"loop", "syncStarted"}
  PROVE  /\ Last(stack) \in Frames /\ stack = <<Last(stack)>> /\ Last(stack).at = top
         /\ base = top /\ Front(stack) = <<>>
<1>1. stack # <<>>
  BY NoFrame DEF top
<1>2. CASE \E f \in Frames : stack = <<f>>
  BY <1>2, ShapeOfOne, OneFrame DEF top, base
<1>3. CASE \E f, g \in Frames : stack = <<f, g>> /\ Nested(f, g)
  BY <1>3, ShapeOfTwo DEF top, Nested
<1> QED
  BY <1>1, <1>2, <1>3 DEF Shaped

-----------------------------------------------------------------------------
(* The invariant.                                                          *)

Units == Http!Units
Texts == Http!Texts

\* The key to which the next must hash, once the server has taken p, and what
\* that is for the keys handed out so far.
Effect(p) == IF p.newkey = None THEN p.key ELSE p.newkey
cur       == <<seed, key_n + 1>>

\* The server has taken the last packet.
Taken == lastKey = cur /\ (state = 2 => Len(received) = acked + Len(out))

\* A handler has nothing more to do with an answer.
Free == sock = "idle" /\ ~Pending /\ top # "syncFinished"

Has(s) == \E i \in 1..Len(s) : s[i][1] = "ok"

Shape ==
  /\ Shaped(stack)
  /\ sock = "connected" => top = "loop"
  /\ sock = "closing" => state = 0 /\ top \in {"loop", "connecting"}
  /\ top \in {"syncStarted", "syncFinished", "sent"} => sock = "idle"
  /\ top = "connecting" => sock # "connecting" /\ state = 0
  /\ timer => ~Http!Posted /\ ~Pending
  /\ state # 2 => wbuf = <<>> /\ out = <<>>

\* The i-th unit still to be read may be u, when k lines with a text and the
\* empty line are to come, or, for k = -1, the data only.
Expected(k, i, u) ==
  IF i > 2 * k + 2 THEN u = reply[i - (2 * k + 2)]
  ELSE IF i \in {2, 4, 6} THEN u = Http!LF
  ELSE IF i = 2 * k + 1 THEN u = Http!CR
  ELSE u \in Texts

\* So much of the answer has not been read.
InAnswer(k) ==
  /\ inHeader <=> k >= 0
  /\ headerLines = <<>> => k # 0
  /\ k >= 0 => Len(recvBuf) <= 1
  /\ Len(recvBuf) + Len(wire) <= 2 * k + 2 + Len(reply)
  /\ ~broken => Len(recvBuf) + Len(wire) = 2 * k + 2 + Len(reply)
  /\ \A i \in 1..Len(recvBuf) : Expected(k, i, recvBuf[i])
  /\ \A i \in 1..Len(wire) : Expected(k, Len(recvBuf) + i, wire[i])

Answering ==
  /\ sock = "connecting" =>
       recvBuf = <<>> /\ wire = <<>> /\ body = <<>> /\ reply = None /\ ~gone /\ ~broken
  /\ sock = "connected" =>
       /\ ~gone => ~broken
       /\ reply = None => /\ inHeader /\ headerLines = <<>> /\ recvBuf = <<>> /\ wire = <<>>
                          /\ gone => broken
       /\ reply # None => \E k \in -1..2 : InAnswer(k)

\* A cookie that carries on the session comes with a packet taken, on a
\* connection over which the whole request has gone.
Cookie ==
  /\ sock = "connected" /\ (Has(headerLines) \/ Has(recvBuf) \/ Has(wire)) => Taken /\ unsent = 0
  /\ sock = "closing" => ~Has(headerLines)
  /\ top = "syncFinished" /\ Has(headerLines) => Taken

Chained ==
  /\ Pending => Last(stack).key \in Key /\ Effect(Last(stack)) = cur
  /\ top = "syncStarted" => Hash(Last(stack).key) = lastKey
  /\ Http!Posted => postdata \in Packets /\ Effect(postdata) = cur
  /\ KeysChain
  /\ timer => lastKey = cur
  /\ state = 2 /\ Free => lastKey = cur

Counted ==
  /\ SentOnce
  /\ acked <= wrote
  /\ Len(out) <= Len(wbuf) /\ \A i \in 1..Len(out) : out[i] = wbuf[i]
  /\ top = "connecting" \/ state = 1 => wrote = 0 /\ acked = 0 /\ received = <<>>
  /\ Http!Posted => postdata.block = out
  /\ state = 2 /\ ~(Http!Posted /\ reply # None) /\ top # "syncFinished" => Len(received) = acked

\* n bytes of data of the server are to be delivered: s.
Holds(s) == sent = Len(got) + Len(s) /\ \A i \in 1..Len(s) : s[i] = Http!Data(Len(got) + i)

Delivered ==
  ~gap =>
    /\ got = [i \in 1..Len(got) |-> Http!Data(i)]
    /\ Http!Posted /\ reply = None => Len(got) = sent
    /\ Http!Posted /\ reply # None => Holds(reply)
    /\ top = "syncFinished" /\ Has(headerLines) => Holds(body)
    /\ sock = "idle" /\ base \in {"connected", "bytesWritten", "sent"} => Holds(body)
    /\ base \in {"readyRead", "syncStarted", "connecting"} /\ (Pending \/ sock = "idle") => Len(got) = sent
    /\ top = "loop" /\ ~Http!Posted /\ (timer \/ state = 2) => Len(got) = sent

IInv ==
  /\ TypeOK
  /\ Shape
  /\ Answering
  /\ Cookie
  /\ Chained
  /\ Counted
  /\ Delivered

-----------------------------------------------------------------------------
(* Sequences.                                                              *)

\* What Drop() leaves.
LEMMA Dropped ==
  ASSUME NEW S, NEW s \in Seq(S), NEW n \in 0..Len(s)
  PROVE  /\ Drop(s, n) \in Seq(S) /\ Len(Drop(s, n)) = Len(s) - n
         /\ \A i \in 1..(Len(s) - n) : Drop(s, n)[i] = s[n + i]
<1>1. Len(s) \in Nat /\ n \in Nat /\ \A i \in (n + 1)..Len(s) : s[i] \in S
  <2>1. \A i \in 1..Len(s) : s[i] \in S
    BY ElementOfSeq
  <2> QED
    BY <2>1, LenProperties, SMT
<1>2. /\ Drop(s, n) \in Seq(S)
      /\ Len(Drop(s, n)) = IF n + 1 <= Len(s) THEN Len(s) - (n + 1) + 1 ELSE 0
      /\ \A i \in 1..(Len(s) - (n + 1) + 1) : Drop(s, n)[i] = s[(n + 1) + i - 1]
  <2>1. n + 1 \in Int /\ Len(s) \in Int
    BY <1>1, SMT
  <2> QED
    BY <1>1, <2>1, SubSeqProperties DEF Drop
<1> QED
  BY <1>1, <1>2, SMT

LEMMA SameDrop == \A s, n : Http!Drop(s, n) = Drop(s, n)
BY DEF Http!Drop, Drop

\* The header's units are told from each other.
LEMMA UnitsDiffer ==
  /\ Http!CR \in Units /\ Http!LF \in Units /\ Texts \subseteq Units
  /\ Http!CR \notin Texts /\ Http!LF \notin Texts /\ Http!CR # Http!LF
  /\ \A n : Http!Data(n) \notin {Http!CR, Http!LF}
  /\ \A n \in 1..MaxData : Http!Data(n) \in Units
  /\ Http!CR[1] # "ok" /\ Http!LF[1] # "ok" /\ \A n : Http!Data(n)[1] # "ok"
  /\ <<"200", 0>> \in Texts /\ <<"ok", 0>> \in Texts /\ <<"over", 0>> \in Texts
  /\ \A t \in Statuses : <<t, 0>> \in Texts /\ t # "ok" /\ t # "none"
<1>1. "CR" \notin Statuses \cup Cookies /\ "LF" \notin Statuses \cup Cookies
  BY HttpPollAssumption DEF Cookies
<1>2. Http!CR \notin Texts /\ Http!LF \notin Texts
  BY <1>1 DEF Texts, Http!Texts, Http!CR, Http!LF
<1> QED
  BY <1>2, HttpPollAssumption DEF Units, Texts, Http!Units, Http!Texts, Http!CR, Http!LF, Http!Data, Cookies

-----------------------------------------------------------------------------
(* The lines of a header.                                                  *)

\* The lines of the first n units, for each n.
Collects(buf, f) ==
  f = [n \in 0..Http!Extent(buf) |->
         IF n = 0 THEN <<>>
         ELSE IF buf[n] \in {Http!CR, Http!LF} THEN f[n - 1]
         ELSE Append(f[n - 1], buf[n])]

\* There are: a header has at most six units.
LEMMA CollectionExists ==
  ASSUME NEW buf, Http!Extent(buf) \in 0..6
  PROVE  \E f : Collects(buf, f)
<1> DEFINE E == Http!Extent(buf)
           next(s, u) == IF u \in {Http!CR, Http!LF} THEN s ELSE Append(s, u)
           g1 == next(<<>>, buf[1])
           g2 == next(g1, buf[2])
           g3 == next(g2, buf[3])
           g4 == next(g3, buf[4])
           g5 == next(g4, buf[5])
           g6 == next(g5, buf[6])
           f == [n \in 0..E |-> IF n = 0 THEN <<>> ELSE IF n = 1 THEN g1 ELSE IF n = 2 THEN g2
                                ELSE IF n = 3 THEN g3 ELSE IF n = 4 THEN g4 ELSE IF n = 5 THEN g5 ELSE g6]
<1> HIDE DEF g1, g2, g3, g4, g5, g6
<1>1. ASSUME NEW n \in 0..E, n # 0 PROVE f[n] = next(f[n - 1], buf[n])
  <2>1. n \in 1..6 /\ n - 1 \in 0..E
    BY <1>1, SMT
  <2>2. CASE n = 1
    BY <2>1, <2>2 DEF g1
  <2>3. CASE n = 2
    BY <2>1, <2>3 DEF g2
  <2>4. CASE n = 3
    BY <2>1, <2>4 DEF g3
  <2>5. CASE n = 4
    BY <2>1, <2>5 DEF g4
  <2>6. CASE n = 5
    BY <2>1, <2>6 DEF g5
  <2>7. CASE n = 6
    BY <2>1, <2>7 DEF g6
  <2> QED
    BY <2>1, <2>2, <2>3, <2>4, <2>5, <2>6, <2>7, SMT
<1>2. ASSUME NEW n \in 0..E, n = 0 PROVE f[n] = <<>>
  BY <1>2
<1>3. f = [n \in 0..E |-> f[n]]
  OBVIOUS
<1> HIDE DEF f
<1>4. f = [n \in 0..E |-> IF n = 0 THEN <<>> ELSE next(f[n - 1], buf[n])]
  BY <1>1, <1>2, <1>3, Zenon
<1>5. Collects(buf, f)
  BY <1>4 DEF Collects
<1> QED
  BY <1>5

\* What can be said of the lines of the first n units.
Collected(buf, n, lines) ==
  /\ lines \in Seq(Texts)
  /\ \A j \in 1..Len(lines) : \E i \in 1..n : lines[j] = buf[i]
  /\ n > 0 /\ buf[1] \in Texts => lines # <<>>

LEMMA CollectedNext ==
  ASSUME NEW buf, NEW n \in Nat, NEW lines, Collected(buf, n, lines),
         buf[n + 1] \in Texts \cup {Http!CR, Http!LF}, NEW u, u = buf[n + 1]
  PROVE  Collected(buf, n + 1, IF u \in {Http!CR, Http!LF} THEN lines ELSE Append(lines, u))
<1>1. lines \in Seq(Texts) /\ Len(lines) \in Nat
  BY LenProperties DEF Collected
<1>2. CASE u \in {Http!CR, Http!LF}
  <2>1. n > 0 \/ buf[1] \notin Texts
    <3>1. n = 0 => n + 1 = 1
      BY SMT
    <3>2. n = 0 => buf[1] \notin Texts
      BY <1>2, <3>1, UnitsDiffer
    <3> QED
      BY <3>2, SMT
  <2>2. \A j \in 1..Len(lines) : \E i \in 1..(n + 1) : lines[j] = buf[i]
    <3>1. 1..n \subseteq 1..(n + 1)
      BY SMT
    <3> QED
      BY <3>1 DEF Collected
  <2> QED
    BY <1>1, <1>2, <2>1, <2>2 DEF Collected
<1>3. CASE u \notin {Http!CR, Http!LF}
  <2>1. u \in Texts
    BY <1>3
  <2>2. /\ Append(lines, u) \in Seq(Texts) /\ Append(lines, u) # <<>>
        /\ Len(Append(lines, u)) = Len(lines) + 1
        /\ \A j \in 1..Len(lines) : Append(lines, u)[j] = lines[j]
        /\ Append(lines, u)[Len(lines) + 1] = u
    BY <1>1, <2>1, AppendProperties
  <2>3. ASSUME NEW j \in 1..Len(Append(lines, u))
        PROVE  \E i \in 1..(n + 1) : Append(lines, u)[j] = buf[i]
    <3>1. CASE j \in 1..Len(lines)
      <4>1. \A i \in 1..n : i \in 1..(n + 1)
        BY SMT
      <4>2. PICK i \in 1..n : lines[j] = buf[i]
        BY <3>1 DEF Collected
      <4> QED
        BY <2>2, <3>1, <4>1, <4>2
    <3>2. CASE j = Len(lines) + 1
      <4>1. n + 1 \in 1..(n + 1)
        BY SMT
      <4> QED
        BY <2>2, <3>2, <4>1
    <3> QED
      BY <1>1, <2>2, <3>1, <3>2, SMT
  <2> QED
    BY <1>3, <2>2, <2>3 DEF Collected
<1> QED
  BY <1>2, <1>3

\* Lines() returns texts of the block, and one at least if it begins with one.
LEMMA LinesRead ==
  ASSUME NEW buf, Http!Extent(buf) \in 0..6,
         \A i \in 1..Http!Extent(buf) : buf[i] \in Texts \cup {Http!CR, Http!LF}
  PROVE  Collected(buf, Http!Extent(buf), Http!Lines(buf))
<1> DEFINE E == Http!Extent(buf)
           f == CHOOSE g : Collects(buf, g)
<1>1. Collects(buf, f)
  BY CollectionExists, Zenon
<1>2. Http!Lines(buf) = f[E]
  BY DEF Http!Lines, Collects
<1> HIDE DEF f
<1>3. \A n \in 0..E : f[n] = IF n = 0 THEN <<>>
                            ELSE IF buf[n] \in {Http!CR, Http!LF} THEN f[n - 1]
                            ELSE Append(f[n - 1], buf[n])
  BY <1>1, Zenon DEF Collects
<1>4. Collected(buf, 0, f[0])
  <2>1. f[0] = <<>>
    BY <1>3, SMT
  <2> QED
    BY <2>1, EmptySeq, SMT DEF Collected
<1> DEFINE C(n) == n \in 0..E => Collected(buf, n, f[n])
<1>5. ASSUME NEW n \in 0..5, C(n) PROVE C(n + 1)
  <2> SUFFICES ASSUME n + 1 \in 0..E PROVE Collected(buf, n + 1, f[n + 1])
    OBVIOUS
  <2>1. n \in 0..E /\ n \in Nat /\ n + 1 # 0 /\ (n + 1) - 1 = n /\ n + 1 \in 1..E
    BY SMT
  <2>2. f[n + 1] = IF buf[n + 1] \in {Http!CR, Http!LF} THEN f[n] ELSE Append(f[n], buf[n + 1])
    BY <1>3, <2>1
  <2>3. Collected(buf, n, f[n]) /\ buf[n + 1] \in Texts \cup {Http!CR, Http!LF}
    BY <1>5, <2>1
  <2> QED
    BY <2>1, <2>2, <2>3, CollectedNext
<1>6. C(0)
  BY <1>4
<1> HIDE DEF C
<1>7. C(0 + 1) /\ C(1 + 1) /\ C(2 + 1) /\ C(3 + 1) /\ C(4 + 1) /\ C(5 + 1)
  <2>1. C(0 + 1)
    BY <1>5, <1>6, SMT
  <2>2. C(1 + 1)
    BY <1>5, <2>1, SMT
  <2>3. C(2 + 1)
    BY <1>5, <2>2, SMT
  <2>4. C(3 + 1)
    BY <1>5, <2>3, SMT
  <2>5. C(4 + 1)
    BY <1>5, <2>4, SMT
  <2>6. C(5 + 1)
    BY <1>5, <2>5, SMT
  <2> QED
    BY <2>1, <2>2, <2>3, <2>4, <2>5, <2>6
<1>8. C(E)
  BY <1>6, <1>7, SMT
<1> QED
  BY <1>2, <1>8, SMT DEF C

Answers == Seq({Http!Data(n) : n \in 1..MaxData})

\* Where the lines end in what is still to be read: behind every second unit of
\* the header, and the header behind its empty line.
LEMMA EndsFound ==
  ASSUME NEW buf \in Seq(Units), NEW k \in 0..2, reply \in Answers,
         Len(buf) <= 2 * k + 2 + Len(reply),
         \A i \in 1..Len(buf) : Expected(k, i, buf[i])
  PROVE  /\ \A n : n \in Http!LineEnds(buf) <=> n \in {2, 4, 6} /\ n <= 2 * k + 2 /\ n <= Len(buf)
         /\ \A n : n \in Http!HeaderEnds(buf) <=> n = 2 * k + 2 /\ n <= Len(buf)
<1>1. Len(buf) \in Nat /\ DOMAIN buf = 1..Len(buf) /\ Len(reply) \in Nat
  BY LenProperties DEF Answers
<1>2. ASSUME NEW i \in 1..Len(buf), i > 2 * k + 2 PROVE buf[i] \notin {Http!CR, Http!LF}
  <2>1. buf[i] = reply[i - (2 * k + 2)]
    BY <1>2 DEF Expected
  <2>2. i - (2 * k + 2) \in 1..Len(reply)
    BY <1>1, <1>2, SMT
  <2>3. reply[i - (2 * k + 2)] \in {Http!Data(n) : n \in 1..MaxData}
    BY <2>2, ElementOfSeq DEF Answers
  <2> QED
    BY <2>1, <2>3, UnitsDiffer
<1>3. ASSUME NEW i \in 1..Len(buf), ~(i > 2 * k + 2), i \in {2, 4, 6} PROVE buf[i] = Http!LF
  BY <1>3 DEF Expected
<1>4. ASSUME NEW i \in 1..Len(buf), ~(i > 2 * k + 2), i \notin {2, 4, 6}
      PROVE  buf[i] # Http!LF /\ (buf[i] = Http!CR <=> i = 2 * k + 1)
  BY <1>4, UnitsDiffer DEF Expected
<1>5. ASSUME NEW n
      PROVE  n \in Http!LineEnds(buf) <=> n \in {2, 4, 6} /\ n <= 2 * k + 2 /\ n <= Len(buf)
  <2>1. n \in Http!LineEnds(buf) <=> n \in 1..Len(buf) /\ n > 1 /\ buf[n] = Http!LF
    BY <1>1 DEF Http!LineEnds
  <2>2. CASE n \in Http!LineEnds(buf)
    <3>1. n \in 1..Len(buf) /\ n > 1 /\ buf[n] = Http!LF
      BY <2>1, <2>2
    <3>2. ~(n > 2 * k + 2) /\ n \in {2, 4, 6}
      BY <1>2, <1>4, <3>1
    <3> QED
      BY <1>1, <2>2, <3>1, <3>2, SMT
  <2>3. CASE n \in {2, 4, 6} /\ n <= 2 * k + 2 /\ n <= Len(buf)
    <3>1. n \in 1..Len(buf) /\ n > 1 /\ ~(n > 2 * k + 2)
      BY <1>1, <2>3, SMT
    <3> QED
      BY <1>3, <2>1, <2>3, <3>1
  <2> QED
    BY <2>2, <2>3
<1>6. ASSUME NEW n
      PROVE  n \in Http!HeaderEnds(buf) <=> n = 2 * k + 2 /\ n <= Len(buf)
  <2>1. n \in Http!HeaderEnds(buf) <=> n \in Http!LineEnds(buf) /\ buf[n - 1] = Http!CR
    BY DEF Http!HeaderEnds
  <2>2. ASSUME n \in Http!LineEnds(buf)
        PROVE  buf[n - 1] = Http!CR <=> n = 2 * k + 2
    <3>1. n \in {2, 4, 6} /\ n <= 2 * k + 2 /\ n <= Len(buf)
      BY <1>5, <2>2
    <3>2. n - 1 \in 1..Len(buf) /\ ~(n - 1 > 2 * k + 2) /\ n - 1 \notin {2, 4, 6}
      BY <1>1, <3>1, SMT
    <3>3. buf[n - 1] = Http!CR <=> n - 1 = 2 * k + 1
      BY <1>4, <3>2
    <3> QED
      BY <3>1, <3>3, SMT
  <2>3. n = 2 * k + 2 /\ n <= Len(buf) => n \in Http!LineEnds(buf)
    <3>1. n = 2 * k + 2 => n \in {2, 4, 6} /\ n <= 2 * k + 2
      BY SMT
    <3> QED
      BY <1>5, <3>1
  <2>4. n \in Http!LineEnds(buf) => n <= Len(buf)
    BY <1>5
  <2> QED
    BY <2>1, <2>2, <2>3, <2>4
<1> QED
  BY <1>5, <1>6

\* What extractLine() takes: the header, or the whole lines there are.
LEMMA ExtentFound ==
  ASSUME NEW buf \in Seq(Units), NEW k \in 0..2, reply \in Answers,
         Len(buf) <= 2 * k + 2 + Len(reply),
         \A i \in 1..Len(buf) : Expected(k, i, buf[i])
  PROVE  /\ Http!HeaderEnds(buf) # {} <=> Len(buf) >= 2 * k + 2
         /\ Len(buf) >= 2 * k + 2 => Http!Extent(buf) = 2 * k + 2
         /\ Len(buf) < 2 * k + 2 =>
              Http!Extent(buf) = IF Len(buf) < 2 THEN 0 ELSE IF Len(buf) < 4 THEN 2 ELSE 4
<1>1. Len(buf) \in Nat
  BY LenProperties
<1>2. \A n : n \in Http!HeaderEnds(buf) <=> n = 2 * k + 2 /\ n <= Len(buf)
  BY EndsFound
<1>3. \A n : n \in Http!LineEnds(buf) <=> n \in {2, 4, 6} /\ n <= 2 * k + 2 /\ n <= Len(buf)
  BY EndsFound
<1>4. Http!HeaderEnds(buf) # {} <=> Len(buf) >= 2 * k + 2
  BY <1>1, <1>2, SMT
<1>5. CASE Len(buf) >= 2 * k + 2
  <2>1. Http!HeaderEnds(buf) = {2 * k + 2}
    BY <1>1, <1>2, <1>5, SMT
  <2>2. Http!Extent(buf) = Http!Min({2 * k + 2})
    BY <2>1 DEF Http!Extent
  <2>3. Http!Min({2 * k + 2}) = 2 * k + 2
    BY SMT DEF Http!Min
  <2> QED
    BY <1>1, <1>4, <1>5, <2>2, <2>3, SMT
<1>6. CASE Len(buf) < 2 * k + 2
  <2> DEFINE S == Http!LineEnds(buf) \cup {0}
             e == IF Len(buf) < 2 THEN 0 ELSE IF Len(buf) < 4 THEN 2 ELSE 4
  <2>1. Http!HeaderEnds(buf) = {}
    BY <1>1, <1>4, <1>6, SMT
  <2>2. Http!Extent(buf) = Http!Max(S)
    BY <2>1 DEF Http!Extent
  <2>3. e \in S /\ e \in Nat /\ \A n \in S : n \in Nat /\ e >= n
    BY <1>1, <1>3, <1>6, SMT
  <2> HIDE DEF S, e
  <2>4. Http!Max(S) = e
    <3>1. Http!Max(S) \in S /\ \A n \in S : Http!Max(S) >= n
      BY <2>3, Zenon DEF Http!Max
    <3>2. ASSUME NEW m \in S, \A n \in S : m >= n PROVE m = e
      BY <2>3, <3>2, SMT
    <3> QED
      BY <3>1, <3>2, Zenon
  <2> QED
    BY <1>1, <1>4, <1>6, <2>2, <2>4, SMT DEF e
<1> QED
  BY <1>1, <1>5, <1>6, SMT

-----------------------------------------------------------------------------
(* Steps that end a session.                                               *)

\* The type invariant without the HttpProxyPost's.
StreamTypes ==
  /\ state \in 0..2
  /\ closing \in BOOLEAN
  /\ wbuf \in Seq(1..MaxData) /\ out \in Seq(1..MaxData)
  /\ seed \in 0..1
  /\ key_n \in 1..Keys
  /\ timer \in BOOLEAN
  /\ postdata \in Packets \cup {None}
  /\ stack \in Seq(Frames)
  /\ calls \in 0..MaxCalls
  /\ wrote \in 0..MaxData /\ acked \in 0..MaxData
  /\ got \in Seq(Http!Units)
  /\ gap \in BOOLEAN
  /\ lastKey \in Key \cup {None}
  /\ received \in Seq(1..MaxData) /\ sent \in 0..MaxData

LEMMA TypeParts == TypeOK <=> StreamTypes /\ Http!TypeOK
BY DEF TypeOK, StreamTypes

\* Values that many steps set.
LEMMA Plain ==
  /\ {0, 1, 2} \subseteq 0..2 /\ {0, 1} \subseteq 0..1 /\ 0 \in 0..MaxData /\ 0 \in 0..MaxCalls
  /\ Keys \in 1..Keys /\ Keys - 1 \in 1..Keys
  /\ \A S : <<>> \in Seq(S)
  /\ Len(<<>>) = 0
BY HttpPollAssumption, SMT

LEMMA InitIInv == Init => IInv
<1> SUFFICES ASSUME Init PROVE IInv
  OBVIOUS
<1>1. TypeOK
  <2>1. StreamTypes
    BY Plain DEF Init, StreamTypes, Http!Init
  <2>2. Http!TypeOK
    BY Plain DEF Init, Http!Init, Http!TypeOK
  <2> QED
    BY <2>1, <2>2, TypeParts
<1>2. top = "loop" /\ base = "loop" /\ Shaped(stack)
  BY NoFrame DEF Init, top, base
<1>3. Shape /\ Answering /\ Cookie
  BY <1>2 DEF Init, Http!Init, Shape, Answering, Cookie, Http!Posted, Pending
<1>4. Chained
  BY <1>2 DEF Init, Http!Init, Chained, Http!Posted, Pending, KeysChain
<1>5. Counted
  <2>1. Len(<<>>) = 0 /\ 1..0 = {} /\ <<>> = [i \in 1..0 |-> i]
    BY SMT
  <2> QED
    BY <1>2, <2>1 DEF Init, Http!Init, Counted, SentOnce, Http!Posted
<1>6. Delivered
  <2>1. Len(<<>>) = 0 /\ <<>> = [i \in 1..0 |-> Http!Data(i)]
    BY SMT
  <2> QED
    BY <1>2, <2>1 DEF Init, Http!Init, Delivered, Http!Posted, Pending
<1> QED
  BY <1>1, <1>2, <1>3, <1>4, <1>5, <1>6 DEF IInv

\* reset(), and what it leaves of the connection.
Ended ==
  /\ ResetStream
  /\ sock' \in {"idle", "closing"}
  /\ UNCHANGED <<keyVars, serverVars, histVars>>

LEMMA EndedIInv ==
  ASSUME IInv, Ended, TypeOK', stack' = <<>>, sock' = "closing" => ~Has(headerLines)'
  PROVE  IInv'
<1>1. top' = "loop" /\ base' = "loop" /\ Shaped(stack)'
  BY NoFrame DEF top, base
<1>2. state' = 0 /\ wbuf' = <<>> /\ out' = <<>> /\ ~timer' /\ sock' # "connected" /\ sock' # "connecting"
      /\ ~Http!Posted'
  BY DEF Ended, ResetStream, Http!Posted
<1>3. Shape' /\ Answering' /\ Cookie' /\ Chained'
  BY <1>1, <1>2 DEF Shape, Answering, Cookie, Chained, Pending, KeysChain
<1>4. Counted'
  <2>1. received' = received /\ acked' = acked /\ wrote' = wrote
    BY DEF Ended, serverVars, histVars
  <2>2. Len(<<>>) = 0 /\ 1..0 = {}
    BY SMT
  <2> QED
    BY <1>1, <1>2, <2>1, <2>2 DEF IInv, Counted, SentOnce
<1>5. Delivered'
  <2>1. got' = got /\ gap' = gap
    BY DEF Ended, histVars
  <2> QED
    BY <1>1, <1>2, <2>1 DEF IInv, Delivered, Pending
<1> QED
  BY <1>1, <1>2, <1>3, <1>4, <1>5 DEF IInv

LEMMA HttpErrorIInv == IInv /\ HttpError => IInv'
<1> SUFFICES ASSUME IInv, HttpError PROVE IInv'
  OBVIOUS
<1>1. Ended /\ stack' = <<>> /\ sock' = "idle"
  BY DEF HttpError, Http!SockError, Ended
<1>2. TypeOK'
  <2>1. StreamTypes'
    BY Plain DEF IInv, TypeOK, StreamTypes, HttpError, Http!SockError, ResetStream,
                 keyVars, serverVars, histVars
  <2>2. Http!TypeOK'
    BY Plain DEF IInv, TypeOK, HttpError, Http!SockError, Http!TypeOK, Http!serverVars
  <2> QED
    BY <2>1, <2>2 DEF TypeOK, StreamTypes
<1> QED
  BY <1>1, <1>2, EndedIInv

\* reset() leaves a connection only if part of the request is unsent, and then
\* no cookie has come over it.
LEMMA ResetHttp ==
  ASSUME TypeOK, Cookie, Reset
  PROVE  /\ ResetStream /\ Http!TypeOK'
         /\ UNCHANGED <<postdata, headerLines, body>>
         /\ sock' \in {"idle", "closing"}
         /\ sock' = "closing" => sock \in {"connected", "closing"}
         /\ sock' = "closing" => ~Has(headerLines)'
<1>1. CASE Http!isActive
  <2>1. Http!stop
    BY <1>1 DEF Reset
  <2>2. unsent > 0 => unsent # 0
    BY SMT
  <2>3. unsent \in 0..2 /\ sock \in {"idle", "connecting", "connected", "closing"}
        /\ (sock \in {"idle", "connecting"} => unsent = 0)
    BY DEF TypeOK, Http!TypeOK
  <2>4. unsent = 0 => ~(unsent > 0)
    BY SMT
  <2>5. sock' = IF unsent > 0 THEN "closing" ELSE "idle"
    BY <2>1 DEF Http!stop, Http!CloseSock
  <2>6. UNCHANGED <<unsent, postdata, inHeader, headerLines, body, wire, reply, broken, gone>> /\ recvBuf' = <<>>
    BY <2>1 DEF Http!stop, Http!CloseSock, Http!serverVars
  <2>7. sock' = "closing" => sock \in {"connected", "closing"} /\ unsent > 0
    BY <2>3, <2>4, <2>5
  <2>8. ~(unsent > 0) => unsent = 0
    BY <2>3, SMT
  <2>9. Http!TypeOK'
    BY <2>3, <2>5, <2>6, <2>8, Plain DEF TypeOK, Http!TypeOK
  <2>10. sock' = "closing" => ~Has(headerLines)'
    BY <2>2, <2>6, <2>7 DEF Cookie, Has
  <2> QED
    BY <2>5, <2>6, <2>7, <2>9, <2>10 DEF Reset
<1>2. CASE ~Http!isActive
  BY <1>2 DEF Reset, httpVars, Http!isActive, TypeOK, Http!TypeOK
<1> QED
  BY <1>1, <1>2

LEMMA SyncFailedIInv == IInv /\ SyncFailed => IInv'
<1> SUFFICES ASSUME IInv, SyncFailed PROVE IInv'
  OBVIOUS
<1>1. top = "syncFinished" /\ Reset /\ stack' = Front(stack)
  BY AtTop DEF SyncFailed
<1>2. TypeOK /\ Cookie /\ Shaped(stack)
  BY DEF IInv, Shape
<1>3. stack' = <<>>
  BY <1>1, <1>2, OnlyOne
<1>4. /\ ResetStream /\ Http!TypeOK' /\ UNCHANGED <<postdata, headerLines, body>>
      /\ sock' \in {"idle", "closing"} /\ (sock' = "closing" => ~Has(headerLines)')
  BY <1>1, <1>2, ResetHttp
<1>5. Ended
  BY <1>4 DEF Ended, SyncFailed
<1>6. StreamTypes'
  BY <1>2, <1>3, <1>4, Plain DEF TypeOK, StreamTypes, ResetStream, SyncFailed, keyVars, serverVars, histVars
<1>7. TypeOK'
  BY <1>4, <1>6 DEF TypeOK, StreamTypes
<1> QED
  BY <1>3, <1>4, <1>5, <1>7, EndedIInv

LEMMA CloseIInv == IInv /\ Close => IInv'
<1> SUFFICES ASSUME IInv, Close PROVE IInv'
  OBVIOUS
<1>1. TypeOK /\ Cookie /\ Shape /\ Shaped(stack)
  BY DEF IInv, Shape
<1>2. state # 0 /\ stack' = stack /\ top' = top /\ base' = base
  BY DEF Close, top, base
<1>3. CASE Reset
  <2>1. /\ ResetStream /\ Http!TypeOK' /\ UNCHANGED <<postdata, headerLines, body>>
        /\ sock' \in {"idle", "closing"} /\ (sock' = "closing" => ~Has(headerLines)')
        /\ (sock' = "closing" => sock \in {"connected", "closing"})
    BY <1>1, <1>3, ResetHttp
  <2>2. StreamTypes'
    BY <1>1, <1>2, <2>1, Plain DEF TypeOK, StreamTypes, ResetStream, Close, keyVars, serverVars, histVars
  <2>3. TypeOK'
    BY <2>1, <2>2 DEF TypeOK, StreamTypes
  <2>4. state' = 0 /\ wbuf' = <<>> /\ out' = <<>> /\ ~timer' /\ ~Http!Posted'
    BY <2>1 DEF ResetStream, Http!Posted
  <2>5. Shape'
    BY <1>1, <1>2, <2>1, <2>4 DEF Shape, Pending
  <2>6. UNCHANGED <<seed, key_n, lastKey, received, sent, calls, wrote, acked, got, gap>>
    BY DEF Close, keyVars, serverVars, histVars
  <2>7. Answering' /\ Cookie'
    BY <1>2, <2>1, <2>4, <2>6 DEF IInv, Answering, Cookie, Has, Taken, cur
  <2>8. Chained'
    BY <1>2, <2>1, <2>4, <2>6 DEF IInv, Chained, Pending, KeysChain, Effect, cur, Hash
  <2>9. Counted'
    <3>1. Len(<<>>) = 0 /\ 1..0 = {}
      BY SMT
    <3>2. top # "connecting"
      BY <1>1, <1>2 DEF Shape
    <3> QED
      BY <1>2, <2>1, <2>4, <2>6, <3>1, <3>2 DEF IInv, Counted, SentOnce
  <2>10. Delivered'
    <3>1. SUFFICES ASSUME ~gap PROVE Delivered'
      BY <2>6 DEF Delivered
    <3>2. sock \in {"idle", "connecting", "connected", "closing"}
      BY <1>1 DEF TypeOK, Http!TypeOK
    <3>3. sock = "connecting" => body = <<>> /\ reply = None
      BY DEF IInv, Answering
    <3>4. sock = "connecting" => Len(got) = sent
      BY <3>1, <3>3 DEF IInv, Delivered, Http!Posted
    <3>5. sock = "connecting" => Holds(body)
      <4>1. Len(got) \in Nat
        BY <1>1, LenProperties DEF TypeOK
      <4>2. Len(<<>>) = 0 /\ 1..0 = {} /\ Len(got) + 0 = Len(got)
        BY <4>1, SMT
      <4> QED
        BY <3>3, <3>4, <4>2 DEF Holds
    <3>6. sock' = "idle" /\ base \in Places => sock \in {"idle", "connecting"}
      BY <1>1, <1>2, <3>2, AtTop DEF Shape, Places, Slots
    <3>7. Holds(body) => Holds(body)'
      BY <2>1, <2>6 DEF Holds
    <3> QED
      BY <1>2, <2>1, <2>4, <2>6, <3>1, <3>4, <3>5, <3>6, <3>7 DEF IInv, Delivered, Pending, Has, Places, Slots
  <2> QED
    BY <2>3, <2>5, <2>7, <2>8, <2>9, <2>10 DEF IInv
<1>4. CASE closing' = TRUE /\ UNCHANGED <<state, wbuf, out, timer, httpVars>>
  <2>1. UNCHANGED <<state, wbuf, out, timer, httpVars, stack, keyVars, serverVars, histVars>> /\ closing' \in BOOLEAN
    BY <1>4 DEF Close
  <2>2. TypeOK'
    <3>1. StreamTypes'
      BY <1>1, <2>1 DEF TypeOK, StreamTypes, httpVars, keyVars, serverVars, histVars
    <3>2. Http!TypeOK'
      BY <1>1, <2>1 DEF TypeOK, Http!TypeOK, httpVars
    <3> QED
      BY <3>1, <3>2 DEF TypeOK, StreamTypes
  <2>3. Shape' /\ Cookie'
    BY <1>2, <2>1 DEF IInv, Shape, Cookie, Has, Taken, cur, Pending, Http!Posted, httpVars, keyVars, serverVars, histVars
  <2>4. Answering'
    BY <2>1 DEF IInv, Answering, InAnswer, Expected, httpVars
  <2>5. Chained'
    BY <1>2, <2>1 DEF IInv, Chained, Pending, Free, KeysChain, Effect, cur, Hash, Http!Posted, httpVars, keyVars, serverVars
  <2>6. Counted'
    BY <1>2, <2>1 DEF IInv, Counted, SentOnce, Http!Posted, httpVars, serverVars, histVars
  <2>7. Delivered'
    BY <1>2, <2>1 DEF IInv, Delivered, Holds, Has, Pending, Http!Posted, httpVars, serverVars, histVars
  <2> QED
    BY <2>2, <2>3, <2>4, <2>5, <2>6, <2>7 DEF IInv
<1> QED
  BY <1>3, <1>4 DEF Close

-----------------------------------------------------------------------------
(* Keys and packets.                                                       *)

\* The next packet's key hashes to the one before it, and its effect is the key
\* to which the one after it will hash.
LEMMA NextKeyFollows ==
  ASSUME seed \in 0..1, key_n \in 1..Keys
  PROVE  /\ NextKey.key \in Key /\ NextKey.newkey \in Key \cup {None}
         /\ NextKey.seed \in 0..1 /\ NextKey.key_n \in 1..Keys
         /\ Hash(NextKey.key) = cur
         /\ Effect(NextKey) = <<NextKey.seed, NextKey.key_n + 1>>
<1>1. Keys \in Nat /\ Keys > 1 /\ None \notin Key
  BY HttpPollAssumption DEF Key
<1>2. CASE key_n > 1
  <2>1. NextKey = [key |-> <<seed, key_n>>, newkey |-> None, seed |-> seed, key_n |-> key_n - 1]
    BY <1>2 DEF NextKey
  <2>2. key_n - 1 \in 1..Keys /\ (key_n - 1) + 1 = key_n
    BY <1>1, <1>2, SMT
  <2> QED
    BY <2>1, <2>2 DEF Hash, Effect, cur, Key
<1>3. CASE ~(key_n > 1)
  <2>1. NextKey = [key |-> <<seed, 1>>, newkey |-> <<1 - seed, Keys>>, seed |-> 1 - seed, key_n |-> Keys - 1]
    BY <1>3 DEF NextKey, FirstKey
  <2>2. key_n = 1 /\ 1 \in 1..Keys /\ Keys \in 1..Keys /\ 1 - seed \in 0..1 /\ Keys - 1 \in 1..Keys
        /\ (Keys - 1) + 1 = Keys
    BY <1>1, <1>3, SMT
  <2>3. <<1 - seed, Keys>> \in Key /\ <<seed, 1>> \in Key
    BY <2>2 DEF Key
  <2> QED
    BY <1>1, <2>1, <2>2, <2>3 DEF Hash, Effect, cur
<1> QED
  BY <1>2, <1>3

\* A step in which do_sync() takes the next keys, when all before is settled.
LEMMA SyncIInv ==
  ASSUME IInv, NEW below, DoSync(wbuf', below),
         sock = "idle", ~Pending, top # "syncFinished", lastKey = cur,
         UNCHANGED <<state, httpVars, serverVars, acked, got, gap>>,
         \/ below = <<>> /\ (~gap => Len(got) = sent)
         \/ \E f \in Frames : /\ f.at \in {"connected", "bytesWritten", "readyRead"}
                              /\ below = <<f>> /\ stack = <<f>>,
         wbuf' \in Seq(1..MaxData), wrote' \in 0..MaxData, closing' \in BOOLEAN, calls' \in 0..MaxCalls,
         SentOnce', acked <= wrote', state # 2 => wbuf' = <<>> /\ wrote' = wrote
  PROVE  IInv'
<1> DEFINE frame == [at |-> "syncStarted", key |-> NextKey.key, newkey |-> NextKey.newkey]
<1>1. /\ TypeOK /\ Shape /\ Counted /\ Delivered
      /\ seed \in 0..1 /\ key_n \in 1..Keys
  BY DEF IInv, TypeOK
<1>2. /\ NextKey.key \in Key /\ NextKey.newkey \in Key \cup {None}
      /\ NextKey.seed \in 0..1 /\ NextKey.key_n \in 1..Keys
      /\ Hash(NextKey.key) = cur
      /\ Effect(NextKey) = <<NextKey.seed, NextKey.key_n + 1>>
  BY <1>1, NextKeyFollows
<1>3. timer' = FALSE /\ out' = wbuf' /\ seed' = NextKey.seed /\ key_n' = NextKey.key_n
      /\ stack' = Append(below, frame)
  BY DEF DoSync
<1>4. frame \in Frames /\ frame.at = "syncStarted" /\ frame.key = NextKey.key /\ Effect(frame) = Effect(NextKey)
  BY <1>2 DEF Frames, Places, Slots, Effect
<1> HIDE DEF frame
<1>5. /\ stack' \in Seq(Frames) /\ Shaped(stack)' /\ top' = "syncStarted" /\ Last(stack)' = frame
      /\ base' = IF below = <<>> THEN "syncStarted" ELSE base
      /\ below = <<>> /\ ~gap => Len(got) = sent
      /\ below # <<>> => base \in {"connected", "bytesWritten", "readyRead"}
  <2>1. CASE below = <<>> /\ (~gap => Len(got) = sent)
    BY <1>3, <1>4, <2>1, OneFrame, ShapeOfOne DEF top, base
  <2>2. CASE \E f \in Frames : /\ f.at \in {"connected", "bytesWritten", "readyRead"}
                               /\ below = <<f>> /\ stack = <<f>>
    <3>1. PICK f \in Frames : /\ f.at \in {"connected", "bytesWritten", "readyRead"}
                              /\ below = <<f>> /\ stack = <<f>>
      BY <2>2
    <3>2. Nested(f, frame) /\ stack' = <<f, frame>> /\ below # <<>> /\ base = f.at
      BY <1>3, <1>4, <3>1, OneFrame, TwoFrames, ShapeOfOne DEF Nested, base
    <3> QED
      BY <1>4, <3>1, <3>2, TwoFrames, ShapeOfTwo DEF top, base
  <2> QED
    BY <2>1, <2>2
<1>6. UNCHANGED <<sock, unsent, postdata, inHeader, headerLines, recvBuf, body, wire, reply, broken, gone>>
      /\ UNCHANGED <<lastKey, received, sent, state, acked, got, gap>>
  BY DEF httpVars, serverVars
<1>7. TypeOK'
  <2>1. StreamTypes'
    BY <1>1, <1>2, <1>3, <1>5, <1>6 DEF TypeOK, StreamTypes
  <2>2. Http!TypeOK'
    BY <1>1, <1>6 DEF TypeOK, Http!TypeOK
  <2> QED
    BY <2>1, <2>2 DEF TypeOK, StreamTypes
<1>8. sock' = "idle" /\ ~Http!Posted' /\ ~Http!Posted
  BY <1>6 DEF Http!Posted
<1>9. Shape' /\ Answering' /\ Cookie'
  BY <1>3, <1>5, <1>6, <1>8 DEF Shape, Answering, Cookie, Pending
<1>10. Chained'
  <2>1. cur' = Effect(frame)
    BY <1>2, <1>3, <1>4 DEF cur
  <2>2. Hash(frame.key) = lastKey
    BY <1>2, <1>4
  <2> QED
    BY <1>2, <1>3, <1>4, <1>5, <1>6, <1>8, <2>1, <2>2 DEF Chained, Pending, Free, KeysChain, Effect, Hash
<1>11. Counted'
  <2>1. state = 2 => Len(received) = acked
    BY <1>1, <1>8 DEF Counted
  <2>2. Len(wbuf') \in Nat /\ Len(wbuf') <= Len(wbuf')
    BY LenProperties, SMT
  <2>3. state = 1 => wrote = 0 /\ acked = 0 /\ received = <<>> /\ wrote' = wrote
    BY <1>1 DEF Counted
  <2> QED
    BY <1>3, <1>5, <1>6, <1>8, <2>1, <2>2, <2>3 DEF Counted
<1>12. Delivered'
  <2>1. SUFFICES ASSUME ~gap PROVE Delivered'
    BY <1>6 DEF Delivered
  <2>2. got = [i \in 1..Len(got) |-> Http!Data(i)]
    BY <1>1, <2>1 DEF Delivered
  <2>3. base' \in {"connected", "bytesWritten", "sent"} => Holds(body)'
    <3>1. base' \in {"connected", "bytesWritten", "sent"} => base \in {"connected", "bytesWritten", "sent"}
      BY <1>5
    <3>2. base' \in {"connected", "bytesWritten", "sent"} => Holds(body)
      BY <1>1, <2>1, <3>1 DEF Delivered
    <3> QED
      BY <1>6, <3>2 DEF Holds
  <2>4. base' \in {"readyRead", "syncStarted", "connecting"} => Len(got) = sent
    <3>1. base' = "readyRead" => base = "readyRead"
      BY <1>5
    <3>2. base = "readyRead" => Len(got) = sent
      BY <1>1, <2>1 DEF Delivered
    <3>3. base' # "connecting" /\ (base' = "syncStarted" => below = <<>>)
      BY <1>5
    <3> QED
      BY <1>5, <2>1, <3>1, <3>2, <3>3
  <2> QED
    BY <1>5, <1>6, <1>8, <2>2, <2>3, <2>4 DEF Delivered
<1> QED
  BY <1>7, <1>9, <1>10, <1>11, <1>12 DEF IInv

\* n numbers from a + 1 on, as write() counts the bytes.
Run(a, n) == [i \in 1..n |-> a + i]

LEMMA RunProperties ==
  ASSUME NEW a \in Nat, NEW n \in Nat
  PROVE  /\ Len(Run(a, n)) = n /\ \A i \in 1..n : Run(a, n)[i] = a + i
         /\ a + n <= MaxData => Run(a, n) \in Seq(1..MaxData)
<1>1. Len(Run(a, n)) = n /\ \A i \in 1..n : Run(a, n)[i] = a + i
  BY SMT DEF Run
<1>2. ASSUME a + n <= MaxData PROVE Run(a, n) \in Seq(1..MaxData)
  <2>1. \A i \in 1..n : a + i \in 1..MaxData
    BY <1>2, HttpPollAssumption, SMT
  <2> QED
    BY <2>1, SMT DEF Run
<1> QED
  BY <1>1, <1>2

\* A sequence with those elements is that run.
LEMMA IsRun ==
  ASSUME NEW s \in Seq(1..MaxData), NEW a \in Nat, NEW n \in Nat,
         Len(s) = n, \A i \in 1..n : s[i] = a + i
  PROVE  s = [i \in 1..n |-> a + i]
BY SMT

LEMMA RunGrows ==
  ASSUME NEW a \in Nat, NEW m \in Nat, NEW n \in Nat, a + m + n <= MaxData
  PROVE  /\ Run(a, m) \o [i \in 1..n |-> (a + m) + i] = Run(a, m + n)
         /\ Run(a, m + n) \in Seq(1..MaxData) /\ Len(Run(a, m + n)) = m + n
<1> DEFINE s == Run(a, m)
           t == Run(a + m, n)
<1>1. MaxData \in Nat /\ a + m \in Nat /\ m + n \in Nat /\ a + m <= MaxData /\ (a + m) + n <= MaxData
      /\ a + (m + n) <= MaxData
  BY HttpPollAssumption, SMT
<1>2. s \in Seq(1..MaxData) /\ Len(s) = m /\ \A i \in 1..m : s[i] = a + i
  BY <1>1, RunProperties
<1>3. t \in Seq(1..MaxData) /\ Len(t) = n /\ \A i \in 1..n : t[i] = (a + m) + i
  BY <1>1, RunProperties
<1>4. Run(a, m + n) \in Seq(1..MaxData) /\ Len(Run(a, m + n)) = m + n
  BY <1>1, RunProperties
<1>5. t = [i \in 1..n |-> (a + m) + i]
  BY DEF Run
<1> HIDE DEF s, t
<1>6. /\ s \o t \in Seq(1..MaxData) /\ Len(s \o t) = m + n
      /\ \A i \in 1..(m + n) : (s \o t)[i] = IF i <= m THEN s[i] ELSE t[i - m]
  BY <1>2, <1>3, ConcatProperties, ZenonT(60)
<1>7. \A i \in 1..(m + n) : (s \o t)[i] = a + i
  BY <1>2, <1>3, <1>6, SMT
<1>8. s \o t = [i \in 1..(m + n) |-> a + i]
  BY <1>1, <1>6, <1>7, IsRun
<1> QED
  BY <1>4, <1>5, <1>8 DEF Run, s

LEMMA TimeoutIInv == IInv /\ Timeout => IInv'
<1> SUFFICES ASSUME IInv, Timeout PROVE IInv'
  OBVIOUS
<1>1. TypeOK /\ Shape /\ Shaped(stack) /\ Chained /\ Counted /\ Delivered
  BY DEF IInv, Shape
<1>2. stack = <<>> /\ timer /\ top = "loop" /\ base = "loop" /\ ~Http!Posted /\ lastKey = cur
  BY <1>1, NoFrame DEF Timeout, Shape, Chained, top, base
<1>3. UNCHANGED <<state, closing, wbuf, httpVars, serverVars, histVars>>
  BY DEF Timeout
<1>4. CASE ~Http!isActive
  <2>1. DoSync(wbuf', <<>>)
    BY <1>3, <1>4 DEF Timeout, DoSync
  <2>2. sock = "idle"
    BY <1>4 DEF Http!isActive
  <2>3. ~gap => Len(got) = sent
    BY <1>1, <1>2 DEF Delivered
  <2>4. SentOnce' /\ acked <= wrote' /\ (state # 2 => wbuf' = <<>> /\ wrote' = wrote)
    BY <1>1, <1>3 DEF Counted, SentOnce, Shape, serverVars, histVars
  <2>5. wbuf' \in Seq(1..MaxData) /\ wrote' \in 0..MaxData /\ closing' \in BOOLEAN /\ calls' \in 0..MaxCalls
        /\ UNCHANGED <<acked, got, gap>>
    BY <1>1, <1>3 DEF TypeOK, histVars
  <2>6. ~Pending /\ top # "syncFinished"
    BY <1>2 DEF Pending
  <2> QED
    BY <1>2, <1>3, <2>1, <2>2, <2>3, <2>4, <2>5, <2>6, SyncIInv
<1>5. CASE Http!isActive
  <2>1. timer' = FALSE /\ UNCHANGED <<out, seed, key_n, stack>>
    BY <1>5 DEF Timeout
  <2>2. top' = "loop" /\ base' = "loop" /\ Shaped(stack)'
    BY <1>2, <2>1, NoFrame DEF top, base
  <2>3. TypeOK'
    <3>1. StreamTypes'
      BY <1>1, <1>3, <2>1 DEF TypeOK, StreamTypes, httpVars, serverVars, histVars
    <3>2. Http!TypeOK'
      BY <1>1, <1>3 DEF TypeOK, Http!TypeOK, httpVars
    <3> QED
      BY <3>1, <3>2 DEF TypeOK, StreamTypes
  <2>4. Shape' /\ Cookie'
    BY <1>2, <1>3, <2>1, <2>2 DEF IInv, Shape, Cookie, Has, Taken, cur, Http!Posted, httpVars, serverVars, histVars
  <2>5. Answering'
    BY <1>3 DEF IInv, Answering, InAnswer, Expected, httpVars
  <2>6. Chained'
    BY <1>2, <1>3, <2>1, <2>2 DEF IInv, Chained, Pending, Free, KeysChain, Effect, cur, Hash, Http!Posted, httpVars, serverVars
  <2>7. Counted'
    BY <1>2, <1>3, <2>1, <2>2 DEF IInv, Counted, SentOnce, Http!Posted, httpVars, serverVars, histVars
  <2>8. Delivered'
    BY <1>2, <1>3, <2>1, <2>2 DEF IInv, Delivered, Holds, Has, Pending, Http!Posted, httpVars, serverVars, histVars
  <2> QED
    BY <2>3, <2>4, <2>5, <2>6, <2>7, <2>8 DEF IInv
<1> QED
  BY <1>4, <1>5

\* The program starts no packet while one is made or its answer is judged.
WritesElsewhere == WriteIn \cap {"syncStarted", "syncFinished"} = {}

LEMMA WriteIInv ==
  ASSUME WritesElsewhere, IInv, NEW n \in 1..MaxData, Write(n)
  PROVE  IInv'
<1>1. TypeOK /\ Shape /\ Shaped(stack) /\ Chained /\ Counted /\ Delivered
  BY DEF IInv, Shape
<1>2. top \in {"loop", "connected", "bytesWritten", "readyRead"}
  <2>1. top = "loop" \/ top \in WriteIn
    BY <1>1, AtTop DEF Write
  <2> QED
    BY <2>1, HttpPollAssumption DEF WritesElsewhere, Slots
<1>3. /\ state = 2 /\ wrote' = wrote + n /\ wrote + n <= MaxData
      /\ wbuf' = wbuf \o [i \in 1..n |-> wrote + i]
      /\ UNCHANGED <<state, closing, httpVars, serverVars, calls, acked, got, gap>>
  BY DEF Write
<1> DEFINE m == wrote - acked
<1>4. /\ acked \in Nat /\ wrote \in Nat /\ n \in Nat /\ m \in Nat /\ m + n \in Nat
      /\ acked + m = wrote /\ acked + m + n <= MaxData /\ m + n = (wrote + n) - acked
      /\ wrote + n \in 0..MaxData /\ acked <= wrote + n
  <2>1. acked \in 0..MaxData /\ wrote \in 0..MaxData /\ acked <= wrote
    BY <1>1 DEF TypeOK, Counted
  <2> QED
    BY <1>3, <2>1, HttpPollAssumption, SMT
<1> HIDE DEF m
<1>5. wbuf' = Run(acked, m + n) /\ Len(wbuf') = m + n /\ wbuf' \in Seq(1..MaxData)
      /\ wbuf = Run(acked, m) /\ Len(wbuf) = m
  <2>1. wbuf = Run(acked, m)
    BY <1>1, <1>3 DEF Counted, SentOnce, Run, m
  <2>2. wbuf' = Run(acked, m) \o [i \in 1..n |-> (acked + m) + i]
    BY <1>3, <1>4, <2>1
  <2>3. Len(Run(acked, m)) = m
    BY <1>4, RunProperties
  <2>4. /\ Run(acked, m) \o [i \in 1..n |-> (acked + m) + i] = Run(acked, m + n)
        /\ Run(acked, m + n) \in Seq(1..MaxData) /\ Len(Run(acked, m + n)) = m + n
    BY <1>4, RunGrows, ZenonT(60)
  <2> QED
    BY <2>1, <2>2, <2>3, <2>4
<1>6. SentOnce'
  <2>1. wbuf' = [i \in 1..(wrote' - acked) |-> acked + i]
    BY <1>3, <1>4, <1>5 DEF Run
  <2> QED
    BY <1>1, <1>3, <2>1 DEF Counted, SentOnce, serverVars
<1>7. CASE wbuf = <<>> /\ ~Http!isActive
  <2>1. DoSync(wbuf', stack)
    BY <1>7 DEF Write
  <2>2. sock = "idle"
    BY <1>7 DEF Http!isActive
  <2>3. ~Pending /\ top # "syncFinished" /\ lastKey = cur
    BY <1>1, <1>2, <1>3, <2>2 DEF Pending, Chained, Free
  <2>4. \/ stack = <<>> /\ (~gap => Len(got) = sent)
        \/ \E f \in Frames : /\ f.at \in {"connected", "bytesWritten", "readyRead"}
                             /\ stack = <<f>> /\ stack = <<f>>
    <3>1. CASE top = "loop"
      <4>1. stack = <<>>
        BY <1>1, <3>1, AtTop
      <4> QED
        BY <1>1, <1>3, <2>2, <3>1, <4>1 DEF Delivered, Http!Posted
    <3>2. CASE top # "loop"
      BY <1>1, <1>2, <3>2, OnlyOne
    <3> QED
      BY <3>1, <3>2
  <2>5. UNCHANGED <<state, httpVars, serverVars, acked, got, gap>>
    BY <1>3
  <2>6. wrote' \in 0..MaxData /\ closing' \in BOOLEAN /\ calls' \in 0..MaxCalls /\ acked <= wrote'
    BY <1>1, <1>3, <1>4 DEF TypeOK
  <2> QED
    BY <1>3, <1>5, <1>6, <2>1, <2>2, <2>3, <2>4, <2>5, <2>6, SyncIInv
<1>8. CASE ~(wbuf = <<>> /\ ~Http!isActive)
  <2>1. UNCHANGED <<timer, out, seed, key_n, stack>>
    BY <1>8 DEF Write
  <2>2. top' = top /\ base' = base /\ Shaped(stack)' /\ Last(stack)' = Last(stack)
    BY <1>1, <2>1 DEF top, base
  <2>3. TypeOK'
    <3>1. StreamTypes'
      BY <1>1, <1>3, <1>4, <1>5, <2>1 DEF TypeOK, StreamTypes, httpVars, serverVars, histVars
    <3>2. Http!TypeOK'
      BY <1>1, <1>3 DEF TypeOK, Http!TypeOK, httpVars
    <3> QED
      BY <3>1, <3>2 DEF TypeOK, StreamTypes
  <2>4. Shape' /\ Cookie'
    BY <1>3, <2>1, <2>2 DEF IInv, Shape, Cookie, Has, Taken, cur, Pending, Http!Posted, httpVars, serverVars
  <2>5. Answering'
    BY <1>3 DEF IInv, Answering, InAnswer, Expected, httpVars
  <2>6. Chained'
    BY <1>3, <2>1, <2>2 DEF IInv, Chained, Pending, Free, KeysChain, Effect, cur, Hash, Http!Posted, httpVars, serverVars
  <2>7. Counted'
    <3>1. Len(out) <= Len(wbuf') /\ \A i \in 1..Len(out) : out[i] = wbuf'[i]
      <4>1. Len(out) <= m /\ Len(out) \in Nat /\ \A i \in 1..Len(out) : out[i] = Run(acked, m)[i]
        BY <1>1, <1>5, LenProperties DEF Counted, TypeOK
      <4>2. (\A i \in 1..m : Run(acked, m)[i] = acked + i) /\ \A i \in 1..(m + n) : Run(acked, m + n)[i] = acked + i
        BY <1>4, RunProperties
      <4>3. Len(out) <= m + n /\ \A i \in 1..Len(out) : i \in 1..m /\ i \in 1..(m + n)
        BY <1>4, <4>1, SMT
      <4> QED
        BY <1>5, <4>1, <4>2, <4>3
    <3>2. acked' <= wrote'
      BY <1>3, <1>4
    <3> QED
      BY <1>1, <1>2, <1>3, <1>6, <2>1, <2>2, <3>1, <3>2 DEF Counted, Http!Posted, httpVars, serverVars
  <2>8. Delivered'
    BY <1>3, <2>1, <2>2 DEF IInv, Delivered, Holds, Has, Pending, Http!Posted, httpVars, serverVars
  <2> QED
    BY <2>3, <2>4, <2>5, <2>6, <2>7, <2>8 DEF IInv
<1> QED
  BY <1>7, <1>8

LEMMA ConnectToHostIInv == IInv /\ ConnectToHost => IInv'
<1> SUFFICES ASSUME IInv, ConnectToHost PROVE IInv'
  OBVIOUS
<1> DEFINE frame == [at |-> "connecting", key |-> FirstKey.key, newkey |-> None]
<1>1. TypeOK /\ Cookie /\ seed \in 0..1
  BY DEF IInv, TypeOK
<1>2. /\ ResetStream /\ Http!TypeOK' /\ UNCHANGED <<postdata, headerLines, body>>
      /\ sock' \in {"idle", "closing"} /\ (sock' = "closing" => ~Has(headerLines)')
  BY <1>1, ResetHttp DEF ConnectToHost
<1>3. /\ FirstKey.key = <<1 - seed, Keys>> /\ FirstKey.key \in Key
      /\ FirstKey.seed = 1 - seed /\ FirstKey.key_n = Keys - 1
      /\ 1 - seed \in 0..1 /\ Keys - 1 \in 1..Keys /\ (Keys - 1) + 1 = Keys
  <2>1. 1 - seed \in 0..1 /\ Keys - 1 \in 1..Keys /\ (Keys - 1) + 1 = Keys /\ Keys \in 1..Keys
    BY <1>1, HttpPollAssumption, SMT
  <2> QED
    BY <2>1 DEF FirstKey, Key
<1>4. /\ frame \in Frames /\ frame.at = "connecting" /\ frame.key = FirstKey.key
      /\ Effect(frame) = FirstKey.key /\ stack' = <<frame>>
  BY <1>3 DEF Frames, Places, Effect, ConnectToHost
<1> HIDE DEF frame
<1>5. stack' \in Seq(Frames) /\ Shaped(stack)' /\ top' = "connecting" /\ base' = "connecting" /\ Last(stack)' = frame
  BY <1>4, OneFrame, ShapeOfOne DEF top, base
<1>6. /\ seed' = 1 - seed /\ key_n' = Keys - 1 /\ wrote' = 0 /\ acked' = 0 /\ got' = <<>> /\ gap' = FALSE
      /\ lastKey' = None /\ received' = <<>> /\ sent' = 0 /\ calls' = calls + 1 /\ calls < MaxCalls
  BY <1>3 DEF ConnectToHost
<1>7. state' = 0 /\ wbuf' = <<>> /\ out' = <<>> /\ closing' = FALSE /\ timer' = FALSE /\ ~Http!Posted'
  BY <1>2 DEF ResetStream, Http!Posted
<1>8. TypeOK'
  <2>1. calls' \in 0..MaxCalls
    BY <1>1, <1>6, HttpPollAssumption, SMT DEF TypeOK
  <2>2. StreamTypes'
    BY <1>1, <1>2, <1>3, <1>5, <1>6, <1>7, <2>1, Plain DEF TypeOK, StreamTypes
  <2> QED
    BY <1>2, <2>2 DEF TypeOK, StreamTypes
<1>9. Shape' /\ Answering' /\ Cookie'
  BY <1>2, <1>5, <1>7 DEF Shape, Answering, Cookie, Pending
<1>10. Chained'
  <2>1. cur' = Effect(frame)
    BY <1>3, <1>4, <1>6 DEF cur
  <2> QED
    BY <1>3, <1>4, <1>5, <1>7, <2>1 DEF Chained, Pending, KeysChain, Effect
<1>11. Counted'
  <2>1. Len(<<>>) = 0 /\ 1..0 = {} /\ <<>> = [i \in 1..0 |-> i] /\ 0 <= 0
    BY SMT
  <2> QED
    BY <1>5, <1>6, <1>7, <2>1 DEF Counted, SentOnce
<1>12. Delivered'
  <2>1. Len(<<>>) = 0 /\ <<>> = [i \in 1..0 |-> Http!Data(i)]
    BY SMT
  <2> QED
    BY <1>5, <1>6, <1>7, <2>1 DEF Delivered
<1> QED
  BY <1>8, <1>9, <1>10, <1>11, <1>12 DEF IInv

-----------------------------------------------------------------------------
(* The end of http_result().                                               *)

\* A handler returns to the event loop and nothing else changes.
LEMMA BackIInv ==
  ASSUME IInv, top \in {"connected", "bytesWritten", "sent", "readyRead"},
         sock = "idle" /\ ~gap => Len(got) = sent,
         stack' = <<>>, UNCHANGED <<streamVars, httpVars, keyVars, serverVars, histVars>>
  PROVE  IInv'
<1>1. UNCHANGED <<state, closing, wbuf, out, timer, sock, unsent, postdata, inHeader, headerLines, recvBuf,
                  body, wire, reply, broken, gone, seed, key_n, lastKey, received, sent,
                  calls, wrote, acked, got, gap>>
  BY DEF streamVars, httpVars, keyVars, serverVars, histVars
<1>2. top' = "loop" /\ base' = "loop" /\ Shaped(stack)'
  BY NoFrame DEF top, base
<1>3. TypeOK'
  <2>1. StreamTypes'
    BY <1>1, Plain DEF IInv, TypeOK, StreamTypes
  <2>2. Http!TypeOK'
    BY <1>1 DEF IInv, TypeOK, Http!TypeOK
  <2> QED
    BY <2>1, <2>2 DEF TypeOK, StreamTypes
<1>4. Shape' /\ Cookie'
  BY <1>1, <1>2 DEF IInv, Shape, Cookie, Has, Taken, cur, Http!Posted, Pending
<1>5. Answering'
  BY <1>1 DEF IInv, Answering, InAnswer, Expected
<1>6. Chained'
  BY <1>1, <1>2 DEF IInv, Chained, Pending, Free, KeysChain, Effect, cur, Hash, Http!Posted
<1>7. Counted'
  BY <1>1, <1>2 DEF IInv, Counted, SentOnce, Http!Posted
<1>8. Delivered'
  <2>1. sock \in {"idle", "connecting", "connected"}
    BY DEF IInv, TypeOK, Http!TypeOK, Shape
  <2> QED
    BY <1>1, <1>2, <2>1 DEF IInv, Delivered, Holds, Has, Pending, Http!Posted
<1> QED
  BY <1>3, <1>4, <1>5, <1>6, <1>7, <1>8 DEF IInv

LEMMA FinishIInv ==
  ASSUME IInv, top \in {"connected", "bytesWritten", "sent", "readyRead"},
         sock = "idle" /\ ~gap => Len(got) = sent,
         Finish(wbuf, <<>>), UNCHANGED <<serverVars, histVars>>
  PROVE  IInv'
<1>1. TypeOK /\ Cookie /\ Shape /\ Chained /\ Counted
  BY DEF IInv
<1>2. CASE /\ wbuf # <<>> /\ ~Http!isActive
           /\ DoSync(wbuf, <<>>) /\ wbuf' = wbuf /\ UNCHANGED <<state, closing, httpVars>>
  <2>1. sock = "idle" /\ state = 2 /\ ~Pending /\ top # "syncFinished"
    BY <1>1, <1>2 DEF Shape, Http!isActive, Pending
  <2>2. lastKey = cur
    BY <1>1, <2>1 DEF Chained, Free
  <2>3. UNCHANGED <<calls, wrote, acked, got, gap, lastKey, received, sent>>
    BY DEF serverVars, histVars
  <2>4. SentOnce' /\ acked <= wrote'
    BY <1>1, <1>2, <2>3 DEF Counted, SentOnce
  <2>5. wbuf' \in Seq(1..MaxData) /\ wrote' \in 0..MaxData /\ closing' \in BOOLEAN /\ calls' \in 0..MaxCalls
    BY <1>1, <1>2, <2>3 DEF TypeOK
  <2>6. DoSync(wbuf', <<>>) /\ UNCHANGED <<state, httpVars, serverVars, acked, got, gap>>
    BY <1>2, <2>3 DEF DoSync
  <2>7. ~gap => Len(got) = sent
    BY <2>1
  <2> QED
    BY <2>1, <2>2, <2>4, <2>5, <2>6, <2>7, SyncIInv
<1>3. CASE /\ wbuf # <<>> /\ Http!isActive
           /\ wbuf' = wbuf /\ stack' = <<>> /\ UNCHANGED <<state, closing, timer, out, keyVars, httpVars>>
  <2>1. UNCHANGED <<streamVars, httpVars, keyVars, serverVars, histVars>>
    BY <1>3 DEF streamVars
  <2> QED
    BY <1>3, <2>1, BackIInv
<1>4. CASE /\ wbuf = <<>> /\ stack' = <<>> /\ UNCHANGED keyVars
           /\ IF closing THEN Reset ELSE UNCHANGED <<streamVars, httpVars>>
  <2>1. CASE closing
    <3>1. /\ ResetStream /\ Http!TypeOK' /\ UNCHANGED <<postdata, headerLines, body>>
          /\ sock' \in {"idle", "closing"} /\ (sock' = "closing" => ~Has(headerLines)')
      BY <1>1, <1>4, <2>1, ResetHttp
    <3>2. Ended
      BY <1>4, <3>1 DEF Ended
    <3>3. StreamTypes'
      BY <1>1, <1>4, <3>1, Plain DEF TypeOK, StreamTypes, ResetStream, keyVars, serverVars, histVars
    <3>4. TypeOK'
      BY <3>1, <3>3 DEF TypeOK, StreamTypes
    <3> QED
      BY <1>4, <3>1, <3>2, <3>4, EndedIInv
  <2>2. CASE ~closing
    BY <1>4, <2>2, BackIInv
  <2> QED
    BY <2>1, <2>2
<1> QED
  BY <1>2, <1>3, <1>4 DEF Finish

LEMMA ReadyReadReturnsIInv == IInv /\ ReadyReadReturns => IInv'
<1> SUFFICES ASSUME IInv, ReadyReadReturns PROVE IInv'
  OBVIOUS
<1>1. Shaped(stack) /\ top = "readyRead"
  BY AtTop DEF IInv, Shape, ReadyReadReturns
<1>2. base = "readyRead" /\ Front(stack) = <<>>
  BY <1>1, OnlyOne
<1>3. sock = "idle" /\ ~gap => Len(got) = sent
  BY <1>2 DEF IInv, Delivered
<1>4. Finish(wbuf, <<>>) /\ UNCHANGED <<serverVars, histVars>>
  BY <1>2 DEF ReadyReadReturns
<1> QED
  BY <1>1, <1>3, <1>4, FinishIInv

LEMMA MiddleReturnsIInv == IInv /\ MiddleReturns => IInv'
<1> SUFFICES ASSUME IInv, MiddleReturns PROVE IInv'
  OBVIOUS
<1>1. TypeOK /\ Shape /\ Shaped(stack) /\ Answering /\ Chained /\ Counted /\ Delivered
  BY DEF IInv, Shape
<1>2. top \in {"connected", "bytesWritten", "sent"}
  BY AtTop DEF MiddleReturns
<1>3. base = top /\ Front(stack) = <<>>
  BY <1>1, <1>2, OnlyOne
<1>4. Deliver(<<>>) /\ UNCHANGED <<serverVars, calls, wrote, acked, gap>>
  BY <1>3 DEF MiddleReturns
<1>5. Len(got) \in Nat /\ sent \in Nat /\ Len(body) \in Nat /\ got \in Seq(Units) /\ body \in Seq(Units)
  BY <1>1, LenProperties, HttpPollAssumption, SMT DEF TypeOK, Http!TypeOK, Units
<1>6. CASE body = <<>> /\ Finish(wbuf, <<>>) /\ UNCHANGED got
  <2>1. sock = "idle" /\ ~gap => Len(got) = sent
    <3>1. Holds(<<>>) => Len(got) = sent
      BY <1>5, SMT DEF Holds
    <3> QED
      BY <1>1, <1>2, <1>3, <1>6, <3>1 DEF Delivered
  <2>2. UNCHANGED <<serverVars, histVars>>
    BY <1>4, <1>6 DEF histVars
  <2> QED
    BY <1>2, <1>6, <2>1, <2>2, FinishIInv
<1>7. CASE /\ body # <<>> /\ got' = IF gap THEN got ELSE got \o body
           /\ stack' = Append(<<>>, Slot("readyRead")) /\ UNCHANGED <<streamVars, httpVars, keyVars>>
  <2>1. UNCHANGED <<state, closing, wbuf, out, timer, sock, unsent, postdata, inHeader, headerLines, recvBuf,
                    body, wire, reply, broken, gone, seed, key_n, lastKey, received, sent,
                    calls, wrote, acked, gap>>
    BY <1>4, <1>7 DEF streamVars, httpVars, keyVars, serverVars
  <2>2. sock = "idle"
    BY <1>1, <1>2, <1>7 DEF TypeOK, Http!TypeOK, Shape, Answering
  <2>3. Slot("readyRead") \in Frames /\ Slot("readyRead").at = "readyRead"
    BY DEF Slot, Frames, Places, Slots
  <2>4. stack' \in Seq(Frames) /\ Shaped(stack)' /\ top' = "readyRead" /\ base' = "readyRead"
    BY <1>7, <2>3, OneFrame, ShapeOfOne DEF top, base
  <2>5. /\ got \o body \in Seq(Units) /\ Len(got \o body) = Len(got) + Len(body)
        /\ \A i \in 1..(Len(got) + Len(body)) :
             (got \o body)[i] = IF i <= Len(got) THEN got[i] ELSE body[i - Len(got)]
    BY <1>5, ConcatProperties
  <2>6. TypeOK'
    <3>1. got' \in Seq(Http!Units)
      BY <1>5, <1>7, <2>5 DEF Units
    <3>2. StreamTypes'
      BY <1>1, <2>1, <2>4, <3>1 DEF TypeOK, StreamTypes
    <3>3. Http!TypeOK'
      BY <1>1, <2>1 DEF TypeOK, Http!TypeOK
    <3> QED
      BY <3>2, <3>3 DEF TypeOK, StreamTypes
  <2>7. Shape' /\ Answering' /\ Cookie'
    BY <1>1, <1>2, <2>1, <2>2, <2>4 DEF Shape, Answering, Cookie, Pending, Http!Posted
  <2>8. Chained'
    BY <1>1, <1>2, <2>1, <2>2, <2>4 DEF Chained, Pending, Free, KeysChain, Effect, cur, Hash, Http!Posted
  <2>9. Counted'
    BY <1>1, <1>2, <2>1, <2>2, <2>4 DEF Counted, SentOnce, Http!Posted
  <2>10. Delivered'
    <3>1. SUFFICES ASSUME ~gap PROVE Delivered'
      BY <2>1 DEF Delivered
    <3>2. got' = got \o body /\ Holds(body) /\ got = [i \in 1..Len(got) |-> Http!Data(i)]
      BY <1>1, <1>2, <1>3, <1>7, <2>2, <3>1 DEF Delivered
    <3>3. Len(got') = sent
      BY <2>5, <3>2 DEF Holds
    <3>4. ASSUME NEW i \in 1..Len(got') PROVE got'[i] = Http!Data(i)
      <4>1. Len(got') = Len(got) + Len(body)
        BY <2>5, <3>2
      <4>2. CASE i <= Len(got)
        <5>1. i \in 1..Len(got)
          BY <1>5, <4>1, <4>2, SMT
        <5>2. got[i] = Http!Data(i)
          BY <3>2, <5>1
        <5> QED
          BY <2>5, <3>2, <4>1, <4>2, <5>2
      <4>3. CASE ~(i <= Len(got))
        <5>1. i - Len(got) \in 1..Len(body) /\ Len(got) + (i - Len(got)) = i
          BY <1>5, <4>1, <4>3, SMT
        <5>2. body[i - Len(got)] = Http!Data(Len(got) + (i - Len(got)))
          BY <3>2, <5>1 DEF Holds
        <5> QED
          BY <2>5, <3>2, <4>1, <4>3, <5>1, <5>2
      <4> QED
        BY <4>2, <4>3
    <3>5. got' = [i \in 1..Len(got') |-> Http!Data(i)]
      <4>1. got' \in Seq(Units)
        BY <2>5, <3>2
      <4>2. got' = [i \in 1..Len(got') |-> got'[i]]
        BY <4>1, LenProperties
      <4> QED
        BY <3>4, <4>2, Zenon
    <3> QED
      BY <2>1, <2>2, <2>4, <3>3, <3>5 DEF Delivered, Http!Posted
  <2> QED
    BY <2>6, <2>7, <2>8, <2>9, <2>10 DEF IInv
<1> QED
  BY <1>4, <1>6, <1>7 DEF Deliver

-----------------------------------------------------------------------------
(* Posting, and the end of a post.                                         *)

Less == {ss \in Nat \X Nat : ss[1] < ss[2]}

\* A set of numbers has a least one.
LEMMA LeastNumber ==
  ASSUME NEW T \in SUBSET Nat, T # {}
  PROVE  \E m \in T : \A n \in T : m <= n
<1>1. IsWellFoundedOn(Less, Nat)
  BY NatLessThanWellFounded DEF OpToRel, Less
<1>2. PICK m \in T : \A n \in T : ~(<<n, m>> \in Less)
  BY <1>1, WFMin, Zenon
<1>3. ASSUME NEW n \in T PROVE m <= n
  <2>1. m \in Nat /\ n \in Nat /\ ~(<<n, m>> \in Less)
    BY <1>2
  <2>2. ~(n < m)
    BY <2>1 DEF Less
  <2> QED
    BY <2>1, <2>2, SMT
<1> QED
  BY <1>3

\* The cookie that getHeader() finds is in the header.
LEMMA CookieFound ==
  ASSUME headerLines \in Seq(Texts), Http!getHeader(Cookies) = "ok"
  PROVE  Has(headerLines)
<1> DEFINE found == {i \in DOMAIN headerLines : headerLines[i][1] \in Cookies}
<1>1. Http!getHeader(Cookies) = IF found = {} THEN None ELSE headerLines[Http!Min(found)][1]
  BY DEF Http!getHeader
<1>2. found # {} /\ headerLines[Http!Min(found)][1] = "ok"
  BY <1>1, HttpPollAssumption
<1>3. found \subseteq 1..Len(headerLines) /\ found \in SUBSET Nat
  <2>1. DOMAIN headerLines = 1..Len(headerLines) /\ Len(headerLines) \in Nat
    BY LenProperties
  <2> QED
    BY <2>1, SMT
<1> HIDE DEF found
<1>4. Http!Min(found) \in found
  <2>1. \E m \in found : \A n \in found : m <= n
    BY <1>2, <1>3, LeastNumber
  <2> QED
    BY <2>1, Zenon DEF Http!Min
<1> QED
  BY <1>2, <1>3, <1>4 DEF Has

LEMMA SyncSucceededIInv == IInv /\ SyncSucceeded => IInv'
<1> SUFFICES ASSUME IInv, SyncSucceeded PROVE IInv'
  OBVIOUS
<1>1. TypeOK /\ Shape /\ Shaped(stack) /\ Cookie /\ Chained /\ Counted /\ Delivered
  BY DEF IInv, Shape
<1>2. top = "syncFinished" /\ Http!getHeader(Cookies) = "ok"
  BY AtTop DEF SyncSucceeded
<1>3. base = top /\ Front(stack) = <<>> /\ sock = "idle"
  BY <1>1, <1>2, OnlyOne DEF Shape
<1>4. Has(headerLines)
  BY <1>1, <1>2, CookieFound DEF TypeOK, Http!TypeOK, Texts
<1>5. Taken
  BY <1>1, <1>2, <1>4 DEF Cookie
<1>6. UNCHANGED <<sock, unsent, postdata, inHeader, headerLines, recvBuf, body, wire, reply, broken, gone,
                  closing, seed, key_n, lastKey, received, sent, calls, wrote, got, gap>>
      /\ timer' = (timer \/ wbuf # <<>> \/ ~closing) /\ state' = IF state = 1 THEN 2 ELSE state
  BY DEF SyncSucceeded, httpVars, keyVars, serverVars
<1>7. /\ stack' \in Seq(Frames) /\ Shaped(stack)' /\ base' = top'
      /\ top' \in {"connected", "bytesWritten", "sent"}
  <2>1. ASSUME NEW at \in {"connected", "bytesWritten", "sent"}, stack' = Append(<<>>, Slot(at))
        PROVE  /\ stack' \in Seq(Frames) /\ Shaped(stack)' /\ base' = top'
               /\ top' \in {"connected", "bytesWritten", "sent"}
    <3>1. Slot(at) \in Frames /\ Slot(at).at = at
      BY DEF Slot, Frames, Places, Slots
    <3> QED
      BY <2>1, <3>1, OneFrame, ShapeOfOne DEF top, base
  <2>2. \E at \in {"connected", "bytesWritten", "sent"} : stack' = Append(<<>>, Slot(at))
    BY <1>3 DEF SyncSucceeded
  <2> QED
    BY <2>1, <2>2
<1>8. /\ acked \in Nat /\ wrote \in Nat /\ Len(out) \in 0..Len(wbuf) /\ Len(wbuf) \in Nat
      /\ Len(received) \in Nat /\ wbuf \in Seq(1..MaxData) /\ wrote <= MaxData /\ acked <= wrote
  <2>1. Len(out) \in Nat /\ Len(wbuf) \in Nat /\ Len(received) \in Nat
    BY <1>1, LenProperties DEF TypeOK
  <2>2. Len(out) <= Len(wbuf) /\ acked <= wrote
    BY <1>1 DEF Counted
  <2> QED
    BY <1>1, <2>1, <2>2, HttpPollAssumption, SMT DEF TypeOK
\* What is left in the buffer, and what is reported.
<1>9. /\ wbuf' \in Seq(1..MaxData) /\ out' = <<>> /\ acked' \in 0..MaxData
      /\ state' = 2 => wbuf' = [i \in 1..(wrote - acked') |-> acked' + i]
      /\ acked' <= wrote /\ acked' <= Len(received)
      /\ state' = 2 => Len(received) = acked'
      /\ state' # 2 => wbuf' = <<>>
      /\ state' # 1
  <2>1. CASE state = 1
    <3>1. UNCHANGED <<wbuf, out, acked>> /\ wbuf = <<>> /\ out = <<>> /\ state' = 2
      BY <1>1, <1>6, <2>1 DEF SyncSucceeded, Shape
    <3>2. wrote = 0 /\ acked = 0 /\ received = <<>>
      BY <1>1, <2>1 DEF Counted
    <3>3. Len(<<>>) = 0 /\ <<>> = [i \in 1..(0 - 0) |-> 0 + i] /\ 0 <= 0
      BY SMT
    <3> QED
      BY <3>1, <3>2, <3>3, Plain
  <2>2. CASE state = 2
    <3>1. /\ wbuf' = Drop(wbuf, Len(out)) /\ out' = <<>> /\ acked' = acked + Len(out) /\ state' = 2
      BY <1>6, <2>2 DEF SyncSucceeded
    <3>2. Len(received) = acked + Len(out)
      BY <1>5, <2>2 DEF Taken
    <3>3. /\ Drop(wbuf, Len(out)) \in Seq(1..MaxData) /\ Len(Drop(wbuf, Len(out))) = Len(wbuf) - Len(out)
          /\ \A i \in 1..(Len(wbuf) - Len(out)) : Drop(wbuf, Len(out))[i] = wbuf[Len(out) + i]
      BY <1>8, Dropped
    <3>4. wbuf = [i \in 1..(wrote - acked) |-> acked + i]
      BY <1>1, <2>2 DEF Counted, SentOnce
    <3>5. wrote - acked \in Nat
      BY <1>8, SMT
    <3>6. Len(wbuf) = wrote - acked
      BY <3>4, <3>5, SMT
    <3>7. /\ wrote - acked' \in Nat /\ Len(wbuf) - Len(out) = wrote - acked' /\ acked' \in Nat
          /\ acked' \in 0..MaxData /\ acked' <= wrote /\ acked' <= Len(received)
      BY <1>8, <3>1, <3>2, <3>6, HttpPollAssumption, SMT
    <3>8. ASSUME NEW i \in 1..(wrote - acked') PROVE wbuf'[i] = acked' + i
      <4>1. i \in 1..(Len(wbuf) - Len(out)) /\ Len(out) + i \in 1..(wrote - acked)
            /\ acked + (Len(out) + i) = acked' + i
        BY <1>8, <3>1, <3>6, <3>7, SMT
      <4>2. wbuf[Len(out) + i] = acked + (Len(out) + i)
        BY <3>4, <4>1
      <4> QED
        BY <3>1, <3>3, <4>1, <4>2
    <3>9. wbuf' \in Seq(1..MaxData) /\ Len(wbuf') = wrote - acked'
      BY <3>1, <3>3, <3>7
    <3>10. wbuf' = [i \in 1..(wrote - acked') |-> acked' + i]
      BY <3>7, <3>8, <3>9, IsRun
    <3> QED
      BY <3>1, <3>2, <3>7, <3>9, <3>10
  <2>3. CASE state # 1 /\ state # 2
    <3>1. wbuf = <<>> /\ out = <<>> /\ wbuf' = Drop(wbuf, Len(out)) /\ out' = <<>> /\ acked' = acked + Len(out)
          /\ state' = state
      BY <1>1, <1>6, <2>3 DEF SyncSucceeded, Shape
    <3>2. Len(out) = 0 /\ acked' = acked
      BY <1>8, <3>1, SMT
    <3>3. wbuf' = <<>>
      <4>1. Len(wbuf) = 0 /\ Len(out) + 1 = 1
        BY <3>1, <3>2, SMT
      <4>2. SubSeq(wbuf, 1, 0) = <<>>
        BY SubSeqEmpty, SMT
      <4> QED
        BY <3>1, <4>1, <4>2 DEF Drop
    <3>4. acked <= Len(received)
      BY <1>1 DEF Counted, SentOnce
    <3> QED
      BY <1>1, <1>8, <2>3, <3>1, <3>2, <3>3, <3>4, Plain DEF TypeOK
  <2> QED
    BY <2>1, <2>2, <2>3
<1>10. TypeOK'
  <2>1. state' \in 0..2
    BY <1>1, <1>6, Plain DEF TypeOK
  <2>2. StreamTypes'
    BY <1>1, <1>6, <1>7, <1>9, <2>1, Plain DEF TypeOK, StreamTypes
  <2>3. Http!TypeOK'
    BY <1>1, <1>6 DEF TypeOK, Http!TypeOK
  <2> QED
    BY <2>2, <2>3 DEF TypeOK, StreamTypes
<1>11. sock' = "idle" /\ ~Http!Posted'
  BY <1>3, <1>6 DEF Http!Posted
<1>12. Shape' /\ Answering' /\ Cookie'
  BY <1>7, <1>9, <1>11 DEF Shape, Answering, Cookie, Pending
<1>13. Chained'
  <2>1. lastKey' = cur'
    BY <1>5, <1>6 DEF Taken, cur
  <2> QED
    BY <1>7, <1>11, <2>1 DEF Chained, Pending, KeysChain
<1>14. Counted'
  <2>1. SentOnce'
    BY <1>1, <1>6, <1>9 DEF Counted, SentOnce
  <2>2. Len(<<>>) = 0 /\ 1..0 = {} /\ 0 <= Len(wbuf')
    BY <1>9, LenProperties, SMTT(30)
  <2> QED
    BY <1>6, <1>7, <1>9, <1>11, <2>1, <2>2 DEF Counted
<1>15. Delivered'
  <2>1. ~gap => Holds(body) /\ got = [i \in 1..Len(got) |-> Http!Data(i)]
    BY <1>1, <1>2, <1>4 DEF Delivered
  <2> QED
    BY <1>6, <1>7, <1>11, <2>1, ZenonT(60) DEF Delivered, Holds, Pending
<1> QED
  BY <1>10, <1>12, <1>13, <1>14, <1>15 DEF IInv

\* syncStarted() has returned: the packet is on its way with what do_sync() put
\* in it.
LEMMA SyncStartedReturnsIInv == IInv /\ SyncStartedReturns => IInv'
<1> SUFFICES ASSUME IInv, SyncStartedReturns PROVE IInv'
  OBVIOUS
<1> DEFINE g     == Last(stack)
           first == g.at = "connecting"
<1>1. TypeOK /\ Shape /\ Shaped(stack) /\ Chained /\ Counted /\ Delivered
  BY DEF IInv, Shape
<1>2. top \in {"connecting", "syncStarted"} /\ Pending
  BY AtTop DEF SyncStartedReturns, Pending
<1>3. /\ g \in Frames /\ top = g.at /\ stack' \in Seq(Frames) /\ Shaped(stack)' /\ base' = top'
      /\ top' \in {"loop", "connected", "bytesWritten", "readyRead"}
      /\ \/ base \in {"connecting", "syncStarted"}
         \/ /\ base = "readyRead"
         \/ /\ top = "syncStarted" /\ base \in {"connected", "bytesWritten"}
            /\ 1 \in DOMAIN stack /\ stack[1].at = base
  <2>1. stack' = Front(stack)
    BY DEF SyncStartedReturns
  <2>2. CASE \E f \in Frames : stack = <<f>>
    <3>1. PICK f \in Frames : stack = <<f>>
      BY <2>2
    <3>2. Last(stack) = f /\ stack' = <<>> /\ top = f.at /\ base = f.at
      BY <2>1, <3>1, OneFrame, ShapeOfOne DEF top, base
    <3>3. top' = "loop" /\ base' = "loop" /\ Shaped(stack)' /\ stack' \in Seq(Frames)
      BY <3>2, NoFrame, Plain DEF top, base
    <3> QED
      BY <1>2, <3>2, <3>3
  <2>3. CASE \E f, h \in Frames : stack = <<f, h>> /\ Nested(f, h)
    <3>1. PICK f \in Frames, h \in Frames : stack = <<f, h>> /\ Nested(f, h)
      BY <2>3
    <3>2. /\ Last(stack) = h /\ stack' = <<f>> /\ top = h.at /\ base = f.at
          /\ f.at \in {"connected", "bytesWritten", "readyRead"} /\ h.at = "syncStarted"
      BY <2>1, <3>1, TwoFrames, ShapeOfTwo DEF top, base, Nested
    <3>3. top' = f.at /\ base' = f.at /\ Shaped(stack)' /\ stack' \in Seq(Frames)
      BY <3>2, OneFrame, ShapeOfOne DEF top, base
    <3>4. 1 \in DOMAIN stack /\ stack[1] = f
      BY <3>1, SMT
    <3> QED
      BY <3>2, <3>3, <3>4
  <2>4. stack # <<>>
    BY <1>2, NoFrame DEF top
  <2> QED
    BY <1>1, <2>2, <2>3, <2>4 DEF Shaped
<1> DEFINE p == [first |-> first, key |-> g.key, newkey |-> g.newkey,
                 block |-> IF first THEN <<>> ELSE out]
<1>4. /\ sock' = "connecting" /\ unsent' = 0 /\ postdata' = p
      /\ recvBuf' = <<>> /\ body' = <<>>
      /\ wire' = <<>> /\ reply' = None /\ broken' = FALSE /\ gone' = FALSE
      /\ UNCHANGED <<inHeader, headerLines>>
      /\ state' = (IF first THEN 1 ELSE state)
  BY DEF SyncStartedReturns, Http!post
<1>5. UNCHANGED <<closing, wbuf, out, timer, seed, key_n, lastKey, received, sent, calls, wrote, acked, got>>
      /\ gap' = (gap \/ Undelivered)
  BY DEF SyncStartedReturns, keyVars, serverVars
<1>6. g.key \in Key /\ g.newkey \in Key \cup {None} /\ Effect(g) = cur /\ (~first => Hash(g.key) = lastKey)
  <2>1. g.newkey \in Key \cup {None}
    BY <1>3 DEF Frames
  <2>2. ~first => top = "syncStarted"
    BY <1>2, <1>3
  <2> QED
    BY <1>1, <1>2, <2>1, <2>2 DEF Chained
<1>7. first => top = "connecting" /\ state = 0 /\ out = <<>> /\ wbuf = <<>>
               /\ wrote = 0 /\ acked = 0 /\ received = <<>>
  BY <1>1, <1>3 DEF Shape, Counted
<1>8. /\ p \in Packets /\ p.first = first /\ p.key = g.key /\ p.newkey = g.newkey /\ p.block = out
  <2>1. (IF first THEN <<>> ELSE out) = out /\ out \in Seq(1..MaxData)
    BY <1>1, <1>7 DEF TypeOK
  <2> QED
    BY <1>6, <2>1 DEF Packets
<1>9. ~first => sock = "idle"
  BY <1>1, <1>2, <1>3 DEF Shape
<1> HIDE DEF g, p
<1>10. Effect(p) = cur
  BY <1>6, <1>8 DEF Effect
<1>11. TypeOK'
  <2>1. state' \in 0..2 /\ postdata' \in Packets /\ gap' \in BOOLEAN
    BY <1>1, <1>4, <1>5, <1>8, HttpPollAssumption DEF TypeOK, Undelivered
  <2>2. StreamTypes'
    BY <1>1, <1>3, <1>5, <2>1 DEF TypeOK, StreamTypes
  <2>3. Http!TypeOK'
    BY <1>1, <1>4, Plain DEF TypeOK, Http!TypeOK
  <2> QED
    BY <2>2, <2>3 DEF TypeOK, StreamTypes
<1>12. Http!Posted'
  BY <1>4 DEF Http!Posted
<1>13. Shape'
  BY <1>1, <1>2, <1>3, <1>4, <1>5, <1>7 DEF Shape, Pending
<1>14. Answering' /\ Cookie'
  BY <1>3, <1>4 DEF Answering, Cookie
<1>15. Chained'
  <2>1. postdata' \in Packets /\ Effect(postdata') = cur' /\ (~postdata'.first => Hash(postdata'.key) = lastKey')
    BY <1>4, <1>5, <1>6, <1>8, <1>10 DEF cur
  <2>2. ~timer' /\ ~Pending' /\ ~Free'
    BY <1>1, <1>2, <1>3, <1>4, <1>5 DEF Shape, Pending, Free
  <2>3. top' # "syncStarted"
    BY <1>3
  <2> QED
    BY <2>1, <2>2, <2>3 DEF Chained, KeysChain, Effect, Hash
<1>16. Counted'
  <2>1. state' = 2 => state = 2 /\ ~first
    BY <1>4, <1>7
  <2>2. state = 2 /\ ~first => Len(received) = acked
    BY <1>1, <1>2, <1>9 DEF Counted, Http!Posted
  <2>3. state' = 1 => wrote = 0 /\ acked = 0 /\ received = <<>>
    BY <1>1, <1>4, <1>7 DEF Counted
  <2>4. SentOnce'
    BY <1>1, <1>5, <2>1 DEF Counted, SentOnce
  <2> QED
    BY <1>1, <1>3, <1>4, <1>5, <1>8, <2>1, <2>2, <2>3, <2>4 DEF Counted
<1>17. Delivered'
  <2>1. SUFFICES ASSUME ~gap, ~Undelivered PROVE Delivered'
    BY <1>5 DEF Delivered
  <2>2. Len(got) = sent
    <3>1. CASE base \in {"readyRead", "syncStarted", "connecting"}
      BY <1>1, <1>2, <2>1, <3>1 DEF Delivered
    <3>2. CASE /\ top = "syncStarted" /\ base \in {"connected", "bytesWritten"}
               /\ 1 \in DOMAIN stack /\ stack[1].at = base
      <4>1. body = <<>>
        BY <2>1, <3>2 DEF Undelivered
      <4>2. Holds(<<>>)
        BY <1>1, <2>1, <3>2, <4>1 DEF Delivered, Shape
      <4>3. Len(got) \in Nat /\ Len(<<>>) = 0
        BY <1>1, LenProperties, Plain DEF TypeOK
      <4> QED
        BY <4>2, <4>3, SMT DEF Holds
    <3> QED
      BY <1>3, <3>1, <3>2
  <2>3. got = [i \in 1..Len(got) |-> Http!Data(i)]
    BY <1>1, <2>1 DEF Delivered
  <2> QED
    BY <1>3, <1>4, <1>5, <1>12, <2>2, <2>3 DEF Delivered, Pending
<1> QED
  BY <1>11, <1>13, <1>14, <1>15, <1>16, <1>17 DEF IInv

\* The connection has ended, and what has been received is the body: that of the
\* whole answer, unless it was broken off.
LEMMA HttpResultIInv == IInv /\ HttpResult => IInv'
<1> SUFFICES ASSUME IInv, HttpResult PROVE IInv'
  OBVIOUS
<1>1. TypeOK /\ Shape /\ Answering /\ Cookie /\ Chained /\ Counted /\ Delivered
  BY DEF IInv
<1>2. /\ sock \in {"connected", "closing"} /\ gone /\ wire = <<>>
      /\ sock' = "idle" /\ unsent' = 0 /\ body' = recvBuf /\ recvBuf' = <<>>
      /\ UNCHANGED <<postdata, inHeader, headerLines, wire, reply, broken, gone>>
  BY DEF HttpResult, Http!SockConnectionClosed, Http!serverVars
<1>3. /\ stack' = << Slot("syncFinished") >> /\ gap' = (gap \/ broken)
      /\ UNCHANGED <<state, closing, wbuf, out, timer, seed, key_n, lastKey, received, sent,
                     calls, wrote, acked, got>>
  BY DEF HttpResult, streamVars, keyVars, serverVars
<1>4. stack' \in Seq(Frames) /\ Shaped(stack)' /\ top' = "syncFinished" /\ base' = "syncFinished"
  <2>1. Slot("syncFinished") \in Frames /\ Slot("syncFinished").at = "syncFinished"
    BY DEF Slot, Frames, Places, Slots
  <2> QED
    BY <1>3, <2>1, OneFrame, ShapeOfOne DEF top, base
<1>5. TypeOK'
  <2>1. StreamTypes'
    BY <1>1, <1>2, <1>3, <1>4 DEF TypeOK, StreamTypes, Http!TypeOK
  <2>2. Http!TypeOK'
    BY <1>1, <1>2, Plain DEF TypeOK, Http!TypeOK
  <2> QED
    BY <2>1, <2>2 DEF TypeOK, StreamTypes
<1>6. ~Http!Posted' /\ ~Pending'
  BY <1>2, <1>4 DEF Http!Posted, Pending
<1>7. Shape' /\ Answering'
  BY <1>1, <1>2, <1>3, <1>4, <1>6 DEF Shape, Answering
<1>8. Cookie'
  BY <1>1, <1>2, <1>3 DEF Cookie, Has, Taken, cur
<1>9. Chained'
  BY <1>1, <1>2, <1>3, <1>4, <1>6 DEF Chained, Free, KeysChain, cur
<1>10. Counted'
  BY <1>1, <1>2, <1>3, <1>4, <1>6 DEF Counted, SentOnce
<1>11. Delivered'
  <2>1. SUFFICES ASSUME ~gap, ~broken PROVE Delivered'
    BY <1>3 DEF Delivered
  <2>2. ASSUME Has(headerLines) PROVE Holds(recvBuf)
    <3>1. sock = "connected" /\ reply # None
      BY <1>1, <1>2, <2>1, <2>2 DEF Cookie, Answering
    <3>2. PICK k \in -1..2 : InAnswer(k)
      BY <1>1, <3>1 DEF Answering
    <3>3. reply \in Answers /\ Len(reply) \in Nat /\ Len(recvBuf) \in Nat /\ Len(<<>>) = 0
      BY <1>1, <3>1, LenProperties, Plain DEF TypeOK, Http!TypeOK, Answers
    <3>4. Len(recvBuf) + 0 = 2 * k + 2 + Len(reply) /\ (k >= 0 => Len(recvBuf) <= 1)
      BY <1>2, <2>1, <3>2, <3>3 DEF InAnswer
    <3>5. k = -1 /\ Len(recvBuf) = Len(reply)
      BY <3>3, <3>4, SMT
    <3>6. \A i \in 1..Len(recvBuf) : recvBuf[i] = reply[i]
      <4>1. \A i \in 1..Len(recvBuf) : Expected(-1, i, recvBuf[i])
        BY <3>2, <3>5 DEF InAnswer
      <4>2. \A i \in 1..Len(recvBuf) : i > 2 * (-1) + 2 /\ i - (2 * (-1) + 2) = i
        BY <3>3, SMT
      <4> QED
        BY <4>1, <4>2 DEF Expected
    <3>7. Holds(reply)
      BY <1>1, <2>1, <3>1 DEF Delivered, Http!Posted
    <3> QED
      BY <3>5, <3>6, <3>7 DEF Holds
  <2>3. Has(headerLines)' => Holds(body)'
    BY <1>2, <1>3, <2>2 DEF Has, Holds
  <2> QED
    BY <1>1, <1>3, <1>4, <1>6, <2>1, <2>3 DEF Delivered
<1> QED
  BY <1>5, <1>7, <1>8, <1>9, <1>10, <1>11 DEF IInv

-----------------------------------------------------------------------------
(* Events of the connection.                                               *)

\* An event that changes what has been read, sent or lost.
LEMMA EventIInv ==
  ASSUME IInv, Http!TypeOK', Answering', Cookie',
         stack = <<>> \/ UNCHANGED <<sock, headerLines>>,
         Http!Posted' <=> Http!Posted, sock' = "closing" => sock = "closing",
         sock' = "idle" => sock = "idle" \/ state = 0,
         UNCHANGED <<streamVars, stack, keyVars, serverVars, histVars, postdata, body, reply>>
  PROVE  IInv'
<1>1. TypeOK /\ Shape /\ Chained /\ Counted /\ Delivered
  BY DEF IInv
<1>2. UNCHANGED <<state, closing, wbuf, out, timer, seed, key_n, lastKey, received, sent,
                  calls, wrote, acked, got, gap>>
  BY DEF streamVars, keyVars, serverVars, histVars
<1>3. top' = top /\ base' = base /\ Shaped(stack)' /\ Pending' = Pending /\ Last(stack)' = Last(stack)
      /\ (stack = <<>> => top = "loop" /\ base = "loop")
  BY NoFrame DEF IInv, Shape, top, base, Pending
<1>4. TypeOK'
  <2>1. StreamTypes'
    BY <1>1, <1>2 DEF TypeOK, StreamTypes
  <2> QED
    BY <2>1 DEF TypeOK, StreamTypes
<1>5. CASE stack = <<>>
  <2>1. Shape'
    BY <1>1, <1>2, <1>3, <1>5 DEF Shape, Pending
  <2>2. Chained'
    BY <1>1, <1>2, <1>3, <1>5 DEF Chained, Free, Pending, KeysChain, Effect, Hash, cur
  <2>3. Counted'
    BY <1>1, <1>2, <1>3, <1>5 DEF Counted, SentOnce
  <2>4. Delivered'
    BY <1>1, <1>2, <1>3, <1>5 DEF Delivered, Holds, Pending
  <2> QED
    BY <1>4, <2>1, <2>2, <2>3, <2>4 DEF IInv
<1>6. CASE UNCHANGED <<sock, headerLines>>
  <2>1. Shape'
    BY <1>1, <1>2, <1>3, <1>6 DEF Shape
  <2>2. Chained'
    BY <1>1, <1>2, <1>3, <1>6 DEF Chained, Free, KeysChain, Effect, Hash, cur
  <2>3. Counted'
    BY <1>1, <1>2, <1>3, <1>6 DEF Counted, SentOnce
  <2>4. Delivered'
    BY <1>1, <1>2, <1>3, <1>6 DEF Delivered, Holds, Has
  <2> QED
    BY <1>4, <2>1, <2>2, <2>3, <2>4 DEF IInv
<1> QED
  BY <1>5, <1>6

LEMMA SockConnectedIInv ==
  ASSUME IInv, stack = <<>>, Http!SockConnected,
         UNCHANGED <<streamVars, stack, keyVars, serverVars, histVars>>
  PROVE  IInv'
<1>1. /\ sock = "connecting" /\ sock' = "connected" /\ unsent' = 2
      /\ inHeader' = TRUE /\ headerLines' = <<>>
      /\ UNCHANGED <<postdata, recvBuf, body, wire, reply, broken, gone>>
  BY DEF Http!SockConnected, Http!serverVars
<1>2. Http!TypeOK'
  BY <1>1, Plain DEF IInv, TypeOK, Http!TypeOK
<1>3. recvBuf = <<>> /\ wire = <<>> /\ reply = None /\ ~gone /\ ~broken
  BY <1>1 DEF IInv, Answering
<1>4. Answering'
  BY <1>1, <1>3 DEF Answering
<1>5. ~Has(<<>>)
  BY SMT DEF Has
<1>6. top' # "syncFinished"
  BY NoFrame DEF top
<1>7. Cookie'
  BY <1>1, <1>3, <1>5, <1>6 DEF Cookie, Has
<1> QED
  BY <1>1, <1>2, <1>4, <1>7, EventIInv DEF Http!Posted

LEMMA SockBytesWrittenIInv ==
  ASSUME IInv, stack = <<>>, Http!SockBytesWritten,
         UNCHANGED <<streamVars, stack, keyVars, serverVars, histVars>>
  PROVE  IInv'
<1>1. /\ unsent > 0 /\ unsent' = unsent - 1
      /\ sock' = IF sock = "closing" /\ unsent = 1 THEN "idle" ELSE sock
      /\ UNCHANGED <<postdata, inHeader, headerLines, recvBuf, body, wire, reply, broken, gone>>
  BY DEF Http!SockBytesWritten, Http!serverVars
<1>2. unsent \in 1..2 /\ unsent' \in 0..2 /\ unsent # 0 /\ (unsent = 1 => unsent' = 0)
  BY <1>1, SMT DEF IInv, TypeOK, Http!TypeOK
<1>3. sock \in {"connected", "closing"}
  BY <1>2 DEF IInv, TypeOK, Http!TypeOK
<1>4. Http!TypeOK'
  BY <1>1, <1>2, <1>3 DEF IInv, TypeOK, Http!TypeOK
<1>5. Answering'
  BY <1>1, <1>3 DEF IInv, Answering, InAnswer, Expected
<1>6. top' # "syncFinished"
  BY NoFrame DEF top
<1>7. Cookie'
  BY <1>1, <1>2, <1>3, <1>6 DEF IInv, Cookie, Has
<1>8. sock = "closing" => state = 0
  BY DEF IInv, Shape
<1>9. /\ Http!Posted' <=> Http!Posted
      /\ sock' = "closing" => sock = "closing"
      /\ sock' = "idle" => sock = "idle" \/ state = 0
  BY <1>1, <1>3, <1>8 DEF Http!Posted
<1> QED
  BY <1>1, <1>4, <1>5, <1>7, <1>9, EventIInv

LEMMA LeaveIInv ==
  ASSUME IInv, NEW lost \in BOOLEAN, Http!Leave(lost),
         UNCHANGED <<streamVars, stack, keyVars, serverVars, histVars>>
  PROVE  IInv'
<1>1. /\ sock \in {"connected", "closing"} /\ ~gone /\ gone' = TRUE
      /\ broken' = (reply = None \/ lost)
      /\ wire' = IF lost THEN <<>> ELSE wire
      /\ UNCHANGED <<sock, unsent, postdata, inHeader, headerLines, recvBuf, body, reply>>
  BY DEF Http!Leave
<1>2. Http!TypeOK'
  BY <1>1, Plain DEF IInv, TypeOK, Http!TypeOK
<1>3. Answering'
  <2>1. SUFFICES ASSUME sock = "connected" PROVE Answering'
    BY <1>1 DEF Answering
  <2>2. ~broken
    BY <1>1, <2>1 DEF IInv, Answering
  <2>3. CASE reply = None
    BY <1>1, <2>1, <2>3 DEF IInv, Answering
  <2>4. CASE reply # None
    <3>1. PICK k \in -1..2 : InAnswer(k)
      BY <2>1, <2>4 DEF IInv, Answering
    <3>2. InAnswer(k)'
      <4>1. CASE lost
        <5>1. Len(recvBuf) \in Nat /\ Len(wire) \in Nat /\ Len(reply) \in Nat
          BY <2>4, LenProperties DEF IInv, TypeOK, Http!TypeOK
        <5>2. Len(recvBuf) + Len(wire) <= 2 * k + 2 + Len(reply)
          BY <3>1 DEF InAnswer
        <5>3. Len(<<>>) = 0 /\ 1..0 = {} /\ Len(recvBuf) + 0 <= 2 * k + 2 + Len(reply)
          BY <5>1, <5>2, SMT
        <5>4. wire' = <<>> /\ broken'
          BY <1>1, <4>1
        <5>5. Len(recvBuf') + Len(wire') <= 2 * k + 2 + Len(reply')
          BY <1>1, <5>3, <5>4
        <5>6. \A i \in 1..Len(wire') : Expected(k, Len(recvBuf) + i, wire[i])'
          BY <5>3, <5>4
        <5> QED
          BY <1>1, <3>1, <5>4, <5>5, <5>6 DEF InAnswer, Expected
      <4>2. CASE ~lost
        BY <1>1, <2>2, <3>1, <4>2 DEF InAnswer, Expected
      <4> QED
        BY <4>1, <4>2
    <3> QED
      BY <1>1, <2>1, <2>4, <3>2 DEF Answering
  <2> QED
    BY <2>3, <2>4
<1>4. top \in {"loop", "connecting"} /\ (sock = "connected" => top = "loop") /\ top' = top
  BY <1>1 DEF IInv, Shape, top
<1>5. Cookie'
  <2>1. ~Has(<<>>)
    BY SMT DEF Has
  <2>2. Has(wire)' => Has(wire)
    BY <1>1, <2>1 DEF Has
  <2>3. UNCHANGED <<state, out, seed, key_n, lastKey, received, acked>>
    BY DEF streamVars, keyVars, serverVars, histVars
  <2> QED
    BY <1>1, <1>4, <2>2, <2>3 DEF IInv, Cookie, Has, Taken, cur
<1> QED
  BY <1>1, <1>2, <1>3, <1>5, EventIInv DEF Http!Posted

-----------------------------------------------------------------------------
(* The server.                                                             *)

\* A line has two units.
LEMMA LineUnits ==
  ASSUME NEW c, <<c, 0>> \in Units
  PROVE  /\ Http!Line(c) \in Seq(Units) /\ Len(Http!Line(c)) = 2
         /\ Http!Line(c)[1] = (IF c = "none" THEN Http!CR ELSE <<c, 0>>)
         /\ Http!Line(c)[2] = Http!LF
<1>1. ASSUME NEW a \in Units, NEW b \in Units, NEW h, h = <<a, b>>
      PROVE  h \in Seq(Units) /\ Len(h) = 2 /\ h[1] = a /\ h[2] = b
  BY <1>1, SMT
<1> DEFINE a == IF c = "none" THEN Http!CR ELSE <<c, 0>>
           b == Http!LF
           h == Http!Line(c)
<1>2. h = <<a, b>> /\ a \in Units /\ b \in Units
  BY UnitsDiffer DEF Http!Line
<1> HIDE DEF a, b, h
<1>3. h \in Seq(Units) /\ Len(h) = 2 /\ h[1] = a /\ h[2] = b
  BY <1>2, SMT
<1> QED
  BY <1>3 DEF a, b, h

\* The empty one.
LEMMA EmptyLineUnits ==
  /\ Http!Line("none") \in Seq(Units) /\ Len(Http!Line("none")) = 2
  /\ Http!Line("none")[1] = Http!CR /\ Http!Line("none")[2] = Http!LF
<1> DEFINE a == Http!CR
           b == Http!LF
           h == Http!Line("none")
<1>1. h = <<a, b>> /\ a \in Units /\ b \in Units
  BY UnitsDiffer DEF Http!Line
<1> HIDE DEF a, b, h
<1>2. h \in Seq(Units) /\ Len(h) = 2 /\ h[1] = a /\ h[2] = b
  BY <1>1, SMT
<1> QED
  BY <1>2 DEF a, b, h

\* t is s and d behind it.
Joined(s, d, t) ==
  /\ t \in Seq(Units) /\ Len(t) = Len(s) + Len(d)
  /\ \A i \in 1..Len(s) : t[i] = s[i]
  /\ \A i \in 1..Len(d) : t[Len(s) + i] = d[i]

LEMMA Concatenated ==
  ASSUME NEW s \in Seq(Units), NEW d \in Seq(Units)
  PROVE  Joined(s, d, s \o d)
BY LenProperties, ConcatProperties, SMT DEF Joined

LEMMA TwoLines ==
  ASSUME NEW s \in Seq(Units), NEW d \in Seq(Units), NEW t, Len(s) = 2, Len(d) = 2, Joined(s, d, t)
  PROVE  Len(t) = 4 /\ t[1] = s[1] /\ t[2] = s[2] /\ t[3] = d[1] /\ t[4] = d[2]
BY SMT DEF Joined

LEMMA ThreeLines ==
  ASSUME NEW s \in Seq(Units), NEW d \in Seq(Units), NEW t, Len(s) = 4, Len(d) = 2, Joined(s, d, t)
  PROVE  /\ Len(t) = 6 /\ t[1] = s[1] /\ t[2] = s[2] /\ t[3] = s[3] /\ t[4] = s[4]
         /\ t[5] = d[1] /\ t[6] = d[2]
BY SMT DEF Joined

\* The whole answer to a packet: k lines, the empty one and the data.
Whole(k, c, data, w) ==
  /\ w \in Seq(Units) /\ Len(w) = 2 * k + 2 + Len(data)
  /\ \A i \in 1..Len(data) : w[2 * k + 2 + i] = data[i]
  /\ \A i \in 1..(2 * k + 2) : /\ i \in {2, 4, 6} => w[i] = Http!LF
                               /\ i = 2 * k + 1 => w[i] = Http!CR
                               /\ i \notin {2, 4, 6} /\ i # 2 * k + 1 => w[i] \in {<<"200", 0>>, <<c, 0>>} \cap Texts

LEMMA AnswerWire ==
  ASSUME NEW c \in Cookies \cup {"none"}, NEW data \in Answers, NEW w,
         w = Http!Line("200") \o (IF c = "none" THEN <<>> ELSE Http!Line(c)) \o Http!Line("none") \o data
  PROVE  Whole(IF c = "none" THEN 1 ELSE 2, c, data, w)
<1> DEFINE s == Http!Line("200")
           e == Http!Line("none")
           m == Http!Line(c)
<1>1. /\ <<"200", 0>> \in Units /\ <<"200", 0>> \in Texts
      /\ c # "none" => <<c, 0>> \in Units /\ <<c, 0>> \in Texts
  BY UnitsDiffer DEF Cookies
<1>2. /\ s \in Seq(Units) /\ Len(s) = 2 /\ s[1] = <<"200", 0>> /\ s[2] = Http!LF
      /\ e \in Seq(Units) /\ Len(e) = 2 /\ e[1] = Http!CR /\ e[2] = Http!LF
      /\ c # "none" => m \in Seq(Units) /\ Len(m) = 2 /\ m[1] = <<c, 0>> /\ m[2] = Http!LF
  BY <1>1, LineUnits, EmptyLineUnits
<1>3. data \in Seq(Units) /\ Len(data) \in Nat
  BY UnitsDiffer, SeqMonotonic, LenProperties DEF Answers
<1>4. CASE c = "none"
  <2> DEFINE all == s \o e
  <2>1. s \o <<>> = s
    BY <1>2, ConcatEmptySeq
  <2>2. w = all \o data
    BY <1>4, <2>1
  <2> HIDE DEF s, e
  <2>3. Joined(s, e, all) /\ all \in Seq(Units)
    BY <1>2, Concatenated DEF Joined
  <2> HIDE DEF all
  <2>4. Len(all) = 4 /\ all[1] = <<"200", 0>> /\ all[2] = Http!LF /\ all[3] = Http!CR /\ all[4] = Http!LF
    BY <1>2, <2>3, TwoLines
  <2>5. Joined(all, data, w)
    BY <1>3, <2>2, <2>3, Concatenated
  <2>6. /\ w \in Seq(Units) /\ Len(w) = 4 + Len(data)
        /\ \A i \in 1..Len(data) : w[4 + i] = data[i]
        /\ \A i \in 1..4 : w[i] = all[i]
    BY <2>4, <2>5 DEF Joined
  <2>7. 2 * 1 + 2 = 4 /\ 2 * 1 + 1 = 3 /\ \A i \in 1..4 : i \in {1, 2, 3, 4}
    BY SMT
  <2>8. \A i \in 1..4 : /\ i \in {2, 4, 6} => w[i] = Http!LF
                        /\ i = 3 => w[i] = Http!CR
                        /\ i \notin {2, 4, 6} /\ i # 3 => w[i] \in {<<"200", 0>>, <<c, 0>>} \cap Texts
    <3>1. {1, 2, 3, 4} \subseteq 1..4 /\ \A i \in 1..4 : i \in {1, 2, 3, 4}
      BY SMT
    <3>2. w[1] = <<"200", 0>> /\ w[2] = Http!LF /\ w[3] = Http!CR /\ w[4] = Http!LF
      BY <2>4, <2>6, <3>1
    <3>3. w[1] \in {<<"200", 0>>, <<c, 0>>} \cap Texts
      BY <1>1, <3>2
    <3>4. ASSUME NEW i \in {1, 2, 3, 4}
          PROVE  /\ i \in {2, 4, 6} => w[i] = Http!LF
                 /\ i = 3 => w[i] = Http!CR
                 /\ i \notin {2, 4, 6} /\ i # 3 => w[i] \in {<<"200", 0>>, <<c, 0>>} \cap Texts
      <4>1. i \in {2, 4, 6} => i = 2 \/ i = 4
        BY SMT
      <4>2. i \notin {2, 4, 6} /\ i # 3 => i = 1
        OBVIOUS
      <4> QED
        BY <3>2, <3>3, <4>1, <4>2
    <3> QED
      BY <3>1, <3>4
  <2>9. Whole(1, c, data, w)
    BY <2>6, <2>7, <2>8 DEF Whole
  <2> QED
    BY <1>4, <2>9
<1>5. CASE c # "none"
  <2> DEFINE mid == s \o m
             all == mid \o e
  <2>1. w = all \o data
    BY <1>5
  <2> HIDE DEF s, m, e
  <2>2. Joined(s, m, mid) /\ mid \in Seq(Units)
    BY <1>2, <1>5, Concatenated DEF Joined
  <2> HIDE DEF mid
  <2>3. Len(mid) = 4 /\ mid[1] = <<"200", 0>> /\ mid[2] = Http!LF /\ mid[3] = <<c, 0>> /\ mid[4] = Http!LF
    BY <1>2, <1>5, <2>2, TwoLines
  <2>4. Joined(mid, e, all) /\ all \in Seq(Units)
    BY <1>2, <2>2, Concatenated, ZenonT(60) DEF Joined
  <2> HIDE DEF all
  <2>5. /\ Len(all) = 6 /\ all[1] = <<"200", 0>> /\ all[2] = Http!LF /\ all[3] = <<c, 0>>
        /\ all[4] = Http!LF /\ all[5] = Http!CR /\ all[6] = Http!LF
    BY <1>2, <2>2, <2>3, <2>4, ThreeLines, SMTT(30)
  <2>6. Joined(all, data, w)
    BY <1>3, <2>1, <2>4, Concatenated
  <2>7. /\ w \in Seq(Units) /\ Len(w) = 6 + Len(data)
        /\ \A i \in 1..Len(data) : w[6 + i] = data[i]
        /\ \A i \in 1..6 : w[i] = all[i]
    BY <2>5, <2>6 DEF Joined
  <2>8. 2 * 2 + 2 = 6 /\ 2 * 2 + 1 = 5 /\ \A i \in 1..6 : i \in {1, 2, 3, 4, 5, 6}
    BY SMT
  <2>9. \A i \in 1..6 : /\ i \in {2, 4, 6} => w[i] = Http!LF
                        /\ i = 5 => w[i] = Http!CR
                        /\ i \notin {2, 4, 6} /\ i # 5 => w[i] \in {<<"200", 0>>, <<c, 0>>} \cap Texts
    <3>1. {1, 2, 3, 4, 5, 6} \subseteq 1..6
      BY SMT
    <3>2. w[1] = <<"200", 0>> /\ w[2] = Http!LF /\ w[3] = <<c, 0>> /\ w[4] = Http!LF /\ w[5] = Http!CR /\ w[6] = Http!LF
      BY <2>5, <2>7, <3>1
    <3> QED
      BY <1>1, <1>5, <2>8, <3>2
  <2>10. Whole(2, c, data, w)
    BY <2>7, <2>8, <2>9 DEF Whole
  <2> QED
    BY <1>5, <2>10
<1> QED
  BY <1>4, <1>5

\* The server answers, and nothing of the answer has been read.
LEMMA AnsweredIInv ==
  ASSUME IInv, Http!Unanswered, NEW k \in 1..2,
         UNCHANGED <<sock, unsent, postdata, inHeader, headerLines, recvBuf, body, broken, gone>>,
         UNCHANGED <<streamVars, stack, keyVars, histVars>>,
         reply' \in Answers, wire' \in Seq(Units), Len(wire') = 2 * k + 2 + Len(reply'),
         \A i \in 1..Len(wire') : Expected(k, i, wire[i])',
         Has(wire)' => Taken' /\ unsent = 0,
         lastKey' \in Key \cup {None}, received' \in Seq(1..MaxData), sent' \in 0..MaxData,
         SentOnce', state = 1 => received' = <<>>,
         ~gap => Holds(reply)'
  PROVE  IInv'
<1>1. TypeOK /\ Shape /\ Chained /\ Counted /\ Delivered
  BY DEF IInv
<1>2. sock = "connected" /\ reply = None /\ ~gone /\ ~broken /\ inHeader /\ headerLines = <<>>
      /\ recvBuf = <<>> /\ wire = <<>>
  BY DEF Http!Unanswered, IInv, Answering
<1>3. UNCHANGED <<state, closing, wbuf, out, timer, seed, key_n, calls, wrote, acked, got, gap>>
  BY DEF streamVars, keyVars, histVars
<1>4. top' = top /\ top = "loop" /\ base' = base /\ base = "loop" /\ Shaped(stack)'
  <2>1. top = "loop" /\ Shaped(stack)
    BY <1>1, <1>2 DEF Shape
  <2> QED
    BY <2>1, AtTop, NoFrame DEF top, base
<1>5. Http!Posted /\ Http!Posted' /\ ~timer /\ ~Pending /\ ~Pending'
  BY <1>1, <1>2, <1>4 DEF Http!Posted, Pending, Shape
<1>6. reply' # None
  <2>1. reply' \in Seq({"data"} \X Nat)
    <3>1. {Http!Data(n) : n \in 1..MaxData} \subseteq {"data"} \X Nat
      <4>1. \A n \in 1..MaxData : n \in Nat
        BY HttpPollAssumption, SMT
      <4> QED
        BY <4>1 DEF Http!Data
    <3> QED
      BY <3>1, SeqMonotonic, SMTT(30) DEF Answers
  <2> QED
    BY <2>1, HttpPollAssumption
<1>7. TypeOK'
  <2>1. StreamTypes'
    BY <1>1, <1>3 DEF TypeOK, StreamTypes
  <2>2. Http!TypeOK'
    BY <1>1 DEF TypeOK, Http!TypeOK, Units, Answers
  <2> QED
    BY <2>1, <2>2 DEF TypeOK, StreamTypes
<1>8. Shape'
  BY <1>1, <1>2, <1>3, <1>4, <1>5 DEF Shape
<1>9. Answering'
  <2>1. InAnswer(k)'
    <3>1. Len(reply') \in Nat /\ Len(wire') \in Nat
      BY LenProperties DEF Answers
    <3>2. Len(<<>>) = 0 /\ 1..0 = {} /\ k >= 0 /\ k # 0 /\ 0 <= 1
      BY SMT
    <3>3. /\ 0 + Len(wire') <= 2 * k + 2 + Len(reply') /\ 0 + Len(wire') = 2 * k + 2 + Len(reply')
          /\ \A i \in 1..Len(wire') : 0 + i = i
      BY <3>1, SMT
    <3>4. recvBuf' = <<>> /\ inHeader' /\ broken' = broken
      BY <1>2
    <3>5. \A i \in 1..Len(wire') : Expected(k, 0 + i, wire[i])'
      BY <3>3
    <3>6. \A i \in 1..Len(recvBuf') : Expected(k, i, recvBuf[i])'
      BY <3>2, <3>4
    <3> QED
      BY <3>2, <3>3, <3>4, <3>5, <3>6 DEF InAnswer
  <2>2. k \in -1..2
    BY SMT
  <2> QED
    BY <1>2, <1>6, <2>1, <2>2 DEF Answering
<1>10. Cookie'
  <2>1. ~Has(<<>>)
    BY SMT DEF Has
  <2> QED
    BY <1>2, <1>4, <2>1 DEF Cookie, Has
<1>11. Chained'
  BY <1>1, <1>2, <1>3, <1>4, <1>5, <1>6 DEF Chained, Free, KeysChain, Effect, cur
<1>12. Counted'
  BY <1>1, <1>3, <1>4, <1>5, <1>6 DEF Counted
<1>13. Delivered'
  BY <1>1, <1>2, <1>3, <1>4, <1>5, <1>6 DEF Delivered
<1> QED
  BY <1>7, <1>8, <1>9, <1>10, <1>11, <1>12, <1>13 DEF IInv

LEMMA RefuseIInv ==
  ASSUME IInv, NEW status \in Statuses, Http!Refuse(status),
         UNCHANGED <<streamVars, stack, keyVars, serverVars, histVars>>
  PROVE  IInv'
<1>1. /\ Http!Unanswered /\ reply' = <<>> /\ wire' = Http!Line(status) \o Http!Line("none")
      /\ UNCHANGED <<sock, unsent, postdata, inHeader, headerLines, recvBuf, body, broken, gone>>
  BY DEF Http!Refuse
<1>2. <<status, 0>> \in Texts /\ <<status, 0>> \in Units /\ status # "ok" /\ status # "none"
  BY UnitsDiffer
<1> DEFINE s == Http!Line(status)
           e == Http!Line("none")
<1>3. s \in Seq(Units) /\ Len(s) = 2 /\ s[1] = <<status, 0>> /\ s[2] = Http!LF
  BY <1>2, LineUnits
<1>4. e \in Seq(Units) /\ Len(e) = 2 /\ e[1] = Http!CR /\ e[2] = Http!LF
  BY EmptyLineUnits
<1>4a. wire' = s \o e
  BY <1>1
<1> HIDE DEF s, e
<1>5. Joined(s, e, wire') /\ wire' \in Seq(Units)
  BY <1>3, <1>4, <1>4a, Concatenated, ZenonT(60) DEF Joined
<1>6. /\ Len(wire') = 4 /\ wire'[1] = <<status, 0>> /\ wire'[2] = Http!LF
      /\ wire'[3] = Http!CR /\ wire'[4] = Http!LF /\ \A i \in 1..4 : i \in {1, 2, 3, 4}
  <2>1. \A i \in 1..4 : i \in {1, 2, 3, 4}
    BY SMT
  <2> QED
    BY <1>3, <1>4, <1>5, <2>1, TwoLines
<1>7. ~Has(wire)'
  <2>1. \A i \in 1..4 : wire'[i][1] # "ok"
    BY <1>2, <1>6, UnitsDiffer
  <2> QED
    BY <1>6, <2>1 DEF Has
<1>8. \A i \in 1..Len(wire') : Expected(1, i, wire[i])'
  <2>1. 2 * 1 + 2 = 4 /\ 2 * 1 + 1 = 3 /\ \A i \in {1, 2, 3, 4} : ~(i > 4)
    BY SMT
  <2>2. ASSUME NEW i \in {1, 2, 3, 4} PROVE Expected(1, i, wire[i])'
    BY <1>2, <1>6, <2>1 DEF Expected
  <2> QED
    BY <1>6, <2>2
<1>9. reply' \in Answers /\ Len(wire') = 2 * 1 + 2 + Len(reply') /\ Len(reply') = 0 /\ 1 \in 1..2
  BY <1>1, <1>6, Plain, SMT DEF Answers
<1>10. UNCHANGED <<lastKey, received, sent, state, wbuf, wrote, acked, got>>
  BY DEF serverVars, streamVars, histVars
<1>11. lastKey' \in Key \cup {None} /\ received' \in Seq(1..MaxData) /\ sent' \in 0..MaxData
  BY <1>10 DEF IInv, TypeOK
<1>12. SentOnce' /\ (state = 1 => received' = <<>>)
  BY <1>10 DEF IInv, Counted, SentOnce
<1>13. ASSUME ~gap PROVE Holds(reply)'
  <2>1. Len(got) = sent
    BY <1>1, <1>13 DEF IInv, Delivered, Http!Unanswered, Http!Posted
  <2>2. Len(got) \in Nat /\ Len(<<>>) = 0 /\ 1..0 = {}
    BY LenProperties, Plain, SMT DEF IInv, TypeOK
  <2>3. Len(got) + 0 = Len(got)
    BY <2>2, SMT
  <2> QED
    BY <1>1, <1>10, <2>1, <2>2, <2>3 DEF Holds
<1>14. UNCHANGED <<streamVars, stack, keyVars, histVars>>
  OBVIOUS
<1> QED
  BY <1>1, <1>5, <1>7, <1>8, <1>9, <1>11, <1>12, <1>13, <1>14, AnsweredIInv

LEMMA DisturbIInv == IInv /\ Disturb => IInv'
<1> SUFFICES ASSUME IInv, Disturb PROVE IInv'
  OBVIOUS
<1>1. UNCHANGED <<streamVars, stack, keyVars, serverVars, histVars>>
  BY DEF Disturb
<1> QED
  BY <1>1, RefuseIInv, LeaveIInv DEF Disturb

\* The first of a whole answer is read next, with a cookie if it has one.
LEMMA WholeExpected ==
  ASSUME NEW k \in 1..2, NEW c, reply' \in Answers, Whole(k, c, reply', wire')
  PROVE  /\ \A i \in 1..Len(wire') : Expected(k, i, wire[i])'
         /\ Has(wire)' => c = "ok"
<1>1. Len(reply') \in Nat /\ Len(wire') = 2 * k + 2 + Len(reply')
  BY LenProperties DEF Answers, Whole
<1>2. ASSUME NEW i \in 1..Len(wire')
      PROVE  Expected(k, i, wire[i])' /\ (wire'[i][1] = "ok" => c = "ok")
  <2>1. CASE i > 2 * k + 2
    <3>1. i - (2 * k + 2) \in 1..Len(reply') /\ 2 * k + 2 + (i - (2 * k + 2)) = i
      BY <1>1, <2>1, SMT
    <3>2. wire'[i] = reply'[i - (2 * k + 2)]
      BY <3>1 DEF Whole
    <3>3. reply'[i - (2 * k + 2)] \in {Http!Data(n) : n \in 1..MaxData}
      BY <3>1, ElementOfSeq DEF Answers
    <3>4. wire'[i][1] # "ok"
      BY <3>2, <3>3, UnitsDiffer
    <3> QED
      BY <2>1, <3>2, <3>4 DEF Expected
  <2>2. CASE ~(i > 2 * k + 2)
    <3>1. i \in 1..(2 * k + 2)
      BY <1>1, <2>2, SMT
    <3>2. /\ i \in {2, 4, 6} => wire'[i] = Http!LF
          /\ i = 2 * k + 1 => wire'[i] = Http!CR
          /\ i \notin {2, 4, 6} /\ i # 2 * k + 1 => wire'[i] \in {<<"200", 0>>, <<c, 0>>} \cap Texts
      BY <3>1 DEF Whole
    <3>3. 2 * k + 1 \notin {2, 4, 6}
      BY SMT
    <3>4. wire'[i] \in {Http!LF, Http!CR, <<"200", 0>>, <<c, 0>>}
      BY <3>2
    <3>5. wire'[i][1] = "ok" => c = "ok"
      BY <3>4, UnitsDiffer, HttpPollAssumption
    <3> QED
      BY <2>2, <3>2, <3>3, <3>5 DEF Expected
  <2> QED
    BY <2>1, <2>2
<1> QED
  BY <1>2 DEF Has

LEMMA ServeIInv ==
  ASSUME IInv, NEW cookie \in Cookies \cup {"none"}, NEW n \in 0..MaxData, Serve(cookie, n)
  PROVE  IInv'
<1> DEFINE valid == postdata.first \/ Hash(postdata.key) = lastKey
           taken == valid /\ cookie = "ok"
           c     == IF valid THEN cookie ELSE "over"
           data  == [i \in 1..n |-> Http!Data(sent + i)]
<1>1. TypeOK /\ Shape /\ Chained /\ Counted /\ Delivered
  BY DEF IInv
<1>2. /\ Http!Unanswered /\ unsent = 0 /\ reply' = data
      /\ wire' = Http!Line("200") \o (IF c = "none" THEN <<>> ELSE Http!Line(c)) \o Http!Line("none") \o data
      /\ UNCHANGED <<sock, unsent, postdata, inHeader, headerLines, recvBuf, body, broken, gone>>
      /\ UNCHANGED <<streamVars, stack, keyVars, histVars>>
  BY DEF Serve, Http!Answer
<1>3. /\ n > 0 => taken
      /\ sent + n <= MaxData /\ sent' = sent + n
      /\ received' = (IF taken THEN received \o postdata.block ELSE received)
      /\ lastKey' = IF ~taken THEN lastKey ELSE Effect(postdata)
  BY DEF Serve, Effect
<1>4. c \in Cookies \cup {"none"} /\ (c = "ok" => taken) /\ taken \in BOOLEAN
  BY DEF Cookies
<1>5. /\ sent \in Nat /\ n \in Nat /\ sent' \in 0..MaxData /\ Len(got) \in Nat
      /\ \A i \in 1..n : sent + i \in 1..MaxData
  <2>1. sent \in 0..MaxData /\ Len(got) \in Nat
    BY <1>1, LenProperties DEF TypeOK
  <2> QED
    BY <1>3, <2>1, HttpPollAssumption, SMT
<1>6. data \in Answers /\ Len(data) = n /\ \A i \in 1..n : data[i] = Http!Data(sent + i)
  <2> DEFINE D == {Http!Data(m) : m \in 1..MaxData}
  <2>1. \A i \in 1..n : Http!Data(sent + i) \in D
    BY <1>5
  <2>2. data \in [1..n -> D]
    BY <2>1
  <2>3. data \in Seq(D) /\ Len(data) = n
    BY <1>5, <2>2, SMT
  <2> QED
    BY <2>3 DEF Answers
<1> HIDE DEF valid, taken, c, data
<1>7. /\ sock = "connected" /\ reply = None /\ ~gone /\ ~broken /\ Http!Posted
      /\ postdata \in Packets /\ Effect(postdata) = cur /\ postdata.block = out
      /\ state = 2 => Len(received) = acked
      /\ ~gap => Len(got) = sent
  <2>1. sock = "connected" /\ reply = None /\ ~gone /\ ~broken /\ Http!Posted
    BY <1>2 DEF Http!Unanswered, Http!Posted, IInv, Answering
  <2>2. top = "loop"
    BY <1>1, <2>1 DEF Shape
  <2> QED
    BY <1>1, <2>1, <2>2 DEF Chained, Counted, Delivered
<1>8. \E k \in 1..2, d \in Cookies \cup {"none"} : Whole(k, d, reply', wire') /\ (d = "ok" => taken)
  <2>1. Whole(IF c = "none" THEN 1 ELSE 2, c, data, wire')
    BY <1>2, <1>4, <1>6, AnswerWire
  <2>2. 1 \in 1..2 /\ 2 \in 1..2
    BY SMT
  <2> QED
    BY <1>2, <1>4, <2>1, <2>2
<1>9. reply' \in Answers
  BY <1>2, <1>6
<1>10. PICK k \in 1..2, d \in Cookies \cup {"none"} : Whole(k, d, reply', wire') /\ (d = "ok" => taken)
  BY <1>8
<1>11. /\ wire' \in Seq(Units) /\ Len(wire') = 2 * k + 2 + Len(reply')
       /\ \A i \in 1..Len(wire') : Expected(k, i, wire[i])'
       /\ Has(wire)' => taken
  <2>1. wire' \in Seq(Units) /\ Len(wire') = 2 * k + 2 + Len(reply')
    BY <1>10 DEF Whole
  <2>2. (\A i \in 1..Len(wire') : Expected(k, i, wire[i])') /\ (Has(wire)' => d = "ok")
    BY <1>9, <1>10, WholeExpected
  <2> QED
    BY <1>10, <2>1, <2>2
<1>12. UNCHANGED <<state, wbuf, out, seed, key_n, wrote, acked, got>>
  BY <1>2 DEF streamVars, keyVars, histVars
<1>13. /\ Len(out) \in Nat /\ Len(received) \in Nat /\ acked \in Nat /\ wrote \in Nat
       /\ received \in Seq(1..MaxData) /\ out \in Seq(1..MaxData)
  <2>1. acked \in 0..MaxData /\ wrote \in 0..MaxData /\ received \in Seq(1..MaxData) /\ out \in Seq(1..MaxData)
    BY <1>1 DEF TypeOK
  <2>2. acked \in Nat /\ wrote \in Nat
    BY <2>1, HttpPollAssumption, SMT
  <2> QED
    BY <2>1, <2>2, LenProperties
<1>14. taken => /\ received' \in Seq(1..MaxData) /\ Len(received') = Len(received) + Len(out)
                /\ state = 1 => received' = <<>>
                /\ received' = [i \in 1..Len(received') |-> i]
  <2> SUFFICES ASSUME taken
               PROVE  /\ received' \in Seq(1..MaxData) /\ Len(received') = Len(received) + Len(out)
                      /\ state = 1 => received' = <<>>
                      /\ received' = [i \in 1..Len(received') |-> i]
    OBVIOUS
  <2>1. received' = received \o out
    BY <1>3, <1>7
  <2>2. CASE state = 2
    <3>1. wbuf = [i \in 1..(wrote - acked) |-> acked + i] /\ received = [i \in 1..Len(received) |-> i]
          /\ Len(received) = acked /\ Len(out) <= Len(wbuf) /\ \A i \in 1..Len(out) : out[i] = wbuf[i]
      BY <1>1, <1>7, <2>2 DEF Counted, SentOnce
    <3>2. wrote - acked \in Nat
      BY <1>1, <1>13, SMT DEF Counted
    <3>3. Len(wbuf) = wrote - acked /\ wrote <= MaxData
      <4>1. wrote \in 0..MaxData
        BY <1>1 DEF TypeOK
      <4> QED
        BY <3>1, <3>2, <4>1, SMT
    <3>4. 0 + acked + Len(out) <= MaxData /\ 0 + acked = acked /\ 0 \in Nat
          /\ \A i \in 1..Len(out) : i \in 1..(wrote - acked)
      <4>1. Len(out) <= wrote - acked
        BY <3>1, <3>3
      <4> QED
        BY <1>13, <3>2, <3>3, <4>1, HttpPollAssumption, SMT
    <3>5. out = [i \in 1..Len(out) |-> (0 + acked) + i]
      <4>1. ASSUME NEW i \in 1..Len(out) PROVE out[i] = (0 + acked) + i
        BY <3>1, <3>4
      <4>2. 0 + acked \in Nat
        BY <1>13, SMT
      <4> QED
        BY <1>13, <4>1, <4>2, IsRun
    <3>6. received = Run(0, acked)
      <4>1. \A i \in 1..acked : received[i] = 0 + i
        <5>1. \A i \in 1..acked : received[i] = i
          BY <3>1
        <5>2. \A i \in 1..acked : 0 + i = i
          BY <1>13, SMT
        <5> QED
          BY <5>1, <5>2
      <4> QED
        BY <1>13, <3>1, <3>4, <4>1, IsRun DEF Run
    <3>7. /\ Run(0, acked) \o [i \in 1..Len(out) |-> (0 + acked) + i] = Run(0, acked + Len(out))
          /\ Run(0, acked + Len(out)) \in Seq(1..MaxData) /\ Len(Run(0, acked + Len(out))) = acked + Len(out)
      BY <1>13, <3>4, RunGrows, ZenonT(60)
    <3>8. received' = Run(0, acked + Len(out))
      BY <2>1, <3>5, <3>6, <3>7
    <3>9. Run(0, acked + Len(out)) = [i \in 1..(acked + Len(out)) |-> i]
      <4>1. acked + Len(out) \in Nat
        BY <1>13, SMT
      <4>2. \A i \in 1..(acked + Len(out)) : 0 + i = i
        BY <4>1, SMT
      <4> QED
        BY <4>2 DEF Run
    <3> QED
      BY <2>2, <3>1, <3>7, <3>8, <3>9
  <2>3. CASE state # 2
    <3>1. out = <<>>
      BY <1>1, <2>3 DEF Shape
    <3>2. received \o <<>> = received /\ Len(<<>>) = 0 /\ Len(received) + 0 = Len(received)
      BY <1>13, ConcatEmptySeq, Plain, SMT
    <3>3. received' = received
      BY <2>1, <3>1, <3>2
    <3> QED
      BY <1>1, <1>13, <3>1, <3>2, <3>3, ZenonT(60) DEF Counted, SentOnce
  <2> QED
    BY <2>2, <2>3
<1>15. ~taken => received' = received /\ lastKey' = lastKey /\ n = 0
  <2>1. ~(n > 0) => n = 0
    BY <1>5, SMT
  <2> QED
    BY <1>3, <2>1
<1>16. received' \in Seq(1..MaxData) /\ (state = 1 => received' = <<>>)
  BY <1>1, <1>13, <1>14, <1>15 DEF Counted
<1>17. SentOnce'
  <2>1. acked <= Len(received')
    <3>1. acked <= Len(received) => acked <= Len(received) + Len(out)
      BY <1>13, SMT
    <3> QED
      BY <1>1, <1>14, <1>15, <3>1 DEF Counted, SentOnce
  <2> QED
    BY <1>1, <1>12, <1>14, <1>15, <2>1 DEF Counted, SentOnce
<1>18. lastKey' \in Key \cup {None}
  <2>1. postdata.newkey \in Key \cup {None} /\ postdata.key \in Key
    BY <1>7 DEF Packets
  <2>2. Effect(postdata) \in Key
    BY <2>1 DEF Effect
  <2> QED
    BY <1>1, <1>3, <2>2 DEF TypeOK
<1>19. Has(wire)' => Taken' /\ unsent = 0
  BY <1>2, <1>3, <1>7, <1>11, <1>12, <1>14 DEF Taken, cur
<1>20. ASSUME ~gap PROVE Holds(reply)'
  BY <1>2, <1>3, <1>6, <1>7, <1>12, <1>20 DEF Holds
<1>21. UNCHANGED <<sock, unsent, postdata, inHeader, headerLines, recvBuf, body, broken, gone>>
       /\ UNCHANGED <<streamVars, stack, keyVars, histVars>> /\ Http!Unanswered
  BY <1>2
<1> QED
  BY <1>5, <1>9, <1>11, <1>16, <1>17, <1>18, <1>19, <1>20, <1>21, AnsweredIInv

-----------------------------------------------------------------------------
(* A block of the answer.                                                  *)

\* What there is to look at when a block has come: the next of the answer.
LEMMA BlockArrived ==
  ASSUME IInv, sock = "connected", NEW n \in 1..Len(wire), NEW buf, buf = Http!Arrived(n)
  PROVE  /\ reply # None /\ reply \in Answers
         /\ buf \in Seq(Units) /\ Len(buf) = Len(recvBuf) + n
         /\ Http!Drop(wire, n) \in Seq(Units) /\ Len(Http!Drop(wire, n)) = Len(wire) - n
         /\ \A i \in 1..(Len(wire) - n) : Http!Drop(wire, n)[i] = wire[n + i]
         /\ Has(buf) \/ Has(Http!Drop(wire, n)) => Has(recvBuf) \/ Has(wire)
         /\ \E k \in -1..2 : InAnswer(k) /\ \A i \in 1..Len(buf) : Expected(k, i, buf[i])
<1>1. recvBuf \in Seq(Units) /\ wire \in Seq(Units) /\ Len(recvBuf) \in Nat /\ Len(wire) \in Nat
      /\ n \in 0..Len(wire) /\ n \in Nat /\ n <= Len(wire)
  <2>1. recvBuf \in Seq(Units) /\ wire \in Seq(Units)
    BY DEF IInv, TypeOK, Http!TypeOK, Units
  <2>2. Len(recvBuf) \in Nat /\ Len(wire) \in Nat
    BY <2>1, LenProperties
  <2> QED
    BY <2>1, <2>2, SMT
<1>2. wire # <<>>
  BY <1>1, Plain, SMT
<1>3. reply # None /\ \E k \in -1..2 : InAnswer(k)
  BY <1>2 DEF IInv, Answering
<1>4. reply \in Answers
  BY <1>3 DEF IInv, TypeOK, Http!TypeOK, Answers
<1> DEFINE part == SubSeq(wire, 1, n)
<1>5. part \in Seq(Units) /\ Len(part) = n /\ \A i \in 1..n : part[i] = wire[i]
  <2>1. \A i \in 1..n : wire[i] \in Units
    <3>1. \A i \in 1..n : i \in 1..Len(wire)
      BY <1>1, SMT
    <3> QED
      BY <1>1, <3>1, ElementOfSeq
  <2>2. /\ SubSeq(wire, 1, n) \in Seq(Units)
        /\ Len(SubSeq(wire, 1, n)) = IF 1 <= n THEN n - 1 + 1 ELSE 0
        /\ \A i \in 1..(n - 1 + 1) : SubSeq(wire, 1, n)[i] = wire[1 + i - 1]
    <3>1. 1 \in Int /\ n \in Int
      BY <1>1, SMT
    <3> QED
      BY <2>1, <3>1, SubSeqProperties
  <2> QED
    BY <1>1, <2>2, SMT
<1> HIDE DEF part
<1>6. buf = recvBuf \o part
  BY DEF Http!Arrived, part
<1>7. Joined(recvBuf, part, buf)
  BY <1>1, <1>5, <1>6, Concatenated
<1>8. buf \in Seq(Units) /\ Len(buf) = Len(recvBuf) + n
  BY <1>5, <1>7 DEF Joined
<1>9. /\ Drop(wire, n) \in Seq(Units) /\ Len(Drop(wire, n)) = Len(wire) - n
      /\ \A i \in 1..(Len(wire) - n) : Drop(wire, n)[i] = wire[n + i]
  BY <1>1, Dropped
<1>10. /\ \A i \in 1..Len(recvBuf) : buf[i] = recvBuf[i]
       /\ \A i \in 1..n : buf[Len(recvBuf) + i] = wire[i]
  BY <1>5, <1>7 DEF Joined
<1>11. Has(buf) => Has(recvBuf) \/ Has(wire)
  <2>1. ASSUME NEW i \in 1..Len(buf), buf[i][1] = "ok" PROVE Has(recvBuf) \/ Has(wire)
    <3>1. CASE i \in 1..Len(recvBuf)
      BY <1>10, <2>1, <3>1 DEF Has
    <3>2. CASE i \notin 1..Len(recvBuf)
      <4>1. i - Len(recvBuf) \in 1..n /\ Len(recvBuf) + (i - Len(recvBuf)) = i /\ i - Len(recvBuf) \in 1..Len(wire)
        BY <1>1, <1>8, <3>2, SMT
      <4>2. buf[i] = wire[i - Len(recvBuf)]
        BY <1>10, <4>1
      <4> QED
        BY <2>1, <4>1, <4>2 DEF Has
    <3> QED
      BY <3>1, <3>2
  <2> QED
    BY <2>1 DEF Has
<1>12. Has(Drop(wire, n)) => Has(wire)
  <2>1. \A i \in 1..(Len(wire) - n) : n + i \in 1..Len(wire)
    BY <1>1, SMT
  <2> QED
    BY <1>9, <2>1 DEF Has
<1>13. ASSUME NEW k \in -1..2, InAnswer(k), NEW i \in 1..Len(buf)
       PROVE  Expected(k, i, buf[i])
  <2>1. CASE i \in 1..Len(recvBuf)
    BY <1>10, <1>13, <2>1 DEF InAnswer
  <2>2. CASE i \notin 1..Len(recvBuf)
    <3>1. i - Len(recvBuf) \in 1..n /\ Len(recvBuf) + (i - Len(recvBuf)) = i /\ i - Len(recvBuf) \in 1..Len(wire)
      BY <1>1, <1>8, <2>2, SMT
    <3>2. buf[i] = wire[i - Len(recvBuf)]
      BY <1>10, <3>1
    <3>3. Expected(k, Len(recvBuf) + (i - Len(recvBuf)), wire[i - Len(recvBuf)])
      BY <1>13, <3>1 DEF InAnswer
    <3> QED
      BY <3>1, <3>2, <3>3
  <2> QED
    BY <2>1, <2>2
<1> QED
  BY <1>3, <1>4, <1>8, <1>9, <1>11, <1>12, <1>13, SameDrop

\* The lines of a block in the header, behind those of earlier ones.
LEMMA LinesArrived ==
  ASSUME headerLines \in Seq(Texts), reply \in Answers, NEW k \in 0..2, NEW buf \in Seq(Units),
         Len(buf) <= 2 * k + 2 + Len(reply), \A i \in 1..Len(buf) : Expected(k, i, buf[i]),
         headerLines = <<>> => k # 0,
         NEW lines, lines = headerLines \o Http!Lines(buf)
  PROVE  /\ lines \in Seq(Texts)
         /\ Has(lines) => Has(headerLines) \/ Has(buf)
         /\ lines = <<>> => headerLines = <<>> /\ Http!Extent(buf) = 0
         /\ Http!HeaderEnds(buf) # {} => lines # <<>>
<1> DEFINE E == Http!Extent(buf)
           new == Http!Lines(buf)
<1>1. /\ Http!HeaderEnds(buf) # {} <=> Len(buf) >= 2 * k + 2
      /\ Len(buf) >= 2 * k + 2 => E = 2 * k + 2
      /\ Len(buf) < 2 * k + 2 => E = IF Len(buf) < 2 THEN 0 ELSE IF Len(buf) < 4 THEN 2 ELSE 4
  BY ExtentFound
<1>2. Len(buf) \in Nat /\ Len(headerLines) \in Nat
  BY LenProperties
<1> HIDE DEF E, new
<1>3. E \in 0..6 /\ E <= Len(buf) /\ E <= 2 * k + 2
  BY <1>1, <1>2, SMT
<1>4. ASSUME NEW i \in 1..E PROVE i \in 1..Len(buf) /\ buf[i] \in Texts \cup {Http!CR, Http!LF}
  <2>1. i \in 1..Len(buf) /\ ~(i > 2 * k + 2)
    BY <1>2, <1>3, SMT
  <2>2. Expected(k, i, buf[i])
    BY <2>1
  <2> QED
    BY <2>1, <2>2 DEF Expected
<1>5. Collected(buf, E, new)
  BY <1>3, <1>4, LinesRead DEF E, new
<1>6. new \in Seq(Texts) /\ Len(new) \in Nat /\ \A j \in 1..Len(new) : \E i \in 1..E : new[j] = buf[i]
  BY <1>5, LenProperties DEF Collected
<1>7. /\ lines \in Seq(Texts) /\ Len(lines) = Len(headerLines) + Len(new)
      /\ \A i \in 1..(Len(headerLines) + Len(new)) :
           lines[i] = IF i <= Len(headerLines) THEN headerLines[i] ELSE new[i - Len(headerLines)]
  BY <1>6, ConcatProperties DEF new
<1>8. Has(lines) => Has(headerLines) \/ Has(buf)
  <2>1. ASSUME NEW i \in 1..Len(lines), lines[i][1] = "ok" PROVE Has(headerLines) \/ Has(buf)
    <3>1. CASE i <= Len(headerLines)
      <4>1. i \in 1..Len(headerLines)
        BY <1>2, <1>6, <1>7, <3>1, SMT
      <4> QED
        BY <1>7, <2>1, <3>1, <4>1 DEF Has
    <3>2. CASE ~(i <= Len(headerLines))
      <4>1. i - Len(headerLines) \in 1..Len(new)
        BY <1>2, <1>6, <1>7, <3>2, SMT
      <4>2. PICK j \in 1..E : new[i - Len(headerLines)] = buf[j]
        BY <1>6, <4>1
      <4>3. buf[j][1] = "ok" /\ j \in 1..Len(buf)
        BY <1>4, <1>7, <2>1, <3>2, <4>2
      <4> QED
        BY <4>3 DEF Has
    <3> QED
      BY <3>1, <3>2
  <2> QED
    BY <2>1 DEF Has
<1>9. lines = <<>> => headerLines = <<>> /\ new = <<>>
  <2>1. headerLines \o new = <<>> => headerLines = <<>> /\ new = <<>>
    BY <1>6, ConcatEqualIffEmpty
  <2>2. lines = headerLines \o new
    BY DEF new
  <2> QED
    BY <2>1, <2>2
<1>10. headerLines = <<>> /\ new = <<>> => E = 0
  <2>1. SUFFICES ASSUME headerLines = <<>>, new = <<>>, E # 0 PROVE FALSE
    OBVIOUS
  <2>2. 1 \in 1..E /\ E > 0 /\ ~(1 > 2 * k + 2) /\ 1 \notin {2, 4, 6} /\ 1 # 2 * k + 1
    BY <1>3, <2>1, SMT
  <2>3. Expected(k, 1, buf[1])
    BY <1>4, <2>2
  <2>4. buf[1] \in Texts
    BY <2>2, <2>3 DEF Expected
  <2> QED
    BY <1>5, <2>1, <2>2, <2>4 DEF Collected
<1>11. Http!HeaderEnds(buf) # {} => E # 0
  BY <1>1, <1>2, SMT
<1> QED
  BY <1>7, <1>8, <1>9, <1>10, <1>11 DEF E

LEMMA HttpRefusedIInv == IInv /\ HttpRefused => IInv'
<1> SUFFICES ASSUME IInv, HttpRefused PROVE IInv'
  OBVIOUS
<1>1. PICK n \in 1..Len(wire) : Http!SockRefused(n)
  BY DEF HttpRefused
<1> DEFINE buf   == Http!Arrived(n)
           lines == headerLines \o Http!Lines(buf)
<1>2. /\ sock = "connected" /\ Http!CloseSock /\ inHeader' = FALSE /\ recvBuf' = <<>> /\ body' = <<>>
      /\ wire' = Http!Drop(wire, n) /\ UNCHANGED <<postdata, reply, broken, gone>>
      /\ inHeader /\ Http!HeaderEnds(buf) # {}
      /\ headerLines' = Tail(lines)
  BY <1>1 DEF Http!SockRefused, Http!Arrives, Http!Refuses
<1> HIDE DEF buf
<1>3. TypeOK /\ Cookie
  BY DEF IInv
<1>4. /\ reply \in Answers /\ buf \in Seq(Units)
      /\ Http!Drop(wire, n) \in Seq(Units)
      /\ Has(buf) => Has(recvBuf) \/ Has(wire)
      /\ Len(buf) = Len(recvBuf) + n
  BY <1>2, BlockArrived DEF buf
<1>5. PICK k \in -1..2 : InAnswer(k) /\ \A i \in 1..Len(buf) : Expected(k, i, buf[i])
  BY <1>2, BlockArrived DEF buf
<1>6. k \in 0..2 /\ Len(buf) <= 2 * k + 2 + Len(reply)
  <2>1. k >= 0 /\ Len(recvBuf) + Len(wire) <= 2 * k + 2 + Len(reply)
    BY <1>2, <1>5 DEF InAnswer
  <2>2. Len(recvBuf) \in Nat /\ Len(wire) \in Nat /\ Len(reply) \in Nat
    BY <1>3, <1>4, LenProperties DEF TypeOK, Http!TypeOK, Answers
  <2> QED
    BY <1>4, <2>1, <2>2, SMT
<1>7. headerLines \in Seq(Texts) /\ (headerLines = <<>> => k # 0)
  BY <1>3, <1>5 DEF TypeOK, Http!TypeOK, Texts, InAnswer
<1>8. lines \in Seq(Texts) /\ lines # <<>> /\ (Has(lines) => Has(headerLines) \/ Has(buf))
  BY <1>2, <1>4, <1>5, <1>6, <1>7, LinesArrived
<1> HIDE DEF lines
<1>9. Tail(lines) \in Seq(Texts) /\ (Has(Tail(lines)) => Has(lines))
  <2>1. /\ Tail(lines) \in Seq(Texts) /\ Len(Tail(lines)) = Len(lines) - 1
        /\ \A i \in 1..Len(Tail(lines)) : Tail(lines)[i] = lines[i + 1]
    BY <1>8, HeadTailProperties
  <2>2. Len(lines) \in Nat
    BY <1>8, LenProperties
  <2>3. \A i \in 1..Len(Tail(lines)) : i + 1 \in 1..Len(lines)
    BY <2>1, <2>2, SMT
  <2> QED
    BY <2>1, <2>3 DEF Has
<1>10. unsent \in 0..2 /\ unsent' = unsent /\ sock' = IF unsent > 0 THEN "closing" ELSE "idle"
  BY <1>2, <1>3 DEF TypeOK, Http!TypeOK, Http!CloseSock
<1>11. ~(unsent > 0) => unsent = 0
  BY <1>10, SMT
<1>12. unsent = 0 => ~(unsent > 0)
  BY SMT
<1>13. sock' = "closing" => ~Has(headerLines)'
  <2>1. Has(headerLines)' => Has(headerLines) \/ Has(recvBuf) \/ Has(wire)
    BY <1>2, <1>4, <1>8, <1>9 DEF Has, lines
  <2> QED
    BY <1>2, <1>3, <1>10, <1>12, <2>1 DEF Cookie
<1>14. /\ stack = <<>> /\ stack' = <<>> /\ ResetStream
       /\ UNCHANGED <<keyVars, serverVars, histVars>>
  BY DEF HttpRefused
<1>15. TypeOK'
  <2>1. StreamTypes'
    BY <1>2, <1>3, <1>14, Plain DEF TypeOK, StreamTypes, ResetStream, keyVars, serverVars, histVars
  <2>2. Http!TypeOK'
    BY <1>2, <1>3, <1>4, <1>9, <1>10, <1>11, Plain DEF TypeOK, Http!TypeOK, Texts, Units
  <2> QED
    BY <2>1, <2>2 DEF TypeOK, StreamTypes
<1> QED
  BY <1>10, <1>13, <1>14, <1>15, EndedIInv DEF Ended

\* What is expected of a unit does not depend on the lines read before.
LEMMA ExpectedShift ==
  ASSUME NEW k \in -1..2, NEW j \in 0..3, j <= k + 1, NEW i \in Nat, i >= 1, NEW u, Expected(k, 2 * j + i, u)
  PROVE  Expected(k - j, i, u)
<1>1. /\ 2 * j + i > 2 * k + 2 <=> i > 2 * (k - j) + 2
      /\ (2 * j + i) - (2 * k + 2) = i - (2 * (k - j) + 2)
      /\ ~(i > 2 * (k - j) + 2) => (2 * j + i \in {2, 4, 6} <=> i \in {2, 4, 6})
      /\ 2 * j + i = 2 * k + 1 <=> i = 2 * (k - j) + 1
  BY SMT
<1> QED
  BY <1>1 DEF Expected

\* Part of an answer is read: j lines of two units.
LEMMA PartRead ==
  ASSUME TypeOK, Http!TypeOK', reply \in Answers, NEW n \in 1..Len(wire), NEW k \in -1..2, InAnswer(k),
         NEW buf \in Seq(Units), Len(buf) = Len(recvBuf) + n,
         \A i \in 1..Len(buf) : Expected(k, i, buf[i]),
         NEW j \in 0..3, j <= k + 1, 2 * j <= Len(buf),
         recvBuf' = Drop(buf, 2 * j), wire' = Http!Drop(wire, n), UNCHANGED <<reply, broken>>,
         inHeader' <=> k - j >= 0, headerLines' = <<>> => k - j # 0,
         k - j >= 0 => Len(buf) - 2 * j <= 1
  PROVE  k - j \in -1..2 /\ InAnswer(k - j)'
<1> DEFINE q == k - j
<1>1. q \in -1..2 /\ k = q + j /\ q \in Int
  BY SMT
<1>2. /\ wire \in Seq(Units) /\ Len(wire) \in Nat /\ Len(recvBuf) \in Nat /\ Len(buf) \in Nat
      /\ Len(reply) \in Nat /\ 2 * j \in 0..Len(buf) /\ 2 * j \in Nat /\ n \in 0..Len(wire) /\ n \in Nat
  <2>1. wire \in Seq(Units) /\ recvBuf \in Seq(Units)
    BY DEF TypeOK, Http!TypeOK, Units
  <2>2. Len(wire) \in Nat /\ Len(recvBuf) \in Nat /\ Len(buf) \in Nat /\ Len(reply) \in Nat
    BY <2>1, LenProperties DEF Answers
  <2> QED
    BY <2>1, <2>2, SMT
<1>3. /\ Len(recvBuf') = Len(buf) - 2 * j
      /\ \A i \in 1..(Len(buf) - 2 * j) : recvBuf'[i] = buf[2 * j + i]
  BY <1>2, Dropped
<1>4. /\ Len(wire') = Len(wire) - n
      /\ \A i \in 1..(Len(wire) - n) : wire'[i] = wire[n + i]
  BY <1>2, Dropped, SameDrop
<1>5. Len(recvBuf) + Len(wire) <= 2 * k + 2 + Len(reply)
      /\ (~broken => Len(recvBuf) + Len(wire) = 2 * k + 2 + Len(reply))
  BY DEF InAnswer
<1>6. /\ Len(recvBuf') + Len(wire') <= 2 * q + 2 + Len(reply)
      /\ ~broken => Len(recvBuf') + Len(wire') = 2 * q + 2 + Len(reply)
  <2>1. Len(recvBuf') + Len(wire') = (Len(recvBuf) + Len(wire)) - 2 * j
    <3>1. \A a, b \in Nat : ((a + n) - 2 * j) + (b - n) = (a + b) - 2 * j
      BY <1>2, SMT
    <3>2. Len(recvBuf') = (Len(recvBuf) + n) - 2 * j /\ Len(wire') = Len(wire) - n
      BY <1>3, <1>4
    <3> QED
      BY <1>2, <3>1, <3>2, SMTT(30)
  <2>2. 2 * q + 2 + Len(reply) = (2 * k + 2 + Len(reply)) - 2 * j
    BY <1>1, <1>2, SMT
  <2> HIDE DEF q
  <2>3. /\ Len(recvBuf) + Len(wire) <= 2 * k + 2 + Len(reply) =>
             (Len(recvBuf) + Len(wire)) - 2 * j <= (2 * k + 2 + Len(reply)) - 2 * j
        /\ Len(recvBuf) + Len(wire) = 2 * k + 2 + Len(reply) =>
             (Len(recvBuf) + Len(wire)) - 2 * j = (2 * k + 2 + Len(reply)) - 2 * j
    BY <1>2, SMT
  <2> QED
    BY <1>5, <2>1, <2>2, <2>3
<1>7. ASSUME NEW i \in 1..Len(recvBuf') PROVE Expected(q, i, recvBuf'[i])
  <2>1. i \in Nat /\ i >= 1 /\ 2 * j + i \in 1..Len(buf) /\ i \in 1..(Len(buf) - 2 * j)
    BY <1>2, <1>3, SMTT(30)
  <2>2. Expected(k, 2 * j + i, buf[2 * j + i])
    BY <2>1
  <2> QED
    BY <1>3, <2>1, <2>2, ExpectedShift
<1>8. ASSUME NEW i \in 1..Len(wire') PROVE Expected(q, Len(recvBuf') + i, wire'[i])
  <2>1. i \in Nat /\ i >= 1 /\ n + i \in 1..Len(wire) /\ i \in 1..(Len(wire) - n)
    BY <1>2, <1>4, SMT
  <2>4. Len(recvBuf') \in Nat
    BY <1>2, <1>3, SMT
  <2>5. Len(recvBuf') + i \in Nat /\ Len(recvBuf') + i >= 1
    BY <2>1, <2>4, SMT
  <2>6. 2 * j + (Len(recvBuf') + i) = Len(recvBuf) + (n + i)
    <3>1. \A a \in Nat : 2 * j + (((a + n) - 2 * j) + i) = a + (n + i)
      BY <1>2, <2>1, SMT
    <3> QED
      BY <1>2, <1>3, <3>1
  <2>2. Expected(k, Len(recvBuf) + (n + i), wire[n + i])
    BY <2>1 DEF InAnswer
  <2>3. Expected(k, 2 * j + (Len(recvBuf') + i), wire'[i])
    BY <1>4, <2>1, <2>6, <2>2
  <2> QED
    BY <2>5, <2>3, ExpectedShift
<1>9. ASSUME NEW x, NEW y PROVE Expected(q, x, y)' <=> Expected(q, x, y)
  BY DEF Expected
<1> HIDE DEF q
<1>10. InAnswer(q)'
  <2>1. \A i \in 1..Len(recvBuf') : Expected(q, i, recvBuf[i])'
    BY <1>7, <1>9 DEF Expected
  <2>2. \A i \in 1..Len(wire') : Expected(q, Len(recvBuf) + i, wire[i])'
    BY <1>8, <1>9 DEF Expected
  <2>3. /\ inHeader' <=> q >= 0
        /\ headerLines' = <<>> => q # 0
        /\ q >= 0 => Len(recvBuf') <= 1
    BY <1>3 DEF q
  <2> QED
    BY <1>6, <2>1, <2>2, <2>3 DEF InAnswer
<1> QED
  BY <1>1, <1>10 DEF q

LEMMA SockReadyReadIInv ==
  ASSUME IInv, stack = <<>>, NEW n \in 1..Len(wire), Http!SockReadyRead(n),
         UNCHANGED <<streamVars, stack, keyVars, serverVars, histVars>>
  PROVE  IInv'
<1> DEFINE buf   == Http!Arrived(n)
           lines == headerLines \o Http!Lines(buf)
           ends  == Http!HeaderEnds(buf) # {}
           E     == Http!Extent(buf)
<1>1. /\ sock = "connected" /\ wire' = Http!Drop(wire, n)
      /\ UNCHANGED <<postdata, reply, broken, gone, sock, unsent, body>>
      /\ \/ /\ inHeader
            /\ recvBuf' = Http!Drop(buf, E)
            /\ headerLines' = IF ends THEN Tail(lines) ELSE lines
            /\ inHeader' = ~ends
         \/ /\ ~inHeader
            /\ recvBuf' = buf
            /\ UNCHANGED <<headerLines, inHeader>>
  BY DEF Http!SockReadyRead, Http!Arrives
<1> HIDE DEF buf
<1>2. TypeOK /\ Cookie /\ Answering
  BY DEF IInv
<1>3. /\ reply # None /\ reply \in Answers /\ buf \in Seq(Units) /\ Len(buf) = Len(recvBuf) + n
      /\ Http!Drop(wire, n) \in Seq(Units)
      /\ Has(buf) \/ Has(Http!Drop(wire, n)) => Has(recvBuf) \/ Has(wire)
  BY <1>1, BlockArrived DEF buf
<1>4. PICK k \in -1..2 : InAnswer(k) /\ \A i \in 1..Len(buf) : Expected(k, i, buf[i])
  BY <1>1, BlockArrived DEF buf
<1>5. /\ headerLines \in Seq(Texts) /\ (headerLines = <<>> => k # 0) /\ (inHeader <=> k >= 0)
      /\ inHeader \in BOOLEAN
  BY <1>2, <1>4 DEF TypeOK, Http!TypeOK, Texts, InAnswer
<1>6. /\ Len(buf) \in Nat /\ Len(reply) \in Nat /\ Len(recvBuf) \in Nat /\ Len(wire) \in Nat
      /\ Len(buf) <= 2 * k + 2 + Len(reply)
  <2>1. Len(buf) \in Nat /\ Len(reply) \in Nat /\ Len(recvBuf) \in Nat /\ Len(wire) \in Nat
    BY <1>2, <1>3, LenProperties DEF TypeOK, Http!TypeOK, Answers
  <2>2. Len(recvBuf) + Len(wire) <= 2 * k + 2 + Len(reply)
    BY <1>4 DEF InAnswer
  <2> QED
    BY <1>3, <2>1, <2>2, SMT
\* In the header, the lines and their units are taken off.
<1>7. ASSUME inHeader, recvBuf' = Http!Drop(buf, E),
             headerLines' = (IF ends THEN Tail(lines) ELSE lines), inHeader' = ~ends
      PROVE  /\ headerLines' \in Seq(Texts) /\ (Has(headerLines)' => Has(headerLines) \/ Has(buf))
             /\ recvBuf' \in Seq(Units) /\ (Has(recvBuf)' => Has(buf))
             /\ \E j \in 0..3 : /\ j <= k + 1 /\ 2 * j <= Len(buf) /\ recvBuf' = Drop(buf, 2 * j)
                                /\ inHeader' <=> k - j >= 0
                                /\ headerLines' = <<>> => k - j # 0
                                /\ k - j >= 0 => Len(buf) - 2 * j <= 1
  <2>1. k \in 0..2
    BY <1>5, <1>7, SMT
  <2>2. /\ lines \in Seq(Texts) /\ (Has(lines) => Has(headerLines) \/ Has(buf))
        /\ lines = <<>> => headerLines = <<>> /\ E = 0
        /\ ends => lines # <<>>
    BY <1>3, <1>4, <1>5, <1>6, <2>1, LinesArrived
  <2>3. /\ ends <=> Len(buf) >= 2 * k + 2
        /\ Len(buf) >= 2 * k + 2 => E = 2 * k + 2
        /\ Len(buf) < 2 * k + 2 => E = IF Len(buf) < 2 THEN 0 ELSE IF Len(buf) < 4 THEN 2 ELSE 4
    BY <1>3, <1>4, <1>6, <2>1, ExtentFound
  <2>4. ends \in BOOLEAN
    OBVIOUS
  <2> HIDE DEF lines, ends, E
  <2>5. ends => /\ Tail(lines) \in Seq(Texts) /\ (Has(Tail(lines)) => Has(lines))
    <3> SUFFICES ASSUME ends PROVE Tail(lines) \in Seq(Texts) /\ (Has(Tail(lines)) => Has(lines))
      OBVIOUS
    <3>1. /\ Tail(lines) \in Seq(Texts) /\ Len(Tail(lines)) = Len(lines) - 1
          /\ \A i \in 1..Len(Tail(lines)) : Tail(lines)[i] = lines[i + 1]
      BY <2>2, HeadTailProperties
    <3>2. Len(lines) \in Nat
      BY <2>2, LenProperties
    <3>3. \A i \in 1..Len(Tail(lines)) : i + 1 \in 1..Len(lines)
      BY <3>1, <3>2, SMT
    <3> QED
      BY <3>1, <3>3 DEF Has
  <2>6. headerLines' \in Seq(Texts) /\ (Has(headerLines)' => Has(headerLines) \/ Has(buf))
    BY <1>7, <2>2, <2>5 DEF Has
  <2>7. \E j \in 0..3 : /\ E = 2 * j /\ j <= k + 1 /\ 2 * j <= Len(buf)
                        /\ ends <=> j = k + 1
                        /\ ~ends => Len(buf) - 2 * j <= 1
    <3>1. CASE Len(buf) >= 2 * k + 2
      <4>1. k + 1 \in 0..3 /\ E = 2 * (k + 1) /\ 2 * (k + 1) <= Len(buf) /\ k + 1 <= k + 1 /\ ends
        BY <1>6, <2>1, <2>3, <3>1, SMT
      <4> QED
        BY <4>1
    <3>2. CASE Len(buf) < 2 * k + 2
      <4>1. ~ends
        BY <1>6, <2>1, <2>3, <3>2, SMT
      <4>2. CASE Len(buf) < 2
        <5>1. 0 \in 0..3 /\ E = 2 * 0 /\ 2 * 0 <= Len(buf) /\ 0 <= k + 1 /\ 0 # k + 1 /\ Len(buf) - 2 * 0 <= 1
          BY <1>6, <2>1, <2>3, <3>2, <4>2, SMT
        <5> QED
          BY <4>1, <5>1
      <4>3. CASE ~(Len(buf) < 2) /\ Len(buf) < 4
        <5>1. 1 \in 0..3 /\ E = 2 * 1 /\ 2 * 1 <= Len(buf) /\ 1 <= k + 1 /\ 1 # k + 1 /\ Len(buf) - 2 * 1 <= 1
          BY <1>6, <2>1, <2>3, <3>2, <4>3, SMT
        <5> QED
          BY <4>1, <5>1
      <4>4. CASE ~(Len(buf) < 4)
        <5>1. 2 \in 0..3 /\ E = 2 * 2 /\ 2 * 2 <= Len(buf) /\ 2 <= k + 1 /\ 2 # k + 1 /\ Len(buf) - 2 * 2 <= 1
          BY <1>6, <2>1, <2>3, <3>2, <4>4, SMT
        <5> QED
          BY <4>1, <5>1
      <4> QED
        BY <1>6, <4>2, <4>3, <4>4, SMT
    <3> QED
      BY <1>6, <2>1, <3>1, <3>2, SMT
  <2>8. PICK j \in 0..3 : /\ E = 2 * j /\ j <= k + 1 /\ 2 * j <= Len(buf)
                          /\ ends <=> j = k + 1
                          /\ ~ends => Len(buf) - 2 * j <= 1
    BY <2>7
  <2>9. recvBuf' = Drop(buf, 2 * j)
    BY <1>7, <2>8, SameDrop
  <2>10. recvBuf' \in Seq(Units) /\ (Has(recvBuf)' => Has(buf))
    <3>1. 2 * j \in 0..Len(buf)
      BY <1>6, <2>8, SMT
    <3>2. /\ recvBuf' \in Seq(Units) /\ Len(recvBuf') = Len(buf) - 2 * j
          /\ \A i \in 1..(Len(buf) - 2 * j) : recvBuf'[i] = buf[2 * j + i]
      BY <1>3, <2>9, <3>1, Dropped
    <3>3. \A i \in 1..Len(recvBuf') : 2 * j + i \in 1..Len(buf)
      BY <1>6, <3>1, <3>2, SMT
    <3> QED
      BY <3>2, <3>3 DEF Has
  <2>11. k - j >= 0 <=> j # k + 1
    BY <2>1, <2>8, SMT
  <2>12. headerLines' = <<>> => k - j # 0
    <3>1. SUFFICES ASSUME headerLines' = <<>>, k - j = 0 PROVE FALSE
      OBVIOUS
    <3>2. ~ends
      BY <2>1, <2>8, <3>1, SMT
    <3>3. headerLines = <<>> /\ E = 0
      BY <1>7, <2>2, <3>1, <3>2
    <3>4. k = 0
      BY <2>1, <2>8, <3>1, <3>3, SMT
    <3> QED
      BY <1>5, <3>3, <3>4
  <2> QED
    BY <1>7, <2>4, <2>6, <2>8, <2>9, <2>10, <2>11, <2>12
\* Behind it, all is data.
<1>8. ASSUME ~inHeader, recvBuf' = buf, UNCHANGED <<headerLines, inHeader>>
      PROVE  /\ headerLines' \in Seq(Texts) /\ (Has(headerLines)' => Has(headerLines) \/ Has(buf))
             /\ recvBuf' \in Seq(Units) /\ (Has(recvBuf)' => Has(buf))
             /\ \E j \in 0..3 : /\ j <= k + 1 /\ 2 * j <= Len(buf) /\ recvBuf' = Drop(buf, 2 * j)
                                /\ inHeader' <=> k - j >= 0
                                /\ headerLines' = <<>> => k - j # 0
                                /\ k - j >= 0 => Len(buf) - 2 * j <= 1
  <2>1. k = -1
    BY <1>5, <1>8, SMT
  <2>2. 0 \in 0..3 /\ 0 <= k + 1 /\ 2 * 0 <= Len(buf) /\ ~(k - 0 >= 0) /\ k - 0 # 0
    BY <1>6, <2>1, SMT
  <2>3. Drop(buf, 2 * 0) = buf
    <3>1. 2 * 0 + 1 = 1
      BY SMT
    <3>2. SubSeq(buf, 1, Len(buf)) = buf
      BY <1>3, SubSeqFull
    <3> QED
      BY <3>1, <3>2 DEF Drop
  <2> QED
    BY <1>3, <1>5, <1>8, <2>2, <2>3 DEF Has
<1>9. /\ headerLines' \in Seq(Texts) /\ (Has(headerLines)' => Has(headerLines) \/ Has(buf))
      /\ recvBuf' \in Seq(Units) /\ (Has(recvBuf)' => Has(buf))
      /\ \E j \in 0..3 : /\ j <= k + 1 /\ 2 * j <= Len(buf) /\ recvBuf' = Drop(buf, 2 * j)
                         /\ inHeader' <=> k - j >= 0
                         /\ headerLines' = <<>> => k - j # 0
                         /\ k - j >= 0 => Len(buf) - 2 * j <= 1
  BY <1>1, <1>7, <1>8
<1> HIDE DEF lines, ends, E
<1>10. PICK j \in 0..3 : /\ j <= k + 1 /\ 2 * j <= Len(buf) /\ recvBuf' = Drop(buf, 2 * j)
                         /\ inHeader' <=> k - j >= 0
                         /\ headerLines' = <<>> => k - j # 0
                         /\ k - j >= 0 => Len(buf) - 2 * j <= 1
  BY <1>9
<1>11. Http!TypeOK'
  <2>1. inHeader' \in BOOLEAN
    BY <1>1, <1>5
  <2> QED
    BY <1>1, <1>2, <1>3, <1>9, <2>1 DEF TypeOK, Http!TypeOK, Texts, Units
<1>12. k - j \in -1..2 /\ InAnswer(k - j)'
  BY <1>1, <1>2, <1>3, <1>4, <1>10, <1>11, PartRead
<1>13. Answering'
  <2>1. gone = gone' /\ (~gone => ~broken)
    BY <1>1, <1>2 DEF Answering
  <2> QED
    BY <1>1, <1>3, <1>12, <2>1 DEF Answering
<1>14. Cookie'
  <2>1. Has(headerLines)' \/ Has(recvBuf)' \/ Has(wire)' => Has(headerLines) \/ Has(recvBuf) \/ Has(wire)
    BY <1>1, <1>3, <1>9 DEF Has
  <2>2. top' # "syncFinished"
    BY NoFrame DEF top
  <2>3. UNCHANGED <<state, out, seed, key_n, lastKey, received, acked>>
    BY DEF streamVars, keyVars, serverVars, histVars
  <2> QED
    BY <1>1, <1>2, <2>1, <2>2, <2>3 DEF Cookie, Taken, cur
<1> QED
  BY <1>1, <1>11, <1>13, <1>14, EventIInv DEF Http!Posted

LEMMA HttpEventIInv == IInv /\ HttpEvent => IInv'
<1> SUFFICES ASSUME IInv, HttpEvent PROVE IInv'
  OBVIOUS
<1>1. stack = <<>> /\ UNCHANGED <<streamVars, stack, keyVars, serverVars, histVars>>
  BY DEF HttpEvent
<1> QED
  BY <1>1, SockConnectedIInv, SockReadyReadIInv, SockBytesWrittenIInv DEF HttpEvent

-----------------------------------------------------------------------------
(* The theorems.                                                           *)

LEMMA NextIInv ==
  ASSUME WritesElsewhere, IInv, [Next]_vars
  PROVE  IInv'
<1>1. CASE UNCHANGED vars
  <2>1. UNCHANGED <<state, closing, wbuf, out, timer, stack, sock, unsent, postdata, inHeader, headerLines, recvBuf,
                    body, wire, reply, broken, gone, seed, key_n, lastKey, received, sent,
                    calls, wrote, acked, got, gap>>
    BY <1>1 DEF vars, streamVars, httpVars, keyVars, serverVars, histVars
  <2>2. TypeOK' /\ Shape'
    BY <2>1 DEF IInv, TypeOK, Http!TypeOK, Shape, top, base, Pending, Http!Posted
  <2>3. Answering' /\ Cookie'
    BY <2>1 DEF IInv, Answering, InAnswer, Expected, Cookie, Has, Taken, cur, top
  <2>4. Chained' /\ Counted'
    BY <2>1 DEF IInv, Chained, Counted, KeysChain, SentOnce, Free, Effect, Hash, cur, top, Pending, Http!Posted
  <2>5. Delivered'
    BY <2>1 DEF IInv, Delivered, Holds, Has, top, base, Pending, Http!Posted
  <2> QED
    BY <2>2, <2>3, <2>4, <2>5 DEF IInv
<1>2. CASE ConnectToHost
  BY <1>2, ConnectToHostIInv
<1>3. CASE \E n \in 1..MaxData : Write(n)
  BY <1>3, WriteIInv
<1>4. CASE Close
  BY <1>4, CloseIInv
<1>5. CASE Timeout
  BY <1>5, TimeoutIInv
<1>6. CASE HttpEvent
  BY <1>6, HttpEventIInv
<1>7. CASE HttpResult
  BY <1>7, HttpResultIInv
<1>8. CASE HttpRefused
  BY <1>8, HttpRefusedIInv
<1>9. CASE HttpError
  BY <1>9, HttpErrorIInv
<1>10. CASE SlotReturns
  BY <1>10, SyncStartedReturnsIInv, SyncFailedIInv, SyncSucceededIInv, MiddleReturnsIInv, ReadyReadReturnsIInv
     DEF SlotReturns
<1>11. CASE \E cookie \in Cookies \cup {"none"}, n \in 0..MaxData : Serve(cookie, n)
  BY <1>11, ServeIInv
<1>12. CASE Disturb
  BY <1>12, DisturbIInv
<1> QED
  BY <1>1, <1>2, <1>3, <1>4, <1>5, <1>6, <1>7, <1>8, <1>9, <1>10, <1>11, <1>12 DEF Next

\* The inductive invariant holds as long as the program writes in no slot that
\* is part of making a packet or of judging its answer.
THEOREM InductiveInvariant ==
  ASSUME WritesElsewhere
  PROVE  Spec => []IInv
<1>1. Init => IInv
  BY InitIInv
<1>2. IInv /\ [Next]_vars => IInv'
  BY NextIInv
<1> QED
  BY <1>1, <1>2, PTL DEF Spec

\* Every variable of HttpPoll, of its HttpProxyPost and of the server keeps its type.
THEOREM TypeCorrect ==
  ASSUME WritesElsewhere
  PROVE  Spec => []TypeOK
<1>1. IInv => TypeOK
  BY DEF IInv
<1> QED
  BY <1>1, InductiveInvariant, PTL

\* The server takes every packet: getKey() hands out the chain without a gap,
\* over the end of a chain, over a packet that failed, and over a new session.
THEOREM PacketsAreTaken ==
  ASSUME WritesElsewhere
  PROVE  Spec => []KeysChain
<1>1. IInv => KeysChain
  BY DEF IInv, Chained
<1> QED
  BY <1>1, InductiveInvariant, PTL

\* Each byte written reaches the server once and in order, and bytesWritten()
\* takes off the buffer what was in the packet, however much write() has added.
THEOREM WritesGoOutOnce ==
  ASSUME WritesElsewhere
  PROVE  Spec => []SentOnce
<1>1. IInv => SentOnce
  BY DEF IInv, Counted
<1> QED
  BY <1>1, InductiveInvariant, PTL

\* What the server sends is made available once and in order, however the blocks
\* are cut, unless an answer is broken off or emptied before it is delivered.
THEOREM AnswersAreDelivered ==
  ASSUME WritesElsewhere
  PROVE  Spec => []ReceivedInOrder
<1>1. IInv => ReceivedInOrder
  BY NoFrame DEF IInv, Delivered, ReceivedInOrder, top
<1> QED
  BY <1>1, InductiveInvariant, PTL

\* The program does not close in the slots of a packet under way.
ClosesElsewhere == CloseIn \cap {"syncStarted", "syncFinished"} = {}

\* A closed stream has no timer and no post, and starts none.
Quiet ==
  state = 0 => /\ ~timer /\ ~Http!Posted /\ top # "syncStarted"
               /\ top = "syncFinished" => ~Has(headerLines)

LEMMA FinishQuiet ==
  ASSUME IInv, Quiet, Finish(wbuf, <<>>)
  PROVE  Quiet'
<1>1. CASE /\ wbuf # <<>> /\ UNCHANGED state
  <2>1. state' # 0
    BY <1>1 DEF IInv, Shape, TypeOK
  <2> QED
    BY <2>1 DEF Quiet
<1>2. CASE /\ wbuf = <<>> /\ stack' = <<>> /\ UNCHANGED keyVars
           /\ IF closing THEN Reset ELSE UNCHANGED <<streamVars, httpVars>>
  <2>1. top' = "loop"
    BY <1>2, NoFrame DEF top
  <2>2. CASE closing
    BY <1>2, <2>1, <2>2, ResetHttp DEF IInv, Quiet, ResetStream, Http!Posted
  <2>3. CASE ~closing
    BY <1>2, <2>1, <2>3 DEF Quiet, Http!Posted, streamVars, httpVars
  <2> QED
    BY <2>2, <2>3
<1> QED
  BY <1>1, <1>2 DEF Finish

LEMMA NextQuiet ==
  ASSUME ClosesElsewhere, IInv, Quiet, [Next]_vars
  PROVE  Quiet'
<1>1. TypeOK /\ Shape /\ Shaped(stack) /\ Cookie
  BY DEF IInv, Shape
<1>2. CASE UNCHANGED vars
  BY <1>2 DEF vars, Quiet, Has, top, Http!Posted, streamVars, httpVars
<1>3. CASE ConnectToHost
  <2>1. ResetStream /\ sock' \in {"idle", "closing"}
    BY <1>1, <1>3, ResetHttp DEF ConnectToHost
  <2>2. top' = "connecting"
    <3>1. PICK f : stack' = <<f>> /\ f.at = "connecting"
      BY <1>3 DEF ConnectToHost
    <3> QED
      BY <3>1, SMT DEF top, TopOf, Last
  <2> QED
    BY <2>1, <2>2 DEF Quiet, ResetStream, Http!Posted
<1>4. CASE \E n \in 1..MaxData : Write(n)
  BY <1>4 DEF Write, Quiet
<1>5. CASE Close
  <2>1. top' = top /\ (top = "loop" \/ top \in CloseIn) /\ state # 0
    BY <1>1, <1>5, AtTop DEF Close, top
  <2>2. CASE Reset
    BY <1>1, <2>1, <2>2, ResetHttp DEF ClosesElsewhere, Quiet, ResetStream, Http!Posted
  <2>3. CASE UNCHANGED state
    BY <2>1, <2>3 DEF Quiet
  <2> QED
    BY <1>5, <2>2, <2>3 DEF Close
<1>6. CASE Timeout
  BY <1>6 DEF Timeout, Quiet
<1>7. CASE HttpEvent
  <2>1. UNCHANGED <<state, timer, stack>> /\ top' = top /\ top = "loop"
    BY <1>7, NoFrame DEF HttpEvent, streamVars, top
  <2>2. Http!Posted' => Http!Posted
    BY <1>7 DEF HttpEvent, Http!SockConnected, Http!SockReadyRead, Http!SockBytesWritten, Http!Posted
  <2> QED
    BY <2>1, <2>2 DEF Quiet
<1>8. CASE HttpResult
  <2>1. UNCHANGED <<state, timer, headerLines>> /\ sock' = "idle" /\ sock \in {"connected", "closing"}
    BY <1>8 DEF HttpResult, streamVars, Http!SockConnectionClosed
  <2>2. top' = "syncFinished"
    <3>1. PICK f : stack' = <<f>> /\ f.at = "syncFinished"
      BY <1>8 DEF HttpResult, Slot
    <3> QED
      BY <3>1, SMT DEF top, TopOf, Last
  <2> QED
    BY <1>1, <2>1, <2>2 DEF Quiet, Cookie, Http!Posted, Has
<1>9. CASE HttpRefused
  <2>1. ResetStream /\ stack' = <<>> /\ sock' \in {"idle", "closing"}
    BY <1>9 DEF HttpRefused, Http!SockRefused, Http!CloseSock
  <2> QED
    BY <2>1, NoFrame DEF Quiet, ResetStream, Http!Posted, top
<1>10. CASE HttpError
  <2>1. ResetStream /\ stack' = <<>> /\ sock' = "idle"
    BY <1>10 DEF HttpError, Http!SockError
  <2> QED
    BY <2>1, NoFrame DEF Quiet, ResetStream, Http!Posted, top
<1>11. CASE SyncStartedReturns
  <2>1. top \in {"connecting", "syncStarted"} /\ Last(stack).at = top
    <3>1. top \in {"connecting", "syncStarted"}
      BY <1>11, AtTop DEF SyncStartedReturns
    <3> QED
      BY <3>1 DEF top, TopOf
  <2>2. state' = IF Last(stack).at = "connecting" THEN 1 ELSE state
    BY <1>11 DEF SyncStartedReturns
  <2>3. state' # 0
    BY <2>1, <2>2 DEF Quiet
  <2> QED
    BY <2>3 DEF Quiet
<1>12. CASE SyncFailed
  <2>1. Reset /\ stack' = <<>>
    <3>1. top = "syncFinished"
      BY <1>12, AtTop DEF SyncFailed
    <3> QED
      BY <1>1, <1>12, <3>1, OnlyOne DEF SyncFailed
  <2> QED
    BY <1>1, <2>1, ResetHttp, NoFrame DEF Quiet, ResetStream, Http!Posted, top
<1>13. CASE SyncSucceeded
  <2>1. top = "syncFinished" /\ Http!getHeader(Cookies) = "ok"
    BY <1>13, AtTop DEF SyncSucceeded
  <2>2. Has(headerLines)
    BY <1>1, <2>1, CookieFound DEF TypeOK, Http!TypeOK, Texts
  <2>3. state' # 0
    BY <1>13, <2>1, <2>2 DEF SyncSucceeded, Quiet
  <2> QED
    BY <2>3 DEF Quiet
<1>14. CASE MiddleReturns
  <2>1. Front(stack) = <<>>
    <3>1. top \in {"connected", "bytesWritten", "sent"}
      BY <1>14, AtTop DEF MiddleReturns
    <3> QED
      BY <1>1, <3>1, OnlyOne
  <2>2. CASE Finish(wbuf, <<>>)
    BY <2>2, FinishQuiet
  <2>3. CASE stack' = Append(<<>>, Slot("readyRead")) /\ UNCHANGED <<streamVars, httpVars, keyVars>>
    <3>1. top' = "readyRead"
      <4>1. PICK f : stack' = <<f>> /\ f.at = "readyRead"
        <5>1. \A f : Append(<<>>, f) = <<f>>
          BY SMT
        <5> QED
          BY <2>3, <5>1 DEF Slot
      <4> QED
        BY <4>1, SMT DEF top, TopOf, Last
    <3> QED
      BY <2>3, <3>1 DEF Quiet, Http!Posted, streamVars, httpVars
  <2> QED
    BY <1>14, <2>1, <2>2, <2>3 DEF MiddleReturns, Deliver
<1>15. CASE ReadyReadReturns
  <2>1. Front(stack) = <<>>
    <3>1. top = "readyRead"
      BY <1>15, AtTop DEF ReadyReadReturns
    <3> QED
      BY <1>1, <3>1, OnlyOne
  <2> QED
    BY <1>15, <2>1, FinishQuiet DEF ReadyReadReturns
<1>16. CASE (\E cookie \in Cookies \cup {"none"}, n \in 0..MaxData : Serve(cookie, n)) \/ Disturb
  <2>1. UNCHANGED <<state, timer, stack, sock, headerLines>>
    BY <1>16 DEF Serve, Disturb, Http!Answer, Http!Refuse, Http!Leave, streamVars
  <2> QED
    BY <2>1 DEF Quiet, Http!Posted, Has, top
<1> QED
  BY <1>2, <1>3, <1>4, <1>5, <1>6, <1>7, <1>8, <1>9, <1>10, <1>11, <1>12, <1>13, <1>14, <1>15, <1>16
     DEF Next, SlotReturns

\* A stream closed anywhere but in the slots of syncStarted() and syncFinished()
\* polls no more: those two are the whole cause of the refuted property.
THEOREM ClosedStreamIsQuiet ==
  ASSUME WritesElsewhere, ClosesElsewhere
  PROVE  Spec => []QuietWhenClosed
<1>1. Init => Quiet
  BY NoFrame DEF Init, Quiet, Http!Init, Http!Posted, top
<1>2. IInv /\ Quiet /\ [Next]_vars => Quiet'
  BY NextQuiet
<1>3. Quiet => QuietWhenClosed
  BY DEF Quiet, QuietWhenClosed
<1> QED
  BY <1>1, <1>2, <1>3, InductiveInvariant, PTL DEF Spec

-----------------------------------------------------------------------------
(* Every step is one of PostService, or none.                              *)

\* PostService's request and signal.
asked     == IF Http!Posted THEN postdata ELSE None
signalled == stack # <<>> /\ Head(stack).at = "syncFinished"

\* A connection begins with an empty body, a closing one has nothing in its
\* buffer, and only one that is gone has broken off an answer.
Emptied ==
  /\ sock # "idle" => body = <<>>
  /\ sock = "closing" => recvBuf = <<>>
  /\ ~gone => ~broken

\* Of the post nothing changes, but that it may be withdrawn.
Calm ==
  /\ asked' = asked \/ asked' = None
  /\ UNCHANGED <<reply, broken, body>>
  /\ Emptied'

\* The signal is being handled in the outermost handler.
LEMMA SignalIsBase == \A s : (s # <<>> /\ Head(s).at = "syncFinished") <=> BaseOf(s) = "syncFinished"
BY DEF BaseOf

\* What is asked is a packet.
LEMMA AskedIsPacket ==
  ASSUME IInv
  PROVE  asked # None <=> Http!Posted
<1>1. None \notin Packets
  BY HttpPollAssumption DEF Packets, Key
<1>2. Http!Posted => postdata \in Packets
  BY DEF IInv, Chained
<1> QED
  BY <1>1, <1>2 DEF asked

\* A calm step is a step of PostService.
LEMMA CalmIsStep ==
  ASSUME Calm, signalled' <=> signalled
  PROVE  [Post!Next]_(Post!vars)
<1>1. signalled' = signalled
  BY DEF signalled
<1>2. CASE asked' = asked
  BY <1>1, <1>2 DEF Calm, Post!vars, asked, signalled
<1>3. CASE asked' = None /\ asked # None
  BY <1>1, <1>3 DEF Calm, Post!Next, Post!Withdraw, asked, signalled
<1>4. CASE asked' = None /\ asked = None
  BY <1>1, <1>4 DEF Calm, Post!vars, asked, signalled
<1> QED
  BY <1>2, <1>3, <1>4 DEF Calm

\* So is what leaves the post alone.
LEMMA KeptCalm ==
  ASSUME Emptied, UNCHANGED httpVars
  PROVE  Calm
BY DEF Calm, Emptied, asked, httpVars, Http!Posted

\* So is reset().
LEMMA ResetCalm ==
  ASSUME Emptied, Reset
  PROVE  Calm
<1>1. CASE Http!isActive
  <2>1. /\ sock' \in {"idle", "closing"} /\ sock # "idle" /\ recvBuf' = <<>>
        /\ UNCHANGED <<body, reply, broken, gone>>
    BY <1>1 DEF Reset, Http!stop, Http!CloseSock, Http!isActive, Http!serverVars
  <2>2. asked' = None
    BY <2>1 DEF asked, Http!Posted
  <2> QED
    BY <2>1, <2>2 DEF Calm, Emptied
<1>2. CASE ~Http!isActive
  BY <1>2, KeptCalm DEF Reset
<1> QED
  BY <1>1, <1>2

\* And the end of http_result().
LEMMA FinishCalm ==
  ASSUME Emptied, NEW buf, NEW below, Finish(buf, below)
  PROVE  Calm
BY KeptCalm, ResetCalm DEF Finish

\* Where the innermost handler goes on after another signal, that of result() is
\* handled, if at all, as before.
LEMMA SignalKept ==
  ASSUME Shaped(stack), NEW f, stack' = Append(stack, f), f.at = "syncStarted"
  PROVE  signalled' <=> signalled
<1>1. CASE stack = <<>>
  <2>1. stack' = <<f>>
    BY <1>1, SMT
  <2>2. Head(<<f>>) = f
    BY SMT
  <2> QED
    BY <1>1, <2>1, <2>2 DEF signalled
<1>2. CASE stack # <<>>
  <2>1. stack \in Seq(Frames)
    <3>1. CASE \E f1 \in Frames : stack = <<f1>>
      BY <3>1, OneFrame
    <3>2. CASE \E f1, g1 \in Frames : stack = <<f1, g1>> /\ Nested(f1, g1)
      BY <3>2, TwoFrames
    <3> QED
      BY <1>2, <3>1, <3>2 DEF Shaped
  <2>2. Len(stack) \in Nat /\ Len(stack) # 0
    BY <1>2, <2>1, LenProperties, EmptySeq
  <2>3. Head(stack') = Head(stack) /\ stack' # <<>>
    <3>1. stack'[1] = stack[1] /\ Len(stack') = Len(stack) + 1
      BY <2>1, <2>2, SMT
    <3> QED
      BY <2>1, <2>2, <3>1, SMT
  <2> QED
    BY <1>2, <2>3 DEF signalled
<1> QED
  BY <1>1, <1>2

\* In a handler that is alone and not that of result(), no signal is handled; nor
\* is it after one frame that is not its own has come.
LEMMA NotSignalled ==
  /\ \A f : f.at # "syncFinished" => BaseOf(<<f>>) # "syncFinished"
  /\ BaseOf(<<>>) # "syncFinished"
  /\ \A f : Append(<<>>, f) = <<f>>
<1>1. \A f : <<f>> # <<>> /\ Head(<<f>>) = f /\ Append(<<>>, f) = <<f>>
  BY SMT
<1> QED
  BY <1>1 DEF BaseOf

\* The steps of the program and the stream: they take the post back at most.
LEMMA StreamSteps ==
  ASSUME WritesElsewhere, IInv, Emptied,
         ConnectToHost \/ (\E n \in 1..MaxData : Write(n)) \/ Close \/ Timeout \/ MiddleReturns \/ ReadyReadReturns
  PROVE  Calm /\ (signalled' <=> signalled)
<1>1. Shaped(stack)
  BY DEF IInv, Shape
<1>2. CASE ConnectToHost
  <2>1. PICK f : stack' = <<f>> /\ f.at = "connecting"
    BY <1>2 DEF ConnectToHost
  <2>2. ~signalled' /\ ~signalled
    BY <1>2, <2>1, SignalIsBase, NotSignalled DEF ConnectToHost, signalled
  <2> QED
    BY <1>2, <2>2, ResetCalm DEF ConnectToHost
<1>3. CASE \E n \in 1..MaxData : Write(n)
  <2>1. UNCHANGED httpVars
    BY <1>3 DEF Write
  <2>2. CASE stack' = stack
    BY <2>1, <2>2, KeptCalm DEF signalled
  <2>3. CASE stack' # stack
    <3>1. PICK f : stack' = Append(stack, f) /\ f.at = "syncStarted"
      BY <1>3, <2>3 DEF Write, DoSync
    <3> QED
      BY <1>1, <2>1, <3>1, KeptCalm, SignalKept
  <2> QED
    BY <2>2, <2>3
<1>4. CASE Close
  <2>1. stack' = stack
    BY <1>4 DEF Close
  <2>2. Calm
    BY <1>4, ResetCalm, KeptCalm DEF Close
  <2> QED
    BY <2>1, <2>2 DEF signalled
<1>5. CASE Timeout
  <2>1. UNCHANGED httpVars /\ stack = <<>>
    BY <1>5 DEF Timeout
  <2>2. CASE stack' = stack
    BY <2>1, <2>2, KeptCalm DEF signalled
  <2>3. CASE stack' # stack
    <3>1. PICK f : stack' = Append(stack, f) /\ f.at = "syncStarted"
      BY <1>5, <2>1, <2>3 DEF Timeout, DoSync
    <3> QED
      BY <1>1, <2>1, <3>1, KeptCalm, SignalKept
  <2> QED
    BY <2>2, <2>3
<1>6. ASSUME top \in {"connected", "bytesWritten", "sent", "readyRead"}
      PROVE  Front(stack) = <<>> /\ ~signalled
  BY <1>1, <1>6, OnlyOne, SignalIsBase DEF signalled, base
<1>7. ASSUME Finish(wbuf, <<>>) PROVE ~signalled'
  <2>1. stack' = <<>> \/ \E f : stack' = Append(<<>>, f) /\ f.at = "syncStarted"
    BY <1>7 DEF Finish, DoSync
  <2> QED
    BY <2>1, SignalIsBase, NotSignalled DEF signalled
<1>8. CASE MiddleReturns
  <2>1. Front(stack) = <<>> /\ ~signalled
    BY <1>6, <1>8, AtTop DEF MiddleReturns
  <2>2. CASE Finish(wbuf, <<>>)
    BY <1>7, <2>1, <2>2, FinishCalm
  <2>3. CASE stack' = Append(<<>>, Slot("readyRead")) /\ UNCHANGED httpVars
    <3>1. Slot("readyRead").at = "readyRead"
      BY DEF Slot
    <3>2. ~signalled'
      BY <2>3, <3>1, SignalIsBase, NotSignalled DEF signalled
    <3> QED
      BY <2>1, <2>3, <3>2, KeptCalm
  <2> QED
    BY <1>8, <2>1, <2>2, <2>3 DEF MiddleReturns, Deliver
<1>9. CASE ReadyReadReturns
  <2>1. Front(stack) = <<>> /\ ~signalled
    BY <1>6, <1>9, AtTop DEF ReadyReadReturns
  <2> QED
    BY <1>7, <1>9, <2>1, FinishCalm DEF ReadyReadReturns
<1> QED
  BY <1>2, <1>3, <1>4, <1>5, <1>8, <1>9

\* The slot of result() returns.
LEMMA SignalHandled ==
  ASSUME IInv, Emptied, SyncFailed \/ SyncSucceeded
  PROVE  Emptied' /\ Post!Handled
<1>1. Shape /\ Shaped(stack)
  BY DEF IInv, Shape
<1>2. top = "syncFinished"
  BY AtTop DEF SyncFailed, SyncSucceeded
<1>3. Front(stack) = <<>> /\ sock = "idle"
  BY <1>1, <1>2, OnlyOne DEF Shape
<1>4. UNCHANGED httpVars
  BY <1>3 DEF SyncFailed, SyncSucceeded, Reset, Http!isActive
<1>5. ~signalled'
  <2>1. stack' = <<>> \/ \E f : stack' = Append(<<>>, f) /\ f.at # "syncFinished"
    BY <1>3 DEF SyncFailed, SyncSucceeded, Slot
  <2> QED
    BY <2>1, SignalIsBase, NotSignalled DEF signalled
<1>6. signalled' = FALSE
  BY <1>5 DEF signalled
<1>7. UNCHANGED <<asked, reply, broken, body>> /\ Emptied'
  BY <1>4 DEF asked, httpVars, Http!Posted, Emptied
<1> QED
  BY <1>6, <1>7 DEF Post!Handled, asked, signalled

\* A packet is posted.
LEMMA PacketAsked ==
  ASSUME IInv, IInv', Emptied, SyncStartedReturns
  PROVE  Emptied' /\ Post!Ask
<1>1. Shape /\ Shaped(stack)
  BY DEF IInv, Shape
<1>2. top \in {"connecting", "syncStarted"}
  BY AtTop DEF SyncStartedReturns
<1>3. /\ sock' = "connecting" /\ recvBuf' = <<>> /\ body' = <<>>
      /\ reply' = None /\ broken' = FALSE /\ gone' = FALSE /\ stack' = Front(stack)
  BY DEF SyncStartedReturns, Http!post
<1>4. asked' # None
  <2>1. None \notin Packets
    BY HttpPollAssumption DEF Packets, Key
  <2>2. Http!Posted' /\ postdata' \in Packets
    BY <1>3 DEF IInv, Chained, Http!Posted
  <2> QED
    BY <2>1, <2>2 DEF asked
<1>5. ~signalled /\ ~signalled'
  <2>1. CASE stack = <<>>
    BY <1>2, <2>1, NoFrame DEF top
  <2>2. CASE \E f \in Frames : stack = <<f>>
    <3>1. PICK f \in Frames : stack = <<f>>
      BY <2>2
    <3>2. stack' = <<>> /\ BaseOf(stack) = f.at /\ f.at # "syncFinished"
      BY <1>2, <1>3, <3>1, OneFrame, ShapeOfOne DEF top
    <3> QED
      BY <3>2, SignalIsBase, NotSignalled DEF signalled
  <2>3. CASE \E f, g \in Frames : stack = <<f, g>> /\ Nested(f, g)
    <3>1. PICK f \in Frames, g \in Frames : stack = <<f, g>> /\ Nested(f, g)
      BY <2>3
    <3>2. stack' = <<f>> /\ BaseOf(stack) = f.at /\ f.at # "syncFinished"
      BY <1>3, <3>1, TwoFrames, ShapeOfTwo DEF Nested
    <3> QED
      BY <3>2, SignalIsBase, NotSignalled DEF signalled
  <2> QED
    BY <1>1, <2>1, <2>2, <2>3 DEF Shaped
<1>6. signalled' = signalled
  BY <1>5 DEF signalled
<1>7. Emptied'
  BY <1>3 DEF Emptied
<1> QED
  BY <1>3, <1>4, <1>6, <1>7 DEF Post!Ask, asked, signalled

\* Events of the post that are not signalled.
LEMMA EventIsCalm ==
  ASSUME IInv, Emptied, HttpEvent
  PROVE  Calm /\ signalled' = signalled
<1>1. stack' = stack
  BY DEF HttpEvent
<1>2. UNCHANGED <<postdata, body, reply, broken, gone>>
  BY DEF HttpEvent, Http!SockConnected, Http!SockReadyRead, Http!SockBytesWritten, Http!Arrives, Http!serverVars
<1>3. /\ sock' = "closing" => sock = "closing" /\ recvBuf' = recvBuf
      /\ sock' # "idle" => sock # "idle"
      /\ Http!Posted' = Http!Posted
  <2>1. CASE Http!SockConnected
    BY <2>1 DEF Http!SockConnected, Http!Posted
  <2>2. CASE \E n \in 1..Len(wire) : Http!SockReadyRead(n)
    BY <2>2 DEF Http!SockReadyRead, Http!Arrives, Http!Posted
  <2>3. CASE Http!SockBytesWritten
    <3>1. sock' = sock \/ (sock = "closing" /\ sock' = "idle")
      BY <2>3 DEF Http!SockBytesWritten
    <3> QED
      BY <2>3, <3>1 DEF Http!SockBytesWritten, Http!Posted
  <2> QED
    BY <2>1, <2>2, <2>3 DEF HttpEvent
<1>4. asked' = asked
  BY <1>2, <1>3 DEF asked
<1>5. Emptied'
  BY <1>2, <1>3 DEF Emptied
<1> QED
  BY <1>1, <1>2, <1>4, <1>5 DEF Calm, signalled

\* A result: of a whole answer the body is the answer.
LEMMA ResultIsOne ==
  ASSUME IInv, Emptied, HttpResult
  PROVE  Emptied' /\ (Post!Result \/ Post!LateResult)
<1>1. /\ sock \in {"connected", "closing"} /\ gone /\ wire = <<>>
      /\ sock' = "idle" /\ body' = recvBuf
      /\ UNCHANGED <<postdata, reply, broken, gone>>
  BY DEF HttpResult, Http!SockConnectionClosed, Http!serverVars
<1>2. signalled' = TRUE
  <2>1. stack' = <<Slot("syncFinished")>> /\ Slot("syncFinished").at = "syncFinished"
    BY DEF HttpResult, Slot
  <2>2. \A f : <<f>> # <<>> /\ Head(<<f>>) = f
    BY SMT
  <2> QED
    BY <2>1, <2>2 DEF signalled
<1>3. Emptied' /\ asked' = None
  BY <1>1 DEF Emptied, asked, Http!Posted
<1>4. CASE sock = "closing"
  <2>1. asked = None /\ body' = <<>>
    BY <1>1, <1>4 DEF Emptied, asked, Http!Posted
  <2> QED
    BY <1>1, <1>2, <1>3, <2>1 DEF Post!LateResult, asked, signalled
<1>5. CASE sock = "connected"
  <2>1. asked # None
    BY <1>5, AskedIsPacket DEF Http!Posted
  <2>2. ASSUME ~broken PROVE recvBuf = reply
    <3>1. TypeOK /\ Answering
      BY DEF IInv
    <3>2. reply # None
      BY <1>1, <1>5, <2>2, <3>1 DEF Answering
    <3>3. PICK k \in -1..2 : InAnswer(k)
      BY <1>5, <3>1, <3>2 DEF Answering
    <3>4. recvBuf \in Seq(Units) /\ reply \in Answers /\ Len(reply) \in Nat /\ Len(recvBuf) \in Nat /\ Len(<<>>) = 0
      BY <3>1, <3>2, LenProperties, Plain DEF TypeOK, Http!TypeOK, Answers, Units
    <3>5. Len(recvBuf) + 0 = 2 * k + 2 + Len(reply) /\ (k >= 0 => Len(recvBuf) <= 1)
      BY <1>1, <2>2, <3>3, <3>4 DEF InAnswer
    <3>6. k = -1 /\ Len(recvBuf) = Len(reply)
      BY <3>4, <3>5, SMT
    <3>7. \A i \in 1..Len(recvBuf) : recvBuf[i] = reply[i]
      <4>1. \A i \in 1..Len(recvBuf) : Expected(-1, i, recvBuf[i])
        BY <3>3, <3>6 DEF InAnswer
      <4>2. \A i \in 1..Len(recvBuf) : i > 2 * (-1) + 2 /\ i - (2 * (-1) + 2) = i
        BY <3>4, SMT
      <4> QED
        BY <4>1, <4>2 DEF Expected
    <3>8. reply \in Seq(Units)
      <4>1. {Http!Data(n) : n \in 1..MaxData} \subseteq Units
        BY UnitsDiffer
      <4>2. \A i \in 1..Len(reply) : reply[i] \in Units
        BY <3>4, <4>1, ElementOfSeq DEF Answers
      <4>3. reply = [i \in 1..Len(reply) |-> reply[i]]
        BY <3>4, LenProperties DEF Answers
      <4> QED
        BY <3>4, <4>2, <4>3, SeqDef
    <3> QED
      BY <3>4, <3>6, <3>7, <3>8, SeqEqual
  <2>3. broken \/ body' = reply
    BY <1>1, <2>2
  <2> QED
    BY <1>1, <1>2, <1>3, <2>1, <2>3 DEF Post!Result, asked, signalled
<1> QED
  BY <1>1, <1>4, <1>5

\* An error: of the post, or of a connection whose post was given up.
LEMMA FailureIsOne ==
  ASSUME IInv, Emptied, HttpRefused \/ HttpError
  PROVE  Emptied' /\ (Post!Failure \/ UNCHANGED Post!vars)
<1>1. stack' = stack
  BY DEF HttpRefused, HttpError
<1>2. /\ sock # "idle" /\ body' = <<>> /\ recvBuf' = <<>> /\ sock' \in {"idle", "closing"}
      /\ UNCHANGED <<postdata, reply, broken, gone>>
  <2>1. CASE HttpRefused
    <3>1. PICK n \in 1..Len(wire) : Http!SockRefused(n)
      BY <2>1 DEF HttpRefused
    <3> QED
      BY <3>1 DEF Http!SockRefused, Http!Arrives, Http!CloseSock
  <2>2. CASE HttpError
    BY <2>2 DEF HttpError, Http!SockError, Http!isActive, Http!serverVars
  <2> QED
    BY <2>1, <2>2
<1>3. Emptied' /\ asked' = None /\ signalled' = signalled /\ body = <<>>
  BY <1>1, <1>2 DEF Emptied, asked, signalled, Http!Posted
<1>4. CASE asked = None
  BY <1>2, <1>3, <1>4 DEF Post!vars, asked, signalled
<1>5. CASE asked # None
  BY <1>2, <1>3, <1>5 DEF Post!Failure, asked, signalled
<1> QED
  BY <1>3, <1>4, <1>5

\* The server answers, or the connection ends.
LEMMA ServerIsOne ==
  ASSUME IInv, Emptied,
         (\E cookie \in Cookies \cup {"none"}, n \in 0..MaxData : Serve(cookie, n)) \/ Disturb
  PROVE  Emptied' /\ (Post!Answer \/ Post!Break \/ UNCHANGED Post!vars)
<1>1. UNCHANGED <<stack, sock, postdata, recvBuf, body>>
  BY DEF Serve, Disturb, Http!Answer, Http!Refuse, Http!Leave
<1>2. asked' = asked /\ signalled' = signalled
  BY <1>1 DEF asked, signalled, Http!Posted
<1>3. CASE reply = None /\ reply' # None /\ UNCHANGED <<broken, gone>>
  <2>1. Emptied'
    BY <1>1, <1>3 DEF Emptied
  <2> QED
    BY <1>1, <1>2, <1>3, <2>1 DEF Post!Answer, asked, signalled
<1>4. CASE \E lost \in BOOLEAN : Http!Leave(lost)
  <2>1. ~gone /\ gone' = TRUE /\ reply' = reply /\ broken' \in BOOLEAN
    BY <1>4 DEF Http!Leave
  <2>2. Emptied' /\ broken = FALSE
    BY <1>1, <2>1 DEF Emptied, IInv, TypeOK, Http!TypeOK
  <2>3. CASE broken' = TRUE
    BY <1>1, <1>2, <2>1, <2>2, <2>3 DEF Post!Break, asked, signalled
  <2>4. CASE broken' = FALSE
    BY <1>1, <1>2, <2>1, <2>2, <2>4 DEF Post!vars, asked, signalled
  <2> QED
    BY <2>1, <2>2, <2>3, <2>4
<1>5. CASE \E status \in Statuses : Http!Refuse(status)
  <2>1. reply = None /\ reply' = <<>> /\ UNCHANGED <<broken, gone>>
    BY <1>5 DEF Http!Refuse, Http!Unanswered
  <2>2. <<>> # None
    <3>1. <<>> \in Seq({"data"} \X Nat)
      BY SMT
    <3> QED
      BY <3>1, HttpPollAssumption
  <2> QED
    BY <1>3, <2>1, <2>2
<1>6. CASE \E cookie \in Cookies \cup {"none"}, n \in 0..MaxData : Serve(cookie, n)
  <2>1. PICK n \in 0..MaxData : reply' = [i \in 1..n |-> Http!Data(sent + i)]
    <3>1. PICK cookie \in Cookies \cup {"none"}, n \in 0..MaxData : Serve(cookie, n)
      BY <1>6
    <3> DEFINE data == [i \in 1..n |-> Http!Data(sent + i)]
    <3>2. \E c : Http!Answer(c, data)
      BY <3>1, Zenon DEF Serve
    <3> HIDE DEF data
    <3>3. reply' = data
      BY <3>2 DEF Http!Answer
    <3> QED
      BY <3>3 DEF data
  <2>2. reply = None /\ UNCHANGED <<broken, gone>>
    BY <1>6 DEF Serve, Http!Answer, Http!Unanswered
  <2>3. reply' \in Seq({"data"} \X Nat)
    <3>1. sent \in Nat /\ n \in Nat
      BY HttpPollAssumption DEF IInv, TypeOK
    <3>2. \A i \in 1..n : Http!Data(sent + i) \in {"data"} \X Nat
      BY <3>1 DEF Http!Data
    <3>3. [i \in 1..n |-> Http!Data(sent + i)] \in [1..n -> {"data"} \X Nat]
      BY <3>2
    <3> QED
      BY <2>1, <3>1, <3>3, SeqDef
  <2>4. reply' # None
    BY <2>3, HttpPollAssumption
  <2> QED
    BY <1>3, <2>2, <2>4
<1> QED
  BY <1>4, <1>5, <1>6 DEF Disturb

\* Every step is one of PostService, or none.
LEMMA NextPost ==
  ASSUME WritesElsewhere, IInv, IInv', Emptied, [Next]_vars
  PROVE  Emptied' /\ [Post!Next]_(Post!vars)
<1>1. CASE UNCHANGED vars
  <2>1. UNCHANGED httpVars /\ UNCHANGED stack
    BY <1>1 DEF vars
  <2> QED
    BY <2>1, KeptCalm, CalmIsStep DEF Calm, signalled
<1>2. CASE ConnectToHost \/ (\E n \in 1..MaxData : Write(n)) \/ Close \/ Timeout \/ MiddleReturns \/ ReadyReadReturns
  BY <1>2, StreamSteps, CalmIsStep DEF Calm
<1>3. CASE HttpEvent
  BY <1>3, EventIsCalm, CalmIsStep DEF Calm
<1>4. CASE HttpResult
  BY <1>4, ResultIsOne DEF Post!Next
<1>5. CASE HttpRefused \/ HttpError
  BY <1>5, FailureIsOne DEF Post!Next
<1>6. CASE SyncStartedReturns
  BY <1>6, PacketAsked DEF Post!Next
<1>7. CASE SyncFailed \/ SyncSucceeded
  BY <1>7, SignalHandled DEF Post!Next
<1>8. CASE (\E cookie \in Cookies \cup {"none"}, n \in 0..MaxData : Serve(cookie, n)) \/ Disturb
  BY <1>8, ServerIsOne DEF Post!Next
<1> QED
  BY <1>1, <1>2, <1>3, <1>4, <1>5, <1>6, <1>7, <1>8 DEF Next, SlotReturns

\* HttpPoll, the HttpProxyPost under it and the server do what PostService
\* promises, but for its fairness: each post ends with one result() or error(),
\* or is given up, and the body of a result is the answer to that very post.
THEOREM PostsAreAnswered ==
  ASSUME WritesElsewhere
  PROVE  Spec => Post!Init /\ [][Post!Next]_(Post!vars)
<1>1. Init => Post!Init
  <2> SUFFICES ASSUME Init PROVE Post!Init
    OBVIOUS
  <2>1. ~Http!Posted /\ stack = <<>> /\ reply = None /\ broken = FALSE /\ body = <<>>
    BY DEF Init, Http!Init, Http!Posted
  <2> QED
    BY <2>1 DEF Post!Init
<1>2. Init => Emptied
  BY DEF Init, Http!Init, Emptied
<1>3. IInv /\ IInv' /\ Emptied /\ [Next]_vars => Emptied' /\ [Post!Next]_(Post!vars)
  BY NextPost
<1> QED
  BY <1>1, <1>2, <1>3, InductiveInvariant, PTL DEF Spec

=============================================================================
