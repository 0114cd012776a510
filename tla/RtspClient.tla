------------------------------ MODULE RtspClient ------------------------------
(***************************************************************************)
(* RTSP::Client of src/rtsp/rtspbase.cpp with its Parser: requests or      *)
(* responses, with or without content, and interleaved data, out of a byte *)
(* stream that cuts them anywhere; and the packets written, each reported  *)
(* when its last byte is.  A client connects, or is made by RTSP::Server   *)
(* for a connection and served from the event loop once it is taken.       *)
(*                                                                         *)
(* A line is two units of the stream, its text and its end; `$' and the    *)
(* size of interleaved data are a unit each; a byte of content is a unit,  *)
(* and looks like the end of a line.  A unit is <<kind, packet number>>.   *)
(* processPackets() is a loop that emits packetReady(): one step per       *)
(* read(), `busy' while it goes on; the slots may write or delete.         *)
(*                                                                         *)
(* The byte stream is external (BSocket is a module of its own).  On its   *)
(* end or on an error the program deletes the client, as Session does.     *)
(***************************************************************************)
EXTENDS Integers, Sequences, SequencesExt, FiniteSetsExt

CONSTANTS
  MaxPackets,   \* bound: packets of the peer
  MaxContent,   \* MAX_CONTENT_LENGTH
  MaxWrites,    \* bound: calls of write()
  MaxSize,      \* bound: bytes of a packet written
  NoHead

ASSUME RtspClientAssumption ==
  MaxPackets \in Nat /\ MaxContent \in Nat /\ MaxWrites \in Nat /\ MaxSize \in Nat

VARIABLES
  packets,  \* what the peer sends, chosen at the start
  arrived,  \* number of units of it that have been read from d->bs
  bs,       \* d->bs: "none", "connecting", "open"
  active,   \* d->active
  taken,    \* takeIncoming() has been called, serve() is due
  in,       \* the parser's in
  cur,      \* lines of the packet read so far
  tmp,      \* tmp.t: "empty" or "message"; of a message, head is its first line
  head,
  reading,  \* readingContent
  clen,
  data,     \* tmp._data
  busy,     \* processPackets() is running
  got,      \* history: packets signalled by packetReady()
  stalled,  \* history: the last read() ended at an empty line
  track,    \* d->trackQueue
  sizes,    \* history: sizes of the packets that the stream has accepted
  acked,    \* history: bytes reported by the stream
  reported, \* history: packetWritten() signals
  early,    \* history: a packet was written before connected()
  ended     \* history: "no", "closed", "stream", "parse", "deleted"

parserVars == <<in, cur, tmp, head, reading, clen, data>>
writeVars  == <<track, sizes, acked, reported, early>>
clientVars == <<packets, arrived, bs, active, taken, parserVars, busy, got, stalled, writeVars, ended>>

-----------------------------------------------------------------------------
(* The peer's packets and their bytes.                                     *)

Kinds == [kind: {"message"}, len: -1..(MaxContent + 1)]
         \cup [kind: {"blank", "bad"}, len: {0}]   \* an empty line before it, no request or response
         \cup [kind: {"data"}, len: 0..1]

Content(i, n) == [j \in 1..n |-> <<"eol", i>>]

\* The bytes of packet i.
Encode(i, p) ==
  CASE p.kind = "data"  -> << <<"dollar", i>>, <<"size", i>> >> \o Content(i, p.len)
    [] p.kind = "blank" -> << <<"eol", i>>, <<"start", i>>, <<"eol", i>>, <<"eol", i>> >>
    [] p.kind = "bad"   -> << <<"text", i>>, <<"eol", i>>, <<"eol", i>> >>
    [] OTHER -> << <<"start", i>>, <<"eol", i>> >>
                \o (IF p.len # 0 THEN << <<"length", i>>, <<"eol", i>> >> ELSE <<>>)
                \o << <<"eol", i>> >> \o Content(i, p.len)

Stream == FlattenSeq([i \in DOMAIN packets |-> Encode(i, packets[i])])

Units   == {"start", "text", "length", "eol", "dollar", "size"} \X (1..MaxPackets)
Packets == [kind: {"message", "data"}, number: 1..MaxPackets, data: Seq(Units)]

ClientTypeOK ==
  /\ packets \in Seq(Kinds) /\ Len(packets) <= MaxPackets
  /\ arrived \in 0..Len(Stream)
  /\ bs \in {"none", "connecting", "open"}
  /\ active \in BOOLEAN /\ taken \in BOOLEAN /\ busy \in BOOLEAN
  /\ in \in Seq(Units)
  /\ cur \in Seq(Units)
  /\ tmp \in {"empty", "message"}
  /\ head \in Units \cup {NoHead}
  /\ reading \in BOOLEAN
  /\ clen \in -1..MaxContent
  /\ data \in Seq(Units) /\ Len(data) <= Max({clen, 0})
  /\ got \in Seq(Packets)
  /\ stalled \in BOOLEAN /\ early \in BOOLEAN
  /\ track \in Seq(1..MaxSize) /\ sizes \in Seq(1..MaxSize)
  /\ acked \in Nat /\ reported \in 0..MaxWrites
  /\ ended \in {"no", "closed", "stream", "parse", "deleted"}

\* connectToHost() is to be called, or Server has made it for a connection.
ClientInit ==
  /\ packets \in SeqOf(Kinds, MaxPackets)
  /\ arrived = 0
  /\ bs \in {"none", "open"}
  /\ active = FALSE /\ taken = FALSE
  /\ in = <<>> /\ cur = <<>>
  /\ tmp = "empty" /\ head = NoHead /\ reading = FALSE /\ clen = 0 /\ data = <<>>
  /\ busy = FALSE
  /\ got = <<>>
  /\ stalled = FALSE
  /\ track = <<>> /\ sizes = <<>> /\ acked = 0 /\ reported = 0 /\ early = FALSE
  /\ ended = "no"

-----------------------------------------------------------------------------
(* Connecting and being served.                                            *)

Idle == ~busy /\ ended = "no"

ConnectToHost ==
  /\ Idle /\ bs = "none"
  /\ bs' = "connecting"
  /\ UNCHANGED <<packets, arrived, active, taken, parserVars, busy, got, stalled, writeVars, ended>>

\* sock_connected(), with the reset of the parser.
SockConnected ==
  /\ Idle /\ bs = "connecting"
  /\ bs' = "open"
  /\ active' = TRUE
  /\ in' = <<>> /\ cur' = <<>> /\ tmp' = "empty" /\ head' = NoHead
  /\ UNCHANGED <<packets, arrived, taken, reading, clen, data, busy, got, stalled, writeVars, ended>>

\* Server::takeIncoming().
TakeIncoming ==
  /\ Idle /\ bs = "open" /\ ~active /\ ~taken
  /\ taken' = TRUE
  /\ UNCHANGED <<packets, arrived, bs, active, parserVars, busy, got, stalled, writeVars, ended>>

\* Mutant of Serve: the client is made active only.
ServeOnly ==
  /\ Idle /\ taken /\ ~active
  /\ active' = TRUE
  /\ UNCHANGED <<packets, arrived, bs, taken, parserVars, busy, got, stalled, writeVars, ended>>

\* serve(), up to processPackets().
Serve ==
  /\ Idle /\ taken /\ ~active
  /\ active' = TRUE
  /\ busy' = TRUE
  /\ UNCHANGED <<packets, arrived, bs, taken, parserVars, got, stalled, writeVars, ended>>

-----------------------------------------------------------------------------
(* Parser::read(), in the loop of processPackets().                        *)

\* bs_readyRead() with n more bytes.
BsReadyRead(n) ==
  /\ Idle /\ bs = "open"
  /\ arrived + n <= Len(Stream)
  /\ arrived' = arrived + n
  /\ in' = in \o SubSeq(Stream, arrived + 1, arrived + n)
  /\ busy' = active
  /\ UNCHANGED <<packets, bs, active, taken, cur, tmp, head, reading, clen, data, got, stalled, writeVars, ended>>

\* processPackets() ends: nothing more to signal.
Stop(blank) ==
  /\ busy' = FALSE
  /\ stalled' = blank
  /\ UNCHANGED <<got, bs, ended>>

\* processPackets() ends with ErrParse.
Fail ==
  /\ busy' = FALSE
  /\ bs' = "none"
  /\ ended' = "parse"
  /\ UNCHANGED <<got, stalled>>

Deliver(kind, number, content) ==
  /\ got' = Append(got, [kind |-> kind, number |-> number, data |-> content])
  /\ UNCHANGED <<busy, stalled, bs, ended>>

\* read() of interleaved data: `$' and the size, then as many bytes.
ReadInterleaved ==
  /\ busy /\ tmp = "empty"
  /\ in # <<>> /\ in[1][1] = "dollar"
  /\ IF Len(in) >= 2 /\ Len(in) >= 2 + packets[in[1][2]].len
       THEN LET n == 2 + packets[in[1][2]].len
            IN  /\ Deliver("data", in[1][2], SubSeq(in, 3, n))
                /\ in' = SubSeq(in, n + 1, Len(in))
       ELSE Stop(FALSE) /\ UNCHANGED in
  /\ UNCHANGED <<packets, arrived, active, taken, cur, tmp, head, reading, clen, data, writeVars>>

ReadNothing ==
  /\ busy /\ tmp = "empty" /\ in = <<>>
  /\ Stop(FALSE)
  /\ UNCHANGED <<packets, arrived, active, taken, parserVars, writeVars>>

Ends   == {j \in DOMAIN in : in[j][1] = "eol"}
Blanks == {j \in Ends : j = 1 \/ j - 1 \in Ends}

\* What readPacketLines() takes: to the first empty line, or all whole lines.
Eaten == IF Blanks # {} THEN Min(Blanks) ELSE Max(Ends \cup {0})

\* The lines of the packet, without their ends.
Lines ==
  LET lines[n \in 0..Eaten] == IF n = 0 THEN cur
                              ELSE IF in[n][1] = "eol" THEN lines[n - 1] ELSE Append(lines[n - 1], in[n])
  IN  lines[Eaten]

\* It is a message whose lines, or whose content, are still to be read.
Reading(content) ==
  /\ busy
  /\ tmp = "message" \/ (in # <<>> /\ in[1][1] # "dollar")
  /\ content = (tmp = "message" /\ reading)

\* read() that finds no end of the lines, or an empty line and nothing before.
ReadLines ==
  /\ Reading(FALSE)
  /\ Blanks = {} \/ Lines = <<>>
  /\ tmp' = "message"
  /\ reading' = FALSE
  /\ in' = SubSeq(in, Eaten + 1, Len(in))
  /\ cur' = IF Blanks = {} THEN Lines ELSE <<>>
  /\ Stop(Blanks # {})
  /\ UNCHANGED <<packets, arrived, active, taken, head, clen, data, writeVars>>

\* The number of content bytes that the lines announce.
ContentLength(lines) ==
  IF \E l \in Range(lines) : l[1] = "length" THEN packets[lines[1][2]].len ELSE 0

\* read() that fails: packetFromLines(), or the length of the content.
ReadBadLines ==
  /\ Reading(FALSE)
  /\ Blanks # {} /\ Lines # <<>>
  /\ Lines[1][1] # "start" \/ ContentLength(Lines) > MaxContent
  /\ Fail
  /\ UNCHANGED <<packets, arrived, active, taken, parserVars, writeVars>>

\* Takes content: n bytes of packet h are announced, `rest' follows the lines.  A
\* negative number has passed, and no content ever matches it.
Take(h, n, rest) ==
  LET k     == IF n > 0 THEN Min({n - Len(data), Len(rest)}) ELSE 0
      whole == data \o SubSeq(rest, 1, k)
  IN  /\ in' = SubSeq(rest, k + 1, Len(rest))
      /\ cur' = <<>>
      /\ clen' = n
      /\ reading' = TRUE
      /\ IF Len(whole) = n
           THEN Deliver("message", h[2], whole) /\ tmp' = "empty" /\ head' = NoHead /\ data' = <<>>
           ELSE Stop(FALSE) /\ tmp' = "message" /\ head' = h /\ data' = whole

\* read() that completes the lines, and goes on with the content.
ReadMessage ==
  /\ Reading(FALSE)
  /\ Blanks # {} /\ Lines # <<>>
  /\ Lines[1][1] = "start" /\ ContentLength(Lines) <= MaxContent
  /\ Take(Lines[1], ContentLength(Lines), SubSeq(in, Eaten + 1, Len(in)))
  /\ UNCHANGED <<packets, arrived, active, taken, writeVars>>

\* Mutant of ReadContent: all that has arrived is content.
ReadContentAll ==
  /\ Reading(TRUE)
  /\ Take(head, IF in = <<>> THEN clen ELSE Len(data) + Len(in), in)
  /\ UNCHANGED <<packets, arrived, active, taken, writeVars>>

\* read() of content only.
ReadContent ==
  /\ Reading(TRUE)
  /\ Take(head, clen, in)
  /\ UNCHANGED <<packets, arrived, active, taken, writeVars>>

ReadPacket ==
  \/ ReadNothing
  \/ ReadInterleaved
  \/ ReadLines
  \/ ReadBadLines
  \/ ReadMessage
  \/ ReadContent

-----------------------------------------------------------------------------
(* Writing, and the end.                                                   *)

\* write() of a packet of n bytes.  Before it is connected BSocket drops it, but
\* its size is queued all the same; one such packet is enough (a bound).
ClientWrite(n) ==
  /\ bs # "none" /\ ended = "no"
  /\ IF bs = "open" THEN Len(sizes) < MaxWrites ELSE ~early
  /\ track' = Append(track, n)
  /\ sizes' = IF bs = "open" THEN Append(sizes, n) ELSE sizes
  /\ early' = (early \/ bs = "connecting")
  /\ UNCHANGED <<packets, arrived, bs, active, taken, parserVars, busy, got, stalled, acked, reported, ended>>

Sum(s) == FoldLeft(+, 0, s)

\* The number of packets of the queue that n bytes complete.
Complete(queue, n) == Max({k \in 0..Len(queue) : Sum(SubSeq(queue, 1, k)) <= n})

\* Mutant of BsBytesWritten: what is left of the bytes is not taken off the
\* packet they belong to.
BsBytesWrittenWhole(n) ==
  /\ Idle /\ bs = "open"
  /\ acked + n <= Sum(sizes)
  /\ acked' = acked + n
  /\ reported' = reported + Complete(track, n)
  /\ track' = SubSeq(track, Complete(track, n) + 1, Len(track))
  /\ UNCHANGED <<packets, arrived, bs, active, taken, parserVars, busy, got, stalled, sizes, early, ended>>

\* bs_bytesWritten(), of bytes that the stream has accepted.
BsBytesWritten(n) ==
  /\ Idle /\ bs = "open"
  /\ acked + n <= Sum(sizes)
  /\ acked' = acked + n
  /\ LET k    == Complete(track, n)
         rest == SubSeq(track, k + 1, Len(track))
     IN  /\ reported' = reported + k
         /\ track' = IF rest = <<>> THEN <<>>
                     ELSE [rest EXCEPT ![1] = @ - (n - Sum(SubSeq(track, 1, k)))]
  /\ UNCHANGED <<packets, arrived, bs, active, taken, parserVars, busy, got, stalled, sizes, early, ended>>

\* bs_connectionClosed().
BsConnectionClosed ==
  /\ Idle /\ bs = "open"
  /\ ended' = "closed"
  /\ UNCHANGED <<packets, arrived, bs, active, taken, parserVars, busy, got, stalled, writeVars>>

\* bs_error().
BsError ==
  /\ Idle /\ bs # "none"
  /\ bs' = "none"
  /\ ended' = "stream"
  /\ UNCHANGED <<packets, arrived, active, taken, parserVars, busy, got, stalled, writeVars>>

\* The program deletes the client, in a slot of packetReady() or between events.
Delete ==
  /\ ended = "no"
  /\ bs' = "none"
  /\ busy' = FALSE
  /\ ended' = "deleted"
  /\ UNCHANGED <<packets, arrived, active, taken, parserVars, got, stalled, writeVars>>

ClientNext ==
  \/ ConnectToHost
  \/ SockConnected
  \/ TakeIncoming
  \/ Serve
  \/ \E n \in 1..Len(Stream) : BsReadyRead(n)
  \/ ReadPacket
  \/ \E n \in 1..MaxSize : ClientWrite(n)
  \/ \E n \in 1..(MaxSize * MaxWrites) : BsBytesWritten(n)
  \/ BsConnectionClosed
  \/ BsError
  \/ Delete

ClientSpec == ClientInit /\ [][ClientNext]_clientVars

-----------------------------------------------------------------------------
(* Properties.                                                             *)

\* A packet of the peer as the program is to see it.
Decoded(i) ==
  [kind |-> IF packets[i].kind = "data" THEN "data" ELSE "message",
   number |-> i,
   data |-> Content(i, packets[i].len)]

\* Wherever the stream is cut, and whatever its content looks like, the program
\* gets the packets that were sent, whole, in order and once.  When the client
\* waits for bytes, it has got every packet that has arrived whole, those of
\* before serve() too: unless an empty line came before a packet, for then what
\* follows it waits for the next readyRead(), or a packet announced less than no
\* content (rtspbase.cpp:602), for then it and all behind it are never signalled.
PacketsAreDecoded ==
  /\ got = [i \in 1..Len(got) |-> Decoded(i)]
  /\ Idle /\ active /\ ~stalled =>
       \A k \in DOMAIN packets :
         (\A i \in 1..k : packets[i].len >= 0) /\
         Len(FlattenSeq([i \in 1..k |-> Encode(i, packets[i])])) <= arrived => k <= Len(got)

\* packetWritten() is emitted once for each packet whose last byte is written:
\* unless a packet was written too early, for it is waited for though it is lost.
WrittenCountsPackets == ~early => reported = Complete(sizes, acked)
=============================================================================
