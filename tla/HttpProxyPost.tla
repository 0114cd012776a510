----------------------------- MODULE HttpProxyPost -----------------------------
(***************************************************************************)
(* HttpProxyPost of src/network/httppoll.cpp: one POST over a connection   *)
(* of its own, which ends when the server closes the connection.           *)
(*                                                                         *)
(* Each slot is one step and emits at most one signal, as its last act:    *)
(* HttpPoll conjoins what it does on result() to SockConnectionClosed, and *)
(* what it does on error() to SockRefused and SockError.                   *)
(*                                                                         *)
(* The BSocket is what BSocket.tla says of it; after a close() with unsent *)
(* data it sends the rest, and may still report that the connection is     *)
(* gone.  The server, or the proxy before it, is external: it may answer   *)
(* with a status line, perhaps a cookie, an empty line and, if the status  *)
(* is 200, data; and it may close at any time.  What it sends arrives in   *)
(* blocks of any size.                                                     *)
(***************************************************************************)
EXTENDS HttpHeader

CONSTANTS
  Statuses,   \* first lines of an answer: "200", "refused", "garbled"
  Cookies,    \* values of the cookie that the answer may carry
  MaxData,    \* bound: bytes of data in an answer
  None

VARIABLES
  sock,        \* d->sock: "idle", "connecting", "connected", "closing"
  unsent,      \* parts of the request in its write buffer: head and postdata
  postdata,
  inHeader,
  headerLines,
  recvBuf,
  body,        \* d->body, shared with what body() has returned
  wire,        \* sent by the server and not received yet
  reply,       \* history: the data the server answered to this post, or None
  broken,      \* history: it closed before the whole answer had arrived
  gone         \* the server has closed the connection

serverVars == <<wire, reply, broken, gone>>
postVars   == <<sock, unsent, postdata, inHeader, headerLines, recvBuf, body, serverVars>>

Texts == {<<t, 0>> : t \in Statuses \cup Cookies}
Units == Texts \cup {CR, LF} \cup {Data(n) : n \in 1..MaxData}

TypeOK ==
  /\ sock \in {"idle", "connecting", "connected", "closing"}
  /\ unsent \in 0..2
  /\ inHeader \in BOOLEAN
  /\ headerLines \in Seq(Texts)
  /\ recvBuf \in Seq(Units) /\ body \in Seq(Units) /\ wire \in Seq(Units)
  /\ reply = None \/ reply \in Seq({Data(n) : n \in 1..MaxData})
  /\ broken \in BOOLEAN /\ gone \in BOOLEAN
  /\ sock \in {"idle", "connecting"} => unsent = 0

\* d->inHeader is set by sock_connected(), before any use.
Init ==
  /\ sock = "idle" /\ unsent = 0
  /\ postdata = None
  /\ inHeader = FALSE /\ headerLines = <<>>
  /\ recvBuf = <<>> /\ body = <<>>
  /\ wire = <<>> /\ reply = None /\ broken = FALSE /\ gone = FALSE

isActive == sock # "idle"

\* A post is under way: posted and not given up.
Posted == sock \in {"connecting", "connected"}

-----------------------------------------------------------------------------
(* The calls of HttpPoll.                                                  *)

\* post(): reset(true), which empties the body in place, and a new connection.
post(data) ==
  /\ sock' = "connecting" /\ unsent' = 0
  /\ postdata' = data
  /\ recvBuf' = <<>> /\ body' = <<>>
  /\ wire' = <<>> /\ reply' = None /\ broken' = FALSE /\ gone' = FALSE
  /\ UNCHANGED <<inHeader, headerLines>>

\* BSocket::close() in reset(): it waits for unsent data.
CloseSock ==
  /\ sock' = IF unsent > 0 THEN "closing" ELSE "idle"
  /\ UNCHANGED unsent

\* stop(): reset(false)
stop ==
  /\ CloseSock
  /\ recvBuf' = <<>>
  /\ UNCHANGED <<postdata, inHeader, headerLines, body, serverVars>>

\* getHeader(): the first line of those texts, or None.
getHeader(texts) ==
  LET found == {i \in DOMAIN headerLines : headerLines[i][1] \in texts}
  IN  IF found = {} THEN None ELSE headerLines[Min(found)][1]

-----------------------------------------------------------------------------
(* The slots of the BSocket's signals.                                     *)

\* sock_connected(): the request, and the data behind it.
SockConnected ==
  /\ sock = "connecting"
  /\ sock' = "connected"
  /\ unsent' = 2
  /\ inHeader' = TRUE /\ headerLines' = <<>>
  /\ UNCHANGED <<postdata, recvBuf, body, serverVars>>

\* What sock_readyRead() has to look at, with the first n units that arrived.
Arrived(n) == recvBuf \o SubSeq(wire, 1, n)

\* The block holds the end of the header, and the status is not 200.
Refuses(n) ==
  LET buf == Arrived(n)
  IN  inHeader /\ HeaderEnds(buf) # {} /\ (headerLines \o Lines(buf))[1][1] # "200"

Arrives(n) ==
  /\ sock = "connected"
  /\ n \in 1..Len(wire)
  /\ wire' = Drop(wire, n)
  /\ UNCHANGED <<postdata, reply, broken, gone>>

\* Mutant of SockReadyRead: what follows the header in its block is dropped.
SockReadyReadDrops(n) ==
  /\ Arrives(n) /\ ~Refuses(n)
  /\ LET buf   == Arrived(n)
         lines == headerLines \o Lines(buf)
         ends  == HeaderEnds(buf) # {}
     IN  \/ /\ inHeader
            /\ recvBuf' = IF ends THEN <<>> ELSE Drop(buf, Extent(buf))
            /\ headerLines' = IF ends THEN Tail(lines) ELSE lines
            /\ inHeader' = ~ends
         \/ /\ ~inHeader
            /\ recvBuf' = buf
            /\ UNCHANGED <<headerLines, inHeader>>
  /\ UNCHANGED <<sock, unsent, body>>

\* sock_readyRead(), without the end of a header or with that of a good one: its
\* first line is dropped and what follows it is kept.
SockReadyRead(n) ==
  /\ Arrives(n) /\ ~Refuses(n)
  /\ LET buf   == Arrived(n)
         lines == headerLines \o Lines(buf)
         ends  == HeaderEnds(buf) # {}
     IN  \/ /\ inHeader
            /\ recvBuf' = Drop(buf, Extent(buf))
            /\ headerLines' = IF ends THEN Tail(lines) ELSE lines
            /\ inHeader' = ~ends
         \/ /\ ~inHeader
            /\ recvBuf' = buf
            /\ UNCHANGED <<headerLines, inHeader>>
  /\ UNCHANGED <<sock, unsent, body>>

\* sock_readyRead() of the end of a bad header: reset(true), and error().
SockRefused(n) ==
  /\ Arrives(n) /\ Refuses(n)
  /\ CloseSock
  /\ inHeader' = FALSE
  /\ headerLines' = Tail(headerLines \o Lines(Arrived(n)))
  /\ recvBuf' = <<>> /\ body' = <<>>

\* Part of the request has been sent; a closing BSocket is idle after the last.
SockBytesWritten ==
  /\ unsent > 0
  /\ unsent' = unsent - 1
  /\ sock' = IF sock = "closing" /\ unsent = 1 THEN "idle" ELSE sock
  /\ UNCHANGED <<postdata, inHeader, headerLines, recvBuf, body, serverVars>>

\* Mutant of SockConnectionClosed: the body is the one of before.
SockConnectionClosedStale ==
  /\ sock \in {"connected", "closing"}
  /\ gone /\ wire = <<>>
  /\ sock' = "idle" /\ unsent' = 0
  /\ recvBuf' = <<>>
  /\ UNCHANGED <<postdata, inHeader, headerLines, body, serverVars>>

\* sock_connectionClosed(): whatever has been received is the body, and result().
SockConnectionClosed ==
  /\ sock \in {"connected", "closing"}
  /\ gone /\ wire = <<>>
  /\ sock' = "idle" /\ unsent' = 0
  /\ body' = recvBuf
  /\ recvBuf' = <<>>
  /\ UNCHANGED <<postdata, inHeader, headerLines, serverVars>>

\* sock_error(): it cannot be connected, or breaks; reset(true), and error().
SockError ==
  /\ isActive
  /\ sock' = "idle" /\ unsent' = 0
  /\ recvBuf' = <<>> /\ body' = <<>>
  /\ UNCHANGED <<postdata, inHeader, headerLines, serverVars>>

-----------------------------------------------------------------------------
(* The server (external).                                                  *)

Unanswered == sock = "connected" /\ reply = None /\ ~gone

\* It answers the whole request, with a cookie or without, and data.
Answer(cookie, data) ==
  /\ Unanswered /\ unsent = 0
  /\ reply' = data
  /\ wire' = Line("200") \o (IF cookie = "none" THEN <<>> ELSE Line(cookie)) \o Line("none") \o data
  /\ UNCHANGED <<sock, unsent, postdata, inHeader, headerLines, recvBuf, body, broken, gone>>

\* It refuses, once it has the head of the request.
Refuse(status) ==
  /\ Unanswered /\ unsent < 2
  /\ status # "200"
  /\ reply' = <<>>
  /\ wire' = Line(status) \o Line("none")
  /\ UNCHANGED <<sock, unsent, postdata, inHeader, headerLines, recvBuf, body, broken, gone>>

\* The connection is closed; what it has sent still arrives, or no more of it.
Leave(lost) ==
  /\ sock \in {"connected", "closing"} /\ ~gone
  /\ gone' = TRUE
  /\ lost => wire # <<>>
  /\ broken' = (reply = None \/ lost)
  /\ wire' = IF lost THEN <<>> ELSE wire
  /\ UNCHANGED <<sock, unsent, postdata, inHeader, headerLines, recvBuf, body, reply>>

=============================================================================
