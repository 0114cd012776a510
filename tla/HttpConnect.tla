----------------------------- MODULE HttpConnect -----------------------------
(***************************************************************************)
(* src/network/httpconnect.cpp: a ByteStream through an HTTP proxy that is *)
(* asked to CONNECT.                                                       *)
(*                                                                         *)
(* One thread: each slot is one step, but for the one that emits           *)
(* connected() and goes on after it; `inConnected' marks that the          *)
(* program's slot is running, and the event loop stands still.             *)
(*                                                                         *)
(* The BSocket is what BSocket.tla says of it: it connects or fails, sends *)
(* in parts and reports it, and after a close() with unsent data sends the *)
(* rest.  The proxy is external: it may close at any time, and answers a   *)
(* request with a status line, perhaps another header line, an empty line, *)
(* and then, if the status is 200, the data of the tunnel.  What it sends  *)
(* arrives in blocks of any size (HttpHeader).                             *)
(***************************************************************************)
EXTENDS HttpHeader, FiniteSets

CONSTANTS
  Statuses,   \* first lines of an answer: "200", "refused", "garbled"
  MaxData,    \* bound: bytes of user data each way in one connection
  MaxCalls    \* bound: calls of connectToHost()

ASSUME HttpConnectAssumption ==
  /\ Statuses \subseteq {"200", "refused", "garbled"}
  /\ MaxData \in Nat /\ MaxCalls \in Nat

VARIABLES
  sock,        \* d->sock: "idle", "connecting", "connected", "closing"
  unsent,      \* units in its write buffer
  toWrite,     \* units of the request that bytesWritten() is still to hide
  active,
  inHeader,
  headerLines, \* the first of them, or "none": of the others only the end matters
  recvBuf,
  inConnected, \* connected() is being handled
  calls,       \* history: connections asked for
  outcome,     \* history: of the last: "none", "trying", "open", "closing", "failed", "closed"
  got,         \* history: what appendRead() has made available
  wrote,       \* history: number of user bytes written to the BSocket
  reported,    \* history: sum of the bytesWritten() signals
  wire,        \* the proxy's: sent and not received yet
  asked,       \* the proxy's: units of the request received
  answer,      \* the proxy's: the status it has sent, or "none"
  sent,        \* the proxy's: number of data bytes sent
  gone         \* the proxy's: it has closed the connection

sockVars   == <<sock, unsent>>
streamVars == <<toWrite, active, inHeader, headerLines, recvBuf>>
histVars   == <<calls, outcome, got, wrote, reported>>
proxyVars  == <<wire, asked, answer, sent, gone>>
vars == <<sockVars, streamVars, inConnected, histVars, proxyVars>>

Request == << <<"request", 1>>, <<"request", 2>> >>

IsUser(unit) == unit[1] = "data"

Outgoing == {"request", "data"} \X (1..(MaxData + 2))
Incoming == (({"CR", "LF", "field"} \cup Statuses) \X {0}) \cup ({"data"} \X (1..MaxData))

TypeOK ==
  /\ sock \in {"idle", "connecting", "connected", "closing"}
  /\ unsent \in Seq(Outgoing)
  /\ toWrite \in 0..2
  /\ active \in BOOLEAN /\ inHeader \in BOOLEAN /\ inConnected \in BOOLEAN
  /\ headerLines \in Statuses \cup {"none"}
  /\ recvBuf \in Seq(Incoming)
  /\ calls \in 0..MaxCalls
  /\ outcome \in {"none", "trying", "open", "closing", "failed", "closed"}
  /\ got \in Seq({"data"} \X (1..MaxData))
  /\ wrote \in 0..MaxData
  /\ reported \in 0..MaxData
  /\ wire \in Seq(Incoming)
  /\ asked \in 0..2
  /\ answer \in Statuses \cup {"none"}
  /\ sent \in 0..MaxData
  /\ gone \in BOOLEAN

\* d->toWrite and d->inHeader are set by sock_connected(), before any use.
Init ==
  /\ sock = "idle" /\ unsent = <<>>
  /\ toWrite = 0 /\ inHeader = FALSE
  /\ active = FALSE
  /\ headerLines = "none"
  /\ recvBuf = <<>>
  /\ inConnected = FALSE
  /\ calls = 0 /\ outcome = "none"
  /\ got = <<>> /\ wrote = 0 /\ reported = 0
  /\ wire = <<>> /\ asked = 0 /\ answer = "none" /\ sent = 0 /\ gone = FALSE

-----------------------------------------------------------------------------
(* Parts the handlers share.                                               *)

\* BSocket::close(), which waits for unsent data.
CloseSock ==
  /\ sock' = IF sock \in {"connected", "closing"} /\ unsent # <<>> THEN "closing" ELSE "idle"
  /\ UNCHANGED unsent

\* Mutant of Reset: what was received for the header stays.
ResetKeepsBuffer(clear) ==
  /\ active' = FALSE
  /\ UNCHANGED <<recvBuf, toWrite, inHeader, headerLines>>

\* reset(), without the BSocket, that each caller has closed or lost.
Reset(clear) ==
  /\ active' = FALSE
  /\ recvBuf' = IF clear THEN <<>> ELSE recvBuf
  /\ UNCHANGED <<toWrite, inHeader, headerLines>>

\* The event loop runs.
Loop == ~inConnected

-----------------------------------------------------------------------------
(* The program's calls.                                                    *)

\* connectToHost(), from the event loop or the slot of connected().
ConnectToHost ==
  /\ calls < MaxCalls
  /\ calls' = calls + 1
  /\ Reset(TRUE)
  /\ sock' = "connecting" /\ unsent' = <<>>
  /\ outcome' = "trying"
  /\ got' = <<>> /\ wrote' = 0 /\ reported' = 0
  /\ wire' = <<>> /\ asked' = 0 /\ answer' = "none" /\ sent' = 0 /\ gone' = FALSE
  /\ UNCHANGED inConnected

\* write() of a byte; the BSocket ignores it while it is closing.
Write ==
  /\ active /\ sock = "connected"
  /\ wrote < MaxData
  /\ wrote' = wrote + 1
  /\ unsent' = Append(unsent, Data(wrote + 1))
  /\ UNCHANGED <<sock, streamVars, inConnected, calls, outcome, got, reported, proxyVars>>

\* close(): reset() when the BSocket has nothing to send.
Close ==
  /\ sock \in {"connecting", "connected"}
  /\ CloseSock
  /\ IF unsent = <<>> THEN Reset(FALSE) ELSE UNCHANGED streamVars
  /\ outcome' = IF unsent = <<>> THEN "closed" ELSE "closing"
  /\ UNCHANGED <<inConnected, calls, got, wrote, reported, proxyVars>>

-----------------------------------------------------------------------------
(* The slots of the BSocket's signals.                                     *)

\* Mutant of SockConnected: the request is not counted.
SockConnectedUncounted ==
  /\ sock = "connecting" /\ Loop
  /\ sock' = "connected"
  /\ inHeader' = TRUE /\ headerLines' = "none"
  /\ unsent' = Request
  /\ UNCHANGED <<toWrite, active, recvBuf, inConnected, histVars, proxyVars>>

\* sock_connected()
SockConnected ==
  /\ sock = "connecting" /\ Loop
  /\ sock' = "connected"
  /\ inHeader' = TRUE /\ headerLines' = "none"
  /\ toWrite' = Len(Request)
  /\ unsent' = Request
  /\ UNCHANGED <<active, recvBuf, inConnected, histVars, proxyVars>>

\* The first header line, when buf is searched: buf begins with it unless it has
\* been taken before.
FirstLine(buf) ==
  IF headerLines = "none" /\ LineEnds(buf) # {} THEN buf[1][1] ELSE headerLines

\* sock_readyRead() before the end of the header has come.
ReadHeader(buf) ==
  /\ HeaderEnds(buf) = {}
  /\ recvBuf' = Drop(buf, Extent(buf))
  /\ headerLines' = FirstLine(buf)
  /\ UNCHANGED <<sockVars, toWrite, active, inHeader, inConnected, histVars>>

\* sock_readyRead() of the end of the header: up to connected(), or the error.
ReadStatus(buf) ==
  /\ HeaderEnds(buf) # {}
  /\ inHeader' = FALSE
  /\ headerLines' = "none"
  /\ \/ /\ FirstLine(buf) = "200"
        /\ recvBuf' = Drop(buf, Extent(buf))
        /\ active' = TRUE
        /\ inConnected' = TRUE
        /\ outcome' = "open"
        /\ UNCHANGED sockVars
     \/ /\ FirstLine(buf) # "200"
        /\ recvBuf' = <<>>
        /\ active' = FALSE
        /\ CloseSock
        /\ outcome' = "failed"
        /\ UNCHANGED inConnected
  /\ UNCHANGED <<toWrite, calls, got, wrote, reported>>

\* sock_readyRead() of the first n units that have been sent.
SockReadyRead(n) ==
  /\ sock = "connected" /\ Loop
  /\ n \in 1..Len(wire)
  /\ LET block == SubSeq(wire, 1, n)
     IN  \/ ~active /\ (ReadHeader(recvBuf \o block) \/ ReadStatus(recvBuf \o block))
         \/ /\ active
            /\ got' = got \o block
            /\ UNCHANGED <<sockVars, streamVars, inConnected, calls, outcome, wrote, reported>>
  /\ wire' = Drop(wire, n)
  /\ UNCHANGED <<asked, answer, sent, gone>>

\* The slot of connected() returns: what came with the header is made available.
ConnectedReturns ==
  /\ inConnected
  /\ inConnected' = FALSE
  /\ got' = got \o recvBuf
  /\ recvBuf' = <<>>
  /\ UNCHANGED <<sockVars, toWrite, active, inHeader, headerLines, calls, outcome, wrote, reported, proxyVars>>

\* Mutant of SockBytesWritten: what is reported does not depend on the request.
SockBytesWrittenAll(n) ==
  /\ n \in 1..Len(unsent) /\ Loop
  /\ sock = "connected"
  /\ unsent' = Drop(unsent, n)
  /\ asked' = asked + Cardinality({i \in 1..n : ~IsUser(unsent[i])})
  /\ reported' = reported + n
  /\ UNCHANGED <<sock, streamVars, inConnected, calls, outcome, got, wrote, wire, answer, sent, gone>>

\* Mutant of SockBytesWritten: the end of a delayed close is missed.
SockBytesWrittenOn(n) ==
  /\ n \in 1..Len(unsent) /\ Loop
  /\ unsent' = Drop(unsent, n)
  /\ asked' = asked + Cardinality({i \in 1..n : ~IsUser(unsent[i])})
  /\ toWrite' = toWrite - Min({n, toWrite})
  /\ reported' = IF active THEN reported + (n - Min({n, toWrite})) ELSE reported
  /\ sock' = IF sock = "closing" /\ unsent' = <<>> THEN "idle" ELSE sock
  /\ UNCHANGED <<active, inHeader, headerLines, recvBuf, inConnected, calls, outcome, got, wrote, wire, answer, sent, gone>>

\* sock_bytesWritten() for n units that have been sent; the last ones of a
\* closing BSocket are followed by sock_delayedCloseFinished(), which is silent
\* if the stream has not been open.
SockBytesWritten(n) ==
  /\ n \in 1..Len(unsent) /\ Loop
  /\ LET size == Min({n, toWrite})
     IN  /\ unsent' = Drop(unsent, n)
         /\ asked' = asked + Cardinality({i \in 1..n : ~IsUser(unsent[i])})
         /\ toWrite' = toWrite - size
         /\ reported' = IF active THEN reported + (n - size) ELSE reported
  /\ IF sock = "closing" /\ unsent' = <<>>
       THEN /\ sock' = "idle"
            /\ active' = FALSE
            /\ outcome' = IF active THEN "closed" ELSE outcome
       ELSE UNCHANGED <<sock, active, outcome>>
  /\ UNCHANGED <<inHeader, headerLines, recvBuf, inConnected, calls, got, wrote, wire, answer, sent, gone>>

\* Mutant of SockConnectionClosed: only an open stream hears of it.
SockConnectionClosedQuietly ==
  /\ sock \in {"connected", "closing"} /\ Loop
  /\ gone /\ wire = <<>>
  /\ sock' = "idle" /\ unsent' = <<>>
  /\ outcome' = IF active THEN "closed" ELSE outcome
  /\ Reset(FALSE)
  /\ UNCHANGED <<inConnected, calls, got, wrote, reported, proxyVars>>

\* sock_connectionClosed(): the proxy has closed and all it sent has been read.
\* Before the stream is open it is only reported, there being nothing to reset
\* but what the next connectToHost() clears.
SockConnectionClosed ==
  /\ sock \in {"connected", "closing"} /\ Loop
  /\ gone /\ wire = <<>>
  /\ sock' = "idle" /\ unsent' = <<>>
  /\ outcome' = IF active THEN "closed" ELSE "failed"
  /\ Reset(FALSE)
  /\ UNCHANGED <<inConnected, calls, got, wrote, reported, proxyVars>>

\* sock_error(): it cannot be connected, or breaks.
SockError ==
  /\ sock # "idle" /\ Loop
  /\ sock' = "idle" /\ unsent' = <<>>
  /\ Reset(~active)
  /\ outcome' = "failed"
  /\ UNCHANGED <<inConnected, calls, got, wrote, reported, proxyVars>>

-----------------------------------------------------------------------------
(* The proxy (external).                                                   *)

\* It answers the request, of which the first line is enough, with n bytes of
\* the tunnel behind.
Answer(status, field, n) ==
  /\ sock # "idle"
  /\ asked > 0 /\ answer = "none" /\ ~gone
  /\ n > 0 => status = "200"
  /\ answer' = status
  /\ wire' = Line(status) \o (IF field THEN Line("field") ELSE <<>>) \o Line("none")
             \o [i \in 1..n |-> Data(i)]
  /\ sent' = n
  /\ UNCHANGED <<sockVars, streamVars, inConnected, histVars, asked, gone>>

\* It sends a byte of the tunnel.
Relay ==
  /\ sock # "idle"
  /\ answer = "200" /\ ~gone /\ sent < MaxData
  /\ sent' = sent + 1
  /\ wire' = Append(wire, Data(sent'))
  /\ UNCHANGED <<sockVars, streamVars, inConnected, histVars, asked, answer, gone>>

\* It closes the connection.
Leave ==
  /\ sock \in {"connected", "closing"}
  /\ ~gone
  /\ gone' = TRUE
  /\ UNCHANGED <<sockVars, streamVars, inConnected, histVars, wire, asked, answer, sent>>

-----------------------------------------------------------------------------

Arrival == \E n \in 1..(MaxData + 6) : SockReadyRead(n)
Sending == \E n \in 1..(MaxData + 2) : SockBytesWritten(n)
Reply   == \E status \in Statuses, field \in BOOLEAN, n \in 0..MaxData : Answer(status, field, n)

Next ==
  \/ ConnectToHost
  \/ Write
  \/ Close
  \/ SockConnected
  \/ ConnectedReturns
  \/ Arrival
  \/ Sending
  \/ SockConnectionClosed
  \/ SockError
  \/ Reply
  \/ Relay
  \/ Leave

Spec == Init /\ [][Next]_vars

\* Connection attempts end, slots return, the network moves what is sent and
\* reports what has ended, and the proxy answers or leaves.
Fairness ==
  /\ WF_vars(SockConnected)
  /\ WF_vars(ConnectedReturns)
  /\ WF_vars(Arrival)
  /\ WF_vars(Sending)
  /\ WF_vars(SockConnectionClosed)
  /\ WF_vars(Reply \/ Leave)

FairSpec == Spec /\ Fairness

-----------------------------------------------------------------------------
(* Properties.                                                             *)

\* An open stream was granted by the proxy, and carries what the proxy sent
\* behind the header, all of it and nothing else, however the blocks were cut
\* and whatever an earlier attempt of the same object had received.
TunnelIntact ==
  active =>
    /\ answer = "200"
    /\ got \o recvBuf \o wire = [i \in 1..sent |-> Data(i)]
    /\ recvBuf # <<>> => inConnected

\* While the socket is up, bytesWritten() has reported the user's bytes that have
\* been sent and those only, though the request is sent through the same socket.
BytesWrittenCountsUserData ==
  active => reported + Cardinality({i \in DOMAIN unsent : IsUser(unsent[i])}) = wrote

\* A connection attempt ends: with connected(), an error, or the program's close().
ConnectConcludes ==
  outcome = "trying" ~> outcome # "trying"

\* A delayed close of an open stream ends, with delayedCloseFinished() or the
\* news that the connection is gone.  That of one not open yet may end silently.
CloseConcludes ==
  outcome = "closing" /\ active ~> outcome # "closing"
=============================================================================
