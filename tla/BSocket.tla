------------------------------- MODULE BSocket -------------------------------
(***************************************************************************)
(* src/network/bsocket.cpp: a ByteStream over a QSocket that is created    *)
(* for a connection and dropped after it, with a host lookup or an SRV     *)
(* search in front.                                                        *)
(*                                                                         *)
(* One thread: each method and each slot is one step, for every handler    *)
(* emits its own signal as its last act, so that what the program does in  *)
(* the slot comes after.  The SRV search is the SrvResolver module; while  *)
(* its resultsReady is being emitted (`signal') the connected slot is the  *)
(* only step.  The NDns member is what LookupService promises.             *)
(*                                                                         *)
(* QSocket is external: it connects or is refused, receives bytes until    *)
(* the peer closes, and after a close() with unsent data sends the rest.   *)
(* A byte is the pair of its connection and its place in that connection.  *)
(***************************************************************************)
EXTENDS Naturals, Sequences

CONSTANTS
  Servers, MaxServers, None, NoAddr,   \* see SrvResolver
  MaxCalls,    \* bound: connections the program asks for
  MaxBytes     \* bound: bytes each way in one connection

\* That of SrvResolver, and a bound that is one.
ASSUME BSocketAssumption ==
  /\ \A s \in Servers : /\ DOMAIN s = {"name", "port", "priority", "weight"}
                        /\ s.port \in Nat /\ s.priority \in Nat /\ s.weight \in Nat
                        /\ s.name \notin {None, NoAddr}
  /\ MaxServers \in Nat /\ MaxCalls \in Nat /\ MaxBytes \in Nat

VARIABLES
  qdns, timer, ndns, servers, failed, result, srvonly, signal, reply, tried,
  calls,       \* history: connections asked for; names the current one
  state,       \* d->state
  sock,        \* the QSocket: "none", "idle", "connecting", "connected", "closing"
  rbuf,        \* bytes in the QSocket's read buffer
  unsent,      \* number of bytes in the QSocket's write buffer
  readBuf,     \* the ByteStream's own read queue
  hostLookup,  \* the NDns member is busy
  arrived,     \* history: bytes received on the current connection
  taken,       \* history: how many of them the program has read
  attempt      \* history: the connect call not yet concluded: "host", "server" or "none"

Srv == INSTANCE SrvResolver

srvVars    == <<qdns, timer, ndns, servers, failed, result, srvonly, signal, reply, tried>>
sockVars   == <<sock, rbuf, unsent>>
streamVars == <<arrived, taken>>
vars == <<srvVars, sockVars, streamVars, calls, state, readBuf, hostLookup, attempt>>

Bytes == (1..MaxCalls) \X (1..MaxBytes)

TypeOK ==
  /\ Srv!TypeOK
  /\ state \in {"Idle", "HostLookup", "Connecting", "Connected", "Closing"}
  /\ sock \in {"none", "idle", "connecting", "connected", "closing"}
  /\ rbuf \in Seq(Bytes)
  /\ unsent \in 0..MaxBytes
  /\ readBuf \in Seq(Bytes)
  /\ hostLookup \in BOOLEAN
  /\ arrived \in 0..MaxBytes
  /\ taken \in 0..MaxBytes
  /\ attempt \in {"none", "host", "server"}

Init ==
  /\ Srv!Init
  /\ state = "Idle"
  /\ sock = "none"
  /\ rbuf = <<>>
  /\ unsent = 0
  /\ readBuf = <<>>
  /\ hostLookup = FALSE
  /\ arrived = 0
  /\ taken = 0
  /\ attempt = "none"

-----------------------------------------------------------------------------
(* reset(), in the two parts its callers complete differently.             *)

\* Mutant of DropSocket: the local queue of a finished connection is kept.
DropSocketOnly(clear) ==
  /\ sock' = "none"
  /\ rbuf' = <<>>
  /\ unsent' = 0
  /\ readBuf' = IF clear THEN readBuf ELSE readBuf \o rbuf

\* The QSocket is disconnected and deleted.  Unless the caller clears, what it
\* still holds moves to the local queue; without a socket clearing empties it.
DropSocket(clear) ==
  /\ sock' = "none"
  /\ rbuf' = <<>>
  /\ unsent' = 0
  /\ readBuf' = IF sock = "none" THEN (IF clear THEN <<>> ELSE readBuf)
                                 ELSE (IF clear THEN readBuf ELSE readBuf \o rbuf)

\* Mutant of StopLookups: a host lookup survives reset().
StopSearchOnly ==
  /\ IF Srv!Busy THEN Srv!Stop ELSE UNCHANGED srvVars
  /\ UNCHANGED hostLookup

\* A busy search and a busy lookup are stopped.
StopLookups ==
  /\ IF Srv!Busy THEN Srv!Stop ELSE UNCHANGED srvVars
  /\ hostLookup' = FALSE

Reset == DropSocket(FALSE) /\ StopLookups /\ state' = "Idle"

\* History: the program starts over with a new connection, or gives it up.
NewConnection(kind) ==
  /\ calls < MaxCalls
  /\ calls' = calls + 1
  /\ arrived' = 0
  /\ taken' = 0
  /\ attempt' = kind

-----------------------------------------------------------------------------
(* The program's calls.                                                    *)

ConnectToHost ==
  /\ ~signal
  /\ NewConnection("host")
  /\ DropSocket(TRUE)
  /\ IF Srv!Busy THEN Srv!Stop ELSE UNCHANGED srvVars
  /\ hostLookup' = TRUE
  /\ state' = "HostLookup"

ConnectToServer ==
  /\ ~signal
  /\ NewConnection("server")
  /\ DropSocket(TRUE)
  /\ Srv!Resolve(FALSE)
  /\ hostLookup' = FALSE
  /\ state' = "HostLookup"

\* setSocket(), with the descriptor of an accepted connection.
SetSocket ==
  /\ ~signal
  /\ NewConnection("none")
  /\ rbuf' = <<>>
  /\ unsent' = 0
  /\ readBuf' = IF sock = "none" THEN <<>> ELSE readBuf
  /\ StopLookups
  /\ sock' = "connected"
  /\ state' = "Connected"

\* QSocket::close() drops what it has received; with unsent data it stays to
\* send it, otherwise reset() follows.  Unread data is given up (history).
Close ==
  /\ ~signal
  /\ state # "Idle"
  /\ attempt' = "none"
  /\ arrived' = taken
  /\ IF unsent > 0
       THEN /\ sock' = "closing"
            /\ state' = "Closing"
            /\ rbuf' = <<>>
            /\ UNCHANGED <<srvVars, unsent, readBuf, hostLookup>>
       ELSE /\ sock' = "none"
            /\ rbuf' = <<>>
            /\ unsent' = 0
            /\ UNCHANGED readBuf
            /\ StopLookups
            /\ state' = "Idle"
  /\ UNCHANGED <<calls, taken>>

\* write() of one byte; dropped unless connected.
Write ==
  /\ ~signal
  /\ state = "Connected"
  /\ unsent < MaxBytes
  /\ unsent' = unsent + 1
  /\ UNCHANGED <<srvVars, sock, rbuf, streamVars, calls, state, readBuf, hostLookup, attempt>>

\* read(n): from the QSocket when there is one, else from the local queue; all
\* that is available for n = 0 or more than that.
Read(n) ==
  /\ ~signal
  /\ LET source == IF sock # "none" THEN rbuf ELSE readBuf
         count  == IF n = 0 \/ n > Len(source) THEN Len(source) ELSE n
         rest   == SubSeq(source, count + 1, Len(source))
     IN  /\ count > 0
         /\ taken' = taken + count
         /\ IF sock # "none" THEN rbuf' = rest /\ UNCHANGED readBuf
                             ELSE readBuf' = rest /\ UNCHANGED rbuf
  /\ UNCHANGED <<srvVars, sock, unsent, arrived, calls, state, hostLookup, attempt>>

-----------------------------------------------------------------------------
(* Slots.                                                                  *)

\* Events of the SRV search.
OnlySearch == UNCHANGED <<sockVars, streamVars, calls, state, readBuf, hostLookup, attempt>>
SrvReply   == (Srv!QdnsFinish \/ \E list \in Srv!Replies : Srv!QdnsDone(list)) /\ OnlySearch
SrvLookup  == (\E found \in BOOLEAN : Srv!NdnsDone(found)) /\ OnlySearch
SrvTimeout == Srv!Timeout /\ OnlySearch

\* ensureSocket() and QSocket::connectToHost().
DoConnect == sock' = "connecting" /\ rbuf' = <<>> /\ unsent' = 0

\* srv_done(): the state stays HostLookup, on failure too.
SrvDone ==
  /\ signal
  /\ signal' = FALSE
  /\ \/ /\ failed
        /\ attempt' = "none"
        /\ UNCHANGED sockVars
     \/ /\ ~failed
        /\ DoConnect
        /\ UNCHANGED attempt
  /\ UNCHANGED <<qdns, timer, ndns, servers, failed, result, srvonly, reply, tried,
                 streamVars, calls, state, readBuf, hostLookup>>

\* ndns_done(): the state stays HostLookup on failure.
NdnsDone(found) ==
  /\ hostLookup
  /\ ~signal
  /\ hostLookup' = FALSE
  /\ \/ /\ found
        /\ state' = "Connecting"
        /\ DoConnect
        /\ UNCHANGED attempt
     \/ /\ ~found
        /\ attempt' = "none"
        /\ UNCHANGED <<state, sockVars>>
  /\ UNCHANGED <<srvVars, streamVars, calls, readBuf>>

QsConnected ==
  /\ ~signal
  /\ sock = "connecting"
  /\ sock' = "connected"
  /\ state' = "Connected"
  /\ attempt' = "none"
  /\ UNCHANGED <<srvVars, rbuf, unsent, streamVars, calls, readBuf, hostLookup>>

\* Mutant of QsRefused: every refusal is taken for one of an SRV search.
QsRefusedAsksSearch ==
  /\ ~signal
  /\ sock = "connecting"
  /\ sock' = "idle"
  /\ Srv!NextServer
  /\ UNCHANGED <<rbuf, unsent, readBuf, hostLookup, state, attempt, streamVars, calls>>

\* qs_error() while connecting (ErrConnectionRefused or ErrHostNotFound): the
\* next server of an SRV search, or reset() and error().
QsRefused ==
  /\ ~signal
  /\ sock = "connecting"
  /\ \/ /\ state = "HostLookup"
        /\ sock' = "idle"
        /\ Srv!NextServer
        /\ UNCHANGED <<rbuf, unsent, readBuf, hostLookup, state, attempt>>
     \/ /\ state # "HostLookup"
        /\ Reset
        /\ attempt' = "none"
  /\ UNCHANGED <<streamVars, calls>>

\* qs_readyRead(): the QSocket has received a byte.
QsReadyRead ==
  /\ ~signal
  /\ sock = "connected"
  /\ arrived < MaxBytes
  /\ arrived' = arrived + 1
  /\ rbuf' = Append(rbuf, <<calls, arrived + 1>>)
  /\ UNCHANGED <<srvVars, sock, unsent, taken, calls, state, readBuf, hostLookup, attempt>>

\* Mutant of QsBytesWritten: two bytes are reported for one.
QsBytesWrittenTwice ==
  /\ ~signal
  /\ unsent > 0
  /\ unsent' = unsent + 1
  /\ UNCHANGED <<srvVars, sock, rbuf, state, readBuf, hostLookup, streamVars, calls, attempt>>

\* qs_bytesWritten(), and when the last byte of a closing socket is out
\* qs_delayedCloseFinished().
QsBytesWritten ==
  /\ ~signal
  /\ unsent > 0
  /\ \/ /\ sock = "connected" \/ unsent > 1
        /\ unsent' = unsent - 1
        /\ UNCHANGED <<srvVars, sock, rbuf, state, readBuf, hostLookup>>
     \/ /\ sock = "closing" /\ unsent = 1
        /\ Reset
  /\ UNCHANGED <<streamVars, calls, attempt>>

\* qs_connectionClosed(), and qs_error(ErrSocketRead): the connection is gone
\* and the QSocket still open for what it has received.
QsConnectionClosed ==
  /\ ~signal
  /\ sock \in {"connected", "closing"}
  /\ Reset
  /\ UNCHANGED <<streamVars, calls, attempt>>

-----------------------------------------------------------------------------

Program ==
  \/ ConnectToHost
  \/ ConnectToServer
  \/ SetSocket
  \/ Close
  \/ Write
  \/ \E n \in 0..MaxBytes : Read(n)

Event ==
  \/ SrvReply
  \/ SrvLookup
  \/ SrvTimeout
  \/ SrvDone
  \/ \E found \in BOOLEAN : NdnsDone(found)
  \/ QsConnected
  \/ QsRefused
  \/ QsReadyRead
  \/ QsBytesWritten
  \/ QsConnectionClosed

Next == Program \/ Event

Spec == Init /\ [][Next]_vars

\* Slots run, timers fire, lookups end (LookupService), a connection attempt
\* of the system succeeds or fails, and unsent data is sent or the connection
\* breaks.  Neither the name server nor the program owes anything.
Fairness ==
  /\ WF_vars(SrvDone)
  /\ WF_vars(SrvLookup)
  /\ WF_vars(SrvTimeout)
  /\ WF_vars(\E found \in BOOLEAN : NdnsDone(found))
  /\ WF_vars(QsConnected \/ QsRefused)
  /\ WF_vars(QsBytesWritten)

FairSpec == Spec /\ Fairness

-----------------------------------------------------------------------------
(* Properties.                                                             *)

\* What the program reads, before and after the connection ends, is what the
\* peer of this connection sent, in order and without a gap; bytes left over
\* from an earlier connection never show up.  The data moves from the QSocket
\* to the local queue when the connection is lost, and reset() clears that
\* queue only when it has no socket.
ReadStreamIntact ==
  LET available == IF sock # "none" THEN rbuf ELSE readBuf
  IN  /\ sock # "none" => readBuf = <<>>
      /\ available = [i \in 1..(arrived - taken) |-> <<calls, taken + i>>]

\* An idle stream has let go of its socket, lookup and search, so that no
\* signal of an earlier connection can arrive.
IdleIsQuiet ==
  state = "Idle" => sock = "none" /\ ~hostLookup /\ ~Srv!Busy /\ ~signal

\* connectToHost() ends with connected(), error() or the program's close().
HostAttemptConcludes == (attempt = "host") ~> (attempt # "host")

\* The same for connectToServer(), as the comment at bsocket.cpp:377 and the
\* documentation of error() have it: refuted by the search that runs out of
\* servers, for next() is silent then.
ServerAttemptConcludes == (attempt = "server") ~> (attempt # "server")
=============================================================================
