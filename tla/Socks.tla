-------------------------------- MODULE Socks --------------------------------
(***************************************************************************)
(* src/network/socks.cpp: the SOCKS5 negotiation between the SocksClient   *)
(* of a program that connects and the SocksClient a SocksServer hands out, *)
(* over a byte stream that cuts messages anywhere.                         *)
(*                                                                         *)
(* A message is two units on the wire, so that it can arrive in halves; a  *)
(* byte of user data is one unit.  A unit is <<kind, number, argument>>.   *)
(* What matters of each codec is kept: how much it takes, what makes it    *)
(* fail, and that it takes nothing before the message is complete.         *)
(*                                                                         *)
(* One thread per program: a slot or a call is one step.  Every signal is  *)
(* the last act of its step, except the connected() of processOutgoing():  *)
(* its slot runs while `inConnected' holds.  The BSocket below is what the *)
(* BSocket module shows of it.  A program that is told of an error or of   *)
(* the end of the connection lets the object go, as socksd.cpp does.       *)
(*                                                                         *)
(* The peer of the serving side is that SocksClient or a foreign program,  *)
(* which sends all its messages and some data without waiting for answers. *)
(***************************************************************************)
EXTENDS Naturals, Sequences, SequencesExt

CONSTANTS
  Commands,   \* requests of a client: "connect", "udp", of a foreign one also "bind"
  Dests,      \* kinds of destination: "ip4", "name", "ip6"; "foreign" marks the other program
  MaxData     \* bound: bytes of user data each way

ASSUME SocksAssumption ==
  /\ Commands \subseteq {"connect", "udp", "bind"}
  /\ Dests \subseteq {"ip4", "name", "ip6", "foreign"}
  /\ MaxData \in Nat

Ends == {"client", "server"}
Peer(e) == IF e = "client" THEN "server" ELSE "client"

VARIABLES
  sock,        \* d->sock: "idle", "connecting", "connected", "closing";
               \* for the server "listen" and "backlog" before
  unsent,      \* units in the QSocket's write buffer
  wire,        \* units sent to the peer and not received yet
  recvBuf,
  active,
  udp,
  step,        \* "version", "auth", "request"
  pending,
  got,         \* history: user data made available by appendRead()
  wrote,       \* history: number of user units passed to the BSocket
  reported,    \* history: sum of the bytesWritten() signals
  ended,       \* history: "no", or the signal that ended it: "closed", "error", "delayed"
  waiting,     \* the server's d->waiting
  served,      \* the SocksServer's connection: "none", "queued", "taken", "serving"
  granted,     \* history: the command granted, or "none"
  inConnected, \* the client's connected() is being handled
  request      \* what the client asks for: [cmd, dest], or its cmd "none"

sockVars  == <<sock, unsent, wire>>
histVars  == <<got, wrote, reported, ended>>
serverVars == <<waiting, served, granted>>
vars == <<sockVars, histVars, serverVars, recvBuf, active, udp, step, pending, inConnected, request>>

-----------------------------------------------------------------------------
(* Wire format.                                                            *)

Message(kind, arg) == << <<kind, 1, arg>>, <<kind, 2, arg>> >>

\* sp_set_request() of a client.  The shadowed `at' makes the packet of an IPv6
\* address end after the port that follows the address type.
RequestMessage(r) ==
  IF r.dest = "ip6" THEN << <<"request", 1, r.cmd>> >> ELSE Message("request", r.cmd)

Data(n) == <<"data", n, "none">>

IsUser(u) == u[1] = "data"

Drop(s, n) == SubSeq(s, n + 1, Len(s))

Kinds == {"hello", "method", "auth", "authreply", "request", "reply", "data"}
Args  == {"none", "user", "yes", "no", "connect", "udp", "bind", "success", "unreachable"}
Units == Kinds \X (1..(MaxData + 2)) \X Args

TypeOK ==
  /\ sock \in [Ends -> {"listen", "backlog", "idle", "connecting", "connected", "closing"}]
  /\ \A e \in Ends : unsent[e] \in Seq(Units) /\ wire[e] \in Seq(Units) /\ recvBuf[e] \in Seq(Units)
  /\ active \in [Ends -> BOOLEAN]
  /\ udp \in [Ends -> BOOLEAN]
  /\ step \in [Ends -> {"version", "auth", "request"}]
  /\ pending \in [Ends -> 0..6]
  /\ \A e \in Ends : got[e] \in Seq(Units)
  /\ wrote \in [Ends -> 0..MaxData]
  /\ reported \in [Ends -> 0..(MaxData + 6)]
  /\ ended \in [Ends -> {"no", "closed", "error", "delayed"}]
  /\ waiting \in BOOLEAN
  /\ served \in {"none", "queued", "taken", "serving"}
  /\ granted \in {"none", "connect", "udp"}
  /\ inConnected \in BOOLEAN
  /\ request \in [cmd: Commands \cup {"none"}, dest: Dests \cup {"none"}]

\* d->step of an accepted connection is set by serve() only: any value.
Init ==
  /\ sock = [e \in Ends |-> IF e = "client" THEN "idle" ELSE "listen"]
  /\ unsent = [e \in Ends |-> <<>>]
  /\ wire = [e \in Ends |-> <<>>]
  /\ recvBuf = [e \in Ends |-> <<>>]
  /\ active = [e \in Ends |-> FALSE]
  /\ udp = [e \in Ends |-> FALSE]
  /\ step \in [Ends -> {"version", "auth", "request"}]
  /\ step["client"] = "version"
  /\ pending = [e \in Ends |-> 0]
  /\ got = [e \in Ends |-> <<>>]
  /\ wrote = [e \in Ends |-> 0]
  /\ reported = [e \in Ends |-> 0]
  /\ ended = [e \in Ends |-> "no"]
  /\ waiting = FALSE
  /\ served = "none"
  /\ granted = "none"
  /\ inConnected = FALSE
  /\ request = [cmd |-> "none", dest |-> "none"]

-----------------------------------------------------------------------------
(* Parts the handlers share.                                               *)

\* BSocket::write(): nothing is taken but on an open connection.
Written(e, units) == IF sock[e] = "connected" THEN unsent[e] \o units ELSE unsent[e]

\* writeData() of the units at end e.
Send(e, units) ==
  /\ pending' = [pending EXCEPT ![e] = @ + Len(units)]
  /\ unsent' = [unsent EXCEPT ![e] = Written(e, units)]

\* reset(), after the units have been written: BSocket::close() waits for unsent
\* data.  d->waiting is left to the caller.
ResetAfter(e, units) ==
  /\ sock' = [sock EXCEPT ![e] = IF Written(e, units) # <<>> THEN "closing" ELSE "idle"]
  /\ unsent' = [unsent EXCEPT ![e] = Written(e, units)]
  /\ recvBuf' = [recvBuf EXCEPT ![e] = <<>>]
  /\ active' = [active EXCEPT ![e] = FALSE]
  /\ udp' = [udp EXCEPT ![e] = FALSE]
  /\ pending' = [pending EXCEPT ![e] = 0]

Notify(e, what) == ended' = [ended EXCEPT ![e] = what]

\* The program still holds the object, and no slot of its event loop is running.
Alive(e) == ended[e] = "no" /\ (e = "server" => served \in {"taken", "serving"})
Foreign(e) == e = "client" /\ request.dest = "foreign"
Loop(e)  == e = "client" => ~inConnected

-----------------------------------------------------------------------------
(* The connecting side.                                                    *)

\* connectToHost()
ConnectToHost(cmd, dest) ==
  /\ request.cmd = "none"
  /\ cmd # "bind" /\ dest # "foreign"
  /\ request' = [cmd |-> cmd, dest |-> dest]
  /\ sock' = [sock EXCEPT !["client"] = "connecting"]
  /\ udp' = [udp EXCEPT !["client"] = (cmd = "udp")]
  /\ UNCHANGED <<unsent, wire, histVars, serverVars, recvBuf, active, step, pending, inConnected>>

\* sock_connected(): the list of methods goes out.
SockConnected ==
  /\ sock["client"] = "connecting"
  /\ sock' = [sock EXCEPT !["client"] = "connected", !["server"] = "backlog"]
  /\ step' = [step EXCEPT !["client"] = "version"]
  /\ unsent' = [unsent EXCEPT !["client"] = Message("hello", "none")]
  /\ pending' = [pending EXCEPT !["client"] = @ + 2]
  /\ UNCHANGED <<wire, histVars, serverVars, recvBuf, active, udp, inConnected, request>>

\* A foreign client has connected and sent everything, with n bytes of data.
ForeignConnect(cmd, withAuth, n) ==
  /\ request.cmd = "none"
  /\ "foreign" \in Dests
  /\ request' = [cmd |-> cmd, dest |-> "foreign"]
  /\ sock' = [sock EXCEPT !["client"] = "connected", !["server"] = "backlog"]
  /\ wire' = [wire EXCEPT !["client"] =
       Message("hello", "none")
         \o (IF withAuth THEN Message("auth", "none") ELSE <<>>)
         \o Message("request", cmd)
         \o [i \in 1..n |-> Data(i)]]
  /\ UNCHANGED <<unsent, histVars, serverVars, recvBuf, active, udp, step, pending, inConnected>>

\* The three stages of processOutgoing(), on what they have read of the buffer
\* and what they write; `verdict' is "more", "error" or "connected".
DoRequest(rest) ==
  [step |-> "request", buf |-> rest, send |-> RequestMessage(request), verdict |-> "more"]

VersionStage(s) ==
  IF s.step # "version" \/ Len(s.buf) < 2 THEN s
  ELSE LET u == s.buf[1] rest == Drop(s.buf, 2)
       IN  IF u[1] # "method" THEN [s EXCEPT !.verdict = "error"]
           ELSE IF u[3] = "none" THEN DoRequest(rest)
           ELSE [step |-> "auth", buf |-> rest, send |-> Message("auth", "none"), verdict |-> "more"]

AuthStage(s) ==
  IF Len(s.buf) < 2 THEN s
  ELSE LET u == s.buf[1]
       IN  IF u[1] # "authreply" \/ u[3] = "no" THEN [s EXCEPT !.verdict = "error"]
           ELSE [DoRequest(Drop(s.buf, 2)) EXCEPT !.send = s.send \o @]

\* Mutant of RequestStage: what follows the reply is thrown away with it.
RequestStageTakesAll(s) ==
  IF Len(s.buf) < 2 THEN s
  ELSE [s EXCEPT !.buf = <<>>,
                 !.verdict = IF s.buf[1] = <<"reply", 1, "success">> THEN "connected" ELSE "error"]

\* Mutant of RequestStage: the reply counts as soon as it begins.
RequestStageEarly(s) ==
  IF s.buf = <<>> THEN s
  ELSE [s EXCEPT !.buf = Tail(s.buf), !.verdict = "connected"]

RequestStage(s) ==
  IF Len(s.buf) < 2 THEN s
  ELSE [s EXCEPT !.buf = Drop(s.buf, 2),
                 !.verdict = IF s.buf[1] = <<"reply", 1, "success">> THEN "connected" ELSE "error"]

processOutgoing(block) ==
  LET s == VersionStage([step |-> step["client"], buf |-> recvBuf["client"] \o block,
                         send |-> <<>>, verdict |-> "more"])
  IN  IF s.verdict # "more" THEN s
      ELSE IF s.step = "auth" THEN AuthStage(s)
      ELSE IF s.step = "request" THEN RequestStage(s)
      ELSE s

\* sock_readyRead() of the client while it negotiates.
ClientReads(block) ==
  LET s == processOutgoing(block)
  IN  /\ \/ /\ s.verdict = "error"
            /\ ResetAfter("client", s.send)
            /\ Notify("client", "error")
            /\ UNCHANGED <<step, inConnected>>
         \/ /\ s.verdict # "error"
            /\ recvBuf' = [recvBuf EXCEPT !["client"] = s.buf]
            /\ step' = [step EXCEPT !["client"] = s.step]
            /\ Send("client", s.send)
            /\ active' = [active EXCEPT !["client"] = (s.verdict = "connected")]
            /\ inConnected' = (s.verdict = "connected")
            /\ UNCHANGED <<sock, udp, ended>>
      /\ UNCHANGED <<got, wrote, reported, serverVars>>

\* The connected() slot returns: what came with the reply is made available.
ConnectedReturns ==
  /\ inConnected
  /\ inConnected' = FALSE
  /\ got' = [got EXCEPT !["client"] = @ \o recvBuf["client"]]
  /\ recvBuf' = [recvBuf EXCEPT !["client"] = <<>>]
  /\ UNCHANGED <<sockVars, wrote, reported, ended, serverVars, active, udp, step, pending, request>>

-----------------------------------------------------------------------------
(* The serving side.                                                       *)

\* SocksServer::connectionReady()
ConnectionReady ==
  /\ sock["server"] = "backlog"
  /\ sock' = [sock EXCEPT !["server"] = "connected"]
  /\ served' = "queued"
  /\ waiting' = TRUE
  /\ UNCHANGED <<unsent, wire, histVars, granted, recvBuf, active, udp, step, pending, inConnected, request>>

\* takeIncoming()
TakeIncoming ==
  /\ served = "queued" /\ ended["server"] = "no"
  /\ served' = "taken"
  /\ UNCHANGED <<sockVars, histVars, waiting, granted, recvBuf, active, udp, step, pending, inConnected, request>>

\* continueIncoming() on buffer buf at step at: what it leaves of the buffer, and
\* whether it waits for the program ("ask"), for more, refuses or denies.
continueIncoming(at, buf) ==
  IF buf = <<>> THEN [buf |-> buf, verdict |-> "more"]
  ELSE LET wanted == CASE at = "version" -> "hello" [] at = "auth" -> "auth" [] OTHER -> "request"
       IN  IF buf[1][1] # wanted THEN [buf |-> buf, verdict |-> "error"]
           ELSE IF Len(buf) < 2 THEN [buf |-> buf, verdict |-> "more"]
           ELSE [buf |-> Drop(buf, 2),
                 verdict |-> IF buf[1][3] = "bind" THEN "deny" ELSE "ask"]

\* The server goes on at step `at' with buffer buf, having written units.
GoOn(at, buf, units) ==
  LET r == continueIncoming(at, buf)
  IN  /\ step' = [step EXCEPT !["server"] = at]
      /\ \/ /\ r.verdict = "error"
            /\ ResetAfter("server", units)
            /\ waiting' = FALSE
            /\ Notify("server", "error")
         \/ /\ r.verdict = "deny"
            /\ ResetAfter("server", units \o Message("reply", "unreachable"))
            /\ waiting' = FALSE
            /\ UNCHANGED ended
         \/ /\ r.verdict \in {"more", "ask"}
            /\ recvBuf' = [recvBuf EXCEPT !["server"] = r.buf]
            /\ waiting' = (r.verdict = "ask")
            /\ Send("server", units)
            /\ UNCHANGED <<sock, active, udp, ended>>

\* Mutant of Serve: what has arrived before waits for the next readyRead().
ServeWaits ==
  /\ served = "taken" /\ ended["server"] = "no"
  /\ served' = "serving"
  /\ waiting' = FALSE
  /\ step' = [step EXCEPT !["server"] = "version"]
  /\ UNCHANGED <<sockVars, histVars, recvBuf, active, udp, pending, granted, inConnected, request>>

\* serve(), from the event loop after takeIncoming().
Serve ==
  /\ served = "taken" /\ ended["server"] = "no"
  /\ served' = "serving"
  /\ GoOn("version", recvBuf["server"], <<>>)
  /\ UNCHANGED <<wire, got, wrote, reported, granted, inConnected, request>>

\* sock_readyRead() of the server while it negotiates.
ServerReads(block) ==
  LET buf == recvBuf["server"] \o block
  IN  /\ IF waiting
           THEN /\ recvBuf' = [recvBuf EXCEPT !["server"] = buf]
                /\ UNCHANGED <<sock, unsent, active, udp, step, pending, ended, waiting>>
           ELSE GoOn(step["server"], buf, <<>>)
      /\ UNCHANGED <<got, wrote, reported, served, granted, inConnected>>

\* Mutant of Asked: the guards of the answers are gone.
AskedAlways(at) == served = "serving" /\ ended["server"] = "no" /\ ~active["server"]

\* The guard of the program's answers; the others return at once.
Asked(at) ==
  /\ served = "serving" /\ ended["server"] = "no"
  /\ step["server"] = at /\ waiting

\* chooseMethod(), with the method of the first argument.
ChooseMethod(method) ==
  /\ Asked("version")
  /\ GoOn(IF method = "none" THEN "request" ELSE "auth", recvBuf["server"], Message("method", method))
  /\ UNCHANGED <<wire, got, wrote, reported, served, granted, inConnected, request>>

\* authGrant()
AuthGrant(b) ==
  /\ Asked("auth")
  /\ \/ /\ b
        /\ GoOn("request", recvBuf["server"], Message("authreply", "yes"))
     \/ /\ ~b
        /\ ResetAfter("server", Message("authreply", "no"))
        /\ waiting' = FALSE
        /\ UNCHANGED <<step, ended>>
  /\ UNCHANGED <<wire, got, wrote, reported, served, granted, inConnected, request>>

\* requestDeny()
RequestDeny ==
  /\ Asked("request")
  /\ ResetAfter("server", Message("reply", "unreachable"))
  /\ waiting' = FALSE
  /\ UNCHANGED <<wire, histVars, served, granted, step, inConnected, request>>

\* grantConnect(), or grantUDPAssociate() for a "udp" request.
Grant ==
  /\ Asked("request")
  /\ waiting' = FALSE
  /\ active' = [active EXCEPT !["server"] = TRUE]
  /\ udp' = [udp EXCEPT !["server"] = (request.cmd = "udp")]
  /\ granted' = request.cmd
  /\ Send("server", Message("reply", "success"))
  /\ recvBuf' = [recvBuf EXCEPT !["server"] = <<>>]
  /\ got' = [got EXCEPT !["server"] = IF request.cmd = "udp" THEN @ ELSE @ \o recvBuf["server"]]
  /\ UNCHANGED <<sock, wire, wrote, reported, ended, served, step, inConnected, request>>

-----------------------------------------------------------------------------
(* Both sides.                                                             *)

\* write() of one byte: not before the negotiation, not in UDP mode.  The
\* BSocket ignores it while it is closing.
Write(e) ==
  /\ Alive(e)
  /\ active[e] /\ ~udp[e]
  /\ sock[e] = "connected"
  /\ wrote[e] < MaxData
  /\ wrote' = [wrote EXCEPT ![e] = @ + 1]
  /\ unsent' = [unsent EXCEPT ![e] = Append(@, Data(wrote[e] + 1))]
  /\ UNCHANGED <<sock, wire, got, reported, ended, serverVars, recvBuf, active, udp, step, pending,
                 inConnected, request>>

\* close(): reset() unless the BSocket has data to send.
Close(e) ==
  /\ Alive(e)
  /\ sock[e] \in {"connecting", "connected"}
  /\ IF sock[e] = "connected" /\ unsent[e] # <<>>
       THEN /\ sock' = [sock EXCEPT ![e] = "closing"]
            /\ UNCHANGED <<unsent, recvBuf, active, udp, pending, ended, waiting>>
       ELSE /\ ResetAfter(e, <<>>)
            /\ waiting' = (waiting /\ e # "server")
            /\ Notify(e, "closed")
  /\ UNCHANGED <<wire, got, wrote, reported, served, granted, step, inConnected, request>>

\* The program deletes the object, as socksd.cpp does after a refusal.
Delete(e) ==
  /\ Alive(e)
  /\ request.cmd # "none"
  /\ sock' = [sock EXCEPT ![e] = "idle"]
  /\ unsent' = [unsent EXCEPT ![e] = <<>>]
  /\ recvBuf' = [recvBuf EXCEPT ![e] = <<>>]
  /\ active' = [active EXCEPT ![e] = FALSE]
  /\ udp' = [udp EXCEPT ![e] = FALSE]
  /\ pending' = [pending EXCEPT ![e] = 0]
  /\ inConnected' = (inConnected /\ e # "client")
  /\ waiting' = (waiting /\ e # "server")
  /\ Notify(e, "closed")
  /\ UNCHANGED <<wire, got, wrote, reported, served, granted, step, request>>

\* sock_readyRead() for the first n units of what the peer has sent.
SockReadyRead(e, n) ==
  /\ sock[e] = "connected" /\ Loop(e) /\ ~Foreign(e)
  /\ n \in 1..Len(wire[Peer(e)])
  /\ LET block == SubSeq(wire[Peer(e)], 1, n)
     IN  \/ /\ ~active[e] /\ e = "client"
            /\ ClientReads(block)
         \/ /\ ~active[e] /\ e = "server"
            /\ ServerReads(block)
         \/ /\ active[e]
            /\ got' = [got EXCEPT ![e] = IF udp[e] THEN @ ELSE @ \o block]
            /\ UNCHANGED <<sock, unsent, wrote, reported, ended, serverVars, recvBuf, active, udp, step,
                           pending, inConnected>>
  /\ wire' = [wire EXCEPT ![Peer(e)] = Drop(@, n)]
  /\ UNCHANGED request

\* Mutant of SockBytesWritten: pending is not worked off.
SockBytesWrittenAll(e, n) ==
  /\ n \in 1..Len(unsent[e]) /\ Loop(e)
  /\ sock[e] = "connected"
  /\ wire' = [wire EXCEPT ![e] = @ \o SubSeq(unsent[e], 1, n)]
  /\ unsent' = [unsent EXCEPT ![e] = Drop(@, n)]
  /\ reported' = [reported EXCEPT ![e] = @ + (IF n > pending[e] THEN n - pending[e] ELSE 0)]
  /\ UNCHANGED <<sock, got, wrote, ended, serverVars, recvBuf, active, udp, step, pending, inConnected, request>>

\* sock_bytesWritten() for n units that have been sent; the last ones of a
\* closing socket are followed by sock_delayedCloseFinished().
SockBytesWritten(e, n) ==
  /\ n \in 1..Len(unsent[e]) /\ Loop(e)
  /\ wire' = [wire EXCEPT ![e] = @ \o SubSeq(unsent[e], 1, n)]
  /\ reported' = [reported EXCEPT ![e] = @ + (IF n > pending[e] THEN n - pending[e] ELSE 0)]
  /\ LET left == IF n > pending[e] THEN 0 ELSE pending[e] - n
         rest == Drop(unsent[e], n)
     IN  /\ unsent' = [unsent EXCEPT ![e] = rest]
         /\ \/ /\ sock[e] = "connected" \/ (sock[e] = "closing" /\ rest # <<>>)
               /\ pending' = [pending EXCEPT ![e] = left]
               /\ UNCHANGED <<sock, ended, recvBuf, active, udp>>
            \/ /\ sock[e] = "closing" /\ rest = <<>>
               /\ sock' = [sock EXCEPT ![e] = "idle"]
               /\ \/ /\ active[e]
                     /\ Notify(e, "delayed")
                     /\ recvBuf' = [recvBuf EXCEPT ![e] = <<>>]
                     /\ active' = [active EXCEPT ![e] = FALSE]
                     /\ udp' = [udp EXCEPT ![e] = FALSE]
                     /\ pending' = [pending EXCEPT ![e] = 0]
                  \/ /\ ~active[e]
                     /\ pending' = [pending EXCEPT ![e] = left]
                     /\ UNCHANGED <<ended, recvBuf, active, udp>>
  /\ UNCHANGED <<got, wrote, serverVars, step, inConnected, request>>

\* The BSocket is gone, with what it had to send: an active stream is reset, as
\* is any that hears of an error; one that is still negotiating only reports.
ConnectionLost(e, isError) ==
  /\ sock' = [sock EXCEPT ![e] = "idle"]
  /\ unsent' = [unsent EXCEPT ![e] = <<>>]
  /\ IF active[e] \/ isError
       THEN /\ recvBuf' = [recvBuf EXCEPT ![e] = <<>>]
            /\ active' = [active EXCEPT ![e] = FALSE]
            /\ udp' = [udp EXCEPT ![e] = FALSE]
            /\ pending' = [pending EXCEPT ![e] = 0]
            /\ waiting' = (waiting /\ e # "server")
       ELSE UNCHANGED <<recvBuf, active, udp, pending, waiting>>
  /\ Notify(e, IF active[e] /\ ~isError THEN "closed" ELSE "error")
  /\ UNCHANGED <<got, wrote, reported, served, granted, step, inConnected, request>>

\* sock_connectionClosed(): the peer has closed and all it sent has been read.
SockConnectionClosed(e) ==
  /\ sock[e] \in {"connected", "closing"} /\ Loop(e)
  /\ sock[Peer(e)] = "idle"
  /\ wire[Peer(e)] = <<>>
  /\ ConnectionLost(e, FALSE)
  /\ UNCHANGED wire

\* sock_error(): the connection cannot be made, or breaks and takes with it what
\* the peer had sent.
SockError(e) ==
  /\ sock[e] \in {"connecting", "connected", "closing"} /\ Loop(e)
  /\ ConnectionLost(e, TRUE)
  /\ wire' = [wire EXCEPT ![Peer(e)] = <<>>]

\* What arrives at a socket that no longer reads is lost; a foreign client does
\* with it what it likes.
Discard(e) ==
  /\ sock[e] \in {"idle", "closing"} \/ Foreign(e)
  /\ wire[Peer(e)] # <<>>
  /\ wire' = [wire EXCEPT ![Peer(e)] = <<>>]
  /\ UNCHANGED <<sock, unsent, histVars, serverVars, recvBuf, active, udp, step, pending, inConnected, request>>

-----------------------------------------------------------------------------

Server ==
  \/ ConnectionReady
  \/ TakeIncoming
  \/ Serve
  \/ \E m \in {"none", "user"} : ChooseMethod(m)
  \/ \E b \in BOOLEAN : AuthGrant(b)
  \/ RequestDeny
  \/ Grant

Network(e) ==
  \/ \E n \in 1..(2*MaxData + 6) : SockReadyRead(e, n)
  \/ \E n \in 1..(MaxData + 6) : SockBytesWritten(e, n)
  \/ SockConnectionClosed(e)
  \/ Discard(e)

Next ==
  \/ \E cmd \in Commands, dest \in Dests : ConnectToHost(cmd, dest)
  \/ \E cmd \in Commands, withAuth \in BOOLEAN, n \in 0..MaxData : ForeignConnect(cmd, withAuth, n)
  \/ SockConnected
  \/ ConnectedReturns
  \/ Server
  \/ \E e \in Ends : Write(e) \/ Close(e) \/ Delete(e) \/ SockError(e) \/ Network(e)

Spec == Init /\ [][Next]_vars

\* Connection attempts end, slots return, the network moves what is sent and
\* reports what has ended, and the serving program takes connections and
\* answers what it is asked.
Fairness ==
  /\ WF_vars(SockConnected)
  /\ WF_vars(ConnectedReturns)
  /\ WF_vars(Server)
  /\ \A e \in Ends : WF_vars(Network(e))

FairSpec == Spec /\ Fairness

-----------------------------------------------------------------------------
(* Properties.                                                             *)

\* A client that takes the stream for open has been granted that very request.
ConnectedMeansGranted ==
  active["client"] => granted = request.cmd

\* What either program can read is what the other wrote, in order and complete
\* from the first byte: nothing of the negotiation, and no byte that came in
\* one block with the end of it gets lost or reordered.
DataStreamIntact ==
  \A e \in Ends : got[e] = [i \in 1..Len(got[e]) |-> Data(i)]

\* While the socket is up bytesWritten() has reported the user's bytes that have
\* been sent, and those only, though they share the socket and its counts with
\* the negotiation.
BytesWrittenCountsUserData ==
  \A e \in Ends : sock[e] = "connected" /\ ~Foreign(e) =>
    reported[e] + Cardinality({i \in DOMAIN unsent[e] : IsUser(unsent[e][i])}) = wrote[e]

\* A connection attempt ends: with connected(), an error, or the program's close().
ConnectConcludes ==
  (sock["client"] = "connecting" /\ request.dest # "ip6") ~>
    (active["client"] \/ ended["client"] # "no" \/ sock["client"] = "closing")
=============================================================================
