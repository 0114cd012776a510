----------------------------- MODULE SocksProofs ------------------------------
(***************************************************************************)
(* Proofs about Socks, for any commands, destinations and number of bytes, *)
(* and messages cut anywhere: no byte of the stream behind the negotiation *)
(* is lost or out of order at either end, and a client that takes it for   *)
(* open has been granted what it asked for.  At the end, what SocksServer  *)
(* reads of the datagrams of SocksUDP.                                     *)
(***************************************************************************)
EXTENDS Socks, SocksDatagram, SequenceTheorems, FiniteSetTheorems, TLAPS

-----------------------------------------------------------------------------
(* The invariant.                                                          *)

\* The message that opens the stream, of end e.
Opens(e, u) == IF e = "client" THEN u[1] = "request" ELSE u[1] = "reply" /\ u[3] = "success"

\* u can be unit j of what end e sends, if h units come before the message that
\* opens the stream; a request is for cmd.
Fits(e, cmd, h, j, u) ==
  /\ j <= h => ~Opens(e, u)
  /\ j \in {h + 1, h + 2} => Opens(e, u) /\ (e = "client" => u[3] = cmd)
  /\ j > h + 2 => u = Data(j - (h + 2))

\* s can be the part of that behind its first o units.
Flow(e, cmd, s, o, h) == \A i \in 1..Len(s) : Fits(e, cmd, h, o + i, s[i])

Typed ==
  /\ sock \in [Ends -> {"listen", "backlog", "idle", "connecting", "connected", "closing"}]
  /\ unsent \in [Ends -> Seq(Units)]
  /\ wire \in [Ends -> Seq(Units)]
  /\ recvBuf \in [Ends -> Seq(Units)]
  /\ active \in [Ends -> BOOLEAN]
  /\ udp \in [Ends -> BOOLEAN]
  /\ step \in [Ends -> {"version", "auth", "request"}]
  /\ pending \in [Ends -> Nat]
  /\ got \in [Ends -> Seq(Units)]
  /\ wrote \in [Ends -> 0..MaxData]
  /\ reported \in [Ends -> Nat]
  /\ ended \in [Ends -> {"no", "closed", "error", "delayed"}]
  /\ waiting \in BOOLEAN
  /\ served \in {"none", "queued", "taken", "serving"}
  /\ granted \in {"none", "connect", "udp"}
  /\ inConnected \in BOOLEAN
  /\ request \in [cmd: Commands \cup {"none"}, dest: Dests \cup {"none"}]

\* Before the connection, and before the server is told to serve it.
Fresh ==
  /\ sock["server"] = "listen" =>
       /\ sock["client"] \in {"idle", "connecting"}
       /\ unsent["client"] = <<>> /\ wire["client"] = <<>>
       /\ pending["client"] = 0 /\ reported["client"] = 0
  /\ sock["client"] = "connecting" => sock["server"] = "listen" /\ ~Foreign("client")
  /\ request.cmd = "none" => sock["server"] = "listen" /\ sock["client"] = "idle"
  /\ sock["server"] \in {"listen", "backlog"} =>
       /\ served = "none" /\ ~waiting /\ ~inConnected /\ ~active["client"]
       /\ recvBuf["server"] = <<>> /\ recvBuf["client"] = <<>> /\ wire["server"] = <<>>
       /\ got["client"] = <<>> /\ wrote["client"] = 0
  /\ served # "serving" =>
       /\ ~active["server"] /\ got["server"] = <<>> /\ granted = "none"
       /\ wrote["server"] = 0 /\ pending["server"] = 0 /\ unsent["server"] = <<>>
       /\ reported["server"] = 0
       /\ sock["server"] = "connected" => waiting

\* What an open stream, one that is being opened, and one whose connected() is
\* being handled leave alone.
OfClient ==
  /\ active["client"] =>
       /\ step["client"] = "request"
       /\ ~inConnected => recvBuf["client"] = <<>>
       /\ granted = request.cmd /\ granted # "none"
  /\ sock["client"] = "connected" /\ ~active["client"] =>
       got["client"] = <<>> /\ wrote["client"] = 0 /\ ~inConnected
  /\ inConnected =>
       /\ got["client"] = <<>>
       /\ \A i \in 1..Len(recvBuf["client"]) : recvBuf["client"][i] = Data(i)
  /\ Foreign("client") =>
       ~active["client"] /\ ~inConnected /\ pending["client"] = 0 /\ unsent["client"] = <<>>

OfServer ==
  /\ active["server"] =>
       /\ step["server"] = "request" /\ ~waiting
       /\ recvBuf["server"] = <<>> /\ served = "serving"
  /\ udp["server"] => active["server"]
  /\ waiting \/ (sock["server"] = "connected" /\ ~active["server"]) =>
       got["server"] = <<>> /\ granted = "none" /\ wrote["server"] = 0
  /\ waiting /\ served = "serving" /\ step["server"] = "request" =>
       request.cmd # "bind" /\ request.dest # "ip6"
  /\ request.dest = "ip6" => granted = "none"

\* The units of the negotiation go first, and `pending' says how many of them are
\* still to go.
PendingLimit(e) ==
  IF step[e] = "version" THEN IF e = "client" THEN 2 ELSE 0
  ELSE IF step[e] = "auth" THEN IF e = "client" THEN 4 ELSE 2
  ELSE IF e = "client" \/ active[e] THEN 6 ELSE 4

Counted(e) ==
  /\ pending[e] <= PendingLimit(e)
  /\ reported[e] + Len(unsent[e]) <= wrote[e] + 6
  /\ sock[e] \notin {"connected", "closing"} => unsent[e] = <<>>
  /\ sock[e] = "connected" /\ ~Foreign(e) =>
       /\ reported[e] + Len(unsent[e]) = wrote[e] + pending[e]
       /\ pending[e] <= Len(unsent[e])
       /\ \A i \in 1..Len(unsent[e]) : IsUser(unsent[e][i]) <=> i > pending[e]

\* What each end has sent, of a stream that opens behind h units.
ClientSent(h) ==
  IF step["client"] = "version" THEN 2 ELSE IF step["client"] = "auth" THEN 4
  ELSE (IF request.dest = "ip6" THEN h + 1 ELSE h + 2) + wrote["client"]
ServerSent(h) ==
  IF served # "serving" \/ step["server"] = "version" THEN 0
  ELSE IF step["server"] = "auth" THEN 2
  ELSE IF active["server"] THEN h + 2 + wrote["server"] ELSE h

\* The server has taken o units, the client p.
ServerAt(o, h) ==
  IF active["server"] THEN o = h + 2 + Len(got["server"])
  ELSE IF served # "serving" THEN o = 0
  ELSE IF step["server"] = "version" THEN o = IF waiting THEN 2 ELSE 0
  ELSE IF step["server"] = "auth" THEN IF waiting THEN o = 4 /\ h = 4 ELSE o = 2
  ELSE IF waiting THEN o = h + 2 ELSE o \in {2, 4} /\ o <= h
ClientAt(p, h) ==
  IF active["client"] THEN p = h + 2 + Len(got["client"])
  ELSE IF step["client"] = "version" THEN p = 0
  ELSE IF step["client"] = "auth" THEN p = 2
  ELSE p \in {2, 4} /\ p <= h

ToServerFrom(o, h) ==
  LET o1 == o + Len(recvBuf["server"])
      o2 == o1 + Len(wire["client"])
      o3 == o2 + Len(unsent["client"])
  IN  /\ ServerAt(o, h)
      /\ request.dest = "ip6" => o1 <= h + 1
      /\ Flow("client", request.cmd, recvBuf["server"], o, h)
      /\ sock["server"] \in {"backlog", "connected"} =>
           /\ Flow("client", request.cmd, wire["client"], o1, h)
           /\ Flow("client", request.cmd, unsent["client"], o2, h)
           /\ request.dest = "ip6" => o3 <= h + 1
           /\ sock["client"] = "connected" /\ ~Foreign("client") =>
                /\ o3 = ClientSent(h)
                /\ step["client"] = "auth" => h = 4

ToServer == ~udp["server"] => \E h \in {2, 4}, o \in Nat : ToServerFrom(o, h)

ToClientFrom(p, h) ==
  LET p1 == p + Len(recvBuf["client"])
      p2 == p1 + Len(wire["server"])
      p3 == p2 + Len(unsent["server"])
  IN  /\ ClientAt(p, h)
      /\ Flow("server", request.cmd, recvBuf["client"], p, h)
      /\ Flow("server", request.cmd, wire["server"], p1, h)
      /\ Flow("server", request.cmd, unsent["server"], p2, h)
      /\ p3 > h => granted = request.cmd /\ granted # "none"
      /\ sock["server"] \in {"backlog", "connected"} =>
           /\ p3 = ServerSent(h)
           /\ h # 6
           /\ served = "serving" /\ step["server"] = "auth" => h = 4

ToClient ==
  sock["client"] = "connected" /\ ~Foreign("client")
    /\ (active["client"] /\ udp["client"] => inConnected) =>
    \E h \in {2, 4, 6}, p \in Nat : ToClientFrom(p, h)

IInv ==
  /\ Typed
  /\ Fresh
  /\ OfClient
  /\ OfServer
  /\ \A e \in Ends : Counted(e)
  /\ DataStreamIntact
  /\ ToServer
  /\ ToClient

-----------------------------------------------------------------------------
(* Sequences.                                                              *)

\* The two parts of a sequence.
LEMMA Parts ==
  ASSUME NEW S, NEW s \in Seq(S), NEW n \in 0..Len(s)
  PROVE  /\ SubSeq(s, 1, n) \in Seq(S) /\ Len(SubSeq(s, 1, n)) = n
         /\ \A i \in 1..n : SubSeq(s, 1, n)[i] = s[i]
         /\ Drop(s, n) \in Seq(S) /\ Len(Drop(s, n)) = Len(s) - n
         /\ \A i \in 1..(Len(s) - n) : Drop(s, n)[i] = s[n + i]
<1>1. Len(s) \in Nat /\ n \in Nat /\ n <= Len(s) /\ n + 1 \in Int /\ 1 \in Int /\ n \in Int /\ Len(s) \in Int
  BY LenProperties, SMT
<1>2. \A i \in 1..Len(s) : s[i] \in S
  BY ElementOfSeq
<1>3. (\A i \in 1..n : s[i] \in S) /\ (\A i \in (n + 1)..Len(s) : s[i] \in S)
  BY <1>1, <1>2, SMT
<1>4. /\ SubSeq(s, 1, n) \in Seq(S)
      /\ Len(SubSeq(s, 1, n)) = IF 1 <= n THEN n - 1 + 1 ELSE 0
      /\ \A i \in 1..(n - 1 + 1) : SubSeq(s, 1, n)[i] = s[1 + i - 1]
  BY <1>1, <1>3, SubSeqProperties
<1>5. /\ Drop(s, n) \in Seq(S)
      /\ Len(Drop(s, n)) = IF n + 1 <= Len(s) THEN Len(s) - (n + 1) + 1 ELSE 0
      /\ \A i \in 1..(Len(s) - (n + 1) + 1) : Drop(s, n)[i] = s[(n + 1) + i - 1]
  BY <1>1, <1>3, SubSeqProperties DEF Drop
<1> HIDE DEF Drop
<1>6. Len(SubSeq(s, 1, n)) = n /\ \A i \in 1..n : SubSeq(s, 1, n)[i] = s[i]
  BY <1>1, <1>4, SMT
<1>7. Len(Drop(s, n)) = Len(s) - n /\ \A i \in 1..(Len(s) - n) : Drop(s, n)[i] = s[n + i]
  BY <1>1, <1>5, SMT
<1> QED
  BY <1>4, <1>5, <1>6, <1>7

\* Two sequences, one behind the other.
LEMMA Joined ==
  ASSUME NEW S, NEW s \in Seq(S), NEW t \in Seq(S)
  PROVE  /\ s \o t \in Seq(S) /\ Len(s \o t) = Len(s) + Len(t)
         /\ \A i \in 1..Len(s) : (s \o t)[i] = s[i]
         /\ \A i \in 1..Len(t) : (s \o t)[Len(s) + i] = t[i]
<1>1. Len(s) \in Nat /\ Len(t) \in Nat
  BY LenProperties
<1>2. /\ s \o t \in Seq(S) /\ Len(s \o t) = Len(s) + Len(t)
      /\ \A i \in 1..(Len(s) + Len(t)) : (s \o t)[i] = IF i <= Len(s) THEN s[i] ELSE t[i - Len(s)]
  BY ConcatProperties
<1>3. \A i \in 1..Len(s) : i \in 1..(Len(s) + Len(t)) /\ i <= Len(s)
  BY <1>1, SMT
<1>4. \A i \in 1..Len(t) : Len(s) + i \in 1..(Len(s) + Len(t)) /\ ~(Len(s) + i <= Len(s)) /\ Len(s) + i - Len(s) = i
  BY <1>1, SMT
<1> QED
  BY <1>2, <1>3, <1>4

\* One flow behind another is a flow.
LEMMA FlowJoined ==
  ASSUME NEW S, NEW s \in Seq(S), NEW t \in Seq(S), NEW o \in Nat, NEW h \in Nat, NEW e, NEW cmd,
         Flow(e, cmd, s, o, h), Flow(e, cmd, t, o + Len(s), h)
  PROVE  Flow(e, cmd, s \o t, o, h)
<1>1. Len(s) \in Nat /\ Len(t) \in Nat
  BY LenProperties
<1>2. ASSUME NEW i \in 1..Len(s \o t) PROVE Fits(e, cmd, h, o + i, (s \o t)[i])
  <2>1. i \in Nat /\ i \in 1..(Len(s) + Len(t))
    BY <1>1, Joined
  <2>2. CASE i <= Len(s)
    <3>1. i \in 1..Len(s)
      BY <1>1, <2>1, <2>2, SMT
    <3> QED
      BY <3>1, Joined DEF Flow
  <2>3. CASE ~(i <= Len(s))
    <3>1. i - Len(s) \in 1..Len(t) /\ o + Len(s) + (i - Len(s)) = o + i /\ Len(s) + (i - Len(s)) = i
      BY <1>1, <2>1, <2>3, SMT
    <3>2. (s \o t)[Len(s) + (i - Len(s))] = t[i - Len(s)]
      BY <3>1, Joined
    <3>3. Fits(e, cmd, h, o + Len(s) + (i - Len(s)), t[i - Len(s)])
      BY <3>1 DEF Flow
    <3> QED
      BY <3>1, <3>2, <3>3
  <2> QED
    BY <2>2, <2>3
<1> QED
  BY <1>2 DEF Flow

\* A flow cut in two.
LEMMA FlowCut ==
  ASSUME NEW S, NEW s \in Seq(S), NEW n \in 0..Len(s), NEW o \in Nat, NEW h \in Nat, NEW e, NEW cmd,
         Flow(e, cmd, s, o, h)
  PROVE  Flow(e, cmd, SubSeq(s, 1, n), o, h) /\ Flow(e, cmd, Drop(s, n), o + n, h)
<1>1. Len(s) \in Nat /\ n \in Nat /\ n <= Len(s)
  BY LenProperties, SMT
<1>2. Flow(e, cmd, SubSeq(s, 1, n), o, h)
  <2>1. \A i \in 1..n : i \in 1..Len(s)
    BY <1>1, SMT
  <2> QED
    BY <2>1, Parts DEF Flow
<1>3. Flow(e, cmd, Drop(s, n), o + n, h)
  <2>1. \A i \in 1..(Len(s) - n) : n + i \in 1..Len(s) /\ o + (n + i) = o + n + i
    BY <1>1, SMT
  <2>2. /\ Len(Drop(s, n)) = Len(s) - n
        /\ \A i \in 1..(Len(s) - n) : Drop(s, n)[i] = s[n + i]
    BY Parts
  <2> QED
    BY <2>1, <2>2 DEF Flow
<1> QED
  BY <1>2, <1>3

\* The first n units of t move to the end of s.
LEMMA FlowMoved ==
  ASSUME NEW S, NEW s \in Seq(S), NEW t \in Seq(S), NEW n \in 0..Len(t), NEW o \in Nat, NEW h \in Nat,
         NEW e, NEW cmd, Flow(e, cmd, s, o, h), Flow(e, cmd, t, o + Len(s), h)
  PROVE  /\ Flow(e, cmd, s \o SubSeq(t, 1, n), o, h)
         /\ Flow(e, cmd, Drop(t, n), o + Len(s \o SubSeq(t, 1, n)), h)
         /\ Len(s \o SubSeq(t, 1, n)) = Len(s) + n
         /\ Len(Drop(t, n)) = Len(t) - n
         /\ s \o SubSeq(t, 1, n) \in Seq(S) /\ Drop(t, n) \in Seq(S)
<1>1. Len(s) \in Nat /\ o + Len(s) \in Nat /\ n \in Nat
  BY LenProperties, SMT
<1>2. /\ Flow(e, cmd, SubSeq(t, 1, n), o + Len(s), h) /\ Flow(e, cmd, Drop(t, n), o + Len(s) + n, h)
      /\ SubSeq(t, 1, n) \in Seq(S) /\ Len(SubSeq(t, 1, n)) = n
      /\ Drop(t, n) \in Seq(S) /\ Len(Drop(t, n)) = Len(t) - n
  BY <1>1, FlowCut, Parts
<1>3. /\ s \o SubSeq(t, 1, n) \in Seq(S) /\ Len(s \o SubSeq(t, 1, n)) = Len(s) + n
      /\ Flow(e, cmd, s \o SubSeq(t, 1, n), o, h)
  BY <1>2, Joined, FlowJoined
<1>4. o + (Len(s) + n) = o + Len(s) + n
  BY <1>1, SMT
<1> QED
  BY <1>2, <1>3, <1>4

\* Nothing is a part of anything.
LEMMA Nothing ==
  /\ \A S : <<>> \in Seq(S)
  /\ Len(<<>>) = 0
  /\ \A e, cmd, o, h : Flow(e, cmd, <<>>, o, h)
<1>1. Len(<<>>) = 0 /\ 1..0 = {}
  BY LenProperties, EmptySeq, SMT
<1> QED
  BY <1>1, EmptySeq DEF Flow

\* As long as nothing has been opened, h says no more than that.
LEMMA FlowBefore ==
  ASSUME NEW S, NEW s \in Seq(S), NEW o \in Nat, NEW h \in Nat, NEW k \in Nat, NEW e, NEW cmd,
         o + Len(s) <= h, o + Len(s) <= k, Flow(e, cmd, s, o, h)
  PROVE  Flow(e, cmd, s, o, k)
<1>1. Len(s) \in Nat
  BY LenProperties
<1>2. \A i \in 1..Len(s) : /\ o + i <= h /\ o + i <= k
                         /\ o + i # k + 1 /\ o + i # k + 2 /\ ~(o + i > k + 2)
  BY <1>1, SMT
<1> QED
  BY <1>2 DEF Flow, Fits

\* Units that do not open the stream, before it opens.
LEMMA FlowOfNegotiation ==
  ASSUME NEW S, NEW s \in Seq(S), NEW o \in Nat, NEW h \in Nat, NEW e, NEW cmd,
         o + Len(s) <= h, \A i \in 1..Len(s) : ~Opens(e, s[i])
  PROVE  Flow(e, cmd, s, o, h)
<1>1. Len(s) \in Nat
  BY LenProperties
<1>2. \A i \in 1..Len(s) : o + i # h + 1 /\ o + i # h + 2 /\ ~(o + i > h + 2)
  BY <1>1, SMT
<1> QED
  BY <1>2 DEF Flow, Fits

\* The data behind the negotiation.
LEMMA FlowIsData ==
  ASSUME NEW S, NEW s \in Seq(S), NEW k \in Nat, NEW h \in Nat, NEW e, NEW cmd
  PROVE  Flow(e, cmd, s, h + 2 + k, h) <=> \A i \in 1..Len(s) : s[i] = Data(k + i)
<1>1. Len(s) \in Nat
  BY LenProperties
<1>2. \A i \in 1..Len(s) : /\ ~(h + 2 + k + i <= h)
                         /\ h + 2 + k + i # h + 1 /\ h + 2 + k + i # h + 2
                         /\ h + 2 + k + i > h + 2
                         /\ h + 2 + k + i - (h + 2) = k + i
  BY <1>1, SMT
<1> QED
  BY <1>2 DEF Flow, Fits

-----------------------------------------------------------------------------
(* The two ends and their messages.                                        *)

\* There are two ends, and each is the peer of the other.
LEMMA BothEnds ==
  /\ "client" \in Ends /\ "server" \in Ends /\ "client" # "server"
  /\ \A e \in Ends : e \in {"client", "server"}
  /\ Peer("client") = "server" /\ Peer("server") = "client"
BY DEF Ends, Peer

\* A message has two units, which are not the user's.
LEMMA Messages ==
  ASSUME NEW k \in Kinds \ {"data"}, NEW a \in Args
  PROVE  /\ Message(k, a) \in Seq(Units) /\ Len(Message(k, a)) = 2
         /\ \A i \in 1..2 : Message(k, a)[i] = <<k, i, a>>
         /\ \A i \in 1..Len(Message(k, a)) : ~IsUser(Message(k, a)[i])
<1>1. 1 \in 1..(MaxData + 2) /\ 2 \in 1..(MaxData + 2)
  BY SocksAssumption, SMT
<1>2. <<k, 1, a>> \in Units /\ <<k, 2, a>> \in Units
  BY <1>1 DEF Units
<1>3. /\ Message(k, a) \in Seq(Units) /\ Len(Message(k, a)) = 2
      /\ Message(k, a)[1] = <<k, 1, a>> /\ Message(k, a)[2] = <<k, 2, a>>
  BY <1>2 DEF Message
<1>4. \A i \in 1..2 : i = 1 \/ i = 2
  BY SMT
<1>5. \A i \in 1..2 : Message(k, a)[i] = <<k, i, a>>
  BY <1>3, <1>4
<1>6. \A i \in 1..2 : <<k, i, a>>[1] = k
  OBVIOUS
<1> QED
  BY <1>3, <1>5, <1>6 DEF IsUser

\* What opens the stream and what does not.
LEMMA Openings ==
  /\ \A k \in {"hello", "auth"}, i \in 1..2, a \in Args : ~Opens("client", <<k, i, a>>)
  /\ \A i \in 1..2, a \in Args : Opens("client", <<"request", i, a>>)
  /\ \A k \in {"method", "authreply"}, i \in 1..2, a \in Args : ~Opens("server", <<k, i, a>>)
  /\ \A i \in 1..2 : ~Opens("server", <<"reply", i, "unreachable">>)
  /\ \A i \in 1..2 : Opens("server", <<"reply", i, "success">>)
  /\ \A e \in Ends : \A n : ~Opens(e, Data(n)) /\ IsUser(Data(n))
  /\ \A n \in 1..MaxData : Data(n) \in Units
BY SocksAssumption DEF Opens, Data, IsUser, Units, Kinds, Args, Ends

-----------------------------------------------------------------------------
(* The invariant at the start, and what it says of the types.              *)

\* It holds at the start.
LEMMA InitIInv == Init => IInv
<1> SUFFICES ASSUME Init PROVE IInv
  OBVIOUS
<1>1. <<>> \in Seq(Units) /\ Len(<<>>) = 0 /\ 1..0 = {}
  BY Nothing, SMT
<1>2. \A e \in Ends : /\ unsent[e] = <<>> /\ wire[e] = <<>> /\ recvBuf[e] = <<>> /\ ~active[e] /\ ~udp[e]
                      /\ pending[e] = 0 /\ got[e] = <<>> /\ wrote[e] = 0 /\ reported[e] = 0
                      /\ sock[e] \in {"idle", "listen"}
  BY DEF Init
<1>3. sock["client"] = "idle" /\ sock["server"] = "listen" /\ served = "none" /\ ~waiting /\ granted = "none"
      /\ ~inConnected /\ request.cmd = "none" /\ request.dest = "none"
  BY BothEnds DEF Init
<1>4. Typed
  <2>1. 0 \in 0..MaxData /\ 0 \in Nat
    BY SocksAssumption, SMT
  <2>2. /\ sock \in [Ends -> {"listen", "backlog", "idle", "connecting", "connected", "closing"}]
        /\ step \in [Ends -> {"version", "auth", "request"}]
        /\ ended \in [Ends -> {"no", "closed", "error", "delayed"}]
        /\ request \in [cmd: Commands \cup {"none"}, dest: Dests \cup {"none"}]
    BY DEF Init
  <2> QED
    BY <1>1, <2>1, <2>2 DEF Init, Typed
<1>5. Fresh
  BY <1>2, <1>3, BothEnds DEF Fresh
<1>6. OfClient /\ OfServer
  BY <1>2, <1>3, BothEnds DEF OfClient, OfServer, Foreign
<1>7. ASSUME NEW e \in Ends PROVE Counted(e)
  <2>1. pending[e] <= PendingLimit(e)
    BY <1>2, SMT DEF PendingLimit
  <2> QED
    BY <1>1, <1>2, <2>1, SMT DEF Counted
<1>8. DataStreamIntact
  BY <1>1, <1>2 DEF DataStreamIntact
<1>9. ToServer
  <2>1. ServerAt(0, 2)
    BY <1>2, <1>3, BothEnds DEF ServerAt
  <2>2. ToServerFrom(0, 2)
    BY <1>1, <1>2, <1>3, <2>1, BothEnds, Nothing DEF ToServerFrom
  <2> QED
    BY <2>2 DEF ToServer
<1>10. ToClient
  BY <1>3 DEF ToClient
<1> QED
  BY <1>4, <1>5, <1>6, <1>7, <1>8, <1>9, <1>10 DEF IInv

\* What it says of the counters gives their bounds.
LEMMA IInvTypeOK == IInv => TypeOK
<1> SUFFICES ASSUME IInv PROVE TypeOK
  OBVIOUS
<1>1. ASSUME NEW e \in Ends PROVE pending[e] \in 0..6 /\ reported[e] \in 0..(MaxData + 6)
  <2>1. /\ pending[e] \in Nat /\ reported[e] \in Nat /\ wrote[e] \in 0..MaxData /\ Len(unsent[e]) \in Nat
    BY LenProperties DEF IInv, Typed
  <2>2. pending[e] <= PendingLimit(e) /\ reported[e] + Len(unsent[e]) <= wrote[e] + 6
    BY DEF IInv, Counted
  <2>3. PendingLimit(e) \in {0, 2, 4, 6}
    BY DEF PendingLimit
  <2>4. pending[e] <= 6
    BY <2>1, <2>2, <2>3, SMT
  <2>5. reported[e] <= MaxData + 6
    BY <2>1, <2>2, SocksAssumption, SMT
  <2> QED
    BY <2>1, <2>4, <2>5, SocksAssumption, SMT
<1>2. pending \in [Ends -> 0..6] /\ reported \in [Ends -> 0..(MaxData + 6)]
  BY <1>1 DEF IInv, Typed
<1> QED
  BY <1>2 DEF IInv, Typed, TypeOK

-----------------------------------------------------------------------------
(* What a step of one end leaves alone at the other.                       *)

Keeps(e) ==
  /\ sock'[e] = sock[e] /\ unsent'[e] = unsent[e] /\ recvBuf'[e] = recvBuf[e]
  /\ active'[e] = active[e] /\ udp'[e] = udp[e] /\ step'[e] = step[e] /\ pending'[e] = pending[e]
  /\ got'[e] = got[e] /\ wrote'[e] = wrote[e] /\ reported'[e] = reported[e]
  /\ request' = request

KeepsClient == Keeps("client") /\ inConnected' = inConnected
KeepsServer == Keeps("server") /\ waiting' = waiting /\ served' = served /\ granted' = granted

\* The counts of an end that is left alone stay true.
LEMMA CountedKept ==
  ASSUME NEW e \in Ends, Keeps(e), Counted(e)
  PROVE  Counted(e)'
BY DEF Keeps, Counted, PendingLimit, Foreign

\* What is read of a stream is intact as long as it is left alone.
LEMMA DataKept ==
  ASSUME DataStreamIntact, got' = got
  PROVE  DataStreamIntact'
BY DEF DataStreamIntact

\* Some arithmetic.
LEMMA Small ==
  /\ \A o \in {0, 2} : o \in Nat /\ o + 0 <= 2 + 1 /\ (o = 2 => o \in {2, 4} /\ o <= 2)
  /\ \A a, b, c \in Nat : a + b \in Nat /\ a + b + c \in Nat
BY SMT

\* An end whose socket is closed, or closing, disturbs nothing.
LEMMA ClientStops ==
  ASSUME IInv, KeepsServer,
         sock'["client"] \in {"idle", "closing"},
         sock["server"] = "listen" =>
           sock'["client"] = "idle" /\ wire'["client"] = wire["client"] /\ reported'["client"] = reported["client"],
         sock["server"] = "listen" \/ Foreign("client") => pending'["client"] = 0 /\ unsent'["client"] = <<>>,
         \/ recvBuf'["client"] = recvBuf["client"] /\ active'["client"] = active["client"] /\ inConnected' = inConnected
         \/ recvBuf'["client"] = <<>> /\ ~active'["client"] /\ (inConnected' => inConnected),
         wire'["server"] \in {wire["server"], <<>>} \/ wire["server"] # <<>>,
         step' = step, got'["client"] = got["client"], wrote'["client"] = wrote["client"]
  PROVE  Fresh' /\ OfClient' /\ OfServer' /\ ToClient' /\ Counted("server")'
<1> USE DEF IInv, KeepsServer
<1>1. Counted("server")'
  BY BothEnds, CountedKept
<1>2. Foreign("client")' <=> Foreign("client")
  BY DEF Foreign, Keeps
<1>3. inConnected' => inConnected
  OBVIOUS
<1>4. active'["client"] => active["client"] /\ recvBuf'["client"] = recvBuf["client"] /\ inConnected' = inConnected
  OBVIOUS
<1>5. recvBuf'["client"] \in {recvBuf["client"], <<>>}
  OBVIOUS
<1>6. Fresh'
  BY <1>2, <1>3, <1>4, <1>5 DEF Fresh, Keeps
<1>7. OfClient'
  <2>1. inConnected' => \A i \in 1..Len(recvBuf'["client"]) : recvBuf'["client"][i] = Data(i)
    <3>1. \A i \in 1..Len(<<>>) : FALSE
      BY Nothing, SMT
    <3> QED
      BY <1>3, <1>5, <3>1 DEF OfClient
  <2> QED
    BY <1>2, <1>3, <1>4, <2>1 DEF OfClient, Keeps
<1>8. OfServer'
  BY DEF OfServer, Keeps
<1>9. ToClient'
  BY DEF ToClient
<1> QED
  BY <1>1, <1>6, <1>7, <1>8, <1>9

\* The same of the server, once its connection has been accepted.
LEMMA ServerStops ==
  ASSUME IInv, KeepsClient,
         sock["server"] \notin {"listen", "backlog"}, sock'["server"] \in {"idle", "closing"},
         served' # "serving" => pending'["server"] = 0 /\ reported'["server"] = 0 /\ unsent'["server"] = <<>>,
         \/ /\ recvBuf'["server"] = recvBuf["server"] /\ active'["server"] = active["server"]
            /\ udp'["server"] = udp["server"] /\ waiting' = waiting /\ served' = served
            /\ step'["server"] = step["server"]
         \/ /\ recvBuf'["server"] = <<>> /\ ~active'["server"] /\ ~udp'["server"] /\ ~waiting'
            /\ served' \in {served, "serving"}
            /\ step'["server"] \in {"version", "auth", "request"},
         granted' = granted, got'["server"] = got["server"], wrote'["server"] = wrote["server"]
  PROVE  Fresh' /\ OfClient' /\ OfServer' /\ ToServer' /\ Counted("client")'
<1> USE DEF IInv, KeepsClient
<1>1. Counted("client")'
  BY BothEnds, CountedKept
<1>2. Foreign("client")' <=> Foreign("client")
  BY DEF Foreign, Keeps
<1>3. /\ active'["server"] => active["server"]
      /\ waiting' => waiting /\ served' = served /\ step'["server"] = step["server"]
      /\ served' # "serving" => served # "serving"
      /\ active'["server"] => served' = served /\ step'["server"] = step["server"] /\ recvBuf'["server"] = recvBuf["server"]
                               /\ waiting' = waiting
      /\ udp'["server"] => udp["server"] /\ active'["server"] = active["server"]
  OBVIOUS
<1>4. Fresh'
  BY <1>2, <1>3 DEF Fresh, Keeps
<1>5. OfClient'
  BY <1>2 DEF OfClient, Keeps
<1>6. OfServer'
  BY <1>3 DEF OfServer, Keeps
<1>7. ToServer'
  <2>1. CASE /\ recvBuf'["server"] = recvBuf["server"] /\ active'["server"] = active["server"]
             /\ udp'["server"] = udp["server"] /\ waiting' = waiting /\ served' = served
             /\ step'["server"] = step["server"]
    <3>1. SUFFICES ASSUME ~udp["server"] PROVE ToServer'
      BY <2>1 DEF ToServer
    <3>2. PICK h \in {2, 4}, o \in Nat : ToServerFrom(o, h)
      BY <3>1 DEF ToServer
    <3>3. ToServerFrom(o, h)'
      BY <2>1, <3>2 DEF ToServerFrom, ServerAt, Keeps
    <3> QED
      BY <3>3 DEF ToServer
  <2>2. CASE /\ recvBuf'["server"] = <<>> /\ ~active'["server"] /\ ~udp'["server"] /\ ~waiting'
             /\ step'["server"] \in {"version", "auth", "request"}
    <3>1. PICK o \in {0, 2} : o = IF served' # "serving" \/ step'["server"] = "version" THEN 0 ELSE 2
      OBVIOUS
    <3>2. o \in Nat /\ o + 0 <= 2 + 1 /\ (o = 2 => o \in {2, 4} /\ o <= 2)
      BY Small
    <3>3. ServerAt(o, 2)'
      BY <2>2, <3>1, <3>2 DEF ServerAt
    <3>4. Flow("client", request'.cmd, recvBuf'["server"], o, 2) /\ Len(recvBuf'["server"]) = 0
      BY <2>2, Nothing
    <3>5. ToServerFrom(o, 2)'
      BY <3>2, <3>3, <3>4 DEF ToServerFrom
    <3> QED
      BY <3>2, <3>5 DEF ToServer
  <2> QED
    BY <2>1, <2>2
<1> QED
  BY <1>1, <1>4, <1>5, <1>6, <1>7

\* What an end that stops may have lost was not on its way to it.
LEMMA ToServerKept ==
  ASSUME IInv, KeepsServer, sock'["client"] # "connected",
         wire'["client"] = wire["client"], unsent'["client"] \in {unsent["client"], <<>>}
  PROVE  ToServer'
<1> SUFFICES ASSUME ~udp["server"] PROVE ToServer'
  BY DEF ToServer, KeepsServer, Keeps
<1>1. PICK h \in {2, 4}, o \in Nat : ToServerFrom(o, h)
  BY DEF IInv, ToServer
<1>2. ServerAt(o, h)'
  BY <1>1 DEF ToServerFrom, ServerAt, KeepsServer, Keeps
<1>3. ASSUME NEW k, Flow("client", request.cmd, unsent["client"], k, h)
      PROVE  Flow("client", request'.cmd, unsent'["client"], k, h)
  BY <1>3, Nothing DEF KeepsServer, Keeps
<1>4. Len(unsent'["client"]) <= Len(unsent["client"])
  <2>1. unsent["client"] \in Seq(Units) /\ Len(unsent["client"]) \in Nat
    BY LenProperties, BothEnds DEF IInv, Typed
  <2> QED
    BY <2>1, Nothing, SMT
<1>5. ASSUME NEW k \in Nat, k + Len(unsent["client"]) <= h + 1
      PROVE  k + Len(unsent'["client"]) <= h + 1
  <2>1. unsent["client"] \in Seq(Units) /\ Len(unsent["client"]) \in Nat /\ Len(unsent'["client"]) \in Nat
    BY LenProperties, BothEnds, Nothing DEF IInv, Typed
  <2> QED
    BY <1>4, <1>5, <2>1, SMT
<1>6. o + Len(recvBuf["server"]) + Len(wire["client"]) \in Nat
  <2>1. Len(recvBuf["server"]) \in Nat /\ Len(wire["client"]) \in Nat
    BY LenProperties, BothEnds DEF IInv, Typed
  <2> QED
    BY <2>1, Small
<1>7. ToServerFrom(o, h)'
  BY <1>1, <1>2, <1>3, <1>5, <1>6 DEF ToServerFrom, KeepsServer, Keeps
<1> QED
  BY <1>7 DEF ToServer

\* The same of the other direction.
LEMMA ToClientKept ==
  ASSUME IInv, KeepsClient, granted' = granted \/ (granted' = request.cmd /\ granted' # "none"),
         sock'["server"] \notin {"backlog", "connected"},
         wire'["server"] = wire["server"], unsent'["server"] \in {unsent["server"], <<>>}
  PROVE  ToClient'
<1>1. Foreign("client")' <=> Foreign("client")
  BY DEF Foreign, KeepsClient, Keeps
<1> SUFFICES ASSUME sock["client"] = "connected", ~Foreign("client"),
                    active["client"] /\ udp["client"] => inConnected
             PROVE  \E h \in {2, 4, 6}, p \in Nat : ToClientFrom(p, h)'
  BY <1>1 DEF ToClient, KeepsClient, Keeps
<1>2. PICK h \in {2, 4, 6}, p \in Nat : ToClientFrom(p, h)
  BY DEF IInv, ToClient
<1>3. ClientAt(p, h)'
  BY <1>2 DEF ToClientFrom, ClientAt, KeepsClient, Keeps
<1>4. ASSUME NEW k, Flow("server", request.cmd, unsent["server"], k, h)
      PROVE  Flow("server", request'.cmd, unsent'["server"], k, h)
  BY <1>4, Nothing DEF KeepsClient, Keeps
<1>5. ASSUME NEW k \in Nat, k + Len(unsent'["server"]) > h
      PROVE  k + Len(unsent["server"]) > h
  <2>1. unsent["server"] \in Seq(Units) /\ Len(unsent["server"]) \in Nat
    BY LenProperties, BothEnds DEF IInv, Typed
  <2> QED
    BY <1>5, <2>1, Nothing, SMT
<1>6. p + Len(recvBuf["client"]) + Len(wire["server"]) \in Nat
  <2>1. Len(recvBuf["client"]) \in Nat /\ Len(wire["server"]) \in Nat
    BY LenProperties, BothEnds DEF IInv, Typed
  <2> QED
    BY <2>1, Small
<1>7. ToClientFrom(p, h)'
  BY <1>2, <1>3, <1>4, <1>5, <1>6 DEF ToClientFrom, KeepsClient, Keeps
<1> QED
  BY <1>7

-----------------------------------------------------------------------------
(* The connection is made.                                                 *)

\* connectToHost() only says what is asked for.
LEMMA ConnectToHostStep ==
  ASSUME IInv, NEW cmd \in Commands, NEW dest \in Dests, ConnectToHost(cmd, dest)
  PROVE  IInv'
<1> USE DEF IInv
<1>1. /\ request.cmd = "none" /\ sock["server"] = "listen" /\ sock["client"] = "idle"
      /\ request' = [cmd |-> cmd, dest |-> dest] /\ cmd # "none" /\ cmd # "bind" /\ dest # "foreign"
      /\ sock' = [sock EXCEPT !["client"] = "connecting"]
      /\ udp' = [udp EXCEPT !["client"] = (cmd = "udp")]
      /\ UNCHANGED <<unsent, wire, histVars, serverVars, recvBuf, active, step, pending, inConnected>>
  BY SocksAssumption DEF ConnectToHost, Fresh
<1>2. /\ sock'["client"] = "connecting" /\ sock'["server"] = "listen" /\ udp'["server"] = udp["server"]
      /\ request'.cmd = cmd /\ request'.dest = dest
  BY <1>1, BothEnds DEF Typed
<1>3. UNCHANGED <<unsent, wire, got, wrote, reported, ended, waiting, served, granted, recvBuf, active, step, pending,
                  inConnected>>
  BY <1>1 DEF histVars, serverVars
<1>4. /\ unsent["client"] = <<>> /\ wire["client"] = <<>> /\ unsent["server"] = <<>>
      /\ served = "none" /\ ~waiting /\ ~inConnected /\ ~active["client"] /\ ~active["server"]
      /\ recvBuf["server"] = <<>> /\ granted = "none"
  BY <1>1 DEF Fresh
<1>5. Typed'
  BY <1>1, <1>3 DEF Typed
<1>6. Fresh'
  BY <1>1, <1>2, <1>3 DEF Fresh, Foreign
<1>7. OfClient'
  BY <1>1, <1>2, <1>3, <1>4 DEF OfClient, Foreign
<1>8. OfServer'
  BY <1>2, <1>3, <1>4 DEF OfServer
<1>9. ASSUME NEW e \in Ends PROVE Counted(e)'
  BY <1>2, <1>3, <1>4, BothEnds DEF Counted, PendingLimit
<1>10. DataStreamIntact'
  BY <1>3, DataKept
<1>11. ToServer'
  <2>1. ServerAt(0, 2)' /\ 0 \in Nat /\ 0 + 0 <= 2 + 1
    BY <1>3, <1>4, Small DEF ServerAt
  <2>2. ToServerFrom(0, 2)'
    BY <1>2, <1>3, <1>4, <2>1, Nothing DEF ToServerFrom
  <2> QED
    BY <2>1, <2>2 DEF ToServer
<1>12. ToClient'
  BY <1>2 DEF ToClient
<1> QED
  BY <1>5, <1>6, <1>7, <1>8, <1>9, <1>10, <1>11, <1>12

\* sock_connected() sends the first two units of the stream.
LEMMA SockConnectedStep ==
  ASSUME IInv, SockConnected
  PROVE  IInv'
<1> USE DEF IInv
<1> DEFINE hello == Message("hello", "none")
<1>1. /\ sock["client"] = "connecting"
      /\ sock' = [sock EXCEPT !["client"] = "connected", !["server"] = "backlog"]
      /\ step' = [step EXCEPT !["client"] = "version"]
      /\ unsent' = [unsent EXCEPT !["client"] = hello]
      /\ pending' = [pending EXCEPT !["client"] = @ + 2]
      /\ UNCHANGED <<wire, got, wrote, reported, ended, waiting, served, granted, recvBuf, active, udp, inConnected, request>>
  BY DEF SockConnected, histVars, serverVars
<1>2. /\ sock["server"] = "listen" /\ served = "none" /\ ~waiting /\ ~inConnected /\ ~active["client"] /\ ~active["server"]
      /\ recvBuf["server"] = <<>> /\ recvBuf["client"] = <<>> /\ wire["server"] = <<>> /\ wire["client"] = <<>>
      /\ got["client"] = <<>> /\ wrote["client"] = 0 /\ pending["client"] = 0 /\ reported["client"] = 0
      /\ granted = "none" /\ unsent["server"] = <<>> /\ request.cmd # "none"
  BY <1>1 DEF Fresh
<1>3. /\ hello \in Seq(Units) /\ Len(hello) = 2
      /\ \A i \in 1..2 : hello[i] = <<"hello", i, "none">> /\ ~IsUser(hello[i])
  BY Messages DEF Kinds, Args
<1>4. \A i \in 1..2 : ~Opens("client", hello[i])
  BY <1>3, Openings DEF Args
<1> HIDE DEF hello
<1>5. /\ sock'["client"] = "connected" /\ sock'["server"] = "backlog"
      /\ step'["client"] = "version" /\ step'["server"] = step["server"]
      /\ unsent'["client"] = hello /\ unsent'["server"] = <<>>
      /\ pending'["client"] = 2 /\ pending'["server"] = pending["server"]
  BY <1>1, <1>2, BothEnds DEF Typed
<1>6. Foreign("client")' <=> Foreign("client")
  BY <1>1 DEF Foreign
<1>7. ~Foreign("client") /\ ~Foreign("client")'
  BY <1>1, <1>6 DEF Fresh
<1>8. Typed'
  <2>1. /\ sock' \in [Ends -> {"listen", "backlog", "idle", "connecting", "connected", "closing"}]
        /\ step' \in [Ends -> {"version", "auth", "request"}]
    BY <1>1 DEF Typed
  <2>2. unsent' \in [Ends -> Seq(Units)]
    BY <1>1, <1>3 DEF Typed
  <2>3. pending' \in [Ends -> Nat]
    BY <1>1, BothEnds, SMTT(30) DEF Typed
  <2> QED
    BY <1>1, <2>1, <2>2, <2>3 DEF Typed
<1>9. Fresh'
  BY <1>1, <1>2, <1>5, <1>7 DEF Fresh
<1>10. OfClient'
  BY <1>1, <1>2, <1>5, <1>7 DEF OfClient
<1>11. OfServer'
  BY <1>1, <1>2, <1>5 DEF OfServer
<1>12. Counted("client")'
  <2>1. /\ reported'["client"] = 0 /\ wrote'["client"] = 0 /\ Len(unsent'["client"]) = 2
        /\ \A i \in 1..2 : ~IsUser(unsent'["client"][i])
    BY <1>1, <1>2, <1>3, <1>5
  <2>2. PendingLimit("client")' = 2
    BY <1>5 DEF PendingLimit
  <2>3. 0 + 2 <= 0 + 6 /\ 2 <= 2 /\ 0 + 2 = 0 + 2 /\ \A i \in 1..2 : ~(i > 2)
    BY SMT
  <2> QED
    BY <1>5, <2>1, <2>2, <2>3 DEF Counted
<1>13. Counted("server")'
  <2>1. /\ pending'["server"] = pending["server"] /\ step'["server"] = step["server"]
        /\ active'["server"] = active["server"] /\ unsent'["server"] = unsent["server"]
        /\ reported'["server"] = reported["server"] /\ wrote'["server"] = wrote["server"]
    BY <1>1, <1>2, <1>5
  <2>2. PendingLimit("server")' = PendingLimit("server")
    BY <2>1 DEF PendingLimit
  <2> QED
    BY <1>2, <1>5, <2>1, <2>2, BothEnds DEF Counted
<1>14. DataStreamIntact'
  BY <1>1, DataKept
<1>15. ToServer'
  <2>1. ServerAt(0, 2)' /\ 0 \in Nat /\ 0 + 0 = 0 /\ 0 + 2 = 2 /\ 0 <= 2 + 1 /\ 2 <= 2 + 1 /\ 2 <= 2
    BY <1>1, <1>2, SMT DEF ServerAt
  <2>2. ClientSent(2)' = 2
    BY <1>5 DEF ClientSent
  <2>3. Flow("client", request'.cmd, hello, 0, 2)
    <3>1. 0 + Len(hello) <= 2 /\ \A i \in 1..Len(hello) : ~Opens("client", hello[i])
      BY <1>3, <1>4, <2>1
    <3> QED
      BY <1>3, <2>1, <3>1, FlowOfNegotiation
  <2>4. /\ Len(recvBuf'["server"]) = 0 /\ Len(wire'["client"]) = 0 /\ Len(unsent'["client"]) = 2
        /\ Flow("client", request'.cmd, recvBuf'["server"], 0, 2)
        /\ Flow("client", request'.cmd, wire'["client"], 0, 2)
        /\ step'["client"] # "auth"
    BY <1>1, <1>2, <1>3, <1>5, Nothing
  <2>5. ToServerFrom(0, 2)'
    BY <1>5, <2>1, <2>2, <2>3, <2>4 DEF ToServerFrom
  <2> QED
    BY <2>1, <2>5 DEF ToServer
<1>16. ToClient'
  <2>1. ClientAt(0, 2)' /\ 0 \in Nat /\ 0 + 0 = 0 /\ ~(0 > 2)
    BY <1>1, <1>2, <1>5, SMT DEF ClientAt
  <2>2. ServerSent(2)' = 0
    BY <1>1, <1>2 DEF ServerSent
  <2>3. ToClientFrom(0, 2)'
    BY <1>1, <1>2, <1>5, <2>1, <2>2, Nothing DEF ToClientFrom
  <2> QED
    BY <2>1, <2>3 DEF ToClient
<1> QED
  BY <1>8, <1>9, <1>10, <1>11, <1>12, <1>13, <1>14, <1>15, <1>16, BothEnds

\* Any data is a sequence of units.
LEMMA DataSequence ==
  ASSUME NEW n \in 0..MaxData
  PROVE  /\ [i \in 1..n |-> Data(i)] \in Seq(Units)
         /\ Len([i \in 1..n |-> Data(i)]) = n
         /\ \A i \in 1..n : [j \in 1..n |-> Data(j)][i] = Data(i)
<1>1. n \in Nat /\ \A i \in 1..n : i \in 1..MaxData
  BY SocksAssumption, SMT
<1>2. [i \in 1..n |-> Data(i)] \in [1..n -> Units]
  BY <1>1, Openings
<1>3. [i \in 1..n |-> Data(i)] \in Seq(Units)
  BY <1>1, <1>2, SeqDef
<1>4. Len([i \in 1..n |-> Data(i)]) \in Nat
      /\ DOMAIN [i \in 1..n |-> Data(i)] = 1..Len([i \in 1..n |-> Data(i)])
  BY <1>3, LenProperties
<1>5. \A l \in Nat : 1..l = 1..n => l = n
  BY <1>1, SMT
<1> QED
  BY <1>3, <1>4, <1>5

\* A foreign client has sent its whole stream at once.
LEMMA ForeignConnectStep ==
  ASSUME IInv, NEW cmd \in Commands, NEW withAuth \in BOOLEAN, NEW n \in 0..MaxData,
         ForeignConnect(cmd, withAuth, n)
  PROVE  IInv'
<1> USE DEF IInv
<1> DEFINE hello == Message("hello", "none")
           auth == IF withAuth THEN Message("auth", "none") ELSE <<>>
           ask == Message("request", cmd)
           data == [i \in 1..n |-> Data(i)]
           all == hello \o auth \o ask \o data
           h == IF withAuth THEN 4 ELSE 2
<1>1. /\ request.cmd = "none"
      /\ request' = [cmd |-> cmd, dest |-> "foreign"]
      /\ sock' = [sock EXCEPT !["client"] = "connected", !["server"] = "backlog"]
      /\ wire' = [wire EXCEPT !["client"] = all]
      /\ UNCHANGED <<unsent, got, wrote, reported, ended, waiting, served, granted, recvBuf, active, udp, step, pending,
                     inConnected>>
  BY DEF ForeignConnect, histVars, serverVars
<1>2. cmd \in Args /\ cmd # "none" /\ h \in {2, 4} /\ h \in Nat
  BY SocksAssumption DEF Args
<1>3. /\ hello \in Seq(Units) /\ Len(hello) = 2 /\ (\A i \in 1..2 : hello[i] = <<"hello", i, "none">>)
      /\ ask \in Seq(Units) /\ Len(ask) = 2 /\ (\A i \in 1..2 : ask[i] = <<"request", i, cmd>>)
      /\ auth \in Seq(Units) /\ Len(auth) = h - 2
      /\ \A i \in 1..Len(auth) : auth[i] = <<"auth", i, "none">> /\ i \in 1..2
  <2>1. /\ hello \in Seq(Units) /\ Len(hello) = 2 /\ (\A i \in 1..2 : hello[i] = <<"hello", i, "none">>)
        /\ ask \in Seq(Units) /\ Len(ask) = 2 /\ (\A i \in 1..2 : ask[i] = <<"request", i, cmd>>)
        /\ Message("auth", "none") \in Seq(Units) /\ Len(Message("auth", "none")) = 2
        /\ (\A i \in 1..2 : Message("auth", "none")[i] = <<"auth", i, "none">>)
    BY <1>2, Messages DEF Kinds, Args
  <2>2. 4 - 2 = 2 /\ 2 - 2 = 0 /\ \A i \in 1..0 : FALSE
    BY SMT
  <2> HIDE DEF hello, ask
  <2>3. CASE withAuth
    BY <2>1, <2>2, <2>3
  <2>4. CASE ~withAuth
    BY <2>1, <2>2, <2>4, Nothing
  <2> QED
    BY <2>3, <2>4
<1>4. data \in Seq(Units) /\ Len(data) = n /\ \A i \in 1..Len(data) : data[i] = Data(i)
  BY DataSequence
<1> HIDE DEF hello, auth, ask, data, h
<1>5. all \in Seq(Units)
  BY <1>3, <1>4, Joined
<1>6. Flow("client", cmd, all, 0, h)
  <2>1. Flow("client", cmd, hello, 0, h)
    <3>1. 0 + 2 <= h /\ 0 \in Nat
      BY <1>2, SMT
    <3>2. \A i \in 1..2 : ~Opens("client", hello[i])
      BY <1>3, Openings DEF Args
    <3> QED
      BY <1>2, <1>3, <3>1, <3>2, FlowOfNegotiation
  <2>2. Flow("client", cmd, auth, 2, h)
    <3>1. 2 + (h - 2) <= h
      BY <1>2, SMT
    <3>2. \A i \in 1..Len(auth) : ~Opens("client", auth[i])
      BY <1>3, Openings DEF Args
    <3> QED
      BY <1>2, <1>3, <3>1, <3>2, FlowOfNegotiation
  <2>3. Flow("client", cmd, ask, h, h)
    <3>1. \A i \in 1..2 : h + i \in {h + 1, h + 2} /\ ~(h + i <= h) /\ ~(h + i > h + 2)
      BY <1>2, SMT
    <3>2. ASSUME NEW i \in 1..2 PROVE Fits("client", cmd, h, h + i, ask[i])
      <4>1. Opens("client", ask[i])
        BY <1>2, <1>3, Openings
      <4>2. ask[i][3] = cmd
        BY <1>3
      <4> QED
        BY <3>1, <4>1, <4>2 DEF Fits
    <3> QED
      BY <1>3, <3>2 DEF Flow
  <2>4. Flow("client", cmd, data, h + 2, h)
    <3>1. h + 2 + 0 = h + 2 /\ \A i \in 1..Len(data) : 0 + i = i
      BY <1>2, <1>4, SMT
    <3>2. \A i \in 1..Len(data) : data[i] = Data(0 + i)
      BY <1>4, <3>1
    <3>3. Flow("client", cmd, data, h + 2 + 0, h)
      BY <1>2, <1>4, <3>2, FlowIsData
    <3> QED
      BY <3>1, <3>3
  <2>5. 0 + 2 = 2 /\ 0 + h = h /\ 0 + (h + 2) = h + 2 /\ 2 + (h - 2) = h /\ 0 \in Nat
    BY <1>2, SMT
  <2>6. hello \o auth \in Seq(Units) /\ Len(hello \o auth) = h /\ Flow("client", cmd, hello \o auth, 0, h)
    <3>0. hello \o auth \in Seq(Units) /\ Len(hello \o auth) = Len(hello) + Len(auth)
      BY <1>3, Joined
    <3>1. hello \o auth \in Seq(Units) /\ Len(hello \o auth) = 2 + (h - 2)
      BY <1>3, <3>0
    <3>2. Flow("client", cmd, auth, 0 + Len(hello), h)
      BY <1>3, <2>2, <2>5
    <3>3. Flow("client", cmd, hello \o auth, 0, h)
      BY <1>2, <1>3, <2>1, <2>5, <3>2, FlowJoined
    <3> QED
      BY <2>5, <3>1, <3>3
  <2>7. hello \o auth \o ask \in Seq(Units) /\ Len(hello \o auth \o ask) = h + 2 /\ Flow("client", cmd, hello \o auth \o ask, 0, h)
    <3>1. hello \o auth \o ask \in Seq(Units) /\ Len(hello \o auth \o ask) = h + 2
      BY <1>3, <2>6, Joined
    <3>2. Flow("client", cmd, ask, 0 + Len(hello \o auth), h)
      BY <2>3, <2>5, <2>6
    <3>3. Flow("client", cmd, hello \o auth \o ask, 0, h)
      BY <1>2, <1>3, <2>5, <2>6, <3>2, FlowJoined
    <3> QED
      BY <3>1, <3>3
  <2>8. Flow("client", cmd, data, 0 + Len(hello \o auth \o ask), h)
    BY <2>4, <2>5, <2>7
  <2> QED
    BY <1>2, <1>4, <2>5, <2>7, <2>8, FlowJoined
<1> HIDE DEF all
<1>7. /\ sock["server"] = "listen" /\ served = "none" /\ ~waiting /\ ~inConnected /\ ~active["client"] /\ ~active["server"]
      /\ recvBuf["server"] = <<>> /\ recvBuf["client"] = <<>> /\ wire["server"] = <<>>
      /\ got["client"] = <<>> /\ wrote["client"] = 0 /\ pending["client"] = 0 /\ reported["client"] = 0
      /\ granted = "none" /\ unsent["server"] = <<>> /\ unsent["client"] = <<>> /\ sock["client"] = "idle"
  BY <1>1 DEF Fresh
<1>8. /\ sock'["client"] = "connected" /\ sock'["server"] = "backlog"
      /\ wire'["client"] = all /\ wire'["server"] = <<>>
      /\ request'.cmd = cmd /\ request'.dest = "foreign" /\ Foreign("client")' /\ ~Foreign("server")'
  BY <1>1, <1>7, BothEnds DEF Typed, Foreign
<1>9. Typed'
  <2>1. /\ sock' \in [Ends -> {"listen", "backlog", "idle", "connecting", "connected", "closing"}]
        /\ wire' \in [Ends -> Seq(Units)]
    BY <1>1, <1>5 DEF Typed
  <2>2. request' \in [cmd: Commands \cup {"none"}, dest: Dests \cup {"none"}]
    BY <1>1 DEF ForeignConnect
  <2> QED
    BY <1>1, <2>1, <2>2 DEF Typed
<1>10. Fresh'
  BY <1>1, <1>2, <1>7, <1>8 DEF Fresh
<1>11. OfClient'
  BY <1>1, <1>7, <1>8 DEF OfClient
<1>12. OfServer'
  BY <1>1, <1>7, <1>8 DEF OfServer
<1>13. Counted("client")' /\ Counted("server")'
  <2>1. /\ PendingLimit("client")' = PendingLimit("client") /\ PendingLimit("server")' = PendingLimit("server")
    BY <1>1 DEF PendingLimit
  <2> QED
    BY <1>1, <1>7, <1>8, <2>1, BothEnds DEF Counted
<1>14. DataStreamIntact'
  BY <1>1, DataKept
<1>15. ToServer'
  <2>1. ServerAt(0, h)' /\ 0 \in Nat /\ 0 + 0 = 0
    BY <1>1, <1>7, SMT DEF ServerAt
  <2>2. ToServerFrom(0, h)'
    BY <1>1, <1>6, <1>7, <1>8, <2>1, Nothing DEF ToServerFrom
  <2> QED
    BY <1>2, <2>1, <2>2 DEF ToServer
<1>16. ToClient'
  BY <1>8 DEF ToClient
<1> QED
  BY <1>9, <1>10, <1>11, <1>12, <1>13, <1>14, <1>15, <1>16, BothEnds

\* connectionReady() starts to wait for the program to serve it.
LEMMA ConnectionReadyStep ==
  ASSUME IInv, ConnectionReady
  PROVE  IInv'
<1> USE DEF IInv
<1>1. /\ sock["server"] = "backlog"
      /\ sock' = [sock EXCEPT !["server"] = "connected"]
      /\ served' = "queued" /\ waiting' = TRUE
      /\ UNCHANGED <<unsent, wire, got, wrote, reported, ended, granted, recvBuf, active, udp, step, pending, inConnected,
                     request>>
  BY DEF ConnectionReady, histVars
<1>2. /\ served = "none" /\ ~waiting /\ ~inConnected /\ ~active["client"] /\ ~active["server"] /\ got["server"] = <<>>
      /\ wrote["server"] = 0 /\ granted = "none" /\ reported["server"] = 0 /\ pending["server"] = 0 /\ unsent["server"] = <<>>
  BY <1>1 DEF Fresh
<1>3. sock'["server"] = "connected" /\ sock'["client"] = sock["client"]
  BY <1>1, BothEnds DEF Typed
<1>4. Typed'
  BY <1>1 DEF Typed
<1>5. Fresh'
  BY <1>1, <1>2, <1>3 DEF Fresh, Foreign
<1>6. OfClient' /\ OfServer'
  BY <1>1, <1>2, <1>3 DEF OfClient, OfServer, Foreign
<1>7. Counted("client")'
  BY <1>1, <1>3, BothEnds DEF Counted, PendingLimit, Foreign
<1>8. Counted("server")'
  <2>1. PendingLimit("server")' = PendingLimit("server")
    BY <1>1 DEF PendingLimit
  <2>2. 0 <= 0 /\ 0 + 0 = 0 + 0 /\ \A i \in 1..0 : FALSE
    BY SMT
  <2> QED
    BY <1>1, <1>2, <1>3, <2>1, <2>2, BothEnds, Nothing DEF Counted
<1>9. DataStreamIntact'
  BY <1>1, DataKept
<1>10. ToServer'
  <2>1. ASSUME NEW h, NEW o, ToServerFrom(o, h) PROVE ToServerFrom(o, h)'
    <3>1. ServerAt(o, h) => ServerAt(o, h)'
      BY <1>1, <1>2 DEF ServerAt
    <3>2. ClientSent(h)' = ClientSent(h)
      BY <1>1 DEF ClientSent
    <3> QED
      BY <1>1, <1>3, <2>1, <3>1, <3>2 DEF ToServerFrom, Foreign
  <2> QED
    BY <1>1, <2>1 DEF ToServer
<1>11. ToClient'
  <2>1. ASSUME NEW h, NEW p, ToClientFrom(p, h) PROVE ToClientFrom(p, h)'
    <3>1. ClientAt(p, h) => ClientAt(p, h)'
      BY <1>1 DEF ClientAt
    <3>2. ServerSent(h)' = ServerSent(h)
      BY <1>1, <1>2 DEF ServerSent
    <3> QED
      BY <1>1, <1>2, <1>3, <2>1, <3>1, <3>2 DEF ToClientFrom
  <2> QED
    BY <1>1, <1>3, <2>1 DEF ToClient, Foreign
<1> QED
  BY <1>4, <1>5, <1>6, <1>7, <1>8, <1>9, <1>10, <1>11, BothEnds

\* takeIncoming() changes nothing of the streams.
LEMMA TakeIncomingStep ==
  ASSUME IInv, TakeIncoming
  PROVE  IInv'
<1> USE DEF IInv
<1>1. /\ served = "queued" /\ served' = "taken"
      /\ UNCHANGED <<sock, unsent, wire, got, wrote, reported, ended, waiting, granted, recvBuf, active, udp, step, pending,
                     inConnected, request>>
  BY DEF TakeIncoming, sockVars, histVars
<1>2. Typed' /\ Fresh' /\ OfClient' /\ OfServer'
  BY <1>1 DEF Typed, Fresh, OfClient, OfServer, Foreign
<1>3. ASSUME NEW e \in Ends PROVE Counted(e)'
  BY <1>1 DEF Counted, PendingLimit, Foreign
<1>4. DataStreamIntact'
  BY <1>1, DataKept
<1>5. ToServer'
  <2>1. ASSUME NEW h, NEW o, ToServerFrom(o, h) PROVE ToServerFrom(o, h)'
    <3>1. ServerAt(o, h)' <=> ServerAt(o, h)
      BY <1>1 DEF ServerAt
    <3>2. ClientSent(h)' = ClientSent(h)
      BY <1>1 DEF ClientSent
    <3> QED
      BY <1>1, <2>1, <3>1, <3>2 DEF ToServerFrom, Foreign
  <2> QED
    BY <1>1, <2>1 DEF ToServer
<1>6. ToClient'
  <2>1. ASSUME NEW h, NEW p, ToClientFrom(p, h) PROVE ToClientFrom(p, h)'
    <3>1. ClientAt(p, h) => ClientAt(p, h)'
      BY <1>1 DEF ClientAt
    <3>2. ServerSent(h)' = ServerSent(h)
      BY <1>1 DEF ServerSent
    <3> QED
      BY <1>1, <2>1, <3>1, <3>2 DEF ToClientFrom
  <2> QED
    BY <1>1, <2>1 DEF ToClient, Foreign
<1> QED
  BY <1>2, <1>3, <1>4, <1>5, <1>6

-----------------------------------------------------------------------------
(* One end stops.                                                          *)

\* The counts of an end whose socket is closed, with nothing left to send.
LEMMA CountedStops ==
  ASSUME NEW e \in Ends, Typed, Counted(e), sock'[e] \in {"idle", "closing"},
         unsent'[e] \in {unsent[e], <<>>}, sock'[e] = "idle" => unsent'[e] = <<>>,
         reported'[e] = reported[e], wrote'[e] = wrote[e],
         \/ pending'[e] = 0
         \/ pending'[e] = pending[e] /\ step'[e] = step[e] /\ active'[e] = active[e]
  PROVE  Counted(e)'
<1>1. reported[e] \in Nat /\ wrote[e] \in Nat /\ unsent[e] \in Seq(Units) /\ Len(unsent[e]) \in Nat
  BY SocksAssumption, LenProperties DEF Typed
<1>2. reported[e] + Len(unsent[e]) <= wrote[e] + 6
  BY DEF Counted
<1>3. reported[e] + 0 <= wrote[e] + 6
  BY <1>1, <1>2, SMT
<1>4. reported'[e] + Len(unsent'[e]) <= wrote'[e] + 6
  BY <1>2, <1>3, Nothing
<1>5. pending'[e] <= PendingLimit(e)'
  <2>1. CASE pending'[e] = 0
    BY <2>1, SMT DEF PendingLimit
  <2>2. CASE pending'[e] = pending[e] /\ step'[e] = step[e] /\ active'[e] = active[e]
    BY <2>2 DEF Counted, PendingLimit
  <2> QED
    BY <2>1, <2>2
<1> QED
  BY <1>4, <1>5 DEF Counted

\* The client is gone.
LEMMA ClientGone ==
  ASSUME IInv, KeepsServer, Typed',
         sock'["client"] \in {"idle", "closing"},
         sock'["client"] = "idle" => unsent'["client"] = <<>>,
         sock'["client"] = "closing" => sock["client"] \in {"connected", "closing"},
         unsent'["client"] \in {unsent["client"], <<>>},
         wire'["client"] = wire["client"], wire'["server"] \in {wire["server"], <<>>},
         \/ /\ recvBuf'["client"] = recvBuf["client"] /\ active'["client"] = active["client"]
            /\ inConnected' = inConnected /\ pending'["client"] = pending["client"]
         \/ /\ recvBuf'["client"] = <<>> /\ ~active'["client"]
            /\ (inConnected' => inConnected) /\ pending'["client"] = 0,
         step' = step, got' = got, wrote' = wrote, reported' = reported
  PROVE  IInv'
<1> USE DEF IInv
<1>1. pending'["client"] \in {pending["client"], 0}
  OBVIOUS
<1>2. sock["server"] = "listen" => sock'["client"] = "idle"
  BY DEF Fresh
<1>3. sock["server"] = "listen" \/ Foreign("client") => pending'["client"] = 0 /\ unsent'["client"] = <<>>
  BY <1>1 DEF Fresh, OfClient
<1>4. Fresh' /\ OfClient' /\ OfServer' /\ ToClient' /\ Counted("server")'
  BY <1>2, <1>3, ClientStops
<1>5. ToServer'
  BY ToServerKept
<1>6. Counted("client")'
  BY BothEnds, CountedStops
<1>7. DataStreamIntact'
  BY DataKept
<1> QED
  BY <1>4, <1>5, <1>6, <1>7, BothEnds

\* The server is gone.
LEMMA ServerGone ==
  ASSUME IInv, KeepsClient, Typed',
         sock["server"] \notin {"listen", "backlog"},
         sock'["server"] \in {"idle", "closing"},
         sock'["server"] = "idle" => unsent'["server"] = <<>>,
         unsent'["server"] \in {unsent["server"], <<>>},
         wire'["server"] = wire["server"],
         \/ /\ recvBuf'["server"] = recvBuf["server"] /\ active'["server"] = active["server"]
            /\ udp'["server"] = udp["server"] /\ waiting' = waiting /\ pending'["server"] = pending["server"]
         \/ /\ recvBuf'["server"] = <<>> /\ ~active'["server"] /\ ~udp'["server"]
            /\ ~waiting' /\ pending'["server"] = 0,
         step' = step, got' = got, wrote' = wrote, reported' = reported, served' = served, granted' = granted
  PROVE  IInv'
<1> USE DEF IInv
<1>1. pending'["server"] \in {pending["server"], 0} /\ step'["server"] \in {"version", "auth", "request"}
  BY BothEnds DEF Typed
<1>2. served # "serving" => pending'["server"] = 0 /\ reported'["server"] = 0 /\ unsent'["server"] = <<>>
  BY <1>1 DEF Fresh
<1>3. Fresh' /\ OfClient' /\ OfServer' /\ ToServer' /\ Counted("client")'
  BY <1>1, <1>2, ServerStops
<1>4. ToClient'
  BY ToClientKept
<1>5. Counted("server")'
  BY BothEnds, CountedStops
<1>6. DataStreamIntact'
  BY DataKept
<1> QED
  BY <1>3, <1>4, <1>5, <1>6, BothEnds

\* BSocket::close() of an end with nothing to send.
LEMMA NothingWritten ==
  ASSUME IInv, NEW e \in Ends, ~(sock[e] = "connected" /\ unsent[e] # <<>>), sock[e] # "closing"
  PROVE  Written(e, <<>>) = <<>>
<1>1. unsent[e] = <<>>
  BY DEF IInv, Counted
<1>2. <<>> \o <<>> = <<>>
  BY ConcatEmptySeq, EmptySeq
<1> QED
  BY <1>1, <1>2 DEF Written

\* close(), at once or when the socket has sent what it has.
LEMMA CloseStep ==
  ASSUME IInv, NEW e \in Ends, Close(e)
  PROVE  IInv'
<1> USE DEF IInv
<1>1. /\ sock[e] \in {"connecting", "connected"}
      /\ UNCHANGED <<wire, got, wrote, reported, served, granted, step, inConnected, request>>
  BY DEF Close
<1>2. CASE sock[e] = "connected" /\ unsent[e] # <<>>
  <2>1. /\ sock' = [sock EXCEPT ![e] = "closing"]
        /\ UNCHANGED <<unsent, recvBuf, active, udp, pending, ended, waiting>>
    BY <1>2 DEF Close
  <2>2. Typed'
    BY <1>1, <2>1 DEF Typed
  <2>3. CASE e = "client"
    <3>1. sock'["client"] = "closing" /\ sock'["server"] = sock["server"]
      BY <2>1, <2>3, BothEnds DEF Typed
    <3>2. KeepsServer
      BY <1>1, <2>1, <3>1 DEF KeepsServer, Keeps
    <3> QED
      BY <1>1, <1>2, <2>1, <2>2, <2>3, <3>1, <3>2, ClientGone
  <2>4. CASE e = "server"
    <3>1. sock'["server"] = "closing" /\ sock'["client"] = sock["client"]
      BY <2>1, <2>4, BothEnds DEF Typed
    <3>2. KeepsClient
      BY <1>1, <2>1, <3>1 DEF KeepsClient, Keeps
    <3> QED
      BY <1>1, <1>2, <2>1, <2>2, <2>4, <3>1, <3>2, ServerGone
  <2> QED
    BY <2>3, <2>4, BothEnds
<1>3. CASE ~(sock[e] = "connected" /\ unsent[e] # <<>>)
  <2>1. Written(e, <<>>) = <<>>
    BY <1>1, <1>3, NothingWritten
  <2>2. /\ sock' = [sock EXCEPT ![e] = "idle"]
        /\ unsent' = [unsent EXCEPT ![e] = <<>>]
        /\ recvBuf' = [recvBuf EXCEPT ![e] = <<>>]
        /\ active' = [active EXCEPT ![e] = FALSE]
        /\ udp' = [udp EXCEPT ![e] = FALSE]
        /\ pending' = [pending EXCEPT ![e] = 0]
        /\ waiting' = (waiting /\ e # "server")
        /\ ended' = [ended EXCEPT ![e] = "closed"]
    BY <1>3, <2>1 DEF Close, ResetAfter, Notify
  <2>3. Typed'
    BY <1>1, <2>2, Nothing DEF Typed
  <2>4. CASE e = "client"
    <3>1. /\ sock'["client"] = "idle" /\ unsent'["client"] = <<>> /\ recvBuf'["client"] = <<>>
          /\ ~active'["client"] /\ pending'["client"] = 0
      BY <2>2, <2>4, BothEnds DEF Typed
    <3>2. KeepsServer
      BY <1>1, <2>2, <2>4, BothEnds DEF KeepsServer, Keeps, Typed
    <3> QED
      BY <1>1, <2>3, <3>1, <3>2, ClientGone
  <2>5. CASE e = "server"
    <3>1. /\ sock'["server"] = "idle" /\ unsent'["server"] = <<>> /\ recvBuf'["server"] = <<>>
          /\ ~active'["server"] /\ ~udp'["server"] /\ pending'["server"] = 0 /\ ~waiting'
      BY <2>2, <2>5, BothEnds, ZenonT(60) DEF Typed
    <3>2. KeepsClient
      BY <1>1, <2>2, <2>5, BothEnds DEF KeepsClient, Keeps, Typed
    <3> QED
      BY <1>1, <2>3, <2>5, <3>1, <3>2, ServerGone
  <2> QED
    BY <2>4, <2>5, BothEnds
<1> QED
  BY <1>2, <1>3

\* The object is deleted in whatever state it is.
LEMMA DeleteStep ==
  ASSUME IInv, NEW e \in Ends, Delete(e)
  PROVE  IInv'
<1> USE DEF IInv
<1>1. /\ UNCHANGED <<wire, got, wrote, reported, served, granted, step, request>>
      /\ sock' = [sock EXCEPT ![e] = "idle"]
      /\ unsent' = [unsent EXCEPT ![e] = <<>>]
      /\ recvBuf' = [recvBuf EXCEPT ![e] = <<>>]
      /\ active' = [active EXCEPT ![e] = FALSE]
      /\ udp' = [udp EXCEPT ![e] = FALSE]
      /\ pending' = [pending EXCEPT ![e] = 0]
      /\ inConnected' = (inConnected /\ e # "client")
      /\ waiting' = (waiting /\ e # "server")
      /\ ended' = [ended EXCEPT ![e] = "closed"]
  BY DEF Delete, Notify
<1>2. Typed'
  BY <1>1, Nothing DEF Typed
<1>3. CASE e = "client"
  <2>1. /\ sock'["client"] = "idle" /\ unsent'["client"] = <<>> /\ recvBuf'["client"] = <<>>
        /\ ~active'["client"] /\ pending'["client"] = 0
    BY <1>1, <1>3, BothEnds DEF Typed
  <2>2. KeepsServer
    BY <1>1, <1>3, BothEnds DEF KeepsServer, Keeps, Typed
  <2> QED
    BY <1>1, <1>2, <1>3, <2>1, <2>2, ClientGone
<1>4. CASE e = "server"
  <2>1. /\ sock'["server"] = "idle" /\ unsent'["server"] = <<>> /\ recvBuf'["server"] = <<>>
        /\ ~active'["server"] /\ ~udp'["server"] /\ pending'["server"] = 0 /\ ~waiting'
    BY <1>1, <1>4, BothEnds, ZenonT(60) DEF Typed
  <2>2. KeepsClient
    BY <1>1, <1>4, BothEnds DEF KeepsClient, Keeps, Typed
  <2>3. sock["server"] \notin {"listen", "backlog"}
    BY <1>4 DEF Delete, Alive, Fresh
  <2> QED
    BY <1>1, <1>2, <2>1, <2>2, <2>3, ServerGone
<1> QED
  BY <1>3, <1>4, BothEnds

\* The socket of an end is gone, and perhaps what was on its way to it.
LEMMA ConnectionLostStep ==
  ASSUME IInv, NEW e \in Ends, NEW isError \in BOOLEAN, ConnectionLost(e, isError),
         sock[e] \in {"connecting", "connected", "closing"}, wire' \in {wire, [wire EXCEPT ![Peer(e)] = <<>>]}
  PROVE  IInv'
<1> USE DEF IInv
<1>1. /\ UNCHANGED <<got, wrote, reported, served, granted, step, inConnected, request>>
      /\ sock' = [sock EXCEPT ![e] = "idle"]
      /\ unsent' = [unsent EXCEPT ![e] = <<>>]
      /\ ended' = [ended EXCEPT ![e] = IF active[e] /\ ~isError THEN "closed" ELSE "error"]
  BY DEF ConnectionLost, Notify
<1>2. /\ sock'[e] = "idle" /\ unsent'[e] = <<>> /\ sock'[Peer(e)] = sock[Peer(e)] /\ unsent'[Peer(e)] = unsent[Peer(e)]
      /\ wire'[e] = wire[e] /\ wire'[Peer(e)] \in {wire[Peer(e)], <<>>}
      /\ wire' \in [Ends -> Seq(Units)]
  <2>1. Peer(e) \in Ends /\ Peer(e) # e
    BY BothEnds
  <2>2. sock'[e] = "idle" /\ unsent'[e] = <<>> /\ sock'[Peer(e)] = sock[Peer(e)] /\ unsent'[Peer(e)] = unsent[Peer(e)]
    BY <1>1, <2>1 DEF Typed
  <2>3. CASE wire' = wire
    BY <2>2, <2>3 DEF Typed
  <2>4. CASE wire' = [wire EXCEPT ![Peer(e)] = <<>>]
    <3>1. wire'[e] = wire[e] /\ wire'[Peer(e)] = <<>>
      BY <2>1, <2>4 DEF Typed
    <3>2. wire' \in [Ends -> Seq(Units)]
      BY <2>4, Nothing DEF Typed
    <3> QED
      BY <2>2, <3>1, <3>2
  <2> QED
    BY <2>3, <2>4
<1>3. CASE active[e] \/ isError
  <2>1. /\ recvBuf' = [recvBuf EXCEPT ![e] = <<>>]
        /\ active' = [active EXCEPT ![e] = FALSE]
        /\ udp' = [udp EXCEPT ![e] = FALSE]
        /\ pending' = [pending EXCEPT ![e] = 0]
        /\ waiting' = (waiting /\ e # "server")
    BY <1>3 DEF ConnectionLost
  <2>2. Typed'
    BY <1>1, <1>2, <2>1, Nothing DEF Typed
  <2>3. CASE e = "client"
    <3>1. recvBuf'["client"] = <<>> /\ ~active'["client"] /\ pending'["client"] = 0
      BY <2>1, <2>3, BothEnds DEF Typed
    <3>2. KeepsServer
      BY <1>1, <1>2, <2>1, <2>3, BothEnds DEF KeepsServer, Keeps, Typed
    <3> QED
      BY <1>1, <1>2, <2>2, <2>3, <3>1, <3>2, BothEnds, ClientGone
  <2>4. CASE e = "server"
    <3>1. /\ recvBuf'["server"] = <<>> /\ ~active'["server"] /\ ~udp'["server"]
          /\ pending'["server"] = 0 /\ ~waiting'
      BY <2>1, <2>4, BothEnds DEF Typed
    <3>2. KeepsClient
      BY <1>1, <1>2, <2>1, <2>4, BothEnds DEF KeepsClient, Keeps, Typed
    <3> QED
      BY <1>1, <1>2, <2>2, <2>4, <3>1, <3>2, ServerGone
  <2> QED
    BY <2>3, <2>4, BothEnds
<1>4. CASE ~(active[e] \/ isError)
  <2>1. UNCHANGED <<recvBuf, active, udp, pending, waiting>>
    BY <1>4 DEF ConnectionLost
  <2>2. Typed'
    BY <1>1, <1>2, <2>1, Nothing DEF Typed
  <2>3. CASE e = "client"
    <3>1. KeepsServer
      BY <1>1, <1>2, <2>1, <2>3, BothEnds DEF KeepsServer, Keeps
    <3> QED
      BY <1>1, <1>2, <2>1, <2>2, <2>3, <3>1, BothEnds, ClientGone
  <2>4. CASE e = "server"
    <3>1. KeepsClient
      BY <1>1, <1>2, <2>1, <2>4, BothEnds DEF KeepsClient, Keeps
    <3> QED
      BY <1>1, <1>2, <2>1, <2>2, <2>4, <3>1, ServerGone
  <2> QED
    BY <2>3, <2>4, BothEnds
<1> QED
  BY <1>3, <1>4

\* What arrives at an end that does not read, and is lost.
LEMMA DiscardStep ==
  ASSUME IInv, NEW e \in Ends, Discard(e)
  PROVE  IInv'
<1> USE DEF IInv
<1>1. /\ sock[e] \in {"idle", "closing"} \/ Foreign(e)
      /\ wire' = [wire EXCEPT ![Peer(e)] = <<>>]
      /\ UNCHANGED <<sock, unsent, got, wrote, reported, ended, waiting, served, granted, recvBuf, active, udp, step,
                     pending, inConnected, request>>
  BY DEF Discard, histVars, serverVars
<1>2. Typed'
  BY <1>1, Nothing DEF Typed
<1>3. \A d \in Ends : wire'[d] \in {wire[d], <<>>}
  BY <1>1, BothEnds DEF Typed
<1>4. Fresh' /\ OfClient' /\ OfServer'
  <2>1. \A d \in Ends : wire[d] = <<>> => wire'[d] = <<>>
    BY <1>3
  <2>2. Fresh'
    BY <1>1, <2>1, BothEnds DEF Fresh, Foreign
  <2> QED
    BY <1>1, <2>2 DEF OfClient, OfServer, Foreign
<1>5. ASSUME NEW d \in Ends PROVE Counted(d)'
  BY <1>1 DEF Counted, PendingLimit, Foreign
<1>6. DataStreamIntact'
  BY <1>1, DataKept
<1>7. CASE e = "client"
  <2>1. wire'["client"] = wire["client"]
    BY <1>1, <1>7, BothEnds DEF Typed
  <2>2. KeepsServer
    BY <1>1 DEF KeepsServer, Keeps
  <2>3. ToClient'
    BY <1>1, <1>7 DEF ToClient, Foreign
  <2>4. ToServer'
    <3>1. ASSUME NEW h, NEW o, ToServerFrom(o, h) PROVE ToServerFrom(o, h)'
      <4>1. ServerAt(o, h)' <=> ServerAt(o, h)
        BY <1>1 DEF ServerAt
      <4>2. ClientSent(h)' = ClientSent(h)
        BY <1>1 DEF ClientSent
      <4> QED
        BY <1>1, <2>1, <3>1, <4>1, <4>2 DEF ToServerFrom, Foreign
    <3> QED
      BY <1>1, <3>1 DEF ToServer
  <2> QED
    BY <1>2, <1>4, <1>5, <1>6, <2>3, <2>4
<1>8. CASE e = "server"
  <2>1. wire'["server"] = wire["server"]
    BY <1>1, <1>8, BothEnds DEF Typed
  <2>2. sock["server"] \in {"idle", "closing"}
    BY <1>1, <1>8 DEF Foreign
  <2>3. ToClient'
    <3>1. KeepsClient
      BY <1>1 DEF KeepsClient, Keeps
    <3> QED
      BY <1>1, <2>1, <2>2, <3>1, ToClientKept
  <2>4. ToServer'
    <3>1. ASSUME NEW h, NEW o, ToServerFrom(o, h) PROVE ToServerFrom(o, h)'
      <4>1. ServerAt(o, h)' <=> ServerAt(o, h)
        BY <1>1 DEF ServerAt
      <4> QED
        BY <1>1, <2>2, <3>1, <4>1 DEF ToServerFrom
    <3> QED
      BY <1>1, <3>1 DEF ToServer
  <2> QED
    BY <1>2, <1>4, <1>5, <1>6, <2>3, <2>4
<1> QED
  BY <1>7, <1>8, BothEnds

-----------------------------------------------------------------------------
(* What is sent.                                                           *)

\* Units of the client go out; it may be for the last time.
LEMMA ToServerMoves ==
  ASSUME IInv, KeepsServer, NEW n \in 0..Len(unsent["client"]),
         wire'["client"] = wire["client"] \o SubSeq(unsent["client"], 1, n),
         unsent'["client"] = Drop(unsent["client"], n),
         sock'["client"] \in {sock["client"], "idle"}, step' = step, wrote' = wrote
  PROVE  ToServer'
<1> SUFFICES ASSUME ~udp["server"] PROVE ToServer'
  BY DEF ToServer, KeepsServer, Keeps
<1>1. PICK h \in {2, 4}, o \in Nat : ToServerFrom(o, h)
  BY DEF IInv, ToServer
<1>2. ServerAt(o, h)' <=> ServerAt(o, h)
  BY DEF ServerAt, KeepsServer, Keeps
<1>3. ClientSent(h)' = ClientSent(h)
  BY DEF ClientSent, KeepsServer, Keeps
<1> DEFINE r == recvBuf["server"] w == wire["client"] u == unsent["client"] o1 == o + Len(r)
<1>4. r \in Seq(Units) /\ w \in Seq(Units) /\ u \in Seq(Units)
  BY BothEnds DEF IInv, Typed
<1>5. Len(r) \in Nat /\ Len(w) \in Nat /\ Len(u) \in Nat /\ n \in Nat /\ h \in Nat
  BY <1>4, LenProperties, SMT
<1>6. n \in 0..Len(u) /\ wire'["client"] = w \o SubSeq(u, 1, n) /\ unsent'["client"] = Drop(u, n) /\ recvBuf'["server"] = r
  BY DEF KeepsServer, Keeps
<1>7. o1 \in Nat
  BY <1>5, Small
<1>8. /\ ServerAt(o, h)
      /\ request.dest = "ip6" => o1 <= h + 1
      /\ Flow("client", request.cmd, r, o, h)
      /\ sock["server"] \in {"backlog", "connected"} =>
           /\ Flow("client", request.cmd, w, o1, h)
           /\ Flow("client", request.cmd, u, o1 + Len(w), h)
           /\ request.dest = "ip6" => o1 + Len(w) + Len(u) <= h + 1
           /\ sock["client"] = "connected" /\ ~Foreign("client") =>
                /\ o1 + Len(w) + Len(u) = ClientSent(h)
                /\ step["client"] = "auth" => h = 4
  BY <1>1 DEF ToServerFrom
<1> HIDE DEF r, w, u, o1
<1>9. /\ Len(w \o SubSeq(u, 1, n)) = Len(w) + n /\ Len(Drop(u, n)) = Len(u) - n
  <2>1. SubSeq(u, 1, n) \in Seq(Units) /\ Len(SubSeq(u, 1, n)) = n /\ Len(Drop(u, n)) = Len(u) - n
    BY <1>4, <1>6, Parts
  <2>2. Len(w \o SubSeq(u, 1, n)) = Len(w) + Len(SubSeq(u, 1, n))
    BY <1>4, <2>1, Joined
  <2> QED
    BY <2>1, <2>2
<1>10. o1 + (Len(w) + n) + (Len(u) - n) = o1 + Len(w) + Len(u)
  BY <1>5, <1>7, SMT
<1>11. sock["server"] \in {"backlog", "connected"} =>
         /\ Flow("client", request.cmd, wire'["client"], o1, h)
         /\ Flow("client", request.cmd, unsent'["client"], o1 + Len(wire'["client"]), h)
  <2> SUFFICES ASSUME sock["server"] \in {"backlog", "connected"}
               PROVE  /\ Flow("client", request.cmd, wire'["client"], o1, h)
                      /\ Flow("client", request.cmd, unsent'["client"], o1 + Len(wire'["client"]), h)
    OBVIOUS
  <2>1. Flow("client", request.cmd, w, o1, h) /\ Flow("client", request.cmd, u, o1 + Len(w), h)
    BY <1>8
  <2>2. /\ Flow("client", request.cmd, w \o SubSeq(u, 1, n), o1, h)
        /\ Flow("client", request.cmd, Drop(u, n), o1 + Len(w \o SubSeq(u, 1, n)), h)
    BY <1>4, <1>5, <1>6, <1>7, <2>1, FlowMoved
  <2> QED
    BY <1>6, <2>2
<1>12. o1 + Len(wire'["client"]) + Len(unsent'["client"]) = o1 + Len(w) + Len(u)
  BY <1>6, <1>9, <1>10
<1>13. /\ sock'["server"] = sock["server"] /\ request' = request /\ recvBuf'["server"] = r
       /\ (Foreign("client")' <=> Foreign("client"))
       /\ (sock'["client"] = "connected" => sock["client"] = "connected")
  BY <1>6 DEF KeepsServer, Keeps, Foreign
<1>14. o + Len(recvBuf'["server"]) = o1
  BY <1>13 DEF o1
<1>15. ToServerFrom(o, h)'
  BY <1>2, <1>3, <1>8, <1>11, <1>12, <1>13, <1>14 DEF ToServerFrom
<1> QED
  BY <1>15 DEF ToServer

\* The same of the other direction.
LEMMA ToClientMoves ==
  ASSUME IInv, KeepsClient, NEW n \in 0..Len(unsent["server"]),
         wire'["server"] = wire["server"] \o SubSeq(unsent["server"], 1, n),
         unsent'["server"] = Drop(unsent["server"], n),
         \/ sock'["server"] = sock["server"] /\ active'["server"] = active["server"]
         \/ sock'["server"] = "idle",
         step' = step, wrote' = wrote, served' = served, granted' = granted
  PROVE  ToClient'
<1>1. Foreign("client")' <=> Foreign("client")
  BY DEF Foreign, KeepsClient, Keeps
<1> SUFFICES ASSUME sock["client"] = "connected", ~Foreign("client"),
                    active["client"] /\ udp["client"] => inConnected
             PROVE  \E h \in {2, 4, 6}, p \in Nat : ToClientFrom(p, h)'
  BY <1>1 DEF ToClient, KeepsClient, Keeps
<1>2. PICK h \in {2, 4, 6}, p \in Nat : ToClientFrom(p, h)
  BY DEF IInv, ToClient
<1>3. ClientAt(p, h)' <=> ClientAt(p, h)
  BY DEF ClientAt, KeepsClient, Keeps
<1> DEFINE r == recvBuf["client"] w == wire["server"] u == unsent["server"] p1 == p + Len(r)
<1>4. r \in Seq(Units) /\ w \in Seq(Units) /\ u \in Seq(Units)
  BY BothEnds DEF IInv, Typed
<1>5. Len(r) \in Nat /\ Len(w) \in Nat /\ Len(u) \in Nat /\ n \in Nat /\ h \in Nat
  BY <1>4, LenProperties, SMT
<1>6. n \in 0..Len(u) /\ wire'["server"] = w \o SubSeq(u, 1, n) /\ unsent'["server"] = Drop(u, n) /\ recvBuf'["client"] = r
  BY DEF KeepsClient, Keeps
<1>7. p1 \in Nat
  BY <1>5, Small
<1>8. /\ ClientAt(p, h)
      /\ Flow("server", request.cmd, r, p, h)
      /\ Flow("server", request.cmd, w, p1, h)
      /\ Flow("server", request.cmd, u, p1 + Len(w), h)
      /\ p1 + Len(w) + Len(u) > h => granted = request.cmd /\ granted # "none"
      /\ sock["server"] \in {"backlog", "connected"} =>
           /\ p1 + Len(w) + Len(u) = ServerSent(h)
           /\ h # 6
           /\ served = "serving" /\ step["server"] = "auth" => h = 4
  BY <1>2 DEF ToClientFrom
<1> HIDE DEF r, w, u, p1
<1>9. /\ Len(w \o SubSeq(u, 1, n)) = Len(w) + n /\ Len(Drop(u, n)) = Len(u) - n
  <2>1. SubSeq(u, 1, n) \in Seq(Units) /\ Len(SubSeq(u, 1, n)) = n /\ Len(Drop(u, n)) = Len(u) - n
    BY <1>4, <1>6, Parts
  <2>2. Len(w \o SubSeq(u, 1, n)) = Len(w) + Len(SubSeq(u, 1, n))
    BY <1>4, <2>1, Joined
  <2> QED
    BY <2>1, <2>2
<1>10. p1 + (Len(w) + n) + (Len(u) - n) = p1 + Len(w) + Len(u)
  BY <1>5, <1>7, SMT
<1>11. /\ Flow("server", request.cmd, wire'["server"], p1, h)
       /\ Flow("server", request.cmd, unsent'["server"], p1 + Len(wire'["server"]), h)
  <2>1. Flow("server", request.cmd, w, p1, h) /\ Flow("server", request.cmd, u, p1 + Len(w), h)
    BY <1>8
  <2>2. /\ Flow("server", request.cmd, w \o SubSeq(u, 1, n), p1, h)
        /\ Flow("server", request.cmd, Drop(u, n), p1 + Len(w \o SubSeq(u, 1, n)), h)
    BY <1>4, <1>5, <1>6, <1>7, <2>1, FlowMoved
  <2> QED
    BY <1>6, <2>2
<1>12. p1 + Len(wire'["server"]) + Len(unsent'["server"]) = p1 + Len(w) + Len(u)
  BY <1>6, <1>9, <1>10
<1>13. /\ request' = request /\ recvBuf'["client"] = r
       /\ sock'["server"] \in {"backlog", "connected"} =>
            sock["server"] \in {"backlog", "connected"} /\ ServerSent(h)' = ServerSent(h)
  BY <1>6 DEF KeepsClient, Keeps, ServerSent
<1>14. p + Len(recvBuf'["client"]) = p1
  BY <1>13 DEF p1
<1>15. ToClientFrom(p, h)'
  BY <1>3, <1>8, <1>11, <1>12, <1>13, <1>14 DEF ToClientFrom
<1> QED
  BY <1>15

\* n of l units are sent, c of which are not the user's.
LEMMA Reporting ==
  ASSUME NEW r \in Nat, NEW l \in Nat, NEW w \in Nat, NEW c \in Nat, NEW n \in 1..l
  PROVE  /\ r + l <= w + 6 => r + (IF n > c THEN n - c ELSE 0) + (l - n) <= w + 6
         /\ r + (IF n > c THEN n - c ELSE 0) \in Nat
         /\ r + l = w + c /\ c <= l =>
              /\ r + (IF n > c THEN n - c ELSE 0) + (l - n) = w + (IF n > c THEN 0 ELSE c - n)
              /\ (IF n > c THEN 0 ELSE c - n) <= l - n
<1>1. CASE n > c
  BY <1>1, SMT
<1>2. CASE ~(n > c)
  BY <1>2, SMT
<1> QED
  BY <1>1, <1>2

\* bytesWritten() takes what is left of the negotiation off what has been sent.
LEMMA CountedMoves ==
  ASSUME NEW e \in Ends, Typed, Counted(e), NEW n \in 1..Len(unsent[e]),
         unsent'[e] = Drop(unsent[e], n),
         reported'[e] = reported[e] + (IF n > pending[e] THEN n - pending[e] ELSE 0),
         sock'[e] \in {sock[e], "idle"}, sock'[e] = "idle" => unsent'[e] = <<>>,
         pending'[e] = (IF n > pending[e] THEN 0 ELSE pending[e] - n) \/ (pending'[e] = 0 /\ sock'[e] # "connected"),
         step' = step, active'[e] = active[e] \/ pending'[e] = 0, wrote' = wrote, request' = request
  PROVE  Counted(e)' /\ pending'[e] \in Nat /\ reported'[e] \in Nat
<1> DEFINE u == unsent[e] c == pending[e] r == reported[e] w == wrote[e]
           left == IF n > c THEN 0 ELSE c - n
<1>1. u \in Seq(Units) /\ Len(u) \in Nat /\ c \in Nat /\ r \in Nat /\ w \in Nat /\ n \in 1..Len(u)
  BY SocksAssumption, LenProperties DEF Typed
<1>2. Len(Drop(u, n)) = Len(u) - n /\ \A i \in 1..(Len(u) - n) : Drop(u, n)[i] = u[n + i]
  <2>1. n \in 0..Len(u)
    BY <1>1, SMT
  <2> QED
    BY <1>1, <2>1, Parts
<1>3. c <= PendingLimit(e) /\ r + Len(u) <= w + 6
  BY DEF Counted
<1>4. /\ unsent'[e] = Drop(u, n) /\ reported'[e] = r + (IF n > c THEN n - c ELSE 0) /\ wrote'[e] = w
      /\ pending'[e] = left \/ (pending'[e] = 0 /\ sock'[e] # "connected")
  OBVIOUS
<1>5. left \in Nat /\ left <= c /\ 0 <= c
  BY <1>1, SMT
<1>6. r + (IF n > c THEN n - c ELSE 0) + (Len(u) - n) <= w + 6 /\ r + (IF n > c THEN n - c ELSE 0) \in Nat
  BY <1>1, <1>3, Reporting
<1>7. pending'[e] <= PendingLimit(e)'
  <2>1. PendingLimit(e)' = PendingLimit(e) \/ pending'[e] = 0
    BY DEF PendingLimit
  <2>2. PendingLimit(e) \in Nat /\ PendingLimit(e)' \in Nat
    BY DEF PendingLimit
  <2>3. pending'[e] \in Nat /\ pending'[e] <= c
    BY <1>1, <1>4, <1>5
  <2> HIDE DEF c, left
  <2> QED
    BY <1>1, <1>3, <2>1, <2>2, <2>3, SMT
<1>8. ASSUME sock'[e] = "connected", ~Foreign(e)'
      PROVE  /\ reported'[e] + Len(unsent'[e]) = wrote'[e] + pending'[e]
             /\ pending'[e] <= Len(unsent'[e])
             /\ \A i \in 1..Len(unsent'[e]) : IsUser(unsent'[e][i]) <=> i > pending'[e]
  <2>1. r + Len(u) = w + c /\ c <= Len(u) /\ \A i \in 1..Len(u) : IsUser(u[i]) <=> i > c
    BY <1>8 DEF Counted, Foreign
  <2>2. pending'[e] = left
    BY <1>4, <1>8
  <2>3. /\ r + (IF n > c THEN n - c ELSE 0) + (Len(u) - n) = w + (IF n > c THEN 0 ELSE c - n)
        /\ (IF n > c THEN 0 ELSE c - n) <= Len(u) - n
    <3>1. r + Len(u) = w + c /\ c <= Len(u)
      BY <2>1
    <3> HIDE DEF r, u, w, c
    <3> QED
      BY <1>1, <3>1, Reporting, ZenonT(60)
  <2>7. r + (IF n > c THEN n - c ELSE 0) + (Len(u) - n) = w + left /\ left <= Len(u) - n
    BY <2>3
  <2>4. \A i \in 1..(Len(u) - n) : n + i \in 1..Len(u) /\ (n + i > c <=> i > left)
    <3>1. CASE n > c
      BY <1>1, <3>1, SMT
    <3>2. CASE ~(n > c)
      BY <1>1, <3>2, SMT
    <3> QED
      BY <3>1, <3>2
  <2> HIDE DEF left, u, c
  <2>5. \A i \in 1..(Len(u) - n) : IsUser(Drop(u, n)[i]) <=> i > left
    BY <1>2, <2>1, <2>4
  <2> QED
    BY <1>2, <1>4, <2>2, <2>7, <2>5
<1>9. sock'[e] \notin {"connected", "closing"} => unsent'[e] = <<>>
  BY <1>1 DEF Counted, Drop
<1>10. pending'[e] \in Nat /\ reported'[e] \in Nat /\ reported'[e] + Len(unsent'[e]) <= wrote'[e] + 6
  BY <1>2, <1>4, <1>5, <1>6
<1> QED
  BY <1>7, <1>8, <1>9, <1>10 DEF Counted

\* sock_bytesWritten() works off the negotiation and reports the rest.
LEMMA SockBytesWrittenStep ==
  ASSUME IInv, NEW e \in Ends, NEW n, SockBytesWritten(e, n)
  PROVE  IInv'
<1> USE DEF IInv
<1> DEFINE left == IF n > pending[e] THEN 0 ELSE pending[e] - n
           rest == Drop(unsent[e], n)
<1>1. /\ n \in 1..Len(unsent[e]) /\ (e = "client" => ~inConnected)
      /\ wire' = [wire EXCEPT ![e] = @ \o SubSeq(unsent[e], 1, n)]
      /\ reported' = [reported EXCEPT ![e] = @ + (IF n > pending[e] THEN n - pending[e] ELSE 0)]
      /\ unsent' = [unsent EXCEPT ![e] = rest]
      /\ UNCHANGED <<got, wrote, waiting, served, granted, step, inConnected, request>>
  BY DEF SockBytesWritten, serverVars, Loop
<1> DEFINE Goes == /\ sock[e] = "connected" \/ (sock[e] = "closing" /\ rest # <<>>)
                   /\ pending' = [pending EXCEPT ![e] = left]
                   /\ UNCHANGED <<sock, ended, recvBuf, active, udp>>
           Ended == /\ sock[e] = "closing" /\ rest = <<>>
                    /\ sock' = [sock EXCEPT ![e] = "idle"]
                    /\ active[e]
                    /\ ended' = [ended EXCEPT ![e] = "delayed"]
                    /\ recvBuf' = [recvBuf EXCEPT ![e] = <<>>]
                    /\ active' = [active EXCEPT ![e] = FALSE]
                    /\ udp' = [udp EXCEPT ![e] = FALSE]
                    /\ pending' = [pending EXCEPT ![e] = 0]
           Quits == /\ sock[e] = "closing" /\ rest = <<>>
                    /\ sock' = [sock EXCEPT ![e] = "idle"]
                    /\ ~active[e]
                    /\ pending' = [pending EXCEPT ![e] = left]
                    /\ UNCHANGED <<ended, recvBuf, active, udp>>
<1>2. Goes \/ Ended \/ Quits
  BY DEF SockBytesWritten, Notify
<1>3. /\ unsent[e] \in Seq(Units) /\ wire[e] \in Seq(Units) /\ pending[e] \in Nat /\ reported[e] \in Nat
      /\ Len(unsent[e]) \in Nat /\ n \in Nat /\ n \in 0..Len(unsent[e])
  BY <1>1, LenProperties, SMT DEF Typed
<1>4. unsent[e] # <<>>
  BY <1>1, <1>3, Nothing, SMT
<1>5. /\ SubSeq(unsent[e], 1, n) \in Seq(Units) /\ rest \in Seq(Units)
      /\ wire[e] \o SubSeq(unsent[e], 1, n) \in Seq(Units)
      /\ left \in Nat
  <2>1. SubSeq(unsent[e], 1, n) \in Seq(Units) /\ rest \in Seq(Units)
    BY <1>3, Parts
  <2>2. left \in Nat
    BY <1>3, SMT
  <2> QED
    BY <1>3, <2>1, <2>2, Joined
<1> HIDE DEF left, rest
<1>6. /\ unsent'[e] = rest /\ wire'[e] = wire[e] \o SubSeq(unsent[e], 1, n)
      /\ reported'[e] = reported[e] + (IF n > pending[e] THEN n - pending[e] ELSE 0)
      /\ \A d \in Ends : d # e => unsent'[d] = unsent[d] /\ wire'[d] = wire[d] /\ reported'[d] = reported[d]
  BY <1>1 DEF Typed
<1>7. /\ sock[e] \in {"connected", "closing"} /\ sock'[e] \in {sock[e], "idle"}
      /\ (sock'[e] = "idle" => unsent'[e] = <<>>)
      /\ pending'[e] = left \/ (pending'[e] = 0 /\ sock'[e] = "idle")
      /\ active'[e] = active[e] \/ (~active'[e] /\ pending'[e] = 0)
      /\ \A d \in Ends : d # e => /\ sock'[d] = sock[d] /\ pending'[d] = pending[d] /\ active'[d] = active[d]
                                  /\ recvBuf'[d] = recvBuf[d] /\ udp'[d] = udp[d]
      /\ \/ /\ sock'[e] = sock[e]
            /\ recvBuf'[e] = recvBuf[e] /\ active'[e] = active[e] /\ udp'[e] = udp[e]
         \/ /\ sock'[e] = "idle"
            /\ recvBuf'[e] = recvBuf[e] /\ active'[e] = active[e] /\ udp'[e] = udp[e]
         \/ sock'[e] = "idle" /\ recvBuf'[e] = <<>> /\ ~active'[e] /\ ~udp'[e] /\ active[e]
  <2>1. CASE Goes
    BY <1>6, <2>1 DEF Typed
  <2>2. CASE Ended
    BY <1>6, <2>2 DEF Typed
  <2>3. CASE Quits
    BY <1>6, <2>3 DEF Typed
  <2> QED
    BY <1>2, <2>1, <2>2, <2>3
<1>8. Counted(e)' /\ pending'[e] \in Nat /\ reported'[e] \in Nat
  <2>1. pending'[e] = (IF n > pending[e] THEN 0 ELSE pending[e] - n) \/ (pending'[e] = 0 /\ sock'[e] # "connected")
    BY <1>7 DEF left
  <2>2. unsent'[e] = Drop(unsent[e], n)
    BY <1>6 DEF rest
  <2> QED
    BY <1>1, <1>6, <1>7, <2>1, <2>2, CountedMoves
<1>9. Typed'
  <2>1. wire' \in [Ends -> Seq(Units)] /\ unsent' \in [Ends -> Seq(Units)]
    BY <1>1, <1>5 DEF Typed
  <2>2. reported' \in [Ends -> Nat]
    <3>1. reported[e] + (IF n > pending[e] THEN n - pending[e] ELSE 0) \in Nat
      BY <1>6, <1>8
    <3> QED
      BY <1>1, <3>1 DEF Typed
  <2>3. /\ pending' \in [Ends -> Nat]
        /\ sock' \in [Ends -> {"listen", "backlog", "idle", "connecting", "connected", "closing"}]
        /\ recvBuf' \in [Ends -> Seq(Units)]
        /\ active' \in [Ends -> BOOLEAN] /\ udp' \in [Ends -> BOOLEAN]
        /\ ended' \in [Ends -> {"no", "closed", "error", "delayed"}]
    <3>1. CASE Goes
      BY <1>5, <3>1 DEF Typed
    <3>2. CASE Ended
      BY <1>5, <3>2, Nothing DEF Typed
    <3>3. CASE Quits
      BY <1>5, <3>3 DEF Typed
    <3> QED
      BY <1>2, <3>1, <3>2, <3>3
  <2> HIDE DEF Goes, Ended, Quits
  <2> QED
    BY <1>1, <2>1, <2>2, <2>3 DEF Typed
<1> HIDE DEF Goes, Ended, Quits
<1>10. DataStreamIntact'
  BY <1>1, DataKept
<1>11. CASE e = "client"
  <2>1. KeepsServer
    BY <1>1, <1>6, <1>7, <1>11, BothEnds DEF KeepsServer, Keeps
  <2>2. ToServer'
    BY <1>1, <1>3, <1>6, <1>7, <1>11, <2>1, ToServerMoves DEF rest
  <2>3. sock["server"] # "listen" /\ ~Foreign("client")
    BY <1>4, <1>11 DEF Fresh, OfClient
  <2>4. CASE sock'["client"] = sock["client"] /\ recvBuf'["client"] = recvBuf["client"] /\ active'["client"] = active["client"]
             /\ udp'["client"] = udp["client"]
    <3>1. Counted("server")'
      BY <2>1, BothEnds, CountedKept DEF KeepsServer
    <3>2. Fresh' /\ OfClient' /\ OfServer'
      <4>1. wire'["server"] = wire["server"]
        BY <1>6, <1>11, BothEnds
      <4>2. Foreign("client")' <=> Foreign("client")
        BY <1>1 DEF Foreign
      <4>3. Fresh'
        BY <1>1, <2>1, <2>3, <2>4, <4>1, <4>2 DEF Fresh, KeepsServer, Keeps
      <4>4. OfClient'
        BY <1>1, <2>3, <2>4, <4>2 DEF OfClient
      <4>5. OfServer'
        BY <1>1, <2>1 DEF OfServer, KeepsServer, Keeps
      <4> QED
        BY <4>3, <4>4, <4>5
    <3>3. ToClient'
      <4>1. ASSUME NEW h, NEW p, ToClientFrom(p, h) PROVE ToClientFrom(p, h)'
        <5>1. ClientAt(p, h)' <=> ClientAt(p, h)
          BY <1>1, <2>4 DEF ClientAt
        <5>2. ServerSent(h)' = ServerSent(h)
          BY <1>1, <2>1 DEF ServerSent, KeepsServer, Keeps
        <5>3. wire'["server"] = wire["server"] /\ unsent'["server"] = unsent["server"] /\ sock'["server"] = sock["server"]
          BY <1>6, <1>7, <1>11, BothEnds
        <5> QED
          BY <1>1, <2>4, <4>1, <5>1, <5>2, <5>3 DEF ToClientFrom
      <4> QED
        BY <1>1, <2>4, <4>1 DEF ToClient, Foreign
    <3> QED
      BY <1>8, <1>9, <1>10, <1>11, <2>2, <3>1, <3>2, <3>3, BothEnds
  <2>5. CASE /\ sock'["client"] = "idle"
             /\ \/ recvBuf'["client"] = recvBuf["client"] /\ active'["client"] = active["client"]
                \/ recvBuf'["client"] = <<>> /\ ~active'["client"]
    <3>1. wire'["server"] = wire["server"]
      BY <1>6, <1>11, BothEnds
    <3>2. Fresh' /\ OfClient' /\ OfServer' /\ ToClient' /\ Counted("server")'
      BY <1>1, <2>1, <2>3, <2>5, <3>1, ClientStops
    <3> QED
      BY <1>8, <1>9, <1>10, <1>11, <2>2, <3>2, BothEnds
  <2> QED
    BY <1>7, <1>11, <2>4, <2>5
<1>12. CASE e = "server"
  <2>1. KeepsClient
    BY <1>1, <1>6, <1>7, <1>12, BothEnds DEF KeepsClient, Keeps
  <2>2. ToClient'
    BY <1>1, <1>3, <1>6, <1>7, <1>12, <2>1, ToClientMoves DEF rest
  <2>3. served = "serving" /\ sock["server"] \notin {"listen", "backlog"}
    BY <1>4, <1>12 DEF Fresh
  <2>4. CASE /\ sock'["server"] = sock["server"] /\ recvBuf'["server"] = recvBuf["server"]
             /\ active'["server"] = active["server"] /\ udp'["server"] = udp["server"]
    <3>1. Counted("client")'
      BY <2>1, BothEnds, CountedKept DEF KeepsClient
    <3>2. Fresh' /\ OfClient' /\ OfServer'
      <4>1. wire'["client"] = wire["client"]
        BY <1>6, <1>12, BothEnds
      <4>2. Foreign("client")' <=> Foreign("client")
        BY <1>1 DEF Foreign
      <4>3. Fresh'
        BY <1>1, <2>1, <2>3, <2>4, <4>1, <4>2 DEF Fresh, KeepsClient, Keeps
      <4>4. OfClient'
        BY <1>1, <2>1, <4>2 DEF OfClient, KeepsClient, Keeps
      <4>5. OfServer'
        BY <1>1, <2>1, <2>4 DEF OfServer, KeepsClient, Keeps
      <4> QED
        BY <4>3, <4>4, <4>5
    <3>3. ToServer'
      <4>1. ASSUME NEW h, NEW o, ToServerFrom(o, h) PROVE ToServerFrom(o, h)'
        <5>1. ServerAt(o, h)' <=> ServerAt(o, h)
          BY <1>1, <2>4 DEF ServerAt
        <5>2. ClientSent(h)' = ClientSent(h)
          BY <1>1 DEF ClientSent
        <5>3. wire'["client"] = wire["client"] /\ unsent'["client"] = unsent["client"] /\ sock'["client"] = sock["client"]
          BY <1>6, <1>7, <1>12, BothEnds
        <5> QED
          BY <1>1, <2>4, <4>1, <5>1, <5>2, <5>3 DEF ToServerFrom, Foreign
      <4> QED
        BY <2>4, <4>1 DEF ToServer
    <3> QED
      BY <1>8, <1>9, <1>10, <1>12, <2>2, <3>1, <3>2, <3>3, BothEnds
  <2>5. CASE /\ sock'["server"] = "idle"
             /\ \/ /\ recvBuf'["server"] = recvBuf["server"] /\ active'["server"] = active["server"]
                   /\ udp'["server"] = udp["server"]
                \/ recvBuf'["server"] = <<>> /\ ~active'["server"] /\ ~udp'["server"] /\ active["server"]
    <3>1. step'["server"] \in {"version", "auth", "request"}
      BY <1>9, BothEnds DEF Typed
    <3>2. active["server"] => ~waiting'
      BY <1>1 DEF OfServer
    <3>3. Fresh' /\ OfClient' /\ OfServer' /\ ToServer' /\ Counted("client")'
      BY <1>1, <2>1, <2>3, <2>5, <3>1, <3>2, ServerStops
    <3> QED
      BY <1>8, <1>9, <1>10, <1>12, <2>2, <3>3, BothEnds
  <2> QED
    BY <1>7, <1>12, <2>4, <2>5
<1> QED
  BY <1>11, <1>12, BothEnds

-----------------------------------------------------------------------------
(* What is written and what is made available.                             *)

\* Data behind data.
LEMMA DataJoined ==
  ASSUME NEW s \in Seq(Units), NEW t \in Seq(Units),
         s = [i \in 1..Len(s) |-> Data(i)], \A i \in 1..Len(t) : t[i] = Data(Len(s) + i)
  PROVE  s \o t = [i \in 1..Len(s \o t) |-> Data(i)]
<1>1. Len(s) \in Nat /\ Len(t) \in Nat
  BY LenProperties
<1>2. \A i \in 1..Len(s) : s[i] = Data(i)
  OBVIOUS
<1>3. ASSUME NEW i \in 1..Len(s \o t) PROVE (s \o t)[i] = Data(i)
  <2>1. i \in Nat /\ i \in 1..(Len(s) + Len(t))
    BY <1>1, Joined
  <2>2. CASE i <= Len(s)
    <3>1. i \in 1..Len(s)
      BY <1>1, <2>1, <2>2, SMT
    <3> QED
      BY <1>2, <3>1, Joined
  <2>3. CASE ~(i <= Len(s))
    <3>1. i - Len(s) \in 1..Len(t) /\ Len(s) + (i - Len(s)) = i
      BY <1>1, <2>1, <2>3, SMT
    <3>2. (s \o t)[Len(s) + (i - Len(s))] = t[i - Len(s)]
      BY <3>1, Joined
    <3> QED
      BY <3>1, <3>2
  <2> QED
    BY <2>2, <2>3
<1>4. s \o t \in Seq(Units)
  BY Joined
<1>5. /\ s \o t = [i \in DOMAIN (s \o t) |-> (s \o t)[i]]
      /\ DOMAIN (s \o t) = 1..Len(s \o t)
  BY <1>4, LenProperties
<1> HIDE DEF Data
<1> QED
  BY <1>3, <1>5

\* Nothing before or behind, or taken off.
LEMMA NothingMore ==
  ASSUME NEW s \in Seq(Units)
  PROVE  /\ <<>> \o s = s /\ s \o <<>> = s
         /\ SubSeq(s, 1, 0) = <<>> /\ Drop(s, 0) = s /\ Drop(s, Len(s)) = <<>>
<1>1. Len(s) \in Nat /\ 0 \in 0..Len(s) /\ Len(s) \in 0..Len(s) /\ Len(s) - Len(s) = 0 /\ Len(s) - 0 = Len(s)
      /\ \A i \in 1..Len(s) : 0 + i = i
  <2>1. Len(s) \in Nat
    BY LenProperties
  <2> QED
    BY <2>1, SMT
<1>2. \A t \in Seq(Units) : Len(t) = 0 => t = <<>>
  BY EmptySeq
<1>3. SubSeq(s, 1, 0) = <<>> /\ Drop(s, Len(s)) = <<>>
  <2>1. SubSeq(s, 1, 0) \in Seq(Units) /\ Len(SubSeq(s, 1, 0)) = 0
    BY <1>1, Parts
  <2>2. Drop(s, Len(s)) \in Seq(Units) /\ Len(Drop(s, Len(s))) = 0
    BY <1>1, Parts
  <2> QED
    BY <1>2, <2>1, <2>2
<1>4. Drop(s, 0) = s
  <2>1. Drop(s, 0) \in Seq(Units) /\ Len(Drop(s, 0)) = Len(s) /\ \A i \in 1..Len(s) : Drop(s, 0)[i] = s[i]
    BY <1>1, Parts
  <2> QED
    BY <2>1, SeqEqual
<1> QED
  BY <1>3, <1>4, ConcatEmptySeq

\* The units t of the negotiation are written.
LEMMA CountedSays ==
  ASSUME NEW e \in Ends, Typed, Counted(e), ~Foreign(e), sock[e] = "connected", sock'[e] = "connected",
         wrote[e] = 0, NEW t \in Seq(Units), \A i \in 1..Len(t) : ~IsUser(t[i]),
         unsent'[e] = unsent[e] \o t, pending'[e] = pending[e] + Len(t),
         wrote'[e] = wrote[e], reported'[e] = reported[e],
         pending[e] + Len(t) <= PendingLimit(e)'
  PROVE  Counted(e)'
<1> DEFINE u == unsent[e]
<1>1. /\ u \in Seq(Units) /\ Len(u) \in Nat /\ Len(t) \in Nat /\ pending[e] \in Nat /\ reported[e] \in Nat
  BY LenProperties DEF Typed
<1>2. /\ reported[e] + Len(u) = 0 + pending[e] /\ pending[e] <= Len(u)
      /\ \A i \in 1..Len(u) : IsUser(u[i]) <=> i > pending[e]
  BY DEF Counted
<1>3. reported[e] = 0 /\ Len(u) = pending[e]
  BY <1>1, <1>2, SMT
<1>4. Len(u \o t) = pending[e] + Len(t)
  BY <1>1, <1>3, Joined
<1>5. PendingLimit(e)' <= 6 /\ PendingLimit(e)' \in Nat
  BY SMT DEF PendingLimit
<1>6. 0 + (pending[e] + Len(t)) <= 0 + 6 /\ pending[e] + Len(t) <= pending[e] + Len(t)
      /\ 0 + (pending[e] + Len(t)) = 0 + (pending[e] + Len(t))
  BY <1>1, <1>5, SMT
<1>7. ASSUME NEW i \in 1..(pending[e] + Len(t)) PROVE ~IsUser((u \o t)[i]) /\ ~(i > pending[e] + Len(t))
  <2>1. i \in Nat /\ ~(i > pending[e] + Len(t))
    BY <1>1, SMT
  <2>2. CASE i <= pending[e]
    <3>1. i \in 1..Len(u) /\ ~(i > pending[e])
      BY <1>1, <1>3, <2>1, <2>2, SMT
    <3> QED
      BY <1>1, <1>2, <2>1, <3>1, Joined
  <2>3. CASE ~(i <= pending[e])
    <3>1. i - Len(u) \in 1..Len(t) /\ Len(u) + (i - Len(u)) = i
      BY <1>1, <1>3, <2>1, <2>3, SMT
    <3>2. (u \o t)[Len(u) + (i - Len(u))] = t[i - Len(u)]
      BY <1>1, <3>1, Joined
    <3> QED
      BY <2>1, <3>1, <3>2
  <2> QED
    BY <2>2, <2>3
<1> HIDE DEF u
<1>8. unsent'[e] = u \o t /\ pending'[e] = pending[e] + Len(t) /\ reported'[e] = 0 /\ wrote'[e] = 0
  BY <1>3 DEF u
<1>9. pending'[e] <= PendingLimit(e)'
  BY <1>8
<1>10. /\ reported'[e] + Len(unsent'[e]) <= wrote'[e] + 6
       /\ reported'[e] + Len(unsent'[e]) = wrote'[e] + pending'[e] /\ pending'[e] <= Len(unsent'[e])
  BY <1>4, <1>6, <1>8
<1>11. \A i \in 1..Len(unsent'[e]) : IsUser(unsent'[e][i]) <=> i > pending'[e]
  BY <1>4, <1>7, <1>8
<1> QED
  BY <1>9, <1>10, <1>11 DEF Counted

\* They are written, if the socket takes them, and the end stops.
LEMMA CountedQuits ==
  ASSUME NEW e \in Ends, Typed, Counted(e), ~Foreign(e), NEW t \in Seq(Units),
         sock[e] = "connected" => pending[e] + Len(t) <= 6,
         sock'[e] = IF Written(e, t) # <<>> THEN "closing" ELSE "idle",
         unsent'[e] = Written(e, t), pending'[e] = 0, wrote'[e] = wrote[e], reported'[e] = reported[e]
  PROVE  Counted(e)'
<1> DEFINE u == unsent[e]
<1>1. /\ u \in Seq(Units) /\ Len(u) \in Nat /\ Len(t) \in Nat /\ pending[e] \in Nat /\ reported[e] \in Nat
      /\ wrote[e] \in Nat
  BY SocksAssumption, LenProperties DEF Typed
<1>2. Len(u \o t) = Len(u) + Len(t)
  BY <1>1, Joined
<1>3. reported[e] + Len(unsent'[e]) <= wrote[e] + 6
  <2>1. CASE sock[e] = "connected"
    <3>1. reported[e] + Len(u) = wrote[e] + pending[e] /\ pending[e] + Len(t) <= 6
      BY <2>1 DEF Counted
    <3>2. reported[e] + (Len(u) + Len(t)) <= wrote[e] + 6
      BY <1>1, <3>1, SMTT(30)
    <3> QED
      BY <1>2, <2>1, <3>2 DEF Written
  <2>2. CASE sock[e] # "connected"
    BY <2>2 DEF Written, Counted
  <2> QED
    BY <2>1, <2>2
<1>4. 0 <= PendingLimit(e)'
  BY SMT DEF PendingLimit
<1>5. sock'[e] \in {"closing", "idle"} /\ (sock'[e] = "idle" => unsent'[e] = <<>>)
  OBVIOUS
<1> QED
  BY <1>3, <1>4, <1>5 DEF Counted

-----------------------------------------------------------------------------
(* An end writes the units t.                                              *)

\* Once they are behind what it has sent, of a stream that opens behind h units,
\* the stream opens behind k.
ClientGoesOn(t, h, k) ==
  /\ k = h \/ ClientSent(h) = 2
  /\ Flow("client", request.cmd, t, ClientSent(h), k)
  /\ request.dest = "ip6" => ClientSent(h) + Len(t) <= k + 1
  /\ sock'["client"] = "connected" =>
       ClientSent(k)' = ClientSent(h) + Len(t) /\ (step'["client"] = "auth" => k = 4)

ServerGoesOn(t, h, k) ==
  /\ k = h \/ (ServerSent(h) <= h /\ ServerSent(h) <= k)
  /\ Flow("server", request.cmd, t, ServerSent(h), k)
  /\ ServerSent(h) + Len(t) > k => granted' = request.cmd /\ granted' # "none"
  /\ sock'["server"] \in {"backlog", "connected"} =>
       /\ ServerSent(k)' = ServerSent(h) + Len(t)
       /\ k # 6
       /\ served' = "serving" /\ step'["server"] = "auth" => k = 4

\* What the client has written is behind what it has sent before.
LEMMA ToServerSends ==
  ASSUME IInv, KeepsServer, sock["client"] = "connected", ~Foreign("client"), NEW t \in Seq(Units),
         wire'["client"] = wire["client"], unsent'["client"] = unsent["client"] \o t,
         \A h \in {2, 4} : (step["client"] = "auth" => h = 4) => \E k \in {2, 4} : ClientGoesOn(t, h, k)
  PROVE  ToServer'
<1> SUFFICES ASSUME ~udp["server"] PROVE \E k \in {2, 4}, o \in Nat : ToServerFrom(o, k)'
  BY DEF ToServer, KeepsServer, Keeps
<1>1. PICK h \in {2, 4}, o \in Nat : ToServerFrom(o, h)
  BY DEF IInv, ToServer
<1>2. \A k : ServerAt(o, k)' <=> ServerAt(o, k)
  BY DEF ServerAt, KeepsServer, Keeps
<1> DEFINE r == recvBuf["server"] w == wire["client"] u == unsent["client"]
           o1 == o + Len(r) o2 == o1 + Len(w) o3 == o2 + Len(u)
<1>3. r \in Seq(Units) /\ w \in Seq(Units) /\ u \in Seq(Units)
  BY BothEnds DEF IInv, Typed
<1>4. Len(r) \in Nat /\ Len(w) \in Nat /\ Len(u) \in Nat /\ Len(t) \in Nat
  BY <1>3, LenProperties
<1>5. /\ ServerAt(o, h)
      /\ request.dest = "ip6" => o1 <= h + 1
      /\ Flow("client", request.cmd, r, o, h)
      /\ sock["server"] \in {"backlog", "connected"} =>
           /\ Flow("client", request.cmd, w, o1, h)
           /\ Flow("client", request.cmd, u, o2, h)
           /\ o3 = ClientSent(h)
           /\ step["client"] = "auth" => h = 4
  BY <1>1 DEF ToServerFrom
<1>6. /\ wire'["client"] = w /\ unsent'["client"] = u \o t /\ recvBuf'["server"] = r
      /\ request' = request /\ sock'["server"] = sock["server"]
  BY DEF KeepsServer, Keeps
<1> HIDE DEF r, w, u
<1>9. h \in Nat /\ \A k \in {2, 4} : k \in Nat
  BY SMT
<1>7. CASE sock["server"] \notin {"backlog", "connected"}
  <2> HIDE DEF o1, o2, o3
  <2>1. o + Len(recvBuf'["server"]) = o1
    BY <1>6 DEF o1
  <2>2. ToServerFrom(o, h)'
    BY <1>2, <1>5, <1>6, <1>7, <2>1 DEF ToServerFrom
  <2> QED
    BY <2>2
<1>8. CASE sock["server"] \in {"backlog", "connected"}
  <2>1. PICK k \in {2, 4} : ClientGoesOn(t, h, k)
    BY <1>5, <1>8
  <2>2. o \in Nat /\ o1 \in Nat /\ o2 \in Nat /\ o3 \in Nat /\ o <= o1 /\ o1 <= o2 /\ o2 <= o3
    BY <1>4, SMTT(30)
  <2>3. Flow("client", request.cmd, t, o3, k) /\ Len(u \o t) = Len(u) + Len(t)
    BY <1>3, <1>5, <1>8, <2>1, Joined DEF ClientGoesOn
  <2>4. /\ ServerAt(o, k)
        /\ Flow("client", request.cmd, r, o, k)
        /\ Flow("client", request.cmd, w, o1, k)
        /\ Flow("client", request.cmd, u, o2, k)
    <3>1. CASE k = h
      BY <1>5, <1>8, <3>1
    <3>2. CASE ClientSent(h) = 2
      <4>1. o3 = 2
        BY <1>5, <1>8, <3>2
      <4>2. o1 <= h /\ o2 <= h /\ o3 <= h /\ o1 <= k /\ o2 <= k /\ o3 <= k /\ o <= 2
        BY <2>2, <4>1, SMT
      <4>3. /\ Flow("client", request.cmd, r, o, k)
            /\ Flow("client", request.cmd, w, o1, k)
            /\ Flow("client", request.cmd, u, o2, k)
        <5> HIDE DEF o1, o2, o3
        <5>1. o + Len(r) = o1 /\ o1 + Len(w) = o2 /\ o2 + Len(u) = o3
          BY DEF o1, o2, o3
        <5> QED
          BY <1>3, <1>5, <1>8, <1>9, <2>2, <4>2, <5>1, FlowBefore
      <4>4. ServerAt(o, k)
        <5>1. Len(got["server"]) \in Nat
          BY BothEnds, LenProperties DEF IInv, Typed
        <5>2. o # h + 2 + Len(got["server"]) /\ o # h + 2 /\ o # 4 /\ (o \in {2, 4} => o <= k)
          <6>1. o \in Nat /\ o <= 2
            BY <4>2
          <6>2. \A a, l \in Nat : a <= 2 => a # h + 2 + l /\ a # h + 2 /\ a # 4 /\ a <= k
            BY SMT
          <6> QED
            BY <5>1, <6>1, <6>2
        <5> QED
          BY <1>5, <5>2 DEF ServerAt
      <4> QED
        BY <4>3, <4>4
    <3> QED
      BY <2>1, <3>1, <3>2 DEF ClientGoesOn
  <2>5. Flow("client", request.cmd, u \o t, o2, k)
    <3> HIDE DEF o1, o2, o3
    <3>1. o2 + Len(u) = o3
      BY DEF o3
    <3> QED
      BY <1>3, <2>2, <2>3, <2>4, <3>1, FlowJoined
  <2>6. o2 + Len(u \o t) = ClientSent(h) + Len(t)
    <3>1. o2 + (Len(u) + Len(t)) = o3 + Len(t)
      BY <1>4, <2>2, SMT
    <3> QED
      BY <1>5, <1>8, <2>3, <3>1
  <2>7. request.dest = "ip6" => o1 <= k + 1 /\ o2 + Len(u \o t) <= k + 1
    <3>1. o1 <= o3 + Len(t)
      BY <1>4, <2>2, SMT
    <3>2. \A a \in Nat : a <= k + 1 /\ o1 <= a => o1 <= k + 1
      BY <2>2, SMT
    <3>3. o3 + Len(t) \in Nat
      BY <1>4, <2>2, SMT
    <3> HIDE DEF o1, o2, o3
    <3> QED
      BY <1>5, <1>8, <2>1, <2>6, <3>1, <3>2, <3>3 DEF ClientGoesOn
  <2>8. o + Len(recvBuf'["server"]) = o1 /\ o1 + Len(wire'["client"]) = o2
    BY <1>6
  <2>9. sock'["client"] = "connected" =>
          o2 + Len(u \o t) = ClientSent(k)' /\ (step'["client"] = "auth" => k = 4)
    BY <2>1, <2>6 DEF ClientGoesOn
  <2> HIDE DEF o1, o2, o3
  <2>10. ToServerFrom(o, k)'
    BY <1>2, <1>6, <1>8, <2>4, <2>5, <2>7, <2>8, <2>9 DEF ToServerFrom
  <2> QED
    BY <2>10
<1> QED
  BY <1>7, <1>8

\* What the server has written is behind what it has sent before.
LEMMA ToClientSends ==
  ASSUME IInv, KeepsClient, sock["server"] = "connected", NEW t \in Seq(Units),
         wire'["server"] = wire["server"], unsent'["server"] = unsent["server"] \o t,
         \A h \in {2, 4} : (served = "serving" /\ step["server"] = "auth" => h = 4) =>
           \E k \in {2, 4, 6} : ServerGoesOn(t, h, k)
  PROVE  ToClient'
<1>1. Foreign("client")' <=> Foreign("client")
  BY DEF Foreign, KeepsClient, Keeps
<1> SUFFICES ASSUME sock["client"] = "connected", ~Foreign("client"),
                    active["client"] /\ udp["client"] => inConnected
             PROVE  \E k \in {2, 4, 6}, p \in Nat : ToClientFrom(p, k)'
  BY <1>1 DEF ToClient, KeepsClient, Keeps
<1>2. PICK h \in {2, 4, 6}, p \in Nat : ToClientFrom(p, h)
  BY DEF IInv, ToClient
<1>3. \A k : ClientAt(p, k)' <=> ClientAt(p, k)
  BY DEF ClientAt, KeepsClient, Keeps
<1> DEFINE r == recvBuf["client"] w == wire["server"] u == unsent["server"]
           p1 == p + Len(r) p2 == p1 + Len(w) p3 == p2 + Len(u)
<1>4. r \in Seq(Units) /\ w \in Seq(Units) /\ u \in Seq(Units)
  BY BothEnds DEF IInv, Typed
<1>5. Len(r) \in Nat /\ Len(w) \in Nat /\ Len(u) \in Nat /\ Len(t) \in Nat
  BY <1>4, LenProperties
<1>6. /\ ClientAt(p, h)
      /\ Flow("server", request.cmd, r, p, h)
      /\ Flow("server", request.cmd, w, p1, h)
      /\ Flow("server", request.cmd, u, p2, h)
      /\ p3 = ServerSent(h)
      /\ h # 6
      /\ served = "serving" /\ step["server"] = "auth" => h = 4
  BY <1>2 DEF ToClientFrom
<1>7. /\ wire'["server"] = w /\ unsent'["server"] = u \o t /\ recvBuf'["client"] = r /\ request' = request
  BY DEF KeepsClient, Keeps
<1> HIDE DEF r, w, u
<1>8. PICK k \in {2, 4, 6} : ServerGoesOn(t, h, k)
  BY <1>6
<1>9. p \in Nat /\ p1 \in Nat /\ p2 \in Nat /\ p3 \in Nat /\ p <= p1 /\ p1 <= p2 /\ p2 <= p3
  BY <1>5, SMT
<1>17. h \in Nat /\ k \in Nat
  BY SMT
<1>10. Flow("server", request.cmd, t, p3, k) /\ Len(u \o t) = Len(u) + Len(t)
  BY <1>4, <1>6, <1>8, Joined DEF ServerGoesOn
<1>11. /\ ClientAt(p, k)
       /\ Flow("server", request.cmd, r, p, k)
       /\ Flow("server", request.cmd, w, p1, k)
       /\ Flow("server", request.cmd, u, p2, k)
  <2>1. CASE k = h
    BY <1>6, <2>1
  <2>2. CASE ServerSent(h) <= h /\ ServerSent(h) <= k
    <3>1. p3 <= h /\ p3 <= k
      <4> HIDE DEF p1, p2, p3
      <4> QED
        BY <1>6, <2>2
    <3>2. p1 <= h /\ p2 <= h /\ p1 <= k /\ p2 <= k /\ p <= h /\ p <= k
      BY <1>9, <3>1, SMT
    <3>3. /\ Flow("server", request.cmd, r, p, k)
          /\ Flow("server", request.cmd, w, p1, k)
          /\ Flow("server", request.cmd, u, p2, k)
      <4> HIDE DEF p1, p2, p3
      <4>1. p + Len(r) = p1 /\ p1 + Len(w) = p2 /\ p2 + Len(u) = p3
        BY DEF p1, p2, p3
      <4> QED
        BY <1>4, <1>6, <1>9, <1>17, <3>1, <3>2, <4>1, FlowBefore
    <3>4. ClientAt(p, k)
      <4>1. Len(got["client"]) \in Nat
        BY BothEnds, LenProperties DEF IInv, Typed
      <4>2. p # h + 2 + Len(got["client"])
        <5>1. \A a, l \in Nat : a <= h => a # h + 2 + l
          BY <1>17, SMT
        <5> QED
          BY <3>2, <4>1, <5>1
      <4> QED
        BY <1>6, <3>2, <4>2 DEF ClientAt
    <3> QED
      BY <3>3, <3>4
  <2> QED
    BY <1>8, <2>1, <2>2 DEF ServerGoesOn
<1>12. Flow("server", request.cmd, u \o t, p2, k)
  <2> HIDE DEF p1, p2, p3
  <2>1. p2 + Len(u) = p3
    BY DEF p3
  <2> QED
    BY <1>4, <1>9, <1>10, <1>11, <2>1, FlowJoined
<1>13. p2 + Len(u \o t) = ServerSent(h) + Len(t)
  <2>1. p2 + (Len(u) + Len(t)) = p3 + Len(t)
    BY <1>5, <1>9, SMT
  <2> QED
    BY <1>6, <1>10, <2>1
<1>14. p + Len(recvBuf'["client"]) = p1 /\ p1 + Len(wire'["server"]) = p2
  BY <1>7
<1>15. /\ p2 + Len(u \o t) > k => granted' = request.cmd /\ granted' # "none"
       /\ sock'["server"] \in {"backlog", "connected"} =>
            /\ p2 + Len(u \o t) = ServerSent(k)'
            /\ k # 6
            /\ served' = "serving" /\ step'["server"] = "auth" => k = 4
  BY <1>8, <1>13 DEF ServerGoesOn
<1> HIDE DEF p1, p2, p3
<1>16. ToClientFrom(p, k)'
  BY <1>3, <1>7, <1>11, <1>12, <1>14, <1>15 DEF ToClientFrom
<1> QED
  BY <1>16

-----------------------------------------------------------------------------
(* An end takes n units more, and the first d it has off its buffer.       *)

\* What the server has in its buffer then.
LEMMA ServerBuffer ==
  ASSUME IInv, NEW n \in 0..Len(wire["client"]), n = 0 \/ sock["server"] = "connected",
         NEW h \in {2, 4}, NEW o \in Nat, ToServerFrom(o, h)
  PROVE  LET b == recvBuf["server"] \o SubSeq(wire["client"], 1, n)
         IN  /\ b \in Seq(Units) /\ Len(b) = Len(recvBuf["server"]) + n
             /\ Flow("client", request.cmd, b, o, h)
             /\ request.dest = "ip6" => o + Len(b) <= h + 1
<1> DEFINE r == recvBuf["server"] w == wire["client"] u == unsent["client"]
           b == r \o SubSeq(w, 1, n)
           o1 == o + Len(r) o3 == o1 + Len(w) + Len(u)
<1>1. r \in Seq(Units) /\ w \in Seq(Units) /\ u \in Seq(Units)
  BY BothEnds DEF IInv, Typed
<1>2. Len(r) \in Nat /\ Len(w) \in Nat /\ Len(u) \in Nat /\ n \in Nat /\ n <= Len(w) /\ h \in Nat
  <2>1. Len(r) \in Nat /\ Len(w) \in Nat /\ Len(u) \in Nat
    BY <1>1, LenProperties
  <2> QED
    BY <2>1, SMT
<1>3. /\ request.dest = "ip6" => o1 <= h + 1
      /\ Flow("client", request.cmd, r, o, h)
      /\ sock["server"] \in {"backlog", "connected"} =>
           /\ Flow("client", request.cmd, w, o1, h)
           /\ request.dest = "ip6" => o3 <= h + 1
  BY DEF ToServerFrom
<1>4. n \in 0..Len(w) /\ (n = 0 \/ sock["server"] = "connected")
  OBVIOUS
<1> HIDE DEF r, w, u
<1>5. b \in Seq(Units) /\ Len(b) = Len(r) + n
  <2>1. SubSeq(w, 1, n) \in Seq(Units) /\ Len(SubSeq(w, 1, n)) = n
    BY <1>1, <1>4, Parts
  <2> QED
    BY <1>1, <1>4, <2>1, Joined
<1>6. ASSUME n = 0
      PROVE  Flow("client", request.cmd, b, o, h) /\ (request.dest = "ip6" => o + Len(b) <= h + 1)
  <2>1. b = r
    BY <1>1, <1>4, <1>6, NothingMore
  <2>2. request.dest = "ip6" => o + Len(r) <= h + 1
    BY <1>3
  <2> HIDE DEF b
  <2> QED
    BY <1>3, <1>5, <2>1, <2>2
<1>7. ASSUME sock["server"] = "connected"
      PROVE  Flow("client", request.cmd, b, o, h) /\ (request.dest = "ip6" => o + Len(b) <= h + 1)
  <2>1. Flow("client", request.cmd, r, o, h) /\ Flow("client", request.cmd, w, o + Len(r), h)
    BY <1>3, <1>7
  <2>2. Flow("client", request.cmd, b, o, h)
    BY <1>1, <1>2, <1>4, <2>1, FlowMoved
  <2>3. o + (Len(r) + n) <= o3 /\ o3 \in Nat /\ o + (Len(r) + n) \in Nat
        /\ \A a, c \in Nat : a <= c /\ c <= h + 1 => a <= h + 1
    BY <1>2, SMT
  <2> HIDE DEF o1, o3, b
  <2>4. request.dest = "ip6" => o + Len(b) <= h + 1
    BY <1>3, <1>5, <1>7, <2>3
  <2> QED
    BY <1>5, <2>2, <2>4
<1> HIDE DEF b
<1>8. /\ b \in Seq(Units) /\ Len(b) = Len(r) + n /\ Flow("client", request.cmd, b, o, h)
      /\ request.dest = "ip6" => o + Len(b) <= h + 1
  BY <1>4, <1>5, <1>6, <1>7
<1> QED
  BY <1>8 DEF b, r, w

\* What the server has not taken is still in one flow.
LEMMA ToServerReads ==
  ASSUME IInv, KeepsClient, ~udp["server"], sock'["server"] = sock["server"],
         NEW n \in 0..Len(wire["client"]), n = 0 \/ sock["server"] = "connected",
         wire'["client"] = Drop(wire["client"], n),
         NEW d \in 0..(Len(recvBuf["server"]) + n),
         recvBuf'["server"] = Drop(recvBuf["server"] \o SubSeq(wire["client"], 1, n), d),
         \A h \in {2, 4}, o \in Nat : ToServerFrom(o, h) => ServerAt(o + d, h)'
  PROVE  ToServer'
<1>1. PICK h \in {2, 4}, o \in Nat : ToServerFrom(o, h)
  BY DEF IInv, ToServer
<1>2. ClientSent(h)' = ClientSent(h)
  BY DEF ClientSent, KeepsClient, Keeps
<1> DEFINE r == recvBuf["server"] w == wire["client"] u == unsent["client"]
           r1 == r \o SubSeq(w, 1, n)
           o1 == o + Len(r) o2 == o1 + Len(w) o3 == o2 + Len(u)
<1>3. r \in Seq(Units) /\ w \in Seq(Units) /\ u \in Seq(Units)
  BY BothEnds DEF IInv, Typed
<1>4. Len(r) \in Nat /\ Len(w) \in Nat /\ Len(u) \in Nat /\ n \in Nat /\ n <= Len(w) /\ h \in Nat
      /\ d \in Nat /\ d <= Len(r) + n
  <2>1. Len(r) \in Nat /\ Len(w) \in Nat /\ Len(u) \in Nat
    BY <1>3, LenProperties
  <2> QED
    BY <2>1, SMT
<1>5. /\ request.dest = "ip6" => o1 <= h + 1
      /\ Flow("client", request.cmd, r, o, h)
      /\ sock["server"] \in {"backlog", "connected"} =>
           /\ Flow("client", request.cmd, w, o1, h)
           /\ Flow("client", request.cmd, u, o2, h)
           /\ request.dest = "ip6" => o3 <= h + 1
           /\ sock["client"] = "connected" /\ ~Foreign("client") =>
                /\ o3 = ClientSent(h)
                /\ step["client"] = "auth" => h = 4
  BY <1>1 DEF ToServerFrom
<1>6. /\ wire'["client"] = Drop(w, n) /\ unsent'["client"] = u /\ recvBuf'["server"] = Drop(r1, d)
      /\ request' = request /\ sock'["client"] = sock["client"] /\ step'["client"] = step["client"]
      /\ (Foreign("client")' <=> Foreign("client"))
  BY DEF KeepsClient, Keeps, Foreign
<1>7. ServerAt(o + d, h)'
  BY <1>1
<1>8. n \in 0..Len(w) /\ (n = 0 \/ sock["server"] = "connected")
  OBVIOUS
<1> HIDE DEF r, w, u
<1>9. o1 \in Nat /\ o2 \in Nat /\ o3 \in Nat
  BY <1>4, SMT
<1>10. /\ r1 \in Seq(Units) /\ Len(r1) = Len(r) + n /\ Len(Drop(w, n)) = Len(w) - n /\ d \in 0..Len(r1)
  <2>1. SubSeq(w, 1, n) \in Seq(Units) /\ Len(SubSeq(w, 1, n)) = n /\ Len(Drop(w, n)) = Len(w) - n
    BY <1>3, <1>8, Parts
  <2>2. r1 \in Seq(Units) /\ Len(r1) = Len(r) + n
    BY <1>3, <2>1, Joined
  <2>3. d \in 0..(Len(r) + n)
    BY <1>4, SMT
  <2> HIDE DEF r1
  <2> QED
    BY <2>1, <2>2, <2>3
<1>11. /\ Flow("client", request.cmd, r1, o, h)
       /\ request.dest = "ip6" => o + Len(r1) <= h + 1
       /\ sock["server"] \in {"backlog", "connected"} => Flow("client", request.cmd, Drop(w, n), o + Len(r1), h)
  <2>1. Flow("client", request.cmd, r1, o, h) /\ (request.dest = "ip6" => o + Len(r1) <= h + 1)
    BY <1>1, <1>8, ServerBuffer DEF r, w
  <2>2. ASSUME sock["server"] \in {"backlog", "connected"} PROVE Flow("client", request.cmd, Drop(w, n), o + Len(r1), h)
    <3>1. Flow("client", request.cmd, r, o, h) /\ Flow("client", request.cmd, w, o + Len(r), h)
      BY <1>5, <2>2
    <3>2. Flow("client", request.cmd, Drop(w, n), o + Len(r1), h)
      BY <1>3, <1>4, <1>8, <3>1, FlowMoved
    <3> QED
      BY <3>2
  <2> HIDE DEF r1
  <2> QED
    BY <2>1, <2>2
<1> HIDE DEF r1
<1>12. Flow("client", request.cmd, Drop(r1, d), o + d, h) /\ Len(Drop(r1, d)) = Len(r1) - d
  BY <1>4, <1>10, <1>11, FlowCut, Parts
<1>13. o + d + (Len(r) + n - d) = o + (Len(r) + n) /\ o + (Len(r) + n) + (Len(w) - n) = o2
  BY <1>4, SMT
<1>14. /\ o + d + Len(recvBuf'["server"]) = o + Len(r1)
       /\ o + Len(r1) + Len(wire'["client"]) = o2
       /\ o2 + Len(unsent'["client"]) = o3
  <2>1. o + d + Len(Drop(r1, d)) = o + Len(r1)
    BY <1>10, <1>12, <1>13
  <2>2. o + Len(r1) + Len(Drop(w, n)) = o2
    BY <1>10, <1>13
  <2> QED
    BY <1>6, <2>1, <2>2
<1>16. o + d \in Nat
  BY <1>4, SMT
<1> HIDE DEF o1, o2, o3
<1>17. ToServerFrom(o + d, h)'
  BY <1>2, <1>5, <1>6, <1>7, <1>11, <1>12, <1>14 DEF ToServerFrom
<1> QED
  BY <1>16, <1>17 DEF ToServer

\* What the client has not taken is still in one flow.
LEMMA ToClientReads ==
  ASSUME IInv, KeepsServer, sock'["client"] = sock["client"],
         active["client"] /\ udp["client"] => inConnected,
         NEW n \in 0..Len(wire["server"]),
         wire'["server"] = Drop(wire["server"], n),
         NEW d \in 0..(Len(recvBuf["client"]) + n),
         recvBuf'["client"] = Drop(recvBuf["client"] \o SubSeq(wire["server"], 1, n), d),
         sock["client"] = "connected" /\ ~Foreign("client") =>
           \A h \in {2, 4, 6}, p \in Nat : ToClientFrom(p, h) => ClientAt(p + d, h)'
  PROVE  ToClient'
<1>1. Foreign("client")' <=> Foreign("client")
  BY DEF Foreign, KeepsServer, Keeps
<1> SUFFICES ASSUME sock["client"] = "connected", ~Foreign("client")
             PROVE  \E h \in {2, 4, 6}, p \in Nat : ToClientFrom(p, h)'
  BY <1>1 DEF ToClient
<1>2. PICK h \in {2, 4, 6}, p \in Nat : ToClientFrom(p, h)
  BY DEF IInv, ToClient
<1>3. ServerSent(h)' = ServerSent(h)
  BY DEF ServerSent, KeepsServer, Keeps
<1> DEFINE r == recvBuf["client"] w == wire["server"] u == unsent["server"]
           r1 == r \o SubSeq(w, 1, n)
           p1 == p + Len(r) p2 == p1 + Len(w) p3 == p2 + Len(u)
<1>4. r \in Seq(Units) /\ w \in Seq(Units) /\ u \in Seq(Units)
  BY BothEnds DEF IInv, Typed
<1>5. Len(r) \in Nat /\ Len(w) \in Nat /\ Len(u) \in Nat /\ n \in Nat /\ n <= Len(w) /\ h \in Nat
      /\ d \in Nat /\ d <= Len(r) + n
  <2>1. Len(r) \in Nat /\ Len(w) \in Nat /\ Len(u) \in Nat
    BY <1>4, LenProperties
  <2> QED
    BY <2>1, SMT
<1>6. /\ Flow("server", request.cmd, r, p, h)
      /\ Flow("server", request.cmd, w, p1, h)
      /\ Flow("server", request.cmd, u, p2, h)
      /\ p3 > h => granted = request.cmd /\ granted # "none"
      /\ sock["server"] \in {"backlog", "connected"} =>
           /\ p3 = ServerSent(h)
           /\ h # 6
           /\ served = "serving" /\ step["server"] = "auth" => h = 4
  BY <1>2 DEF ToClientFrom
<1>7. /\ wire'["server"] = Drop(w, n) /\ unsent'["server"] = u /\ recvBuf'["client"] = Drop(r1, d)
      /\ request' = request /\ sock'["server"] = sock["server"] /\ step'["server"] = step["server"]
      /\ served' = served /\ granted' = granted
  BY DEF KeepsServer, Keeps
<1>8. ClientAt(p + d, h)'
  BY <1>2
<1>9. n \in 0..Len(w)
  OBVIOUS
<1> HIDE DEF r, w, u
<1>10. /\ r1 \in Seq(Units) /\ Len(r1) = Len(r) + n /\ Len(Drop(w, n)) = Len(w) - n /\ d \in 0..Len(r1)
       /\ Flow("server", request.cmd, r1, p, h) /\ Flow("server", request.cmd, Drop(w, n), p + Len(r1), h)
  <2>1. d \in 0..(Len(r) + n)
    BY <1>5, SMT
  <2>2. Flow("server", request.cmd, r, p, h) /\ Flow("server", request.cmd, w, p + Len(r), h)
    BY <1>6
  <2>3. Flow("server", request.cmd, r1, p, h) /\ Flow("server", request.cmd, Drop(w, n), p + Len(r1), h)
    BY <1>4, <1>5, <1>9, <2>2, FlowMoved
  <2>4. r1 \in Seq(Units) /\ Len(r1) = Len(r) + n /\ Len(Drop(w, n)) = Len(w) - n
    BY <1>4, <1>5, <1>9, <2>2, FlowMoved
  <2> HIDE DEF r1
  <2> QED
    BY <2>1, <2>3, <2>4
<1> HIDE DEF r1
<1>11. Flow("server", request.cmd, Drop(r1, d), p + d, h) /\ Len(Drop(r1, d)) = Len(r1) - d
  BY <1>5, <1>10, FlowCut, Parts, ZenonT(60)
<1>12. p + d + (Len(r) + n - d) = p + (Len(r) + n) /\ p + (Len(r) + n) + (Len(w) - n) = p2
  BY <1>5, SMT
<1>13. /\ p + d + Len(recvBuf'["client"]) = p + Len(r1)
       /\ p + Len(r1) + Len(wire'["server"]) = p2
       /\ p2 + Len(unsent'["server"]) = p3
  <2>1. p + d + Len(Drop(r1, d)) = p + Len(r1)
    BY <1>10, <1>11, <1>12
  <2>2. p + Len(r1) + Len(Drop(w, n)) = p2
    BY <1>10, <1>12
  <2> QED
    BY <1>7, <2>1, <2>2
<1>14. p + d \in Nat
  BY <1>5, SMT
<1> HIDE DEF p1, p2, p3
<1>15. ToClientFrom(p + d, h)'
  BY <1>3, <1>6, <1>7, <1>8, <1>10, <1>11, <1>13 DEF ToClientFrom
<1> QED
  BY <1>14, <1>15

-----------------------------------------------------------------------------
(* The open stream.                                                        *)

\* What came with the reply is the first data made available.
LEMMA ConnectedReturnsStep ==
  ASSUME IInv, ConnectedReturns
  PROVE  IInv'
<1> USE DEF IInv
<1>1. /\ inConnected /\ inConnected' = FALSE
      /\ got' = [got EXCEPT !["client"] = @ \o recvBuf["client"]]
      /\ recvBuf' = [recvBuf EXCEPT !["client"] = <<>>]
      /\ UNCHANGED <<sock, unsent, wire, wrote, reported, ended, waiting, served, granted, active, udp, step, pending,
                     request>>
  BY DEF ConnectedReturns, sockVars, serverVars
<1> DEFINE r == recvBuf["client"]
<1>2. r \in Seq(Units) /\ got["client"] = <<>> /\ \A i \in 1..Len(r) : r[i] = Data(i)
  BY <1>1, BothEnds DEF Typed, OfClient
<1>3. /\ got'["client"] = r /\ got'["server"] = got["server"]
      /\ recvBuf'["client"] = <<>> /\ recvBuf'["server"] = recvBuf["server"]
  <2>1. <<>> \o r = r
    BY <1>2, NothingMore
  <2>2. got'["client"] = <<>> \o r
    BY <1>1, <1>2, BothEnds DEF Typed
  <2> QED
    BY <1>1, <2>1, <2>2, BothEnds, SMTT(30) DEF Typed
<1>4. Typed'
  <2>1. got' = [got EXCEPT !["client"] = r]
    BY <1>1, <1>2, <1>3, NothingMore
  <2> QED
    BY <1>1, <1>2, <2>1, Nothing DEF Typed
<1>5. sock["server"] \notin {"listen", "backlog"} /\ ~Foreign("client")
      /\ (sock["client"] = "connected" => active["client"])
  BY <1>1 DEF Fresh, OfClient
<1>6. Foreign("client")' <=> Foreign("client")
  BY <1>1 DEF Foreign
<1> HIDE DEF r
<1>7. Fresh'
  BY <1>1, <1>3, <1>5, <1>6 DEF Fresh
<1>8. OfClient'
  BY <1>1, <1>3, <1>5, <1>6 DEF OfClient
<1>9. OfServer'
  BY <1>1, <1>3 DEF OfServer
<1>10. ASSUME NEW e \in Ends PROVE Counted(e)'
  BY <1>1 DEF Counted, PendingLimit, Foreign
<1>11. DataStreamIntact'
  <2>1. got'["client"] = [i \in 1..Len(got'["client"]) |-> Data(i)]
    <3>1. <<>> = [i \in 1..Len(<<>>) |-> Data(i)]
      BY <1>2, BothEnds DEF DataStreamIntact
    <3>2. \A i \in 1..Len(r) : r[i] = Data(Len(<<>>) + i)
      <4>1. \A i \in 1..Len(r) : 0 + i = i
        BY SMT
      <4> QED
        BY <1>2, <4>1, Nothing
    <3>3. <<>> \o r = [i \in 1..Len(<<>> \o r) |-> Data(i)]
      BY <1>2, <3>1, <3>2, Nothing, DataJoined
    <3> QED
      BY <1>2, <1>3, <3>3, NothingMore
  <2>2. got'["server"] = [i \in 1..Len(got'["server"]) |-> Data(i)]
    BY <1>3, BothEnds DEF DataStreamIntact
  <2> QED
    BY <2>1, <2>2, BothEnds DEF DataStreamIntact
<1>12. ToServer'
  <2>1. ASSUME NEW h, NEW o, ToServerFrom(o, h) PROVE ToServerFrom(o, h)'
    <3>1. ServerAt(o, h)' <=> ServerAt(o, h)
      BY <1>1, <1>3 DEF ServerAt
    <3>2. ClientSent(h)' = ClientSent(h)
      BY <1>1 DEF ClientSent
    <3> QED
      BY <1>1, <1>3, <2>1, <3>1, <3>2 DEF ToServerFrom, Foreign
  <2> QED
    BY <1>1, <2>1 DEF ToServer
<1>13. ToClient'
  <2> SUFFICES ASSUME sock["client"] = "connected", ~Foreign("client"), ~udp["client"]
               PROVE  \E h \in {2, 4, 6}, p \in Nat : ToClientFrom(p, h)'
    BY <1>1, <1>5, <1>6 DEF ToClient
  <2>1. PICK h \in {2, 4, 6}, p \in Nat : ToClientFrom(p, h)
    BY DEF ToClient
  <2>2. active["client"] /\ p = h + 2 + Len(got["client"]) /\ Flow("server", request.cmd, r, p, h)
    BY <1>5, <2>1 DEF ToClientFrom, ClientAt, r
  <2>3. Len(r) \in Nat /\ p + Len(r) \in Nat /\ p + Len(r) = h + 2 + Len(r) /\ p + Len(r) + 0 = p + Len(r)
    <3>1. Len(r) \in Nat /\ Len(got["client"]) = 0
      BY <1>2, LenProperties, Nothing
    <3>2. p = h + 2 + 0
      BY <2>2, <3>1
    <3> QED
      BY <3>1, <3>2, SMT
  <2>9. PICK q \in Nat : q = p + Len(r)
    BY <2>3
  <2>4. ClientAt(q, h)'
    BY <1>1, <1>3, <2>2, <2>3, <2>9 DEF ClientAt
  <2>5. q + Len(recvBuf'["client"]) = q
    BY <1>3, <2>3, <2>9, Nothing
  <2>6. Flow("server", request'.cmd, recvBuf'["client"], q, h)
    BY <1>3, Nothing
  <2>7. ServerSent(h)' = ServerSent(h)
    BY <1>1 DEF ServerSent
  <2>8. ToClientFrom(q, h)'
    <3>1. /\ Flow("server", request.cmd, wire["server"], q, h)
          /\ Flow("server", request.cmd, unsent["server"], q + Len(wire["server"]), h)
          /\ q + Len(wire["server"]) + Len(unsent["server"]) > h => granted = request.cmd /\ granted # "none"
          /\ sock["server"] \in {"backlog", "connected"} =>
               /\ q + Len(wire["server"]) + Len(unsent["server"]) = ServerSent(h)
               /\ h # 6
               /\ served = "serving" /\ step["server"] = "auth" => h = 4
      BY <2>1, <2>9 DEF ToClientFrom, r
    <3> QED
      BY <1>1, <2>4, <2>5, <2>6, <2>7, <3>1 DEF ToClientFrom
  <2> QED
    BY <2>8
<1> QED
  BY <1>4, <1>7, <1>8, <1>9, <1>10, <1>11, <1>12, <1>13

\* One byte more, of l units of which q are not the user's.
LEMMA OneMore ==
  ASSUME NEW r \in Nat, NEW l \in Nat, NEW w \in Nat, NEW q \in Nat,
         r + l = w + q, q <= l, r + l <= w + 6
  PROVE  r + (l + 1) = (w + 1) + q /\ q <= l + 1 /\ r + (l + 1) <= (w + 1) + 6
BY SMT

\* One byte of the user's is counted where it is written.
LEMMA CountedWrites ==
  ASSUME NEW e \in Ends, Typed, Counted(e), ~Foreign(e), sock[e] = "connected",
         unsent'[e] = Append(unsent[e], Data(wrote[e] + 1)), wrote'[e] = wrote[e] + 1, Data(wrote[e] + 1) \in Units,
         sock' = sock, step' = step, active' = active, pending' = pending, reported' = reported, request' = request
  PROVE  Counted(e)'
<1> DEFINE u == unsent[e] c == pending[e] x == Data(wrote[e] + 1)
<1>1. /\ u \in Seq(Units) /\ Len(u) \in Nat /\ c \in Nat /\ reported[e] \in Nat /\ wrote[e] \in Nat /\ IsUser(x)
  BY SocksAssumption, LenProperties, Openings DEF Typed
<1>2. reported[e] + Len(u) = wrote[e] + c /\ c <= Len(u) /\ \A i \in 1..Len(u) : IsUser(u[i]) <=> i > c
  BY DEF Counted
<1>3. /\ Len(Append(u, x)) = Len(u) + 1
      /\ \A i \in 1..Len(u) : Append(u, x)[i] = u[i]
      /\ Append(u, x)[Len(u) + 1] = x
  BY <1>1, AppendProperties
<1>4. c <= PendingLimit(e) /\ reported[e] + Len(u) <= wrote[e] + 6 /\ PendingLimit(e)' = PendingLimit(e)
  BY DEF Counted, PendingLimit
<1>5. unsent'[e] = Append(u, x) /\ wrote'[e] = wrote[e] + 1 /\ reported'[e] = reported[e] /\ pending'[e] = c
      /\ sock'[e] = "connected"
  OBVIOUS
<1> HIDE DEF u, c, x
<1>6. /\ reported[e] + (Len(u) + 1) = (wrote[e] + 1) + c /\ c <= Len(u) + 1
      /\ reported[e] + (Len(u) + 1) <= (wrote[e] + 1) + 6
  <2>1. Len(u) \in Nat /\ c \in Nat /\ reported[e] \in Nat /\ wrote[e] \in Nat
    BY <1>1
  <2>2. reported[e] + Len(u) = wrote[e] + c /\ c <= Len(u) /\ reported[e] + Len(u) <= wrote[e] + 6
    BY <1>2, <1>4
  <2> QED
    BY <2>1, <2>2, OneMore
<1>7. ASSUME NEW i \in 1..(Len(u) + 1) PROVE IsUser(Append(u, x)[i]) <=> i > c
  <2>1. CASE i = Len(u) + 1
    <3>1. i > c
      BY <1>1, <1>2, <2>1, SMT
    <3> QED
      BY <1>1, <1>3, <2>1, <3>1
  <2>2. CASE i # Len(u) + 1
    <3>1. i \in 1..Len(u)
      BY <1>1, <2>2, SMT
    <3> QED
      BY <1>2, <1>3, <3>1
  <2> QED
    BY <2>1, <2>2
<1> QED
  BY <1>3, <1>4, <1>5, <1>6, <1>7 DEF Counted

\* write() of an open stream.
LEMMA WriteStep ==
  ASSUME IInv, NEW e \in Ends, Write(e)
  PROVE  IInv'
<1> USE DEF IInv
<1> DEFINE x == Data(wrote[e] + 1) t == <<x>>
<1>1. /\ active[e] /\ ~udp[e] /\ sock[e] = "connected" /\ wrote[e] < MaxData
      /\ wrote' = [wrote EXCEPT ![e] = @ + 1]
      /\ unsent' = [unsent EXCEPT ![e] = Append(@, x)]
      /\ UNCHANGED <<sock, wire, got, reported, ended, waiting, served, granted, recvBuf, active, udp, step, pending,
                     inConnected, request>>
  BY DEF Write, serverVars
<1>2. /\ unsent[e] \in Seq(Units) /\ wrote[e] \in Nat /\ wrote[e] + 1 \in 1..MaxData /\ wrote[e] + 1 \in 0..MaxData
  <2>1. unsent[e] \in Seq(Units) /\ wrote[e] \in 0..MaxData
    BY DEF Typed
  <2> QED
    BY <1>1, <2>1, SocksAssumption, SMT
<1>3. x \in Units
  BY <1>2, Openings
<1>4. /\ Append(unsent[e], x) \in Seq(Units) /\ Append(unsent[e], x) = unsent[e] \o t
      /\ t \in Seq(Units) /\ Len(t) = 1 /\ \A i \in 1..Len(t) : t[i] = Data(wrote[e] + i)
  <2>1. Append(unsent[e], x) \in Seq(Units) /\ Append(unsent[e], x) = unsent[e] \o t
    BY <1>2, <1>3, AppendProperties, AppendIsConcat
  <2>2. t \in Seq(Units) /\ Len(t) = 1 /\ t[1] = x
    BY <1>3
  <2>3. \A i \in 1..1 : i = 1
    BY SMT
  <2> QED
    BY <2>1, <2>2, <2>3
<1> HIDE DEF x, t
<1>5. /\ unsent'[e] = unsent[e] \o t /\ wrote'[e] = wrote[e] + 1
      /\ \A d \in Ends : d # e => unsent'[d] = unsent[d] /\ wrote'[d] = wrote[d]
  BY <1>1, <1>4 DEF Typed
<1>6. ~Foreign(e)
  BY <1>1 DEF OfClient, Foreign
<1>7. Typed'
  BY <1>1, <1>2, <1>4 DEF Typed
<1>8. Counted(e)'
  <2>1. unsent'[e] = Append(unsent[e], Data(wrote[e] + 1)) /\ Data(wrote[e] + 1) \in Units
    BY <1>3, <1>4, <1>5 DEF x
  <2> QED
    BY <1>1, <1>5, <1>6, <2>1, CountedWrites
<1>9. DataStreamIntact'
  BY <1>1, DataKept
<1>10. CASE e = "client"
  <2>1. KeepsServer
    BY <1>1, <1>5, <1>10, BothEnds DEF KeepsServer, Keeps
  <2>2. Counted("server")'
    BY <2>1, BothEnds, CountedKept DEF KeepsServer
  <2>3. /\ sock["server"] \notin {"listen", "backlog"} /\ step["client"] = "request" /\ request.dest # "ip6"
        /\ (Foreign("client")' <=> Foreign("client")) /\ active["client"] /\ sock["client"] = "connected"
    BY <1>1, <1>10 DEF Fresh, OfClient, OfServer, Foreign
  <2>4. Fresh'
    BY <1>1, <2>1, <2>3 DEF Fresh, KeepsServer, Keeps
  <2>5. OfClient' /\ OfServer'
    BY <1>1, <1>6, <1>10, <2>1, <2>3 DEF OfClient, OfServer, KeepsServer, Keeps
  <2>6. ASSUME NEW h \in {2, 4} PROVE ClientGoesOn(t, h, h)
    <3>1. /\ ClientSent(h) = h + 2 + wrote["client"] /\ ClientSent(h)' = h + 2 + (wrote["client"] + 1)
          /\ step'["client"] = "request"
      BY <1>1, <1>5, <1>10, <2>3 DEF ClientSent
    <3>2. h \in Nat /\ h + 2 + (wrote["client"] + 1) = h + 2 + wrote["client"] + 1
      BY <1>2, <1>10, SMT
    <3>3. Flow("client", request.cmd, t, h + 2 + wrote["client"], h)
      BY <1>2, <1>4, <1>10, <3>2, FlowIsData
    <3> QED
      BY <1>4, <2>3, <3>1, <3>2, <3>3 DEF ClientGoesOn
  <2>7. ToServer'
    BY <1>1, <1>4, <1>5, <1>6, <1>10, <2>1, <2>6, ToServerSends
  <2>8. ToClient'
    <3>1. ASSUME NEW h, NEW p, ToClientFrom(p, h) PROVE ToClientFrom(p, h)'
      <4>1. ClientAt(p, h)' <=> ClientAt(p, h)
        BY <1>1 DEF ClientAt
      <4>2. ServerSent(h)' = ServerSent(h)
        BY <1>1, <2>1 DEF ServerSent, KeepsServer, Keeps
      <4>3. unsent'["server"] = unsent["server"]
        BY <2>1 DEF KeepsServer, Keeps
      <4> QED
        BY <1>1, <3>1, <4>1, <4>2, <4>3 DEF ToClientFrom
    <3> QED
      BY <1>1, <3>1 DEF ToClient, Foreign
  <2> QED
    BY <1>7, <1>8, <1>9, <1>10, <2>2, <2>4, <2>5, <2>7, <2>8, BothEnds
<1>11. CASE e = "server"
  <2>1. KeepsClient
    BY <1>1, <1>5, <1>11, BothEnds DEF KeepsClient, Keeps
  <2>2. Counted("client")'
    BY <2>1, BothEnds, CountedKept DEF KeepsClient
  <2>3. /\ step["server"] = "request" /\ served = "serving" /\ ~waiting
        /\ (Foreign("client")' <=> Foreign("client")) /\ active["server"] /\ sock["server"] = "connected"
    BY <1>1, <1>11 DEF Fresh, OfServer, Foreign
  <2>4. Fresh'
    BY <1>1, <2>1, <2>3 DEF Fresh, KeepsClient, Keeps
  <2>5. OfClient' /\ OfServer'
    BY <1>1, <1>11, <2>1, <2>3 DEF OfClient, OfServer, KeepsClient, Keeps
  <2>6. ToServer'
    <3>1. ASSUME NEW h, NEW o, ToServerFrom(o, h) PROVE ToServerFrom(o, h)'
      <4>1. ServerAt(o, h)' <=> ServerAt(o, h)
        BY <1>1 DEF ServerAt
      <4>2. ClientSent(h)' = ClientSent(h) /\ unsent'["client"] = unsent["client"]
        BY <1>1, <2>1 DEF ClientSent, KeepsClient, Keeps
      <4> QED
        BY <1>1, <3>1, <4>1, <4>2 DEF ToServerFrom, Foreign
    <3> QED
      BY <1>1, <3>1 DEF ToServer
  <2>7. ToClient'
    <3>1. Foreign("client")' <=> Foreign("client")
      BY <2>3
    <3> SUFFICES ASSUME sock["client"] = "connected", ~Foreign("client"),
                        active["client"] /\ udp["client"] => inConnected
                 PROVE  ToClient'
      BY <1>1, <3>1 DEF ToClient
    <3>2. granted = request.cmd /\ granted # "none"
      <4>1. PICK h \in {2, 4, 6}, p \in Nat : ToClientFrom(p, h)
        BY DEF ToClient
      <4>2. p + Len(recvBuf["client"]) + Len(wire["server"]) + Len(unsent["server"]) = h + 2 + wrote["server"]
        BY <2>3, <4>1 DEF ToClientFrom, ServerSent
      <4>3. h + 2 + wrote["server"] > h
        BY <1>2, <1>11, SMT
      <4> QED
        BY <4>1, <4>2, <4>3 DEF ToClientFrom
    <3>3. ASSUME NEW h \in {2, 4} PROVE ServerGoesOn(t, h, h) /\ h \in {2, 4, 6}
      <4>1. /\ ServerSent(h) = h + 2 + wrote["server"] /\ ServerSent(h)' = h + 2 + (wrote["server"] + 1)
            /\ step'["server"] = "request"
        BY <1>1, <1>5, <1>11, <2>3 DEF ServerSent
      <4>2. h \in Nat /\ h + 2 + (wrote["server"] + 1) = h + 2 + wrote["server"] + 1 /\ h # 6
        BY <1>2, <1>11, SMT
      <4>3. Flow("server", request.cmd, t, h + 2 + wrote["server"], h)
        BY <1>2, <1>4, <1>11, <4>2, FlowIsData
      <4> QED
        BY <1>1, <1>4, <3>2, <4>1, <4>2, <4>3 DEF ServerGoesOn
    <3>4. wire'["server"] = wire["server"] /\ unsent'["server"] = unsent["server"] \o t
      BY <1>1, <1>5, <1>11
    <3> QED
      BY <1>4, <2>1, <2>3, <3>3, <3>4, ToClientSends
  <2> QED
    BY <1>7, <1>8, <1>9, <1>11, <2>2, <2>4, <2>5, <2>6, <2>7, BothEnds
<1> QED
  BY <1>10, <1>11, BothEnds

\* What an open stream takes of s, all of it, it has off an empty buffer.
LEMMA TakesAll ==
  ASSUME NEW s \in Seq(Units), NEW n \in 0..Len(s)
  PROVE  /\ n \in 0..(Len(<<>>) + n)
         /\ Drop(<<>> \o SubSeq(s, 1, n), n) = <<>>
<1>1. SubSeq(s, 1, n) \in Seq(Units) /\ Len(SubSeq(s, 1, n)) = n
  BY Parts
<1>2. <<>> \o SubSeq(s, 1, n) = SubSeq(s, 1, n) /\ Drop(SubSeq(s, 1, n), n) = <<>>
  BY <1>1, NothingMore
<1>3. n \in Nat
  BY LenProperties, SMT
<1>4. n \in 0..(0 + n)
  BY <1>3, SMT
<1> QED
  BY <1>2, <1>4, Nothing

\* It is the data that comes next.
Intact(g) == g = [i \in 1..Len(g) |-> Data(i)]

\* What follows the data made available before is the next data.
LEMMA DataTaken ==
  ASSUME NEW g \in Seq(Units), Intact(g),
         NEW s \in Seq(Units), NEW n \in 0..Len(s), NEW h \in Nat, NEW e, NEW cmd,
         Flow(e, cmd, s, h + 2 + Len(g), h)
  PROVE  /\ Intact(g \o SubSeq(s, 1, n))
         /\ g \o SubSeq(s, 1, n) \in Seq(Units)
         /\ h + 2 + Len(g) + n = h + 2 + Len(g \o SubSeq(s, 1, n))
<1>1. Len(g) \in Nat /\ n \in Nat /\ h + 2 + Len(g) \in Nat
  BY LenProperties, SMT
<1>2. SubSeq(s, 1, n) \in Seq(Units) /\ Len(SubSeq(s, 1, n)) = n
  BY Parts
<1>3. Flow(e, cmd, SubSeq(s, 1, n), h + 2 + Len(g), h)
  BY <1>1, FlowCut
<1>4. \A i \in 1..Len(SubSeq(s, 1, n)) : SubSeq(s, 1, n)[i] = Data(Len(g) + i)
  BY <1>1, <1>2, <1>3, FlowIsData
<1>5. g \o SubSeq(s, 1, n) \in Seq(Units) /\ Len(g \o SubSeq(s, 1, n)) = Len(g) + n
  BY <1>2, Joined
<1>6. h + 2 + Len(g) + n = h + 2 + (Len(g) + n)
  BY <1>1, SMT
<1> QED
  BY <1>2, <1>4, <1>5, <1>6, DataJoined DEF Intact

\* sock_readyRead() of an open stream.
LEMMA ReadsDataStep ==
  ASSUME IInv, NEW e \in Ends, NEW n, SockReadyRead(e, n), active[e]
  PROVE  IInv'
<1> USE DEF IInv
<1>1. /\ sock[e] = "connected" /\ (e = "client" => ~inConnected) /\ n \in 1..Len(wire[Peer(e)])
      /\ got' = [got EXCEPT ![e] = IF udp[e] THEN @ ELSE @ \o SubSeq(wire[Peer(e)], 1, n)]
      /\ wire' = [wire EXCEPT ![Peer(e)] = Drop(@, n)]
      /\ UNCHANGED <<sock, unsent, wrote, reported, ended, waiting, served, granted, recvBuf, active, udp, step,
                     pending, inConnected, request>>
  BY DEF SockReadyRead, Loop, serverVars
<1> DEFINE g == got[e] w == wire[Peer(e)]
           g1 == IF udp[e] THEN g ELSE g \o SubSeq(w, 1, n)
<1>2. Peer(e) \in Ends /\ Peer(e) # e
  BY BothEnds
<1>3. g \in Seq(Units) /\ Intact(g) /\ w \in Seq(Units) /\ recvBuf[e] = <<>>
  BY <1>1, <1>2, BothEnds, ZenonT(60) DEF Typed, DataStreamIntact, Intact, OfClient, OfServer
<1>4. n \in 0..Len(w) /\ n \in Nat
  <2>1. Len(w) \in Nat /\ n \in 1..Len(w)
    BY <1>1, <1>3, LenProperties
  <2> QED
    BY <2>1, SMT
<1>5. SubSeq(w, 1, n) \in Seq(Units) /\ Drop(w, n) \in Seq(Units)
  BY <1>3, <1>4, Parts
<1>6. g1 \in Seq(Units)
  BY <1>3, <1>5, Joined
<1>7. /\ got'[e] = g1 /\ wire'[Peer(e)] = Drop(w, n)
      /\ got'[Peer(e)] = got[Peer(e)] /\ wire'[e] = wire[e]
      /\ got' = [got EXCEPT ![e] = g1] /\ wire' = [wire EXCEPT ![Peer(e)] = Drop(w, n)]
  BY <1>1, <1>2 DEF Typed
<1>8. Typed'
  <2> HIDE DEF g1, w
  <2>1. got' \in [Ends -> Seq(Units)] /\ wire' \in [Ends -> Seq(Units)]
    BY <1>2, <1>5, <1>6, <1>7 DEF Typed
  <2> QED
    BY <1>1, <2>1 DEF Typed
<1>9. ASSUME NEW d \in Ends PROVE Counted(d)'
  BY <1>1 DEF Counted, PendingLimit, Foreign
<1>10. \A h, o : ClientSent(h)' = ClientSent(h) /\ ServerSent(h)' = ServerSent(h) /\ (Foreign("client")' <=> Foreign("client"))
  BY <1>1 DEF ClientSent, ServerSent, Foreign
<1>11. /\ n \in 0..(Len(recvBuf[e]) + n)
       /\ recvBuf'[e] = Drop(recvBuf[e] \o SubSeq(wire[Peer(e)], 1, n), n)
  BY <1>1, <1>3, <1>4, TakesAll
<1>12. Intact(g1) => DataStreamIntact'
  <2> SUFFICES ASSUME Intact(g1), NEW d \in Ends
               PROVE  got'[d] = [i \in 1..Len(got'[d]) |-> Data(i)]
    BY DEF DataStreamIntact
  <2>1. d = e \/ d = Peer(e)
    BY BothEnds
  <2>2. got[d] = [i \in 1..Len(got[d]) |-> Data(i)]
    BY DEF DataStreamIntact
  <2> HIDE DEF g1
  <2> QED
    BY <1>7, <2>1, <2>2 DEF Intact
<1>13. CASE e = "client"
  <2>1. KeepsServer
    BY <1>1, <1>7, <1>13, BothEnds DEF KeepsServer, Keeps
  <2>2. sock["server"] \notin {"listen", "backlog"} /\ ~Foreign("client")
    BY <1>1, <1>13 DEF Fresh, OfClient
  <2>3. wire'["client"] = wire["client"] /\ got'["server"] = got["server"] /\ ~inConnected /\ active["client"]
    BY <1>1, <1>7, <1>13, BothEnds
  <2>4. Fresh'
    BY <1>1, <1>10, <2>2, <2>3 DEF Fresh
  <2>5. OfClient' /\ OfServer'
    BY <1>1, <1>3, <1>10, <1>13, <2>2, <2>3 DEF OfClient, OfServer
  <2>6. ToServer'
    <3>1. ASSUME NEW h, NEW o, ToServerFrom(o, h) PROVE ToServerFrom(o, h)'
      <4>1. ServerAt(o, h)' <=> ServerAt(o, h)
        BY <1>1, <2>3 DEF ServerAt
      <4> QED
        BY <1>1, <1>10, <2>3, <3>1, <4>1 DEF ToServerFrom
    <3> QED
      BY <1>1, <3>1 DEF ToServer
  <2>7. CASE udp["client"]
    <3>1. ToClient'
      BY <1>1, <2>3, <2>7 DEF ToClient
    <3>2. g1 = g
      BY <1>13, <2>7
    <3>3. DataStreamIntact'
      BY <1>3, <1>12, <3>2
    <3> QED
      BY <1>8, <1>9, <2>4, <2>5, <2>6, <3>1, <3>3
  <2>8. CASE ~udp["client"]
    <3>1. g1 = g \o SubSeq(w, 1, n) /\ w = wire["server"] /\ g = got["client"]
      BY <1>13, <2>8, BothEnds
    <3>2. ASSUME NEW h \in {2, 4, 6}, NEW p \in Nat, ToClientFrom(p, h)
          PROVE  Intact(g1) /\ ClientAt(p + n, h)'
      <4>1. p = h + 2 + Len(g) /\ Flow("server", request.cmd, w, p, h)
        <5>1. p = h + 2 + Len(got["client"]) /\ Flow("server", request.cmd, wire["server"], p + Len(<<>>), h)
          BY <1>3, <1>13, <2>3, <3>2 DEF ToClientFrom, ClientAt
        <5>2. p + 0 = p
          BY SMT
        <5> QED
          BY <3>1, <5>1, <5>2, Nothing
      <4>2. h \in Nat
        BY SMT
      <4> HIDE DEF g, w
      <4>3. /\ Intact(g1)
            /\ h + 2 + Len(g) + n = h + 2 + Len(g1)
        <5>1. Flow("server", request.cmd, w, h + 2 + Len(g), h)
          BY <4>1
        <5>2. /\ Intact(g \o SubSeq(w, 1, n))
              /\ h + 2 + Len(g) + n = h + 2 + Len(g \o SubSeq(w, 1, n))
          BY <1>3, <1>4, <4>2, <5>1, DataTaken
        <5> HIDE DEF g1
        <5> QED
          BY <3>1, <5>2
      <4> HIDE DEF g1
      <4>4. p + n = h + 2 + Len(got'["client"])
        BY <1>7, <1>13, <4>1, <4>3
      <4> QED
        BY <1>1, <2>3, <4>3, <4>4 DEF ClientAt
    <3> HIDE DEF g1
    <3>3. ToClient'
      BY <1>1, <1>4, <1>7, <1>11, <1>13, <2>1, <2>8, <3>1, <3>2, BothEnds, ToClientReads DEF w
    <3>4. DataStreamIntact'
      BY <1>1, <1>12, <1>13, <2>2, <2>8, <3>2 DEF ToClient
    <3> QED
      BY <1>8, <1>9, <2>4, <2>5, <2>6, <3>3, <3>4
  <2> QED
    BY <2>7, <2>8
<1>14. CASE e = "server"
  <2>1. KeepsClient
    BY <1>1, <1>7, <1>14, BothEnds DEF KeepsClient, Keeps
  <2>2. served = "serving" /\ ~waiting /\ sock["server"] = "connected" /\ active["server"]
    BY <1>1, <1>14 DEF OfServer
  <2>3. wire'["server"] = wire["server"] /\ got'["client"] = got["client"]
    BY <1>7, <1>14, BothEnds
  <2>4. Fresh'
    BY <1>1, <1>10, <2>2, <2>3 DEF Fresh
  <2>5. OfClient' /\ OfServer'
    BY <1>1, <1>3, <1>10, <1>14, <2>2, <2>3 DEF OfClient, OfServer
  <2>6. ToClient'
    <3>1. ASSUME NEW h, NEW p, ToClientFrom(p, h) PROVE ToClientFrom(p, h)'
      <4>1. ClientAt(p, h)' <=> ClientAt(p, h)
        BY <1>1, <2>3 DEF ClientAt
      <4> QED
        BY <1>1, <1>10, <2>3, <3>1, <4>1 DEF ToClientFrom
    <3> QED
      BY <1>1, <1>10, <3>1 DEF ToClient
  <2>7. CASE udp["server"]
    <3>1. ToServer'
      BY <1>1, <2>7 DEF ToServer
    <3>2. g1 = g
      BY <1>14, <2>7
    <3>3. DataStreamIntact'
      BY <1>3, <1>12, <3>2
    <3> QED
      BY <1>8, <1>9, <2>4, <2>5, <2>6, <3>1, <3>3
  <2>8. CASE ~udp["server"]
    <3>1. g1 = g \o SubSeq(w, 1, n) /\ w = wire["client"] /\ g = got["server"]
      BY <1>14, <2>8, BothEnds
    <3>2. ASSUME NEW h \in {2, 4}, NEW o \in Nat, ToServerFrom(o, h)
          PROVE  Intact(g1) /\ ServerAt(o + n, h)'
      <4>1. o = h + 2 + Len(g) /\ Flow("client", request.cmd, w, o, h)
        <5>1. o = h + 2 + Len(got["server"]) /\ Flow("client", request.cmd, wire["client"], o + Len(<<>>), h)
          BY <1>3, <1>14, <2>2, <3>2 DEF ToServerFrom, ServerAt
        <5>2. o + 0 = o
          BY SMT
        <5> QED
          BY <3>1, <5>1, <5>2, Nothing
      <4>2. h \in Nat
        BY SMT
      <4> HIDE DEF g, w
      <4>3. /\ Intact(g1)
            /\ h + 2 + Len(g) + n = h + 2 + Len(g1)
        <5>1. Flow("client", request.cmd, w, h + 2 + Len(g), h)
          BY <4>1
        <5>2. /\ Intact(g \o SubSeq(w, 1, n))
              /\ h + 2 + Len(g) + n = h + 2 + Len(g \o SubSeq(w, 1, n))
          BY <1>3, <1>4, <4>2, <5>1, DataTaken
        <5> HIDE DEF g1
        <5> QED
          BY <3>1, <5>2
      <4> HIDE DEF g1
      <4>4. o + n = h + 2 + Len(got'["server"])
        BY <1>7, <1>14, <4>1, <4>3
      <4> QED
        BY <1>1, <2>2, <4>3, <4>4 DEF ServerAt
    <3> HIDE DEF g1
    <3>3. ToServer'
      BY <1>1, <1>4, <1>7, <1>11, <1>14, <2>1, <2>8, <3>1, <3>2, BothEnds, ToServerReads DEF w
    <3>4. DataStreamIntact'
      BY <1>12, <2>8, <3>2 DEF ToServer
    <3> QED
      BY <1>8, <1>9, <2>4, <2>5, <2>6, <3>3, <3>4
  <2> QED
    BY <2>7, <2>8
<1> QED
  BY <1>13, <1>14, BothEnds

-----------------------------------------------------------------------------
(* The server negotiates.                                                  *)

\* It writes t, as far as the socket takes it, and resets.
LEMMA ServerRefuses ==
  ASSUME IInv, NEW t \in Seq(Units), ResetAfter("server", t), waiting' = FALSE, served \in {"taken", "serving"},
         served' = "serving", step' \in [Ends -> {"version", "auth", "request"}], step'["client"] = step["client"],
         wire' \in [Ends -> Seq(Units)], wire'["server"] = wire["server"],
         ended' \in [Ends -> {"no", "closed", "error", "delayed"}],
         UNCHANGED <<got, wrote, reported, granted, inConnected, request>>,
         \A i \in 1..Len(t) : ~Opens("server", t[i]),
         pending["server"] + Len(t) <= 6,
         \A h \in {2, 4} : (served = "serving" /\ step["server"] = "auth" => h = 4) =>
           ServerSent(h) \in Nat /\ ServerSent(h) <= h /\ ServerSent(h) + Len(t) <= 6
  PROVE  IInv'
<1> USE DEF IInv
<1> DEFINE v == Written("server", t)
<1>1. /\ sock' = [sock EXCEPT !["server"] = IF v # <<>> THEN "closing" ELSE "idle"]
      /\ unsent' = [unsent EXCEPT !["server"] = v]
      /\ recvBuf' = [recvBuf EXCEPT !["server"] = <<>>]
      /\ active' = [active EXCEPT !["server"] = FALSE]
      /\ udp' = [udp EXCEPT !["server"] = FALSE]
      /\ pending' = [pending EXCEPT !["server"] = 0]
  BY DEF ResetAfter
<1>2. unsent["server"] \in Seq(Units) /\ v \in Seq(Units)
  <2>1. unsent["server"] \in Seq(Units) /\ unsent["server"] \o t \in Seq(Units)
    BY BothEnds, Joined DEF Typed
  <2> QED
    BY <2>1 DEF Written
<1>3. Counted("server")'
  <2>1. /\ sock'["server"] = IF Written("server", t) # <<>> THEN "closing" ELSE "idle"
        /\ unsent'["server"] = Written("server", t) /\ pending'["server"] = 0
        /\ wrote'["server"] = wrote["server"] /\ reported'["server"] = reported["server"]
    BY <1>1, BothEnds DEF Typed
  <2>2. ~Foreign("server")
    BY BothEnds DEF Foreign
  <2> QED
    BY <2>1, <2>2, BothEnds, CountedQuits
<1> HIDE DEF v
<1>4. /\ sock'["server"] \in {"closing", "idle"} /\ unsent'["server"] = v /\ recvBuf'["server"] = <<>>
      /\ ~active'["server"] /\ ~udp'["server"] /\ step'["server"] \in {"version", "auth", "request"}
  BY <1>1, BothEnds DEF Typed
<1>5. KeepsClient
  BY <1>1, BothEnds DEF KeepsClient, Keeps, Typed
<1>6. Typed'
  <2>1. /\ sock' \in [Ends -> {"listen", "backlog", "idle", "connecting", "connected", "closing"}]
        /\ unsent' \in [Ends -> Seq(Units)] /\ recvBuf' \in [Ends -> Seq(Units)]
        /\ active' \in [Ends -> BOOLEAN] /\ udp' \in [Ends -> BOOLEAN] /\ pending' \in [Ends -> Nat]
    BY <1>1, <1>2, Nothing DEF Typed
  <2>2. waiting' \in BOOLEAN /\ served' \in {"none", "queued", "taken", "serving"}
    OBVIOUS
  <2>3. /\ step' \in [Ends -> {"version", "auth", "request"}] /\ wire' \in [Ends -> Seq(Units)]
        /\ ended' \in [Ends -> {"no", "closed", "error", "delayed"}]
    OBVIOUS
  <2>4. /\ granted' = granted /\ inConnected' = inConnected /\ request' = request
        /\ got' = got /\ wrote' = wrote /\ reported' = reported
    OBVIOUS
  <2>5. /\ granted' \in {"none", "connect", "udp"} /\ inConnected' \in BOOLEAN
        /\ request' \in [cmd: Commands \cup {"none"}, dest: Dests \cup {"none"}]
        /\ got' \in [Ends -> Seq(Units)] /\ wrote' \in [Ends -> 0..MaxData] /\ reported' \in [Ends -> Nat]
    BY <2>4, ZenonT(60) DEF Typed
  <2> HIDE DEF IInv
  <2> QED
    BY ONLY <2>1, <2>2, <2>3, <2>5 DEF Typed
<1>7. sock["server"] \notin {"listen", "backlog"}
  BY DEF Fresh
<1>8. Fresh' /\ OfClient' /\ OfServer' /\ ToServer' /\ Counted("client")'
  BY <1>4, <1>5, <1>7, ServerStops
<1>9. DataStreamIntact'
  BY DataKept
<1>10. ToClient'
  <2>1. CASE sock["server"] = "connected"
    <3>1. unsent'["server"] = unsent["server"] \o t
      BY <1>4, <2>1 DEF v, Written
    <3>2. ASSUME NEW h \in {2, 4}, served = "serving" /\ step["server"] = "auth" => h = 4
          PROVE  ServerGoesOn(t, h, 6)
      <4>1. ServerSent(h) \in Nat /\ ServerSent(h) <= h /\ ServerSent(h) + Len(t) <= 6
        BY <3>2
      <4>2. Len(t) \in Nat /\ h <= 6 /\ h \in Nat /\ 6 \in Nat
        BY LenProperties, SMT
      <4>3. ServerSent(h) <= 6 /\ ~(ServerSent(h) + Len(t) > 6)
        BY <4>1, <4>2, SMT
      <4>4. Flow("server", request.cmd, t, ServerSent(h), 6)
        BY <4>1, <4>2, FlowOfNegotiation
      <4> QED
        BY <1>4, <4>1, <4>3, <4>4 DEF ServerGoesOn
    <3> QED
      BY <1>5, <2>1, <3>1, <3>2, ToClientSends
  <2>2. CASE sock["server"] # "connected"
    <3>1. unsent'["server"] = unsent["server"]
      BY <1>4, <2>2 DEF v, Written
    <3> QED
      BY <1>4, <1>5, <3>1, ToClientKept
  <2> QED
    BY <2>1, <2>2
<1> QED
  BY <1>3, <1>6, <1>8, <1>9, <1>10, BothEnds

\* What the server can say, before it goes on at step `at'.
ServerSays(at, t) ==
  \/ served = "taken" /\ at = "version" /\ t = <<>>
  \/ /\ served = "serving" /\ at = step["server"] /\ t = <<>>
     /\ ~waiting /\ sock["server"] = "connected"
  \/ served = "serving" /\ waiting /\ step["server"] = "version" /\ at = "request" /\ t = Message("method", "none")
  \/ served = "serving" /\ waiting /\ step["server"] = "version" /\ at = "auth" /\ t = Message("method", "user")
  \/ served = "serving" /\ waiting /\ step["server"] = "auth" /\ at = "request" /\ t = Message("authreply", "yes")

SentAt(at, h) == IF at = "version" THEN 0 ELSE IF at = "auth" THEN 2 ELSE h
LimitAt(at) == IF at = "version" THEN 0 ELSE IF at = "auth" THEN 2 ELSE 4
TakenAt(at, o, h) ==
  /\ at = "version" => o = 0
  /\ at = "auth" => o = 2
  /\ at = "request" => o \in {2, 4} /\ o <= h

\* How far the stream has come when the server says that.
LEMMA ServerTurn ==
  ASSUME IInv, NEW at, NEW t, ServerSays(at, t), ~active["server"]
  PROVE  /\ at \in {"version", "auth", "request"} /\ served \in {"taken", "serving"}
         /\ got["server"] = <<>> /\ granted = "none" /\ wrote["server"] = 0 /\ ~udp["server"]
         /\ t \in Seq(Units) /\ \A i \in 1..Len(t) : ~IsUser(t[i]) /\ ~Opens("server", t[i])
         /\ pending["server"] + Len(t) <= LimitAt(at)
         /\ \A h \in {2, 4} : (served = "serving" /\ step["server"] = "auth" => h = 4) =>
              /\ ServerSent(h) \in Nat /\ ServerSent(h) <= h
              /\ \E k \in {2, 4} : /\ k = h \/ ServerSent(h) <= k
                                   /\ ServerSent(h) + Len(t) = SentAt(at, k)
                                   /\ at = "auth" => k = 4
         /\ \A h \in {2, 4}, o \in Nat : ServerAt(o, h) => TakenAt(at, o, h)
<1> USE DEF IInv
<1>1. /\ <<>> \in Seq(Units) /\ Len(<<>>) = 0 /\ \A i \in 1..Len(<<>>) : FALSE
  BY Nothing, SMT
<1>2. ASSUME NEW k \in {"method", "authreply"}, NEW a \in {"none", "user", "yes"}
      PROVE  /\ Message(k, a) \in Seq(Units) /\ Len(Message(k, a)) = 2
             /\ \A i \in 1..Len(Message(k, a)) : ~IsUser(Message(k, a)[i]) /\ ~Opens("server", Message(k, a)[i])
  <2>1. k \in Kinds \ {"data"} /\ a \in Args
    BY DEF Kinds, Args
  <2>2. /\ Message(k, a) \in Seq(Units) /\ Len(Message(k, a)) = 2
        /\ \A i \in 1..2 : Message(k, a)[i] = <<k, i, a>>
        /\ \A i \in 1..Len(Message(k, a)) : ~IsUser(Message(k, a)[i])
    BY <2>1, Messages
  <2>3. \A i \in 1..2 : ~Opens("server", Message(k, a)[i])
    BY <2>1, <2>2, Openings
  <2> QED
    BY <2>2, <2>3
<1>3. pending["server"] \in Nat /\ pending["server"] <= PendingLimit("server") /\ step["server"] \in {"version", "auth", "request"}
      /\ (served # "serving" => pending["server"] = 0)
  BY BothEnds DEF Typed, Counted, Fresh
<1>4. \A h \in {2, 4} : 0 \in Nat /\ h \in Nat /\ 0 <= h /\ 2 <= h /\ h <= h /\ 0 + 0 = 0 /\ 0 + 2 = 2 /\ 2 + 2 = 4
                        /\ h + 0 = h /\ 2 + 0 = 2
  BY SMT
<1>5. /\ got["server"] = <<>> /\ granted = "none" /\ wrote["server"] = 0 /\ ~udp["server"]
  BY DEF ServerSays, Fresh, OfServer
<1>6. CASE served = "taken" /\ at = "version" /\ t = <<>>
  <2>1. pending["server"] + Len(t) <= LimitAt(at)
    BY <1>1, <1>3, <1>6, SMT DEF LimitAt
  <2>2. ASSUME NEW h \in {2, 4} PROVE ServerSent(h) = 0 /\ SentAt(at, h) = 0
    BY <1>6 DEF ServerSent, SentAt
  <2>3. \A h \in {2, 4}, o \in Nat : ServerAt(o, h) => TakenAt(at, o, h)
    BY <1>6 DEF ServerAt, TakenAt
  <2> QED
    BY <1>1, <1>4, <1>5, <1>6, <2>1, <2>2, <2>3
<1>7. CASE /\ served = "serving" /\ at = step["server"] /\ t = <<>>
           /\ ~waiting /\ sock["server"] = "connected"
  <2>1. pending["server"] + Len(t) <= LimitAt(at)
    <3>1. PendingLimit("server") = LimitAt(at)
      BY <1>7 DEF PendingLimit, LimitAt
    <3>2. pending["server"] + 0 = pending["server"]
      BY <1>3, SMT
    <3> QED
      BY <1>1, <1>3, <1>7, <3>1, <3>2
  <2>2. ASSUME NEW h \in {2, 4} PROVE ServerSent(h) = SentAt(at, h) /\ SentAt(at, h) \in {0, 2, h}
    BY <1>3, <1>7 DEF ServerSent, SentAt
  <2>3. \A h \in {2, 4}, o \in Nat : ServerAt(o, h) => TakenAt(at, o, h)
    BY <1>7 DEF ServerAt, TakenAt
  <2>4. ASSUME NEW h \in {2, 4}, served = "serving" /\ step["server"] = "auth" => h = 4
        PROVE  /\ ServerSent(h) \in Nat /\ ServerSent(h) <= h
               /\ ServerSent(h) + Len(t) = SentAt(at, h)
               /\ at = "auth" => h = 4
    BY <1>1, <1>4, <1>7, <2>2, <2>4
  <2> QED
    BY <1>1, <1>3, <1>5, <1>7, <2>1, <2>3, <2>4
<1>8. CASE served = "serving" /\ waiting /\ step["server"] = "version" /\ at = "request" /\ t = Message("method", "none")
  <2>1. t \in Seq(Units) /\ Len(t) = 2 /\ \A i \in 1..Len(t) : ~IsUser(t[i]) /\ ~Opens("server", t[i])
    BY <1>2, <1>8
  <2>2. pending["server"] + Len(t) <= LimitAt(at)
    <3>1. PendingLimit("server") = 0 /\ LimitAt(at) = 4
      BY <1>8 DEF PendingLimit, LimitAt
    <3> HIDE DEF IInv
    <3> QED
      BY <1>3, <2>1, <3>1, SMT
  <2>3. ASSUME NEW h \in {2, 4} PROVE ServerSent(h) = 0 /\ SentAt(at, 2) = 2
    BY <1>8 DEF ServerSent, SentAt
  <2>4. \A h \in {2, 4}, o \in Nat : ServerAt(o, h) => TakenAt(at, o, h)
    BY <1>4, <1>8 DEF ServerAt, TakenAt
  <2> QED
    BY <1>4, <1>5, <1>8, <2>1, <2>2, <2>3, <2>4
<1>9. CASE served = "serving" /\ waiting /\ step["server"] = "version" /\ at = "auth" /\ t = Message("method", "user")
  <2>1. t \in Seq(Units) /\ Len(t) = 2 /\ \A i \in 1..Len(t) : ~IsUser(t[i]) /\ ~Opens("server", t[i])
    BY <1>2, <1>9
  <2>2. pending["server"] + Len(t) <= LimitAt(at)
    <3>1. PendingLimit("server") = 0 /\ LimitAt(at) = 2
      BY <1>9 DEF PendingLimit, LimitAt
    <3> HIDE DEF IInv
    <3> QED
      BY <1>3, <2>1, <3>1, SMT
  <2>3. ASSUME NEW h \in {2, 4} PROVE ServerSent(h) = 0 /\ SentAt(at, 4) = 2
    BY <1>9 DEF ServerSent, SentAt
  <2>4. \A h \in {2, 4}, o \in Nat : ServerAt(o, h) => TakenAt(at, o, h)
    BY <1>4, <1>9 DEF ServerAt, TakenAt
  <2> QED
    BY <1>4, <1>5, <1>9, <2>1, <2>2, <2>3, <2>4
<1>10. CASE served = "serving" /\ waiting /\ step["server"] = "auth" /\ at = "request" /\ t = Message("authreply", "yes")
  <2>1. t \in Seq(Units) /\ Len(t) = 2 /\ \A i \in 1..Len(t) : ~IsUser(t[i]) /\ ~Opens("server", t[i])
    BY <1>2, <1>10
  <2>2. pending["server"] + Len(t) <= LimitAt(at)
    <3>1. PendingLimit("server") = 2 /\ LimitAt(at) = 4
      BY <1>10 DEF PendingLimit, LimitAt
    <3> HIDE DEF IInv
    <3> QED
      BY <1>3, <2>1, <3>1, SMT
  <2>3. ASSUME NEW h \in {2, 4} PROVE ServerSent(h) = 2 /\ SentAt(at, 4) = 4
    BY <1>10 DEF ServerSent, SentAt
  <2>4. \A h \in {2, 4}, o \in Nat : ServerAt(o, h) => TakenAt(at, o, h)
    BY <1>4, <1>10 DEF ServerAt, TakenAt
  <2> QED
    BY <1>4, <1>5, <1>10, <2>1, <2>2, <2>3, <2>4
<1> QED
  BY <1>6, <1>7, <1>8, <1>9, <1>10 DEF ServerSays

\* The server goes on, and waits for its program or for more of the client.
LEMMA ServerWaits ==
  ASSUME IInv, NEW at, NEW t, ServerSays(at, t), ~active["server"],
         NEW n \in 0..Len(wire["client"]), n = 0 \/ sock["server"] = "connected",
         wire' = [wire EXCEPT !["client"] = Drop(@, n)],
         NEW d \in {0, 2}, d <= Len(recvBuf["server"]) + n,
         recvBuf' = [recvBuf EXCEPT !["server"] = Drop(recvBuf["server"] \o SubSeq(wire["client"], 1, n), d)],
         step' = [step EXCEPT !["server"] = at], Send("server", t), served' = "serving",
         waiting' = (d = 2),
         d = 2 => LET u == (recvBuf["server"] \o SubSeq(wire["client"], 1, n))[1]
                  IN  /\ at = "version" => u[1] = "hello"
                      /\ at = "auth" => u[1] = "auth"
                      /\ at = "request" => u[1] = "request" /\ u[3] # "bind",
         UNCHANGED <<sock, active, udp, ended, got, wrote, reported, granted, inConnected, request>>
  PROVE  IInv'
<1> USE DEF IInv
<1> DEFINE b == recvBuf["server"] \o SubSeq(wire["client"], 1, n)
<1>1. /\ at \in {"version", "auth", "request"} /\ served \in {"taken", "serving"}
      /\ got["server"] = <<>> /\ granted = "none" /\ wrote["server"] = 0 /\ ~udp["server"]
      /\ t \in Seq(Units) /\ \A i \in 1..Len(t) : ~IsUser(t[i]) /\ ~Opens("server", t[i])
      /\ pending["server"] + Len(t) <= LimitAt(at)
  BY ServerTurn
<1>2. \A h \in {2, 4}, o \in Nat : ServerAt(o, h) => TakenAt(at, o, h)
  BY ServerTurn
<1>3. \A h \in {2, 4} : (served = "serving" /\ step["server"] = "auth" => h = 4) =>
              /\ ServerSent(h) \in Nat /\ ServerSent(h) <= h
              /\ \E k \in {2, 4} : /\ k = h \/ ServerSent(h) <= k
                                   /\ ServerSent(h) + Len(t) = SentAt(at, k)
                                   /\ at = "auth" => k = 4
  BY ServerTurn
<1>4. Len(recvBuf["server"]) \in Nat /\ Len(wire["client"]) \in Nat /\ n \in Nat /\ d \in 0..(Len(recvBuf["server"]) + n)
      /\ Len(t) \in Nat /\ pending["server"] \in Nat /\ wire["client"] \in Seq(Units) /\ recvBuf["server"] \in Seq(Units)
      /\ unsent["server"] \in Seq(Units)
  <2>1. Len(recvBuf["server"]) \in Nat /\ Len(wire["client"]) \in Nat /\ pending["server"] \in Nat
        /\ wire["client"] \in Seq(Units) /\ recvBuf["server"] \in Seq(Units) /\ unsent["server"] \in Seq(Units)
    BY BothEnds, LenProperties DEF Typed
  <2>2. n \in Nat /\ d \in 0..(Len(recvBuf["server"]) + n)
    BY <2>1, SMT
  <2> QED
    BY <1>1, <2>1, <2>2, LenProperties
<1>5. /\ b \in Seq(Units) /\ Len(b) = Len(recvBuf["server"]) + n /\ d \in 0..Len(b) /\ Drop(b, d) \in Seq(Units)
      /\ Drop(wire["client"], n) \in Seq(Units)
  <2>1. SubSeq(wire["client"], 1, n) \in Seq(Units) /\ Len(SubSeq(wire["client"], 1, n)) = n /\ Drop(wire["client"], n) \in Seq(Units)
    BY <1>4, Parts
  <2>2. b \in Seq(Units) /\ Len(b) = Len(recvBuf["server"]) + n
    <3> DEFINE x == SubSeq(wire["client"], 1, n)
    <3>1. x \in Seq(Units) /\ Len(x) = n
      BY <2>1
    <3> HIDE DEF x
    <3>2. recvBuf["server"] \o x \in Seq(Units) /\ Len(recvBuf["server"] \o x) = Len(recvBuf["server"]) + n
      BY <1>4, <3>1, Joined, ZenonT(60)
    <3> QED
      BY <3>2 DEF x
  <2> HIDE DEF b
  <2>3. d \in 0..Len(b)
    BY <1>4, <2>2
  <2> QED
    BY <2>1, <2>2, <2>3, Parts
<1>6. /\ wire'["client"] = Drop(wire["client"], n) /\ wire'["server"] = wire["server"]
      /\ recvBuf'["server"] = Drop(b, d) /\ recvBuf'["client"] = recvBuf["client"]
      /\ step'["server"] = at /\ step'["client"] = step["client"]
      /\ unsent'["server"] = Written("server", t) /\ unsent'["client"] = unsent["client"]
      /\ pending'["server"] = pending["server"] + Len(t) /\ pending'["client"] = pending["client"]
  BY BothEnds DEF Typed, Send
<1>7. ~active'["server"] /\ ~udp'["server"] /\ sock'["server"] = sock["server"] /\ got'["server"] = <<>>
      /\ (waiting' <=> d = 2) /\ served' = "serving"
  BY <1>1
<1>8. KeepsClient
  BY <1>6 DEF KeepsClient, Keeps
<1>9. Written("server", t) \in Seq(Units)
  BY <1>1, <1>4, Joined DEF Written
<1>10. Typed'
  <2>1. wire' \in [Ends -> Seq(Units)] /\ recvBuf' \in [Ends -> Seq(Units)]
    BY <1>5 DEF Typed
  <2>2. unsent' \in [Ends -> Seq(Units)]
    BY <1>9 DEF Typed, Send
  <2>3. pending' \in [Ends -> Nat]
    <3>1. pending["server"] + Len(t) \in Nat
      BY <1>4, SMT
    <3>2. pending' = [pending EXCEPT !["server"] = pending["server"] + Len(t)]
      BY DEF Send, Typed
    <3> QED
      BY <3>1, <3>2 DEF Typed
  <2>4. step' \in [Ends -> {"version", "auth", "request"}] /\ waiting' \in BOOLEAN
    BY <1>1 DEF Typed
  <2> HIDE DEF b
  <2> QED
    BY <2>1, <2>2, <2>3, <2>4 DEF Typed
<1>11. sock["server"] \notin {"listen", "backlog"}
  BY <1>1 DEF Fresh
<1>12. (Foreign("client")' <=> Foreign("client")) /\ ~Foreign("server")
  BY BothEnds DEF Foreign
<1>13. Fresh'
  BY <1>6, <1>8, <1>11, <1>12 DEF Fresh, KeepsClient, Keeps
<1>14. OfClient'
  BY <1>8, <1>12 DEF OfClient, KeepsClient, Keeps
<1>15. Counted("client")'
  BY <1>8, BothEnds, CountedKept DEF KeepsClient
<1>16. Counted("server")'
  <2>1. pending["server"] + Len(t) <= PendingLimit("server")'
    <3>1. PendingLimit("server")' = LimitAt(at)
      BY <1>1, <1>6, <1>7, BothEnds DEF PendingLimit, LimitAt
    <3> QED
      BY <1>1, <3>1
  <2>2. CASE sock["server"] = "connected"
    <3>1. unsent'["server"] = unsent["server"] \o t
      BY <1>6, <2>2 DEF Written
    <3> QED
      BY <1>1, <1>6, <1>12, <2>1, <2>2, <3>1, BothEnds, CountedSays
  <2>3. CASE sock["server"] # "connected"
    <3>1. unsent'["server"] = unsent["server"]
      BY <1>6, <2>3 DEF Written
    <3> QED
      BY <1>6, <2>1, <2>3, <3>1, BothEnds DEF Counted
  <2> QED
    BY <2>2, <2>3
<1>17. DataStreamIntact'
  BY DataKept
\* What is at the head of the buffer tells where the stream opens.
<1>18. ASSUME NEW h \in {2, 4}, NEW o \in Nat, ToServerFrom(o, h)
       PROVE  /\ TakenAt(at, o, h)
              /\ d = 2 /\ at = "auth" => h = 4
              /\ d = 2 /\ at = "request" => o = h /\ request.cmd # "bind" /\ request.dest # "ip6"
  <2>1. TakenAt(at, o, h)
    BY <1>2, <1>18 DEF ToServerFrom
  <2>2. Flow("client", request.cmd, b, o, h) /\ (request.dest = "ip6" => o + Len(b) <= h + 1)
    BY <1>18, ServerBuffer
  <2> HIDE DEF b
  <2>3. ASSUME d = 2 PROVE Fits("client", request.cmd, h, o + 1, b[1]) /\ Len(b) \in Nat /\ 2 <= Len(b)
    <3>1. 1 \in 1..Len(b) /\ Len(b) \in Nat /\ 2 <= Len(b)
      BY <1>4, <1>5, <2>3, SMT
    <3> QED
      BY <2>2, <3>1 DEF Flow
  <2>4. ASSUME d = 2, at = "auth" PROVE h = 4
    <3>1. ~Opens("client", b[1])
      BY <2>4 DEF Opens, b
    <3>2. o = 2
      BY <2>1, <2>4 DEF TakenAt
    <3>3. 2 + 1 \in {2 + 1, 2 + 2}
      BY SMT
    <3> QED
      BY <2>3, <2>4, <3>1, <3>2, <3>3 DEF Fits
  <2>5. ASSUME d = 2, at = "request" PROVE o = h /\ request.cmd # "bind" /\ request.dest # "ip6"
    <3>1. Opens("client", b[1]) /\ b[1][3] # "bind" /\ o \in {2, 4} /\ o <= h
      BY <2>1, <2>5 DEF Opens, TakenAt, b
    <3>2. ~(o + 1 <= h)
      BY <2>3, <2>5, <3>1 DEF Fits
    <3>3. \A a \in Nat : a <= h /\ ~(a + 1 <= h) => a = h
      BY SMT
    <3>4. o = h
      BY <3>1, <3>2, <3>3
    <3>5. b[1][3] = request.cmd
      BY <2>3, <2>5, <3>4 DEF Fits
    <3>6. ~(o + Len(b) <= h + 1)
      <4>1. Len(b) \in Nat /\ 2 <= Len(b)
        BY <2>3, <2>5
      <4>2. \A l \in Nat : 2 <= l => ~(h + l <= h + 1)
        BY SMT
      <4> QED
        BY <3>4, <4>1, <4>2
    <3> QED
      BY <2>2, <3>1, <3>4, <3>5, <3>6
  <2> QED
    BY <2>1, <2>4, <2>5
<1>19. OfServer'
  <2>1. waiting' /\ at = "request" => request.cmd # "bind" /\ request.dest # "ip6"
    BY <1>1, <1>7, <1>18 DEF ToServer
  <2>2. request.dest = "ip6" => granted = "none"
    BY DEF OfServer
  <2> QED
    BY <1>1, <1>6, <1>7, <2>1, <2>2 DEF OfServer
<1>20. ToServer'
  <2>1. ASSUME NEW h \in {2, 4}, NEW o \in Nat, ToServerFrom(o, h) PROVE ServerAt(o + d, h)'
    <3>1. /\ TakenAt(at, o, h)
          /\ d = 2 /\ at = "auth" => h = 4
          /\ d = 2 /\ at = "request" => o = h
      BY <1>18, <2>1
    <3>2. o + 0 = o /\ 0 + 2 = 2 /\ 2 + 2 = 4
      BY SMT
    <3>3. CASE d = 0
      BY <1>1, <1>6, <1>7, <3>1, <3>2, <3>3 DEF ServerAt, TakenAt
    <3>4. CASE d = 2
      BY <1>1, <1>6, <1>7, <3>1, <3>2, <3>4 DEF ServerAt, TakenAt
    <3> QED
      BY <3>3, <3>4
  <2> QED
    BY <1>1, <1>4, <1>6, <1>7, <1>8, <2>1, ToServerReads
<1>21. ToClient'
  <2>1. CASE sock["server"] = "connected"
    <3>1. unsent'["server"] = unsent["server"] \o t
      BY <1>6, <2>1 DEF Written
    <3>2. ASSUME NEW h \in {2, 4}, served = "serving" /\ step["server"] = "auth" => h = 4
          PROVE  \E k \in {2, 4, 6} : ServerGoesOn(t, h, k)
      <4>1. PICK k \in {2, 4} : /\ k = h \/ ServerSent(h) <= k
                                /\ ServerSent(h) + Len(t) = SentAt(at, k)
                                /\ at = "auth" => k = 4
        BY <1>3, <3>2
      <4>2. ServerSent(h) \in Nat /\ ServerSent(h) <= h
        BY <1>3, <3>2
      <4>3. SentAt(at, k) <= k /\ k \in Nat /\ k # 6 /\ ~(SentAt(at, k) > k)
        BY SMT DEF SentAt
      <4>4. Flow("server", request.cmd, t, ServerSent(h), k)
        BY <1>1, <4>1, <4>2, <4>3, FlowOfNegotiation
      <4>5. ServerSent(k)' = SentAt(at, k)
        BY <1>1, <1>6, <1>7 DEF ServerSent, SentAt
      <4>6. ServerGoesOn(t, h, k)
        BY <1>6, <4>1, <4>2, <4>3, <4>4, <4>5 DEF ServerGoesOn
      <4> QED
        BY <4>6
    <3> QED
      BY <1>1, <1>6, <1>8, <2>1, <3>1, <3>2, ToClientSends
  <2>2. CASE sock["server"] # "connected"
    <3>1. unsent'["server"] = unsent["server"]
      BY <1>6, <2>2 DEF Written
    <3> QED
      BY <1>6, <1>7, <1>8, <1>11, <2>2, <3>1, ToClientKept
  <2> QED
    BY <2>1, <2>2
<1> QED
  BY <1>10, <1>13, <1>14, <1>15, <1>16, <1>17, <1>19, <1>20, <1>21, BothEnds

\* What continueIncoming() makes of a buffer.
LEMMA Incoming ==
  ASSUME NEW at \in {"version", "auth", "request"}, NEW b \in Seq(Units)
  PROVE  LET r == continueIncoming(at, b)
         IN  \/ r.verdict = "error"
             \/ r.verdict = "deny"
             \/ r.verdict = "more" /\ r.buf = b
             \/ /\ r.verdict = "ask" /\ r.buf = Drop(b, 2) /\ 2 <= Len(b)
                /\ at = "version" => b[1][1] = "hello"
                /\ at = "auth" => b[1][1] = "auth"
                /\ at = "request" => b[1][1] = "request" /\ b[1][3] # "bind"
<1>1. Len(b) \in Nat /\ \A l \in Nat : l < 2 \/ 2 <= l
  BY LenProperties, SMT
<1>2. CASE b = <<>>
  BY <1>2 DEF continueIncoming
<1>3. CASE b # <<>> /\ Len(b) < 2
  BY <1>3 DEF continueIncoming
<1>4. CASE b # <<>> /\ ~(Len(b) < 2)
  <2> HIDE DEF Drop
  <2>1. 2 <= Len(b)
    BY <1>1, <1>4
  <2> DEFINE wanted == CASE at = "version" -> "hello" [] at = "auth" -> "auth" [] OTHER -> "request"
  <2>2. /\ at = "version" => wanted = "hello"
        /\ at = "auth" => wanted = "auth"
        /\ at = "request" => wanted = "request"
    OBVIOUS
  <2>3. continueIncoming(at, b) =
          IF b[1][1] # wanted THEN [buf |-> b, verdict |-> "error"]
          ELSE [buf |-> Drop(b, 2), verdict |-> IF b[1][3] = "bind" THEN "deny" ELSE "ask"]
    BY <1>4 DEF continueIncoming
  <2> HIDE DEF wanted
  <2>4. CASE b[1][1] # wanted
    BY <2>3, <2>4
  <2>5. CASE b[1][1] = wanted /\ b[1][3] = "bind"
    BY <2>3, <2>5
  <2>6. CASE b[1][1] = wanted /\ b[1][3] # "bind"
    <3>1. continueIncoming(at, b) = [buf |-> Drop(b, 2), verdict |-> "ask"]
      BY <2>3, <2>6
    <3>2. continueIncoming(at, b).verdict = "ask" /\ continueIncoming(at, b).buf = Drop(b, 2)
      BY <3>1
    <3> QED
      BY <2>1, <2>2, <2>6, <3>2
  <2> QED
    BY <2>4, <2>5, <2>6
<1> QED
  BY <1>2, <1>3, <1>4

\* A buffer with n units more.
LEMMA Buffered ==
  ASSUME NEW r \in Seq(Units), NEW w \in Seq(Units), NEW n \in 0..Len(w)
  PROVE  /\ r \o SubSeq(w, 1, n) \in Seq(Units) /\ Len(r \o SubSeq(w, 1, n)) = Len(r) + n
         /\ Drop(w, n) \in Seq(Units)
<1>1. SubSeq(w, 1, n) \in Seq(Units) /\ Len(SubSeq(w, 1, n)) = n /\ Drop(w, n) \in Seq(Units)
  BY Parts
<1> QED
  BY <1>1, Joined

\* A refusal does not open the stream.
LEMMA Refusal ==
  ASSUME NEW t \in Seq(Units), \A i \in 1..Len(t) : ~Opens("server", t[i])
  PROVE  LET s == t \o Message("reply", "unreachable")
         IN  /\ s \in Seq(Units) /\ Len(s) = Len(t) + 2
             /\ \A i \in 1..Len(s) : ~Opens("server", s[i])
<1> DEFINE m == Message("reply", "unreachable")
<1>1. /\ m \in Seq(Units) /\ Len(m) = 2 /\ \A i \in 1..2 : m[i] = <<"reply", i, "unreachable">>
  BY Messages DEF Kinds, Args
<1> HIDE DEF m
<1>2. \A i \in 1..Len(m) : ~Opens("server", m[i])
  BY <1>1, Openings
<1>6. Len(t \o m) = Len(t) + Len(m)
  BY <1>1, Joined
<1>3. t \o m \in Seq(Units) /\ Len(t \o m) = Len(t) + 2 /\ Len(t) \in Nat
  BY <1>1, <1>6, Joined, LenProperties
<1>4. ASSUME NEW i \in 1..Len(t \o m) PROVE ~Opens("server", (t \o m)[i])
  <2>1. i \in 1..(Len(t) + 2)
    BY <1>3
  <2>2. i \in Nat
    BY <1>3, <2>1, SMT
  <2>3. CASE i <= Len(t)
    <3>1. i \in 1..Len(t)
      BY <1>3, <2>1, <2>2, <2>3, SMT
    <3>2. (t \o m)[i] = t[i]
      BY <1>1, <3>1, Joined
    <3> QED
      BY <3>1, <3>2
  <2>4. CASE ~(i <= Len(t))
    <3>1. i - Len(t) \in 1..2 /\ Len(t) + (i - Len(t)) = i
      BY <1>3, <2>1, <2>2, <2>4, SMT
    <3>2. (t \o m)[Len(t) + (i - Len(t))] = m[i - Len(t)]
      BY <1>1, <3>1, Joined
    <3> QED
      BY <1>1, <1>2, <3>1, <3>2
  <2> QED
    BY <2>3, <2>4
<1> QED
  BY <1>3, <1>4 DEF m

\* The server writes t and goes on at step `at' with what it has and n units more.
LEMMA GoOnStep ==
  ASSUME IInv, NEW at, NEW t, ServerSays(at, t), ~active["server"],
         NEW n \in 0..Len(wire["client"]), n = 0 \/ sock["server"] = "connected",
         wire' = [wire EXCEPT !["client"] = Drop(@, n)],
         GoOn(at, recvBuf["server"] \o SubSeq(wire["client"], 1, n), t), served' = "serving",
         UNCHANGED <<got, wrote, reported, granted, inConnected, request>>
  PROVE  IInv'
<1> USE DEF IInv
<1> DEFINE b == recvBuf["server"] \o SubSeq(wire["client"], 1, n)
           r == continueIncoming(at, b)
<1>1. /\ at \in {"version", "auth", "request"} /\ served \in {"taken", "serving"}
      /\ t \in Seq(Units) /\ \A i \in 1..Len(t) : ~IsUser(t[i]) /\ ~Opens("server", t[i])
      /\ pending["server"] + Len(t) <= LimitAt(at)
  BY ServerTurn
<1>2. \A h \in {2, 4} : (served = "serving" /\ step["server"] = "auth" => h = 4) =>
              /\ ServerSent(h) \in Nat /\ ServerSent(h) <= h
              /\ ServerSent(h) + Len(t) <= 4
  <2>1. \A k \in {2, 4} : SentAt(at, k) <= 4
    BY SMT DEF SentAt
  <2>2. \A h \in {2, 4} : (served = "serving" /\ step["server"] = "auth" => h = 4) =>
              /\ ServerSent(h) \in Nat /\ ServerSent(h) <= h
              /\ \E k \in {2, 4} : ServerSent(h) + Len(t) = SentAt(at, k)
    BY ServerTurn
  <2> QED
    BY <2>1, <2>2
<1>3. /\ b \in Seq(Units) /\ Len(b) = Len(recvBuf["server"]) + n /\ Drop(wire["client"], n) \in Seq(Units)
      /\ Len(recvBuf["server"]) + n \in Nat /\ n \in Nat
  <2>1. recvBuf["server"] \in Seq(Units) /\ wire["client"] \in Seq(Units)
    BY BothEnds DEF Typed
  <2>2. b \in Seq(Units) /\ Len(b) = Len(recvBuf["server"]) + n /\ Drop(wire["client"], n) \in Seq(Units)
    BY <2>1, Buffered
  <2>3. Len(recvBuf["server"]) \in Nat /\ Len(wire["client"]) \in Nat
    BY <2>1, LenProperties
  <2> HIDE DEF b
  <2>4. n \in Nat /\ Len(recvBuf["server"]) + n \in Nat
    BY <2>3, SMT
  <2> QED
    BY <2>2, <2>4
<1>4. GoOn(at, b, t)
  OBVIOUS
<1> HIDE DEF b
<1>5. /\ step' = [step EXCEPT !["server"] = at]
      /\ \/ /\ r.verdict = "error"
            /\ ResetAfter("server", t)
            /\ waiting' = FALSE
            /\ ended' = [ended EXCEPT !["server"] = "error"]
         \/ /\ r.verdict = "deny"
            /\ ResetAfter("server", t \o Message("reply", "unreachable"))
            /\ waiting' = FALSE
            /\ ended' = ended
         \/ /\ r.verdict \in {"more", "ask"}
            /\ recvBuf' = [recvBuf EXCEPT !["server"] = r.buf]
            /\ waiting' = (r.verdict = "ask")
            /\ Send("server", t)
            /\ UNCHANGED <<sock, active, udp, ended>>
  BY <1>4 DEF GoOn, Notify
<1>6. \/ r.verdict = "error"
      \/ r.verdict = "deny"
      \/ r.verdict = "more" /\ r.buf = b
      \/ /\ r.verdict = "ask" /\ r.buf = Drop(b, 2) /\ 2 <= Len(b)
         /\ at = "version" => b[1][1] = "hello"
         /\ at = "auth" => b[1][1] = "auth"
         /\ at = "request" => b[1][1] = "request" /\ b[1][3] # "bind"
  BY <1>1, <1>3, Incoming
<1> HIDE DEF r
<1>7. /\ step' \in [Ends -> {"version", "auth", "request"}] /\ step'["client"] = step["client"]
      /\ wire' \in [Ends -> Seq(Units)] /\ wire'["server"] = wire["server"]
      /\ [ended EXCEPT !["server"] = "error"] \in [Ends -> {"no", "closed", "error", "delayed"}]
      /\ ended \in [Ends -> {"no", "closed", "error", "delayed"}]
      /\ Len(t) \in Nat /\ pending["server"] \in Nat
  BY <1>1, <1>3, <1>5, BothEnds, LenProperties DEF Typed
<1>8. pending["server"] + Len(t) <= 4
  <2>1. LimitAt(at) \in {0, 2, 4}
    BY DEF LimitAt
  <2> QED
    BY <1>1, <1>7, <2>1, SMT
<1>9. CASE /\ r.verdict = "error" /\ ResetAfter("server", t) /\ waiting' = FALSE
           /\ ended' = [ended EXCEPT !["server"] = "error"]
  <2>1. pending["server"] + Len(t) <= 6
    BY <1>7, <1>8, SMT
  <2>2. \A h \in {2, 4} : (served = "serving" /\ step["server"] = "auth" => h = 4) =>
           ServerSent(h) \in Nat /\ ServerSent(h) <= h /\ ServerSent(h) + Len(t) <= 6
    <3>1. \A a \in Nat : a + Len(t) <= 4 => a + Len(t) <= 6
      BY <1>7, SMT
    <3> QED
      BY <1>2, <3>1
  <2>3. \A i \in 1..Len(t) : ~Opens("server", t[i])
    BY <1>1
  <2>4. ended' \in [Ends -> {"no", "closed", "error", "delayed"}]
    BY <1>7, <1>9
  <2>5. served \in {"taken", "serving"} /\ t \in Seq(Units)
    BY <1>1
  <2> HIDE DEF IInv
  <2> QED
    BY <1>7, <1>9, <2>1, <2>2, <2>3, <2>4, <2>5, ServerRefuses
<1>10. CASE /\ r.verdict = "deny" /\ ResetAfter("server", t \o Message("reply", "unreachable")) /\ waiting' = FALSE
            /\ ended' = ended
  <2> DEFINE m == Message("reply", "unreachable")
  <2>3. /\ t \o m \in Seq(Units) /\ Len(t \o m) = Len(t) + 2
        /\ \A i \in 1..Len(t \o m) : ~Opens("server", (t \o m)[i])
    BY <1>1, Refusal
  <2> HIDE DEF m
  <2>5. pending["server"] + Len(t \o m) <= 6
    <3>1. pending["server"] + (Len(t) + 2) <= 6
      BY <1>7, <1>8, SMT
    <3> QED
      BY <2>3, <3>1
  <2>6. \A h \in {2, 4} : (served = "serving" /\ step["server"] = "auth" => h = 4) =>
           ServerSent(h) \in Nat /\ ServerSent(h) <= h /\ ServerSent(h) + Len(t \o m) <= 6
    <3>1. \A a \in Nat : a + Len(t) <= 4 => a + (Len(t) + 2) <= 6
      BY <1>7, SMT
    <3> QED
      BY <1>2, <2>3, <3>1
  <2>7. ResetAfter("server", t \o m)
    BY <1>10 DEF m
  <2> QED
    BY <1>1, <1>7, <1>10, <2>3, <2>5, <2>6, <2>7, ServerRefuses
<1>11. CASE /\ r.verdict \in {"more", "ask"}
            /\ recvBuf' = [recvBuf EXCEPT !["server"] = r.buf]
            /\ waiting' = (r.verdict = "ask")
            /\ Send("server", t)
            /\ UNCHANGED <<sock, active, udp, ended>>
  <2>1. CASE r.verdict = "more" /\ r.buf = b
    <3>1. recvBuf' = [recvBuf EXCEPT !["server"] = Drop(b, 0)]
      BY <1>3, <1>11, <2>1, NothingMore
    <3>2. 0 \in {0, 2} /\ 0 <= Len(recvBuf["server"]) + n /\ waiting' = (0 = 2)
      BY <1>3, <1>11, <2>1, SMT
    <3>3. 0 # 2
      BY SMT
    <3>4. recvBuf' = [recvBuf EXCEPT !["server"] = Drop(recvBuf["server"] \o SubSeq(wire["client"], 1, n), 0)]
      BY <3>1 DEF b
    <3> QED
      BY <1>5, <1>11, <3>2, <3>3, <3>4, ServerWaits
  <2>2. CASE /\ r.verdict = "ask" /\ r.buf = Drop(b, 2) /\ 2 <= Len(b)
             /\ at = "version" => b[1][1] = "hello"
             /\ at = "auth" => b[1][1] = "auth"
             /\ at = "request" => b[1][1] = "request" /\ b[1][3] # "bind"
    <3>1. recvBuf' = [recvBuf EXCEPT !["server"] = Drop(recvBuf["server"] \o SubSeq(wire["client"], 1, n), 2)]
      BY <1>11, <2>2 DEF b
    <3>2. 2 \in {0, 2} /\ 2 <= Len(recvBuf["server"]) + n /\ waiting' = (2 = 2)
      BY <1>3, <1>11, <2>2
    <3>3. LET u == (recvBuf["server"] \o SubSeq(wire["client"], 1, n))[1]
          IN  /\ at = "version" => u[1] = "hello"
              /\ at = "auth" => u[1] = "auth"
              /\ at = "request" => u[1] = "request" /\ u[3] # "bind"
      BY <2>2 DEF b
    <3> QED
      BY <1>5, <1>11, <3>1, <3>2, <3>3, ServerWaits
  <2> QED
    BY <1>6, <1>11, <2>1, <2>2
<1> QED
  BY <1>5, <1>9, <1>10, <1>11

-----------------------------------------------------------------------------
(* The handlers of the server's negotiation.                               *)

\* An answer of the program, or serve(), reads nothing.
LEMMA ReadsNothing ==
  ASSUME Typed, wire' = wire
  PROVE  /\ 0 \in 0..Len(wire["client"])
         /\ wire' = [wire EXCEPT !["client"] = Drop(@, 0)]
         /\ recvBuf["server"] \o SubSeq(wire["client"], 1, 0) = recvBuf["server"]
<1>1. wire["client"] \in Seq(Units) /\ recvBuf["server"] \in Seq(Units) /\ Len(wire["client"]) \in Nat
  BY BothEnds, LenProperties DEF Typed
<1>2. 0 \in 0..Len(wire["client"])
  BY <1>1, SMT
<1>3. Drop(wire["client"], 0) = wire["client"] /\ SubSeq(wire["client"], 1, 0) = <<>>
      /\ recvBuf["server"] \o <<>> = recvBuf["server"]
  BY <1>1, NothingMore
<1> HIDE DEF Drop
<1>4. wire = [wire EXCEPT !["client"] = Drop(@, 0)]
  BY <1>3 DEF Typed
<1> QED
  BY <1>2, <1>3, <1>4

\* serve() reads what has come before it.
LEMMA ServeStep ==
  ASSUME IInv, Serve
  PROVE  IInv'
<1>1. /\ served = "taken" /\ served' = "serving"
      /\ GoOn("version", recvBuf["server"], <<>>)
      /\ UNCHANGED <<wire, got, wrote, reported, granted, inConnected, request>>
  BY DEF Serve
<1>2. ServerSays("version", <<>>) /\ ~active["server"]
  BY <1>1 DEF ServerSays, IInv, Fresh
<1>3. /\ 0 \in 0..Len(wire["client"])
      /\ wire' = [wire EXCEPT !["client"] = Drop(@, 0)]
      /\ GoOn("version", recvBuf["server"] \o SubSeq(wire["client"], 1, 0), <<>>)
  BY <1>1, ReadsNothing DEF IInv
<1> QED
  BY <1>1, <1>2, <1>3, GoOnStep

\* What the guard of the answers says.
LEMMA AskedTurn ==
  ASSUME IInv, NEW at, Asked(at)
  PROVE  /\ served = "serving" /\ step["server"] = at /\ waiting /\ ~active["server"] /\ ~udp["server"]
         /\ sock["server"] \notin {"listen", "backlog"}
         /\ got["server"] = <<>> /\ granted = "none" /\ wrote["server"] = 0
BY DEF Asked, IInv, OfServer, Fresh

\* chooseMethod() goes on with the request or with the authentication.
LEMMA ChooseMethodStep ==
  ASSUME IInv, NEW m \in {"none", "user"}, ChooseMethod(m)
  PROVE  IInv'
<1> DEFINE at == IF m = "none" THEN "request" ELSE "auth"
<1>1. /\ Asked("version")
      /\ GoOn(at, recvBuf["server"], Message("method", m))
      /\ UNCHANGED <<wire, got, wrote, reported, served, granted, inConnected, request>>
  BY DEF ChooseMethod
<1>2. served = "serving" /\ step["server"] = "version" /\ waiting /\ ~active["server"]
  BY <1>1, AskedTurn
<1>3. ServerSays(at, Message("method", m))
  BY <1>2 DEF ServerSays
<1> HIDE DEF at
<1>4. /\ 0 \in 0..Len(wire["client"])
      /\ wire' = [wire EXCEPT !["client"] = Drop(@, 0)]
      /\ GoOn(at, recvBuf["server"] \o SubSeq(wire["client"], 1, 0), Message("method", m))
  BY <1>1, ReadsNothing DEF IInv
<1>5. served' = "serving" /\ UNCHANGED <<got, wrote, reported, granted, inConnected, request>>
  BY <1>1, <1>2
<1> QED
  BY <1>2, <1>3, <1>4, <1>5, GoOnStep

\* The program refuses what it is asked.
LEMMA RefusesStep ==
  ASSUME IInv, NEW at \in {"auth", "request"}, Asked(at),
         NEW t, t \in {Message("authreply", "no"), Message("reply", "unreachable")},
         ResetAfter("server", t), waiting' = FALSE,
         UNCHANGED <<wire, got, wrote, reported, ended, served, granted, step, inConnected, request>>
  PROVE  IInv'
<1>1. /\ served = "serving" /\ step["server"] = at /\ waiting /\ ~active["server"]
      /\ got["server"] = <<>> /\ granted = "none" /\ wrote["server"] = 0
  BY AskedTurn
<1>2. t \in Seq(Units) /\ Len(t) = 2 /\ \A i \in 1..2 : ~Opens("server", t[i])
  <2>1. "no" \in Args /\ "unreachable" \in Args /\ "authreply" \in Kinds \ {"data"} /\ "reply" \in Kinds \ {"data"}
    BY DEF Args, Kinds
  <2>2. CASE t = Message("authreply", "no")
    <3>1. t \in Seq(Units) /\ Len(t) = 2 /\ \A i \in 1..2 : t[i] = <<"authreply", i, "no">>
      BY <2>1, <2>2, Messages
    <3> QED
      BY <2>1, <3>1, Openings
  <2>3. CASE t = Message("reply", "unreachable")
    <3>1. t \in Seq(Units) /\ Len(t) = 2 /\ \A i \in 1..2 : t[i] = <<"reply", i, "unreachable">>
      BY <2>1, <2>3, Messages
    <3> QED
      BY <3>1, Openings
  <2> QED
    BY <2>2, <2>3
<1>3. pending["server"] + Len(t) <= 6
  <2>1. pending["server"] \in Nat /\ pending["server"] <= PendingLimit("server")
    BY BothEnds DEF IInv, Typed, Counted
  <2>2. PendingLimit("server") \in {2, 4}
    BY <1>1 DEF PendingLimit
  <2>3. pending["server"] + 2 <= 6
    BY <2>1, <2>2, SMT
  <2> QED
    BY <1>2, <2>3
<1>4. ASSUME NEW h \in {2, 4}, served = "serving" /\ step["server"] = "auth" => h = 4
      PROVE  ServerSent(h) \in Nat /\ ServerSent(h) <= h /\ ServerSent(h) + Len(t) <= 6
  <2>1. ServerSent(h) \in {2, h} /\ (ServerSent(h) = 2 \/ ServerSent(h) = h)
    BY <1>1 DEF ServerSent
  <2>2. 2 \in Nat /\ h \in Nat /\ 2 <= h /\ h <= h /\ 2 + 2 <= 6 /\ h + 2 <= 6
    BY SMT
  <2> QED
    BY <1>2, <2>1, <2>2
<1>5. /\ step' \in [Ends -> {"version", "auth", "request"}] /\ wire' \in [Ends -> Seq(Units)]
      /\ ended' \in [Ends -> {"no", "closed", "error", "delayed"}]
      /\ step' = step /\ wire' = wire /\ served' = served
  BY DEF IInv, Typed
<1>6. UNCHANGED <<got, wrote, reported, granted, inConnected, request>>
  OBVIOUS
<1>7. \A i \in 1..Len(t) : ~Opens("server", t[i])
  BY <1>2
<1> QED
  BY <1>1, <1>2, <1>3, <1>4, <1>5, <1>6, <1>7, ServerRefuses

\* authGrant() goes on with the request, or refuses.
LEMMA AuthGrantStep ==
  ASSUME IInv, NEW b \in BOOLEAN, AuthGrant(b)
  PROVE  IInv'
<1>1. /\ Asked("auth")
      /\ UNCHANGED <<wire, got, wrote, reported, served, granted, inConnected, request>>
  BY DEF AuthGrant
<1>2. served = "serving" /\ step["server"] = "auth" /\ waiting /\ ~active["server"]
  BY <1>1, AskedTurn
<1>3. CASE GoOn("request", recvBuf["server"], Message("authreply", "yes"))
  <2>1. ServerSays("request", Message("authreply", "yes"))
    BY <1>2 DEF ServerSays
  <2>2. /\ 0 \in 0..Len(wire["client"])
        /\ wire' = [wire EXCEPT !["client"] = Drop(@, 0)]
        /\ GoOn("request", recvBuf["server"] \o SubSeq(wire["client"], 1, 0), Message("authreply", "yes"))
    BY <1>1, <1>3, ReadsNothing DEF IInv
  <2>3. served' = "serving" /\ UNCHANGED <<got, wrote, reported, granted, inConnected, request>>
    BY <1>1, <1>2
  <2> QED
    BY <1>2, <2>1, <2>2, <2>3, GoOnStep
<1>4. CASE ResetAfter("server", Message("authreply", "no")) /\ waiting' = FALSE /\ UNCHANGED <<step, ended>>
  <2>1. UNCHANGED <<wire, got, wrote, reported, ended, served, granted, step, inConnected, request>>
    BY <1>1, <1>4
  <2> QED
    BY <1>1, <1>4, <2>1, RefusesStep
<1> QED
  BY <1>3, <1>4 DEF AuthGrant

\* requestDeny() refuses.
LEMMA RequestDenyStep ==
  ASSUME IInv, RequestDeny
  PROVE  IInv'
<1>1. /\ Asked("request") /\ ResetAfter("server", Message("reply", "unreachable")) /\ waiting' = FALSE
      /\ UNCHANGED <<wire, got, wrote, reported, ended, served, granted, step, inConnected, request>>
  BY DEF RequestDeny, histVars
<1> QED
  BY <1>1, RefusesStep

\* sock_readyRead() of the server: while it waits for its program, the buffer grows.
LEMMA ServerReadsStep ==
  ASSUME IInv, NEW n, SockReadyRead("server", n), ~active["server"]
  PROVE  IInv'
<1> USE DEF IInv
<1> DEFINE b == recvBuf["server"] \o SubSeq(wire["client"], 1, n)
<1>1. /\ sock["server"] = "connected" /\ n \in 1..Len(wire["client"])
      /\ ServerReads(SubSeq(wire["client"], 1, n))
      /\ wire' = [wire EXCEPT !["client"] = Drop(@, n)]
      /\ request' = request
  BY BothEnds DEF SockReadyRead
<1>2. /\ wire["client"] \in Seq(Units) /\ recvBuf["server"] \in Seq(Units) /\ Len(wire["client"]) \in Nat
      /\ Len(recvBuf["server"]) \in Nat
  BY BothEnds, LenProperties DEF Typed
<1>3. n \in 0..Len(wire["client"]) /\ 0 \in 0..(Len(recvBuf["server"]) + n)
  BY <1>1, <1>2, SMT
<1>4. UNCHANGED <<got, wrote, reported, served, granted, inConnected, request>>
  BY <1>1 DEF ServerReads
<1>5. CASE ~waiting
  <2>1. served = "serving"
    BY <1>1, <1>5 DEF Fresh
  <2>2. GoOn(step["server"], b, <<>>)
    BY <1>1, <1>5 DEF ServerReads
  <2>3. ServerSays(step["server"], <<>>)
    BY <1>1, <1>5, <2>1 DEF ServerSays
  <2>4. served' = "serving"
    BY <1>4, <2>1
  <2> QED
    BY <1>1, <1>3, <1>4, <2>2, <2>3, <2>4, GoOnStep
<1>6. CASE waiting
  <2>1. /\ recvBuf' = [recvBuf EXCEPT !["server"] = b]
        /\ UNCHANGED <<sock, unsent, active, udp, step, pending, ended, waiting>>
    BY <1>1, <1>6 DEF ServerReads
  <2>2. b \in Seq(Units) /\ Drop(wire["client"], n) \in Seq(Units) /\ Drop(b, 0) = b
    <3>1. b \in Seq(Units) /\ Drop(wire["client"], n) \in Seq(Units)
      BY <1>2, <1>3, Buffered
    <3> HIDE DEF b
    <3> QED
      BY <3>1, NothingMore
  <2> HIDE DEF b
  <2>3. /\ recvBuf'["server"] = Drop(b, 0) /\ recvBuf'["client"] = recvBuf["client"]
        /\ wire'["client"] = Drop(wire["client"], n) /\ wire'["server"] = wire["server"]
    BY <1>1, <2>1, <2>2, BothEnds DEF Typed
  <2>4. KeepsClient
    BY <1>4, <2>1, <2>3 DEF KeepsClient, Keeps
  <2>5. Typed'
    <3>1. recvBuf' \in [Ends -> Seq(Units)] /\ wire' \in [Ends -> Seq(Units)]
      BY <1>1, <2>1, <2>2 DEF Typed
    <3>2. Typed
      OBVIOUS
    <3> HIDE DEF IInv
    <3> QED
      BY <1>4, <2>1, <3>1, <3>2 DEF Typed
  <2>6. Fresh'
    BY <1>1, <1>4, <2>1, <2>3 DEF Fresh, Foreign
  <2>7. OfClient'
    BY <1>4, <2>1, <2>3 DEF OfClient, Foreign
  <2>8. OfServer'
    BY <1>4, <2>1 DEF OfServer
  <2>9. \A e \in Ends : Counted(e)'
    BY <1>4, <2>1 DEF Counted, PendingLimit, Foreign
  <2>10. DataStreamIntact'
    BY <1>4, DataKept
  <2>11. ToServer'
    <3>1. \A h \in {2, 4}, o \in Nat : o + 0 = o
      BY SMT
    <3>2. \A h \in {2, 4}, o \in Nat : ToServerFrom(o, h) => ServerAt(o + 0, h)'
      BY <1>4, <2>1, <3>1 DEF ToServerFrom, ServerAt
    <3>3. ~udp["server"] /\ sock'["server"] = sock["server"]
      BY <1>6, <2>1 DEF OfServer
    <3>4. recvBuf'["server"] = Drop(recvBuf["server"] \o SubSeq(wire["client"], 1, n), 0)
      BY <2>3 DEF b
    <3> QED
      BY <1>1, <1>3, <2>3, <2>4, <3>2, <3>3, <3>4, ToServerReads
  <2>12. ToClient'
    <3>1. \A h \in {2, 4, 6}, p \in Nat : ToClientFrom(p, h)' <=> ToClientFrom(p, h)
      BY <1>4, <2>1, <2>3 DEF ToClientFrom, ClientAt, ServerSent
    <3> QED
      BY <1>4, <2>1, <3>1 DEF ToClient, Foreign
  <2> QED
    BY <2>5, <2>6, <2>7, <2>8, <2>9, <2>10, <2>11, <2>12
<1> QED
  BY <1>5, <1>6

\* The message that opens the stream of the server.
LEMMA Success ==
  LET t == Message("reply", "success")
  IN  /\ t \in Seq(Units) /\ Len(t) = 2 /\ \A i \in 1..Len(t) : ~IsUser(t[i])
      /\ \A h \in {2, 4} : \A cmd : Flow("server", cmd, t, h, h)
<1> DEFINE t == Message("reply", "success")
<1>1. /\ t \in Seq(Units) /\ Len(t) = 2 /\ \A i \in 1..2 : t[i] = <<"reply", i, "success">>
      /\ \A i \in 1..Len(t) : ~IsUser(t[i])
  BY Messages DEF Kinds, Args
<1> HIDE DEF t
<1>2. \A i \in 1..Len(t) : Opens("server", t[i])
  BY <1>1, Openings
<1>3. \A h \in {2, 4}, i \in 1..2 : ~(h + i <= h) /\ ~(h + i > h + 2)
  BY SMT
<1>4. \A h \in {2, 4} : \A cmd : Flow("server", cmd, t, h, h)
  BY <1>1, <1>2, <1>3 DEF Flow, Fits
<1> QED
  BY <1>1, <1>4 DEF t

\* grantConnect() or grantUDPAssociate() opens the stream, and takes what is in the buffer.
LEMMA GrantStep ==
  ASSUME IInv, Grant
  PROVE  IInv'
<1> USE DEF IInv
<1> DEFINE t == Message("reply", "success") r == recvBuf["server"]
           g == IF request.cmd = "udp" THEN <<>> ELSE <<>> \o r
<1>1. /\ Asked("request") /\ waiting' = FALSE
      /\ active' = [active EXCEPT !["server"] = TRUE]
      /\ udp' = [udp EXCEPT !["server"] = (request.cmd = "udp")]
      /\ granted' = request.cmd
      /\ pending' = [pending EXCEPT !["server"] = @ + Len(t)]
      /\ unsent' = [unsent EXCEPT !["server"] = Written("server", t)]
      /\ recvBuf' = [recvBuf EXCEPT !["server"] = <<>>]
      /\ got' = [got EXCEPT !["server"] = IF request.cmd = "udp" THEN @ ELSE @ \o recvBuf["server"]]
      /\ UNCHANGED <<sock, wire, wrote, reported, ended, served, step, inConnected, request>>
  BY DEF Grant, Send
<1>2. /\ served = "serving" /\ step["server"] = "request" /\ waiting /\ ~active["server"] /\ ~udp["server"]
      /\ sock["server"] \notin {"listen", "backlog"}
      /\ got["server"] = <<>> /\ granted = "none" /\ wrote["server"] = 0
  BY <1>1, AskedTurn
<1>3. request.cmd \in {"connect", "udp"} /\ request.dest # "ip6"
  <2>1. request.cmd # "bind" /\ request.dest # "ip6"
    BY <1>2 DEF OfServer
  <2>2. request.cmd # "none"
    BY <1>2 DEF Fresh
  <2>3. request.cmd \in Commands \cup {"none"}
    BY DEF Typed
  <2> QED
    BY <2>1, <2>2, <2>3, SocksAssumption
<1>4. t \in Seq(Units) /\ Len(t) = 2 /\ \A i \in 1..Len(t) : ~IsUser(t[i])
  BY Success
<1>5. r \in Seq(Units) /\ unsent["server"] \in Seq(Units) /\ pending["server"] \in Nat /\ Len(r) \in Nat
  BY BothEnds, LenProperties DEF Typed
<1>6. <<>> \o r = r /\ g \in {<<>>, r}
  BY <1>5, NothingMore
<1>7. PICK h \in {2, 4}, o \in Nat : ToServerFrom(o, h)
  BY <1>2 DEF ToServer
<1>8. \A k \in {2, 4}, p \in Nat : ToServerFrom(p, k) => p = k + 2
  BY <1>2 DEF ToServerFrom, ServerAt
<1>9. \A i \in 1..Len(r) : r[i] = Data(i)
  <2>1. h \in Nat /\ h + 2 + 0 = h + 2 /\ 0 \in Nat
    BY SMT
  <2>2. Flow("client", request.cmd, r, h + 2 + 0, h)
    BY <1>7, <1>8, <2>1 DEF ToServerFrom
  <2>3. \A i \in 1..Len(r) : 0 + i = i
    BY <1>5, SMT
  <2> HIDE DEF r
  <2>4. \A i \in 1..Len(r) : r[i] = Data(0 + i)
    BY <1>5, <2>1, <2>2, FlowIsData
  <2> QED
    BY <2>3, <2>4
<1> HIDE DEF t
<1>10. /\ active'["server"] /\ (udp'["server"] <=> request.cmd = "udp") /\ recvBuf'["server"] = <<>>
       /\ got'["server"] = g /\ pending'["server"] = pending["server"] + 2 /\ unsent'["server"] = Written("server", t)
       /\ sock' = sock /\ wire' = wire /\ step' = step /\ request' = request /\ wrote' = wrote /\ reported' = reported
       /\ served' = served
  BY <1>1, <1>2, <1>4, BothEnds, ZenonT(60) DEF Typed
<1>11. KeepsClient
  BY <1>1, BothEnds DEF KeepsClient, Keeps, Typed
<1>12. Typed'
  <2>1. Written("server", t) \in Seq(Units) /\ g \in Seq(Units) /\ pending["server"] + Len(t) \in Nat
    <3>1. unsent["server"] \o t \in Seq(Units)
      BY <1>4, <1>5, Joined
    <3>2. pending["server"] + 2 \in Nat
      BY <1>5, SMT
    <3> QED
      BY <1>4, <1>5, <1>6, <3>1, <3>2, Nothing DEF Written
  <2>2. /\ active' \in [Ends -> BOOLEAN] /\ udp' \in [Ends -> BOOLEAN] /\ recvBuf' \in [Ends -> Seq(Units)]
    BY <1>1, Nothing DEF Typed
  <2>3. pending' \in [Ends -> Nat] /\ unsent' \in [Ends -> Seq(Units)]
    BY <1>1, <2>1 DEF Typed
  <2>4. got' \in [Ends -> Seq(Units)]
    <3>1. got' = [got EXCEPT !["server"] = g]
      BY <1>1, <1>2
    <3> HIDE DEF g
    <3> QED
      BY <2>1, <3>1 DEF Typed
  <2>5. granted' \in {"none", "connect", "udp"} /\ waiting' \in BOOLEAN
    BY <1>1, <1>3
  <2>6. /\ sock' = sock /\ wire' = wire /\ wrote' = wrote /\ reported' = reported /\ ended' = ended
        /\ served' = served /\ step' = step /\ inConnected' = inConnected /\ request' = request
    BY <1>1
  <2>7. Typed
    OBVIOUS
  <2> HIDE DEF IInv, g, r
  <2> QED
    BY <2>2, <2>3, <2>4, <2>5, <2>6, <2>7 DEF Typed
<1>13. Foreign("client")' <=> Foreign("client")
  BY <1>10 DEF Foreign
<1>14. Fresh'
  BY <1>2, <1>10, <1>11, <1>13 DEF Fresh, KeepsClient, Keeps
<1>15. OfClient'
  BY <1>2, <1>11, <1>13 DEF OfClient, KeepsClient, Keeps
<1>16. OfServer'
  BY <1>1, <1>2, <1>3, <1>10 DEF OfServer
<1>17. Counted("client")'
  BY <1>11, BothEnds, CountedKept DEF KeepsClient
<1>18. Counted("server")'
  <2>1. pending["server"] + 2 <= 6 /\ PendingLimit("server")' = 6
    <3>1. PendingLimit("server") = 4 /\ PendingLimit("server")' = 6
      BY <1>2, <1>10, BothEnds DEF PendingLimit
    <3>2. pending["server"] <= PendingLimit("server")
      BY BothEnds DEF Counted
    <3> HIDE DEF IInv
    <3> QED
      BY <1>5, <3>1, <3>2, SMT
  <2>2. ~Foreign("server")
    BY BothEnds DEF Foreign
  <2>3. CASE sock["server"] = "connected"
    <3>1. /\ unsent'["server"] = unsent["server"] \o t /\ sock'["server"] = "connected"
          /\ pending'["server"] = pending["server"] + Len(t) /\ pending["server"] + Len(t) <= PendingLimit("server")'
          /\ wrote'["server"] = wrote["server"] /\ reported'["server"] = reported["server"]
      BY <1>4, <1>10, <2>1, <2>3 DEF Written
    <3>2. Typed /\ Counted("server")
      BY BothEnds
    <3> HIDE DEF IInv, g, r
    <3> QED
      BY <1>2, <1>4, <2>2, <2>3, <3>1, <3>2, BothEnds, CountedSays
  <2>4. CASE sock["server"] # "connected"
    <3>1. unsent'["server"] = unsent["server"]
      BY <1>10, <2>4 DEF Written
    <3> QED
      BY <1>10, <2>1, <2>4, <3>1, BothEnds DEF Counted
  <2> QED
    BY <2>3, <2>4
<1>19. DataStreamIntact'
  <2>1. r = [i \in 1..Len(r) |-> Data(i)]
    <3>1. r = [i \in DOMAIN r |-> r[i]] /\ DOMAIN r = 1..Len(r)
      BY <1>5, LenProperties
    <3> HIDE DEF r, Data
    <3> QED
      BY <1>9, <3>1
  <2>2. <<>> = [i \in 1..Len(<<>>) |-> Data(i)]
    BY Nothing, SMT
  <2>3. got'["client"] = got["client"]
    BY <1>1, BothEnds DEF Typed
  <2> HIDE DEF r, g, Data
  <2>4. g = [i \in 1..Len(g) |-> Data(i)]
    BY <1>6, <2>1, <2>2
  <2> QED
    BY <1>10, <2>3, <2>4, BothEnds, ZenonT(60) DEF DataStreamIntact
<1>20. ToServer'
  <2>1. CASE request.cmd = "udp"
    BY <1>10, <2>1 DEF ToServer
  <2>2. CASE request.cmd # "udp"
    <3>1. ~udp'["server"] /\ g = r
      BY <1>6, <1>10, <2>2
    <3>2. /\ 0 \in 0..Len(wire["client"]) /\ wire'["client"] = Drop(wire["client"], 0)
          /\ r \o SubSeq(wire["client"], 1, 0) = r
      <4>1. 0 \in 0..Len(wire["client"]) /\ r \o SubSeq(wire["client"], 1, 0) = r
        BY <1>10, ReadsNothing
      <4>2. wire["client"] \in Seq(Units)
        BY BothEnds DEF Typed
      <4> QED
        BY <1>10, <4>1, <4>2, NothingMore
    <3>3. PICK l \in Nat : l = Len(r)
      BY <1>5
    <3>4. recvBuf'["server"] = Drop(r \o SubSeq(wire["client"], 1, 0), l) /\ got'["server"] = r
      BY <1>5, <1>10, <3>1, <3>2, <3>3, NothingMore
    <3>5. l \in 0..(Len(r) + 0)
      BY <3>3, SMT
    <3>6. ASSUME NEW k \in {2, 4}, NEW p \in Nat, ToServerFrom(p, k) PROVE ServerAt(p + l, k)'
      <4>1. p = k + 2
        BY <1>8, <3>6
      <4>2. k + 2 + l = k + 2 + Len(got'["server"])
        BY <3>3, <3>4
      <4> HIDE DEF r, g
      <4> QED
        BY <1>10, <4>1, <4>2 DEF ServerAt
    <3> QED
      BY <1>2, <1>10, <1>11, <3>2, <3>4, <3>5, <3>6, ToServerReads
  <2> QED
    BY <2>1, <2>2
<1>21. ToClient'
  <2>1. granted' = request.cmd /\ granted' # "none"
    BY <1>1, <1>3
  <2>2. CASE sock["server"] = "connected"
    <3>1. unsent'["server"] = unsent["server"] \o t /\ wire'["server"] = wire["server"]
      BY <1>10, <2>2 DEF Written
    <3>2. ASSUME NEW k \in {2, 4} PROVE ServerGoesOn(t, k, k)
      <4>1. ServerSent(k) = k
        BY <1>2 DEF ServerSent
      <4>2. ServerSent(k)' = k + 2 + wrote["server"] /\ step'["server"] # "auth"
        BY <1>2, <1>10 DEF ServerSent
      <4>3. k + 2 + 0 = k + 2 /\ k # 6
        BY SMT
      <4>4. Flow("server", request.cmd, t, k, k)
        BY Success DEF t
      <4> QED
        BY <1>2, <1>4, <2>1, <4>1, <4>2, <4>3, <4>4 DEF ServerGoesOn
    <3>3. \A k \in {2, 4} : \E l \in {2, 4, 6} : ServerGoesOn(t, k, l)
      BY <3>2
    <3> QED
      BY <1>4, <1>11, <2>2, <3>1, <3>3, ToClientSends
  <2>3. CASE sock["server"] # "connected"
    <3>1. unsent'["server"] = unsent["server"] /\ wire'["server"] = wire["server"]
      BY <1>10, <2>3 DEF Written
    <3>2. sock'["server"] \notin {"backlog", "connected"}
      BY <1>2, <1>10, <2>3
    <3> QED
      BY <1>11, <2>1, <3>1, <3>2, ToClientKept
  <2> QED
    BY <2>2, <2>3
<1> QED
  BY <1>12, <1>14, <1>15, <1>16, <1>17, <1>18, <1>19, <1>20, <1>21, BothEnds

-----------------------------------------------------------------------------
(* The client negotiates.                                                  *)

\* The client takes d units, writes t and goes on at step `at'.
ClientSays(at, t, d) ==
  \/ at = step["client"] /\ t = <<>> /\ d = 0
  \/ step["client"] = "version" /\ at = "request" /\ t = RequestMessage(request) /\ d = 2
  \/ step["client"] = "version" /\ at = "auth" /\ t = Message("auth", "none") /\ d = 2
  \/ step["client"] = "version" /\ at = "request" /\ t = Message("auth", "none") \o RequestMessage(request) /\ d = 4
  \/ step["client"] = "auth" /\ at = "request" /\ t = RequestMessage(request) /\ d = 2

\* What it has taken of buffer b if it has been authenticated.
Authenticated(b, d) ==
  /\ d = 4 => b[3][1] = "authreply"
  /\ step["client"] = "auth" /\ d = 2 => b[1][1] = "authreply"

\* The rest of a rest.
LEMMA DropMore ==
  ASSUME NEW s \in Seq(Units), NEW d \in {0, 2}, d <= Len(s), 2 <= Len(Drop(s, d))
  PROVE  d + 2 <= Len(s) /\ Drop(Drop(s, d), 2) = Drop(s, d + 2) /\ Drop(s, d)[1] = s[d + 1]
<1> DEFINE q == Drop(s, d)
<1>1. Len(s) \in Nat /\ d \in 0..Len(s)
  <2>1. Len(s) \in Nat
    BY LenProperties
  <2> QED
    BY <2>1, SMT
<1>2. /\ q \in Seq(Units) /\ Len(q) = Len(s) - d
      /\ \A i \in 1..(Len(s) - d) : q[i] = s[d + i]
  BY <1>1, Parts
<1> HIDE DEF q
<1>3. 2 <= Len(q)
  BY DEF q
<1>4. PICK e : e = d + 2
  OBVIOUS
<1>5. /\ 2 \in 0..Len(q) /\ e \in 0..Len(s) /\ e <= Len(s) /\ 1 \in 1..(Len(s) - d)
      /\ Len(q) - 2 = Len(s) - e
      /\ \A i \in 1..(Len(s) - e) : 2 + i \in 1..(Len(s) - d) /\ d + (2 + i) = e + i
  BY <1>1, <1>2, <1>3, <1>4, SMT
<1>6. /\ Drop(q, 2) \in Seq(Units) /\ Len(Drop(q, 2)) = Len(q) - 2
      /\ \A i \in 1..(Len(q) - 2) : Drop(q, 2)[i] = q[2 + i]
  <2>1. q \in Seq(Units) /\ 2 \in 0..Len(q)
    BY <1>2, <1>5
  <2> QED
    BY ONLY <2>1, Parts
<1>7. /\ Drop(s, e) \in Seq(Units) /\ Len(Drop(s, e)) = Len(s) - e
      /\ \A i \in 1..(Len(s) - e) : Drop(s, e)[i] = s[e + i]
  BY <1>5, Parts
<1>8. \A i \in 1..(Len(s) - e) : Drop(q, 2)[i] = Drop(s, e)[i]
  BY <1>2, <1>5, <1>6, <1>7
<1>9. Drop(q, 2) = Drop(s, e)
  BY <1>5, <1>6, <1>7, <1>8, SeqEqual, SMTT(30)
<1> QED
  BY <1>2, <1>4, <1>5, <1>9 DEF q

\* What a stage makes of a buffer c.
LEMMA AuthOutcome ==
  ASSUME NEW c \in Seq(Units), NEW m
  PROVE  LET r == [step |-> "auth", buf |-> c, send |-> m, verdict |-> "more"]
             s == AuthStage(r)
         IN  \/ s.verdict = "error" /\ s.send = m
             \/ s.verdict = "more" /\ s.send = m /\ s.step = "auth" /\ s.buf = c
             \/ /\ s.verdict = "more" /\ s.send = m \o RequestMessage(request) /\ s.step = "request"
                /\ s.buf = Drop(c, 2) /\ 2 <= Len(c) /\ c[1][1] = "authreply"
<1> DEFINE r == [step |-> "auth", buf |-> c, send |-> m, verdict |-> "more"]
<1>1. Len(c) \in Nat /\ \A l \in Nat : l < 2 \/ 2 <= l
  BY LenProperties, SMT
<1> HIDE DEF Drop, RequestMessage
<1>2. CASE Len(c) < 2
  BY <1>2 DEF AuthStage
<1>3. CASE ~(Len(c) < 2) /\ (c[1][1] # "authreply" \/ c[1][3] = "no")
  <2>1. AuthStage(r) = [r EXCEPT !.verdict = "error"]
    BY <1>3 DEF AuthStage
  <2> QED
    BY <2>1
<1>4. CASE ~(Len(c) < 2) /\ ~(c[1][1] # "authreply" \/ c[1][3] = "no")
  <2>1. AuthStage(r) = [step |-> "request", buf |-> Drop(c, 2), send |-> m \o RequestMessage(request), verdict |-> "more"]
    BY <1>4 DEF AuthStage, DoRequest
  <2>2. 2 <= Len(c) /\ c[1][1] = "authreply"
    BY <1>1, <1>4
  <2> QED
    BY <2>1, <2>2
<1> QED
  BY <1>2, <1>3, <1>4

\* The last stage.
LEMMA RequestOutcome ==
  ASSUME NEW c \in Seq(Units), NEW m
  PROVE  LET r == [step |-> "request", buf |-> c, send |-> m, verdict |-> "more"]
             s == RequestStage(r)
         IN  \/ s.verdict = "error" /\ s.send = m
             \/ s.verdict = "more" /\ s.send = m /\ s.step = "request" /\ s.buf = c
             \/ /\ s.verdict = "connected" /\ s.send = m /\ s.step = "request"
                /\ s.buf = Drop(c, 2) /\ 2 <= Len(c) /\ c[1] = <<"reply", 1, "success">>
<1> DEFINE r == [step |-> "request", buf |-> c, send |-> m, verdict |-> "more"]
<1>1. Len(c) \in Nat /\ \A l \in Nat : l < 2 \/ 2 <= l
  BY LenProperties, SMT
<1> HIDE DEF Drop
<1>2. CASE Len(c) < 2
  BY <1>2 DEF RequestStage
<1>3. CASE ~(Len(c) < 2) /\ c[1] # <<"reply", 1, "success">>
  <2>1. RequestStage(r) = [step |-> "request", buf |-> Drop(c, 2), send |-> m, verdict |-> "error"]
    BY <1>3 DEF RequestStage
  <2> QED
    BY <2>1
<1>4. CASE ~(Len(c) < 2) /\ c[1] = <<"reply", 1, "success">>
  <2>1. RequestStage(r) = [step |-> "request", buf |-> Drop(c, 2), send |-> m, verdict |-> "connected"]
    BY <1>4 DEF RequestStage
  <2>2. 2 <= Len(c)
    BY <1>1, <1>4
  <2> QED
    BY <1>4, <2>1, <2>2
<1> QED
  BY <1>2, <1>3, <1>4

\* The client's request, which opens its stream.
LEMMA Requests ==
  ASSUME Typed
  PROVE  LET t == RequestMessage(request)
         IN  /\ t \in Seq(Units) /\ Len(t) = IF request.dest = "ip6" THEN 1 ELSE 2
             /\ \A i \in 1..Len(t) : ~IsUser(t[i])
             /\ \A h \in Nat : Flow("client", request.cmd, t, h, h)
<1> DEFINE t == RequestMessage(request) c == request.cmd
<1>1. c \in Args
  <2>1. c \in Commands \cup {"none"}
    BY DEF Typed
  <2> QED
    BY <2>1, SocksAssumption DEF Args
<1>2. "request" \in Kinds \ {"data"}
  BY DEF Kinds
<1>3. \A i \in {1, 2} : Opens("client", <<"request", i, c>>) /\ ~IsUser(<<"request", i, c>>) /\ <<"request", i, c>>[3] = c
  BY DEF Opens, IsUser
<1>4. \A h \in Nat, i \in {1, 2} : ~(h + i <= h) /\ ~(h + i > h + 2)
  BY SMT
<1>5. CASE request.dest = "ip6"
  <2>1. <<"request", 1, c>> \in Units
    <3>1. 1 \in 1..(MaxData + 2)
      BY SocksAssumption, SMT
    <3> QED
      BY <1>1, <1>2, <3>1 DEF Units
  <2>2. t \in Seq(Units) /\ Len(t) = 1 /\ t[1] = <<"request", 1, c>>
    BY <1>5, <2>1 DEF RequestMessage
  <2>3. \A i \in 1..1 : i = 1
    BY SMT
  <2> HIDE DEF t, c
  <2>4. \A i \in 1..Len(t) : i \in {1, 2} /\ t[i] = <<"request", i, c>>
    BY <2>2, <2>3
  <2>5. \A h \in Nat : Flow("client", c, t, h, h)
    BY <1>3, <1>4, <2>4 DEF Flow, Fits
  <2> QED
    BY <1>3, <1>5, <2>2, <2>4, <2>5 DEF t, c
<1>6. CASE request.dest # "ip6"
  <2>1. t = Message("request", c)
    BY <1>6 DEF RequestMessage
  <2>2. t \in Seq(Units) /\ Len(t) = 2 /\ \A i \in 1..2 : t[i] = <<"request", i, c>>
    BY <1>1, <1>2, <2>1, Messages
  <2>3. \A i \in 1..2 : i \in {1, 2}
    BY SMT
  <2> HIDE DEF t, c
  <2>4. \A i \in 1..Len(t) : i \in {1, 2} /\ t[i] = <<"request", i, c>>
    BY <2>2, <2>3
  <2>5. \A h \in Nat : Flow("client", c, t, h, h)
    BY <1>3, <1>4, <2>4 DEF Flow, Fits
  <2> QED
    BY <1>3, <1>6, <2>2, <2>4, <2>5 DEF t, c
<1> QED
  BY <1>5, <1>6

\* What processOutgoing() makes of what has been received.
Outcome(b, s, at, t, d) ==
  /\ ClientSays(at, t, d) /\ d \in {0, 2, 4} /\ d <= Len(b) /\ Authenticated(b, d)
  /\ s.send = t
  /\ \/ s.verdict = "error"
     \/ s.verdict = "more" /\ s.step = at /\ s.buf = Drop(b, d)
     \/ /\ s.verdict = "connected" /\ s.step = "request" /\ at = "request" /\ d \in {0, 2}
        /\ d + 2 <= Len(b) /\ b[d + 1] = <<"reply", 1, "success">> /\ s.buf = Drop(b, d + 2)

\* It takes d units, and two more if they open the stream.
LEMMA Outgoing ==
  ASSUME NEW block, Typed, step["client"] \in {"version", "auth", "request"},
         recvBuf["client"] \o block \in Seq(Units)
  PROVE  \E at, t, d : Outcome(recvBuf["client"] \o block, processOutgoing(block), at, t, d)
<1> DEFINE b == recvBuf["client"] \o block
           v == VersionStage([step |-> step["client"], buf |-> b, send |-> <<>>, verdict |-> "more"])
           s == processOutgoing(block)
           a == Message("auth", "none") q == RequestMessage(request)
<1> HIDE DEF a, q, Drop
<1>1. b \in Seq(Units) /\ Len(b) \in Nat /\ (\A l \in Nat : (l < 2 \/ 2 <= l) /\ 0 <= l) /\ 0 # 2 /\ 0 # 4 /\ 2 # 4
      /\ 0 + 1 = 1 /\ 0 + 2 = 2
  <2>1. Len(b) \in Nat
    BY LenProperties
  <2> HIDE DEF b
  <2> QED
    BY <2>1, SMT DEF b
<1>2. s = IF v.verdict # "more" THEN v
          ELSE IF v.step = "auth" THEN AuthStage(v)
          ELSE IF v.step = "request" THEN RequestStage(v)
          ELSE v
  BY DEF processOutgoing
<1> HIDE DEF b, s
<1>3. \/ v.verdict = "error" /\ v.send = <<>>
      \/ /\ v = [step |-> step["client"], buf |-> b, send |-> <<>>, verdict |-> "more"]
      \/ /\ step["client"] = "version" /\ 2 <= Len(b)
         /\ v = [step |-> "request", buf |-> Drop(b, 2), send |-> q, verdict |-> "more"]
      \/ /\ step["client"] = "version" /\ 2 <= Len(b)
         /\ v = [step |-> "auth", buf |-> Drop(b, 2), send |-> a, verdict |-> "more"]
  <2>1. CASE step["client"] # "version" \/ Len(b) < 2
    BY <2>1 DEF VersionStage
  <2>2. CASE ~(step["client"] # "version" \/ Len(b) < 2)
    <3>1. CASE b[1][1] # "method"
      <4>1. v = [[step |-> step["client"], buf |-> b, send |-> <<>>, verdict |-> "more"] EXCEPT !.verdict = "error"]
        BY <2>2, <3>1 DEF VersionStage
      <4> QED
        BY <4>1
    <3>2. CASE b[1][1] = "method"
      BY <1>1, <2>2, <3>2 DEF VersionStage, DoRequest, a, q
    <3> QED
      BY <3>1, <3>2
  <2> QED
    BY <2>1, <2>2
<1> HIDE DEF v
<1>4. CASE v.verdict = "error" /\ v.send = <<>>
  <2>1. s = v /\ s.verdict = "error" /\ s.send = <<>>
    BY <1>2, <1>4
  <2>2. ClientSays(step["client"], <<>>, 0) /\ Authenticated(b, 0)
    BY <1>1 DEF ClientSays, Authenticated
  <2>3. Outcome(b, s, step["client"], <<>>, 0)
    BY <1>1, <2>1, <2>2 DEF Outcome
  <2> QED
    BY <2>3 DEF b, s
<1>5. CASE v = [step |-> step["client"], buf |-> b, send |-> <<>>, verdict |-> "more"]
  <2>1. Drop(b, 0) = b
    BY <1>1, NothingMore
  <2>2. ClientSays(step["client"], <<>>, 0) /\ Authenticated(b, 0)
    BY <1>1 DEF ClientSays, Authenticated
  <2>3. CASE step["client"] = "version"
    <3>1. s = v
      BY <1>2, <1>5, <2>3
    <3>2. s.verdict = "more" /\ s.send = <<>> /\ s.step = step["client"] /\ s.buf = b
      BY <1>5, <3>1
    <3>3. Outcome(b, s, step["client"], <<>>, 0)
      BY <1>1, <2>1, <2>2, <3>2 DEF Outcome
    <3> QED
      BY <3>3 DEF b, s
  <2>4. CASE step["client"] = "auth"
    <3>1. s = AuthStage([step |-> "auth", buf |-> b, send |-> <<>>, verdict |-> "more"])
      BY <1>2, <1>5, <2>4
    <3>2. <<>> \o q = q
      <4>1. q \in Seq(Units)
        BY Requests DEF q
      <4> QED
        BY <4>1, NothingMore
    <3>3. \/ s.verdict = "error" /\ s.send = <<>>
          \/ s.verdict = "more" /\ s.send = <<>> /\ s.step = "auth" /\ s.buf = b
          \/ /\ s.verdict = "more" /\ s.send = q /\ s.step = "request"
             /\ s.buf = Drop(b, 2) /\ 2 <= Len(b) /\ b[1][1] = "authreply"
      BY <1>1, <3>1, <3>2, AuthOutcome, ZenonT(60) DEF q
    <3>4. CASE \/ s.verdict = "error" /\ s.send = <<>>
               \/ s.verdict = "more" /\ s.send = <<>> /\ s.step = "auth" /\ s.buf = b
      <4>1. Outcome(b, s, step["client"], <<>>, 0)
        BY <1>1, <2>1, <2>2, <2>4, <3>4 DEF Outcome
      <4> QED
        BY <4>1 DEF b, s
    <3>5. CASE /\ s.verdict = "more" /\ s.send = q /\ s.step = "request"
               /\ s.buf = Drop(b, 2) /\ 2 <= Len(b) /\ b[1][1] = "authreply"
      <4>1. ClientSays("request", q, 2) /\ Authenticated(b, 2)
        BY <1>1, <2>4, <3>5 DEF ClientSays, Authenticated, q
      <4>2. Outcome(b, s, "request", q, 2)
        BY <3>5, <4>1 DEF Outcome
      <4> QED
        BY <4>2 DEF b, s
    <3> QED
      BY <3>3, <3>4, <3>5
  <2>5. CASE step["client"] = "request"
    <3>1. s = RequestStage([step |-> "request", buf |-> b, send |-> <<>>, verdict |-> "more"])
      BY <1>2, <1>5, <2>5
    <3>2. \/ s.verdict = "error" /\ s.send = <<>>
          \/ s.verdict = "more" /\ s.send = <<>> /\ s.step = "request" /\ s.buf = b
          \/ /\ s.verdict = "connected" /\ s.send = <<>> /\ s.step = "request"
             /\ s.buf = Drop(b, 2) /\ 2 <= Len(b) /\ b[1] = <<"reply", 1, "success">>
      BY <1>1, <3>1, RequestOutcome
    <3>3. Outcome(b, s, step["client"], <<>>, 0)
      BY <1>1, <2>1, <2>2, <2>5, <3>2 DEF Outcome
    <3> QED
      BY <3>3 DEF b, s
  <2> QED
    BY <2>3, <2>4, <2>5
<1>6. CASE /\ step["client"] = "version" /\ 2 <= Len(b)
           /\ v = [step |-> "request", buf |-> Drop(b, 2), send |-> q, verdict |-> "more"]
  <2>1. s = RequestStage([step |-> "request", buf |-> Drop(b, 2), send |-> q, verdict |-> "more"])
    BY <1>2, <1>6
  <2>2. 2 \in {0, 2} /\ 2 \in 0..Len(b) /\ 2 + 2 = 4 /\ 2 + 1 = 3
    BY <1>1, <1>6, SMT
  <2>3. Drop(b, 2) \in Seq(Units)
    BY <1>1, <2>2, Parts
  <2>4. \/ s.verdict = "error" /\ s.send = q
        \/ s.verdict = "more" /\ s.send = q /\ s.step = "request" /\ s.buf = Drop(b, 2)
        \/ /\ s.verdict = "connected" /\ s.send = q /\ s.step = "request"
           /\ s.buf = Drop(Drop(b, 2), 2) /\ 2 <= Len(Drop(b, 2)) /\ Drop(b, 2)[1] = <<"reply", 1, "success">>
    BY <2>1, <2>3, RequestOutcome
  <2>5. 2 <= Len(Drop(b, 2)) => 2 + 2 <= Len(b) /\ Drop(Drop(b, 2), 2) = Drop(b, 2 + 2) /\ Drop(b, 2)[1] = b[2 + 1]
    BY <1>1, <1>6, <2>2, DropMore
  <2>6. ClientSays("request", q, 2) /\ Authenticated(b, 2)
    BY <1>1, <1>6 DEF ClientSays, Authenticated, q
  <2>7. Outcome(b, s, "request", q, 2)
    BY <1>6, <2>2, <2>4, <2>5, <2>6 DEF Outcome
  <2> QED
    BY <2>7 DEF b, s
<1>7. CASE /\ step["client"] = "version" /\ 2 <= Len(b)
           /\ v = [step |-> "auth", buf |-> Drop(b, 2), send |-> a, verdict |-> "more"]
  <2>1. s = AuthStage([step |-> "auth", buf |-> Drop(b, 2), send |-> a, verdict |-> "more"])
    BY <1>2, <1>7
  <2>2. 2 \in {0, 2} /\ 2 \in 0..Len(b) /\ 2 + 2 = 4 /\ 2 + 1 = 3
    BY <1>1, <1>7, SMT
  <2>3. Drop(b, 2) \in Seq(Units)
    BY <1>1, <2>2, Parts
  <2>4. \/ s.verdict = "error" /\ s.send = a
        \/ s.verdict = "more" /\ s.send = a /\ s.step = "auth" /\ s.buf = Drop(b, 2)
        \/ /\ s.verdict = "more" /\ s.send = a \o q /\ s.step = "request"
           /\ s.buf = Drop(Drop(b, 2), 2) /\ 2 <= Len(Drop(b, 2)) /\ Drop(b, 2)[1][1] = "authreply"
    BY <2>1, <2>3, AuthOutcome DEF q
  <2>5. 2 <= Len(Drop(b, 2)) => 2 + 2 <= Len(b) /\ Drop(Drop(b, 2), 2) = Drop(b, 2 + 2) /\ Drop(b, 2)[1] = b[2 + 1]
    BY <1>1, <1>7, <2>2, DropMore
  <2>6. CASE s.send = a /\ (s.verdict = "error" \/ (s.verdict = "more" /\ s.step = "auth" /\ s.buf = Drop(b, 2)))
    <3>1. ClientSays("auth", a, 2) /\ Authenticated(b, 2)
      BY <1>1, <1>7 DEF ClientSays, Authenticated, a
    <3>2. Outcome(b, s, "auth", a, 2)
      BY <1>7, <2>2, <2>6, <3>1 DEF Outcome
    <3> QED
      BY <3>2 DEF b, s
  <2>7. CASE /\ s.verdict = "more" /\ s.send = a \o q /\ s.step = "request"
             /\ s.buf = Drop(Drop(b, 2), 2) /\ 2 <= Len(Drop(b, 2)) /\ Drop(b, 2)[1][1] = "authreply"
    <3>1. 4 <= Len(b) /\ s.buf = Drop(b, 4) /\ b[3][1] = "authreply"
      BY <2>2, <2>5, <2>7
    <3>2. ClientSays("request", a \o q, 4) /\ Authenticated(b, 4)
      BY <1>1, <1>7, <3>1 DEF ClientSays, Authenticated, a, q
    <3>3. Outcome(b, s, "request", a \o q, 4)
      BY <2>7, <3>1, <3>2 DEF Outcome
    <3> QED
      BY <3>3 DEF b, s
  <2> QED
    BY <2>4, <2>6, <2>7
<1> QED
  BY <1>3, <1>4, <1>5, <1>6, <1>7

\* How many units the client has sent at step `at', at most how many of them are
\* still to go, and how many it has taken.
SaidAt(at, h) ==
  IF at = "version" THEN 2 ELSE IF at = "auth" THEN 4 ELSE IF request.dest = "ip6" THEN h + 1 ELSE h + 2
MostAt(at) == IF at = "version" THEN 2 ELSE IF at = "auth" THEN 4 ELSE 6
ReadAt(at, p, h) ==
  /\ at = "version" => p = 0
  /\ at = "auth" => p = 2
  /\ at = "request" => p \in {2, 4} /\ p <= h

\* How far the stream has come when the client says that.
LEMMA ClientTurn ==
  ASSUME IInv, sock["client"] = "connected", ~Foreign("client"), ~active["client"],
         NEW at, NEW t, NEW d, ClientSays(at, t, d)
  PROVE  /\ at \in {"version", "auth", "request"}
         /\ t \in Seq(Units) /\ \A i \in 1..Len(t) : ~IsUser(t[i])
         /\ pending["client"] + Len(t) <= MostAt(at)
         /\ \A h \in {2, 4} : (step["client"] = "auth" => h = 4) =>
              \E k \in {2, 4} : /\ k = h \/ ClientSent(h) = 2
                                /\ Flow("client", request.cmd, t, ClientSent(h), k)
                                /\ request.dest = "ip6" => ClientSent(h) + Len(t) <= k + 1
                                /\ ClientSent(h) + Len(t) = SaidAt(at, k)
                                /\ at = "auth" => k = 4
<1> DEFINE a == Message("auth", "none") q == RequestMessage(request) c == request.cmd
<1>1. /\ step["client"] \in {"version", "auth", "request"} /\ pending["client"] \in Nat
      /\ pending["client"] <= MostAt(step["client"])
  <2>1. step["client"] \in {"version", "auth", "request"} /\ pending["client"] \in Nat
    BY BothEnds DEF IInv, Typed
  <2>2. PendingLimit("client") = MostAt(step["client"])
    BY DEF PendingLimit, MostAt
  <2> QED
    BY <2>1, <2>2, BothEnds DEF IInv, Counted
<1>2. ASSUME NEW h \in {2, 4} PROVE ClientSent(h) = SaidAt(step["client"], h)
  <2>1. wrote["client"] = 0
    BY DEF IInv, OfClient
  <2>2. h + 1 + 0 = h + 1 /\ h + 2 + 0 = h + 2
    BY SMT
  <2> QED
    BY <2>1, <2>2 DEF ClientSent, SaidAt
<1>3. /\ q \in Seq(Units) /\ Len(q) = IF request.dest = "ip6" THEN 1 ELSE 2
      /\ \A i \in 1..Len(q) : ~IsUser(q[i])
      /\ \A h \in Nat : Flow("client", c, q, h, h)
  BY Requests DEF IInv
<1>4. /\ a \in Seq(Units) /\ Len(a) = 2 /\ \A i \in 1..Len(a) : ~IsUser(a[i]) /\ ~Opens("client", a[i])
  <2>1. "auth" \in Kinds \ {"data"} /\ "none" \in Args
    BY DEF Kinds, Args
  <2>2. /\ a \in Seq(Units) /\ Len(a) = 2 /\ \A i \in 1..2 : a[i] = <<"auth", i, "none">>
        /\ \A i \in 1..Len(a) : ~IsUser(a[i])
    BY <2>1, Messages
  <2> HIDE DEF a
  <2>3. \A i \in 1..2 : ~Opens("client", a[i])
    BY <2>1, <2>2, Openings
  <2> QED
    BY <2>2, <2>3
<1>5. /\ \A h \in {2, 4} : h \in Nat /\ 2 <= h + 1 /\ h + 1 + 0 = h + 1 /\ h + 2 + 0 = h + 2 /\ h + 1 <= h + 1
                           /\ (h = 4 => 4 <= h + 1)
      /\ 2 + 0 = 2 /\ 4 + 0 = 4 /\ 2 + 1 <= 2 + 1 /\ 2 + 1 = 3 /\ 2 + 2 = 4 /\ 4 + 1 = 5 /\ 4 + 2 = 6
      /\ 4 <= 4 /\ 4 <= 5 /\ 5 <= 5 /\ 3 <= 3
      /\ \A n \in Nat : /\ n + 0 = n
                        /\ n <= 2 => n + 1 <= 6 /\ n + 2 <= 4 /\ n + 2 <= 6 /\ n + 3 <= 6 /\ n + 4 <= 6
                        /\ n <= 4 => n + 1 <= 6 /\ n + 2 <= 6
  BY SMT
<1> HIDE DEF a, q, c
<1>6. CASE at = step["client"] /\ t = <<>> /\ d = 0
  <2>1. t \in Seq(Units) /\ Len(t) = 0 /\ \A i \in 1..Len(t) : FALSE
    BY <1>6, Nothing, SMT
  <2>2. pending["client"] + Len(t) <= MostAt(at)
    BY <1>1, <1>5, <1>6, <2>1
  <2>3. ASSUME NEW h \in {2, 4}, step["client"] = "auth" => h = 4
        PROVE  /\ Flow("client", request.cmd, t, ClientSent(h), h)
               /\ request.dest = "ip6" => ClientSent(h) + Len(t) <= h + 1
               /\ ClientSent(h) + Len(t) = SaidAt(at, h)
               /\ at = "auth" => h = 4
    <3>1. Flow("client", request.cmd, t, ClientSent(h), h)
      BY <1>6, Nothing
    <3>2. ClientSent(h) + Len(t) = SaidAt(at, h)
      BY <1>1, <1>2, <1>5, <1>6, <2>1 DEF SaidAt
    <3>3. request.dest = "ip6" => SaidAt(at, h) <= h + 1
      BY <1>1, <1>5, <1>6, <2>3 DEF SaidAt
    <3> QED
      BY <1>6, <2>3, <3>1, <3>2, <3>3
  <2> QED
    BY <1>1, <1>6, <2>1, <2>2, <2>3
<1>7. CASE step["client"] = "version" /\ at = "request" /\ t = q /\ d = 2
  <2>1. pending["client"] + Len(t) <= MostAt(at)
    BY <1>1, <1>3, <1>5, <1>7 DEF MostAt
  <2>2. ASSUME NEW h \in {2, 4}
        PROVE  /\ ClientSent(h) = 2
               /\ Flow("client", request.cmd, t, ClientSent(h), 2)
               /\ request.dest = "ip6" => ClientSent(h) + Len(t) <= 2 + 1
               /\ ClientSent(h) + Len(t) = SaidAt(at, 2)
    <3>1. ClientSent(h) = 2
      BY <1>2, <1>7 DEF SaidAt
    <3>2. Flow("client", request.cmd, t, 2, 2)
      BY <1>3, <1>5, <1>7 DEF c
    <3> QED
      BY <1>3, <1>5, <1>7, <3>1, <3>2 DEF SaidAt
  <2> QED
    BY <1>3, <1>7, <2>1, <2>2
<1>8. CASE step["client"] = "version" /\ at = "auth" /\ t = a /\ d = 2
  <2>1. pending["client"] + Len(t) <= MostAt(at)
    BY <1>1, <1>4, <1>5, <1>8 DEF MostAt
  <2>2. ASSUME NEW h \in {2, 4}
        PROVE  /\ ClientSent(h) = 2
               /\ Flow("client", request.cmd, t, ClientSent(h), 4)
               /\ request.dest = "ip6" => ClientSent(h) + Len(t) <= 4 + 1
               /\ ClientSent(h) + Len(t) = SaidAt(at, 4)
    <3>1. ClientSent(h) = 2
      BY <1>2, <1>8 DEF SaidAt
    <3>2. Flow("client", request.cmd, t, 2, 4)
      <4>1. 2 \in Nat /\ 4 \in Nat /\ 2 + Len(t) <= 4
        BY <1>4, <1>5, <1>8
      <4> QED
        BY <1>4, <1>8, <4>1, FlowOfNegotiation
    <3> QED
      BY <1>4, <1>5, <1>8, <3>1, <3>2 DEF SaidAt
  <2> QED
    BY <1>4, <1>8, <2>1, <2>2
<1>9. CASE step["client"] = "version" /\ at = "request" /\ t = a \o q /\ d = 4
  <2>1. /\ t \in Seq(Units) /\ Len(t) = IF request.dest = "ip6" THEN 3 ELSE 4
        /\ \A i \in 1..Len(t) : ~IsUser(t[i])
    <3>1. t \in Seq(Units) /\ Len(t) = Len(a) + Len(q)
      BY <1>3, <1>4, <1>9, Joined
    <3>2. Len(t) = IF request.dest = "ip6" THEN 3 ELSE 4
      BY <1>3, <1>4, <1>5, <3>1
    <3>3. ASSUME NEW i \in 1..Len(t) PROVE ~IsUser(t[i])
      <4>1. Len(q) \in Nat /\ i \in 1..(2 + Len(q))
        BY <1>3, <1>4, <3>1, LenProperties
      <4>2. CASE i <= 2
        <5>1. i \in 1..2
          BY <4>1, <4>2, SMT
        <5>2. t[i] = a[i]
          BY <1>3, <1>4, <1>9, <5>1, Joined
        <5> QED
          BY <1>4, <5>1, <5>2
      <4>3. CASE ~(i <= 2)
        <5>1. i - 2 \in 1..Len(q) /\ 2 + (i - 2) = i
          BY <4>1, <4>3, SMT
        <5>2. \A j \in 1..Len(q) : (a \o q)[Len(a) + j] = q[j]
          BY <1>3, <1>4, Joined
        <5>3. t[i] = q[i - 2]
          BY <1>4, <1>9, <5>1, <5>2
        <5> QED
          BY <1>3, <5>1, <5>3
      <4> QED
        BY <4>2, <4>3
    <3> QED
      BY <3>1, <3>2, <3>3
  <2>2. pending["client"] + Len(t) <= MostAt(at)
    BY <1>1, <1>5, <1>9, <2>1 DEF MostAt
  <2>3. Flow("client", c, t, 2, 4)
    <3>1. 2 \in Nat /\ 4 \in Nat /\ 2 + Len(a) = 4 /\ 2 + Len(a) <= 4
      BY <1>4, <1>5
    <3>2. Flow("client", c, a, 2, 4)
      BY <1>4, <3>1, FlowOfNegotiation
    <3>3. Flow("client", c, q, 2 + Len(a), 4)
      BY <1>3, <3>1
    <3> QED
      BY <1>3, <1>4, <1>9, <3>1, <3>2, <3>3, FlowJoined
  <2>4. ASSUME NEW h \in {2, 4}
        PROVE  /\ ClientSent(h) = 2
               /\ Flow("client", request.cmd, t, ClientSent(h), 4)
               /\ request.dest = "ip6" => ClientSent(h) + Len(t) <= 4 + 1
               /\ ClientSent(h) + Len(t) = SaidAt(at, 4)
    <3>1. ClientSent(h) = 2
      BY <1>2, <1>9 DEF SaidAt
    <3>2. 2 + 3 = 5 /\ 2 + 4 = 6
      BY SMT
    <3>3. ClientSent(h) + Len(t) = SaidAt(at, 4) /\ (request.dest = "ip6" => ClientSent(h) + Len(t) <= 4 + 1)
      BY <1>5, <1>9, <2>1, <3>1, <3>2 DEF SaidAt
    <3> QED
      BY <2>3, <3>1, <3>3 DEF c
  <2> QED
    BY <1>9, <2>1, <2>2, <2>4
<1>10. CASE step["client"] = "auth" /\ at = "request" /\ t = q /\ d = 2
  <2>1. pending["client"] + Len(t) <= MostAt(at)
    BY <1>1, <1>3, <1>5, <1>10 DEF MostAt
  <2>2. /\ Flow("client", request.cmd, t, ClientSent(4), 4)
        /\ request.dest = "ip6" => ClientSent(4) + Len(t) <= 4 + 1
        /\ ClientSent(4) + Len(t) = SaidAt(at, 4)
    <3>1. ClientSent(4) = 4
      BY <1>2, <1>10 DEF SaidAt
    <3>2. Flow("client", request.cmd, t, 4, 4)
      BY <1>3, <1>5, <1>10 DEF c
    <3> QED
      BY <1>3, <1>5, <1>10, <3>1, <3>2 DEF SaidAt
  <2> QED
    BY <1>3, <1>10, <2>1, <2>2
<1> QED
  BY <1>6, <1>7, <1>8, <1>9, <1>10 DEF ClientSays, a, q

\* What the client has in its buffer when n units more have come.
LEMMA ClientBuffer ==
  ASSUME IInv, NEW n \in 0..Len(wire["server"]),
         NEW h \in {2, 4, 6}, NEW p \in Nat, ToClientFrom(p, h)
  PROVE  LET b == recvBuf["client"] \o SubSeq(wire["server"], 1, n)
         IN  /\ b \in Seq(Units) /\ Len(b) = Len(recvBuf["client"]) + n
             /\ Flow("server", request.cmd, b, p, h)
             /\ p + Len(b) > h => granted = request.cmd /\ granted # "none"
<1> DEFINE r == recvBuf["client"] w == wire["server"] u == unsent["server"]
           b == r \o SubSeq(w, 1, n) p3 == p + Len(r) + Len(w) + Len(u)
<1>1. r \in Seq(Units) /\ w \in Seq(Units) /\ u \in Seq(Units)
  BY BothEnds DEF IInv, Typed
<1>2. Len(r) \in Nat /\ Len(w) \in Nat /\ Len(u) \in Nat /\ n \in Nat /\ n <= Len(w) /\ h \in Nat
  <2>1. Len(r) \in Nat /\ Len(w) \in Nat /\ Len(u) \in Nat
    BY <1>1, LenProperties
  <2> QED
    BY <2>1, SMT
<1>3. /\ Flow("server", request.cmd, r, p, h) /\ Flow("server", request.cmd, w, p + Len(r), h)
      /\ p3 > h => granted = request.cmd /\ granted # "none"
  BY DEF ToClientFrom
<1>4. n \in 0..Len(w)
  OBVIOUS
<1> HIDE DEF r, w, u
<1>5. b \in Seq(Units) /\ Len(b) = Len(r) + n
  BY <1>1, <1>4, Buffered
<1>6. Flow("server", request.cmd, b, p, h)
  BY <1>1, <1>2, <1>3, <1>4, FlowMoved
<1>7. p + (Len(r) + n) > h => p3 > h
  BY <1>2, SMT
<1> HIDE DEF b, p3
<1>8. /\ b \in Seq(Units) /\ Len(b) = Len(r) + n /\ Flow("server", request.cmd, b, p, h)
      /\ p + Len(b) > h => granted = request.cmd /\ granted # "none"
  BY <1>3, <1>5, <1>6, <1>7
<1> QED
  BY <1>8 DEF b, r, w

\* Where the client is in the stream when it goes on.
LEMMA ClientGets ==
  ASSUME IInv, sock["client"] = "connected", ~active["client"],
         NEW b \in Seq(Units), NEW s, NEW at, NEW t, NEW d, Outcome(b, s, at, t, d), s.verdict # "error",
         NEW h \in {2, 4, 6}, NEW p \in Nat, ClientAt(p, h), Flow("server", request.cmd, b, p, h)
  PROVE  \/ s.verdict = "more" /\ ReadAt(at, p + d, h)
         \/ /\ s.verdict = "connected" /\ p + (d + 2) = h + 2 /\ p + Len(b) > h
            /\ Flow("server", request.cmd, Drop(b, d + 2), h + 2, h)
<1>1. /\ ClientSays(at, t, d) /\ d \in {0, 2, 4} /\ d <= Len(b) /\ Authenticated(b, d)
      /\ \/ s.verdict = "more"
         \/ /\ s.verdict = "connected" /\ at = "request" /\ d \in {0, 2}
            /\ d + 2 <= Len(b) /\ b[d + 1] = <<"reply", 1, "success">>
  BY DEF Outcome
<1>2. \A i \in 1..Len(b) : Fits("server", request.cmd, h, p + i, b[i])
  BY DEF Flow
<1>3. Len(b) \in Nat /\ h \in Nat
  <2>1. h \in Nat
    BY SMT
  <2> QED
    BY <2>1, LenProperties
<1>4. /\ \A k : k[1] = "authreply" => ~Opens("server", k)
      /\ Opens("server", <<"reply", 1, "success">>)
  BY DEF Opens
<1>5. step["client"] \in {"version", "auth", "request"}
  BY BothEnds DEF IInv, Typed
<1>6. /\ step["client"] = "version" => p = 0
      /\ step["client"] = "auth" => p = 2
      /\ step["client"] = "request" => p \in {2, 4} /\ p <= h
  BY <1>5 DEF ClientAt
<1>7. p + 0 = p /\ 0 + 2 = 2 /\ 0 + 4 = 4 /\ 2 + 2 = 4 /\ 2 <= h /\ (h # 2 => 4 <= h) /\ 0 + 3 = 2 + 1 /\ 0 + 3 = 3
  BY SMT
<1>8. ReadAt(at, p + d, h)
  <2>1. CASE at = step["client"] /\ d = 0
    BY <1>5, <1>6, <1>7, <2>1 DEF ReadAt
  <2>2. CASE step["client"] = "version" /\ at \in {"request", "auth"} /\ d = 2
    BY <1>6, <1>7, <2>2 DEF ReadAt
  <2>3. CASE step["client"] = "version" /\ at = "request" /\ d = 4
    <3>1. b[3][1] = "authreply" /\ 3 \in 1..Len(b)
      <4>1. 3 \in 1..Len(b)
        BY <1>1, <1>3, <2>3, SMT
      <4> QED
        BY <1>1, <2>3, <4>1 DEF Authenticated
    <3>2. p = 0 /\ Fits("server", request.cmd, h, 2 + 1, b[3])
      BY <1>2, <1>6, <1>7, <2>3, <3>1
    <3>3. h # 2
      BY <1>4, <3>1, <3>2 DEF Fits
    <3> QED
      BY <1>7, <2>3, <3>2, <3>3 DEF ReadAt
  <2>4. CASE step["client"] = "auth" /\ at = "request" /\ d = 2
    <3>1. b[1][1] = "authreply" /\ 1 \in 1..Len(b)
      <4>1. 1 \in 1..Len(b)
        BY <1>1, <1>3, <2>4, SMT
      <4> QED
        BY <1>1, <2>4, <4>1 DEF Authenticated
    <3>2. p = 2 /\ Fits("server", request.cmd, h, 2 + 1, b[1])
      BY <1>2, <1>6, <2>4, <3>1
    <3>3. h # 2
      BY <1>4, <3>1, <3>2 DEF Fits
    <3> QED
      BY <1>7, <2>4, <3>2, <3>3 DEF ReadAt
  <2> QED
    BY <1>1, <2>1, <2>2, <2>3, <2>4 DEF ClientSays
<1>9. CASE s.verdict = "connected"
  <2>1. /\ at = "request" /\ d \in {0, 2} /\ d + 2 <= Len(b) /\ b[d + 1] = <<"reply", 1, "success">>
    BY <1>1, <1>9
  <2>2. PICK e : e = d + 2
    OBVIOUS
  <2>3. d + 1 \in 1..Len(b) /\ e \in 0..Len(b)
    BY <1>3, <2>1, <2>2, SMT
  <2>4. Fits("server", request.cmd, h, p + (d + 1), b[d + 1])
    BY <1>2, <2>3
  <2>5. ~(p + (d + 1) <= h)
    BY <1>4, <2>1, <2>4 DEF Fits
  <2>6. p + d <= h
    BY <1>8, <2>1 DEF ReadAt
  <2>7. p + e = h + 2 /\ p + Len(b) > h
    BY <1>1, <1>3, <2>1, <2>2, <2>5, <2>6, SMT
  <2>8. Flow("server", request.cmd, Drop(b, e), p + e, h)
    BY <1>3, <2>3, FlowCut
  <2> QED
    BY <1>9, <2>2, <2>7, <2>8
<1> QED
  BY <1>1, <1>8, <1>9

\* sock_readyRead() of the client while it negotiates.
LEMMA ClientReadsStep ==
  ASSUME IInv, NEW n, SockReadyRead("client", n), ~active["client"]
  PROVE  IInv'
<1> USE DEF IInv
<1> DEFINE r == recvBuf["client"] w == wire["server"]
           b == r \o SubSeq(w, 1, n) s == processOutgoing(SubSeq(w, 1, n))
<1>1. /\ sock["client"] = "connected" /\ ~inConnected /\ ~Foreign("client") /\ n \in 1..Len(w)
      /\ ClientReads(SubSeq(w, 1, n))
      /\ wire' = [wire EXCEPT !["server"] = Drop(@, n)]
      /\ request' = request
  BY BothEnds DEF SockReadyRead, Loop
<1>2. r \in Seq(Units) /\ w \in Seq(Units) /\ Len(r) \in Nat /\ Len(w) \in Nat
  BY BothEnds, LenProperties DEF Typed
<1>3. n \in 0..Len(w) /\ w # <<>> /\ n \in Nat
  <2>1. n \in 0..Len(w) /\ Len(w) # 0 /\ n \in Nat
    BY <1>1, <1>2, SMT
  <2> QED
    BY <2>1, Nothing
<1>4. b \in Seq(Units) /\ Len(b) = Len(r) + n /\ Drop(w, n) \in Seq(Units)
  BY <1>2, <1>3, Buffered
<1>5. PICK at, t, d : Outcome(b, s, at, t, d)
  <2>1. step["client"] \in {"version", "auth", "request"} /\ Typed
    BY BothEnds DEF Typed
  <2> QED
    BY <1>4, <2>1, Outgoing
<1>6. /\ at \in {"version", "auth", "request"}
      /\ t \in Seq(Units) /\ \A i \in 1..Len(t) : ~IsUser(t[i])
      /\ pending["client"] + Len(t) <= MostAt(at)
  BY <1>1, <1>5, ClientTurn DEF Outcome
<1>7. \A h \in {2, 4} : (step["client"] = "auth" => h = 4) =>
        \E k \in {2, 4} : /\ k = h \/ ClientSent(h) = 2
                          /\ Flow("client", request.cmd, t, ClientSent(h), k)
                          /\ request.dest = "ip6" => ClientSent(h) + Len(t) <= k + 1
                          /\ ClientSent(h) + Len(t) = SaidAt(at, k)
                          /\ at = "auth" => k = 4
  BY <1>1, <1>5, ClientTurn DEF Outcome
<1>8. /\ \/ /\ s.verdict = "error"
            /\ ResetAfter("client", t)
            /\ ended' = [ended EXCEPT !["client"] = "error"]
            /\ UNCHANGED <<step, inConnected>>
         \/ /\ s.verdict # "error"
            /\ recvBuf' = [recvBuf EXCEPT !["client"] = s.buf]
            /\ step' = [step EXCEPT !["client"] = s.step]
            /\ Send("client", t)
            /\ active' = [active EXCEPT !["client"] = (s.verdict = "connected")]
            /\ inConnected' = (s.verdict = "connected")
            /\ UNCHANGED <<sock, udp, ended>>
      /\ UNCHANGED <<got, wrote, reported, waiting, served, granted>>
  BY <1>1, <1>5 DEF ClientReads, Outcome, Notify, serverVars
<1>9. \/ s.verdict = "error"
      \/ s.verdict = "more" /\ s.step = at /\ s.buf = Drop(b, d)
      \/ /\ s.verdict = "connected" /\ s.step = "request" /\ at = "request" /\ d \in {0, 2}
         /\ d + 2 <= Len(b) /\ b[d + 1] = <<"reply", 1, "success">> /\ s.buf = Drop(b, d + 2)
  BY <1>5 DEF Outcome
<1>10. ClientSays(at, t, d) /\ d \in {0, 2, 4} /\ d <= Len(b) /\ Authenticated(b, d)
  BY <1>5 DEF Outcome
<1>11. \A h \in {2, 4, 6}, p \in Nat : ToClientFrom(p, h) =>
         /\ Flow("server", request.cmd, b, p, h)
         /\ p + Len(b) > h => granted = request.cmd /\ granted # "none"
         /\ ClientAt(p, h)
  BY <1>3, ClientBuffer DEF ToClientFrom
<1> HIDE DEF b, s, r, w
<1>12. /\ wire'["server"] = Drop(w, n) /\ wire'["client"] = wire["client"] /\ wire' \in [Ends -> Seq(Units)]
  BY <1>1, <1>4, BothEnds DEF Typed, w
<1>13. unsent["client"] \in Seq(Units) /\ unsent["client"] \o t \in Seq(Units) /\ Len(t) \in Nat
       /\ Written("client", t) = unsent["client"] \o t /\ pending["client"] \in Nat
  BY <1>1, <1>6, BothEnds, Joined, LenProperties DEF Typed, Written
<1>14. /\ got["client"] = <<>> /\ wrote["client"] = 0 /\ sock["server"] # "listen"
  BY <1>1 DEF OfClient, Fresh
<1>15. MostAt(at) \in {2, 4, 6} /\ pending["client"] + Len(t) <= 6
  <2>1. MostAt(at) \in {2, 4, 6}
    BY DEF MostAt
  <2> QED
    BY <1>6, <1>13, <2>1, SMT
<1>16. Foreign("client")' <=> Foreign("client")
  BY <1>1 DEF Foreign
<1>17. DataStreamIntact'
  BY <1>8, DataKept
<1>18. ASSUME s.verdict = "error", ResetAfter("client", t), ended' = [ended EXCEPT !["client"] = "error"],
              UNCHANGED <<step, inConnected>>
       PROVE  IInv'
  <2>1. /\ sock' = [sock EXCEPT !["client"] = IF Written("client", t) # <<>> THEN "closing" ELSE "idle"]
        /\ unsent' = [unsent EXCEPT !["client"] = Written("client", t)]
        /\ recvBuf' = [recvBuf EXCEPT !["client"] = <<>>]
        /\ active' = [active EXCEPT !["client"] = FALSE]
        /\ udp' = [udp EXCEPT !["client"] = FALSE]
        /\ pending' = [pending EXCEPT !["client"] = 0]
        /\ step' = step /\ inConnected' = inConnected
    BY <1>18 DEF ResetAfter
  <2>2. /\ sock'["client"] = IF Written("client", t) # <<>> THEN "closing" ELSE "idle"
        /\ sock'["client"] \in {"idle", "closing"}
        /\ unsent'["client"] = unsent["client"] \o t /\ recvBuf'["client"] = <<>> /\ ~active'["client"]
        /\ pending'["client"] = 0
        /\ wrote'["client"] = wrote["client"] /\ reported'["client"] = reported["client"]
        /\ got'["client"] = got["client"]
    BY <1>8, <1>13, <2>1, BothEnds, SMTT(30) DEF Typed
  <2>3. KeepsServer
    BY <1>1, <1>8, <2>1, BothEnds DEF KeepsServer, Keeps, Typed
  <2>4. Typed'
    <3>1. /\ sock' \in [Ends -> {"listen", "backlog", "idle", "connecting", "connected", "closing"}]
          /\ unsent' \in [Ends -> Seq(Units)] /\ recvBuf' \in [Ends -> Seq(Units)]
          /\ active' \in [Ends -> BOOLEAN] /\ udp' \in [Ends -> BOOLEAN] /\ pending' \in [Ends -> Nat]
      BY <1>13, <2>1, Nothing DEF Typed
    <3>2. ended' \in [Ends -> {"no", "closed", "error", "delayed"}]
      BY <1>18 DEF Typed
    <3>3. /\ step' = step /\ inConnected' = inConnected /\ request' = request /\ got' = got /\ wrote' = wrote
          /\ reported' = reported /\ waiting' = waiting /\ served' = served /\ granted' = granted
      BY <1>1, <1>8, <2>1
    <3>4. Typed
      OBVIOUS
    <3> HIDE DEF IInv
    <3> QED
      BY <1>12, <3>1, <3>2, <3>3, <3>4 DEF Typed
  <2>5. Counted("client")'
    <3>1. Typed /\ Counted("client") /\ (sock["client"] = "connected" => pending["client"] + Len(t) <= 6)
          /\ unsent'["client"] = Written("client", t)
      BY <1>13, <1>15, <2>2, BothEnds
    <3> HIDE DEF IInv
    <3> QED
      BY <1>1, <1>6, <2>2, <3>1, BothEnds, CountedQuits
  <2>6. Fresh' /\ OfClient' /\ OfServer' /\ ToClient' /\ Counted("server")'
    <3>1. wire["server"] # <<>> /\ sock["server"] # "listen" /\ ~Foreign("client") /\ (inConnected' => inConnected)
      BY <1>1, <1>3, <1>14, <2>1 DEF w
    <3>2. /\ step' = step
      BY <2>1
    <3> HIDE DEF IInv
    <3> QED
      BY <2>2, <2>3, <3>1, <3>2, ClientStops
  <2>7. ToServer'
    <3>1. \A h \in {2, 4} : (step["client"] = "auth" => h = 4) => \E k \in {2, 4} : ClientGoesOn(t, h, k)
      BY <1>7, <2>2 DEF ClientGoesOn
    <3> QED
      BY <1>1, <1>6, <1>12, <2>2, <2>3, <3>1, ToServerSends
  <2> QED
    BY <1>17, <2>4, <2>5, <2>6, <2>7, BothEnds
\* It goes on, and takes e units of what it has.
<1>19. ASSUME s.verdict # "error", recvBuf' = [recvBuf EXCEPT !["client"] = s.buf],
              step' = [step EXCEPT !["client"] = s.step], Send("client", t),
              active' = [active EXCEPT !["client"] = (s.verdict = "connected")],
              inConnected' = (s.verdict = "connected"), UNCHANGED <<sock, udp, ended>>
       PROVE  IInv'
  <2>1. PICK e : e = IF s.verdict = "connected" THEN d + 2 ELSE d
    OBVIOUS
  <2>2. s.buf = Drop(b, e) /\ s.step = at /\ (s.verdict = "connected" => at = "request")
    BY <1>9, <1>19, <2>1
  <2>3. e \in 0..Len(b) /\ e \in Nat
    <3>1. Len(b) \in Nat
      BY <1>4, LenProperties
    <3>2. d + 2 <= Len(b) => d + 2 \in 0..Len(b)
      BY <1>10, <3>1, SMT
    <3>3. d \in 0..Len(b)
      BY <1>10, <3>1, SMT
    <3>4. e \in 0..Len(b)
      BY <1>9, <1>19, <2>1, <3>2, <3>3
    <3> QED
      BY <3>1, <3>4, SMT
  <2>4. Drop(b, e) \in Seq(Units)
    BY <1>4, <2>3, Parts
  <2>5. ASSUME NEW h \in {2, 4, 6}, NEW p \in Nat, ToClientFrom(p, h)
        PROVE  IF s.verdict = "connected"
               THEN /\ p + e = h + 2 /\ Flow("server", request.cmd, Drop(b, e), h + 2, h)
                    /\ granted = request.cmd /\ granted # "none"
               ELSE ReadAt(at, p + e, h)
    <3>1. /\ Flow("server", request.cmd, b, p, h) /\ ClientAt(p, h)
          /\ p + Len(b) > h => granted = request.cmd /\ granted # "none"
      BY <1>11, <2>5
    <3>2. \/ s.verdict = "more" /\ ReadAt(at, p + d, h)
          \/ /\ s.verdict = "connected" /\ p + (d + 2) = h + 2 /\ p + Len(b) > h
             /\ Flow("server", request.cmd, Drop(b, d + 2), h + 2, h)
      BY <1>1, <1>4, <1>5, <1>19, <3>1, ClientGets, SMTT(30)
    <3> QED
      BY <2>1, <3>1, <3>2
  <2>6. /\ (active'["client"] <=> s.verdict = "connected") /\ (inConnected' <=> s.verdict = "connected")
        /\ active' \in [Ends -> BOOLEAN]
    BY <1>19, BothEnds DEF Typed
  <2>7. /\ recvBuf'["client"] = Drop(b, e) /\ recvBuf' \in [Ends -> Seq(Units)]
        /\ step'["client"] = at /\ step' \in [Ends -> {"version", "auth", "request"}]
        /\ unsent'["client"] = unsent["client"] \o t /\ unsent' \in [Ends -> Seq(Units)]
    BY <1>6, <1>13, <1>19, <2>2, <2>4, BothEnds, ZenonT(60) DEF Typed, Send
  <2>8. /\ pending'["client"] = pending["client"] + Len(t) /\ pending' \in [Ends -> Nat]
    <3>1. pending["client"] + Len(t) \in Nat
      BY <1>13, SMT
    <3>2. pending' = [pending EXCEPT !["client"] = pending["client"] + Len(t)]
      BY <1>19 DEF Send, Typed
    <3> QED
      BY <3>1, <3>2, BothEnds DEF Typed
  <2>9. sock' = sock /\ udp' = udp /\ ended' = ended
    BY <1>19
  <2>10. KeepsServer
    BY <1>1, <1>8, <1>19, BothEnds DEF KeepsServer, Keeps, Typed, Send
  <2>11. /\ got' = got /\ wrote' = wrote /\ reported' = reported /\ waiting' = waiting /\ served' = served
         /\ granted' = granted /\ request' = request
    BY <1>1, <1>8
  <2>12. Typed'
    <3>1. Typed /\ inConnected' \in BOOLEAN
      BY <1>19
    <3> HIDE DEF IInv
    <3> QED
      BY <1>12, <2>6, <2>7, <2>8, <2>9, <2>11, <3>1 DEF Typed
  <2>13. PICK h \in {2, 4, 6}, p \in Nat : ToClientFrom(p, h)
    BY <1>1 DEF ToClient
  <2>14. s.verdict = "connected" =>
           /\ granted = request.cmd /\ granted # "none"
           /\ \A i \in 1..Len(Drop(b, e)) : Drop(b, e)[i] = Data(i)
    <3>1. h \in Nat /\ h + 2 + 0 = h + 2 /\ 0 \in Nat
      BY SMT
    <3>2. \A i \in 1..Len(Drop(b, e)) : 0 + i = i
      <4>1. Len(Drop(b, e)) \in Nat
        BY <2>4, LenProperties
      <4> QED
        BY <4>1, SMT
    <3> HIDE DEF Drop
    <3>3. ASSUME Flow("server", request.cmd, Drop(b, e), h + 2 + 0, h)
          PROVE  \A i \in 1..Len(Drop(b, e)) : Drop(b, e)[i] = Data(0 + i)
      BY <2>4, <3>1, <3>3, FlowIsData
    <3> QED
      BY <2>5, <2>13, <3>1, <3>2, <3>3
  <2>15. Fresh'
    <3>1. sock["server"] \notin {"listen", "backlog"}
      BY <1>3 DEF Fresh, w
    <3> QED
      BY <1>1, <2>9, <2>10, <2>11, <3>1 DEF Fresh, KeepsServer, Keeps
  <2>16. OfClient'
    BY <1>1, <1>14, <1>16, <2>2, <2>6, <2>7, <2>9, <2>11, <2>14 DEF OfClient
  <2>17. OfServer'
    BY <2>10 DEF OfServer, KeepsServer, Keeps
  <2>18. Counted("server")'
    BY <2>10, BothEnds, CountedKept DEF KeepsServer
  <2>19. Counted("client")'
    <3>1. PendingLimit("client")' = MostAt(at)
      BY <2>7 DEF PendingLimit, MostAt
    <3>2. /\ Typed /\ Counted("client") /\ sock'["client"] = "connected"
          /\ pending["client"] + Len(t) <= PendingLimit("client")'
          /\ wrote'["client"] = wrote["client"] /\ reported'["client"] = reported["client"]
      BY <1>1, <1>6, <2>9, <2>11, <3>1, BothEnds
    <3> HIDE DEF IInv
    <3> QED
      BY <1>1, <1>6, <1>14, <2>7, <2>8, <3>2, BothEnds, CountedSays
  <2>20. ToServer'
    <3>1. ASSUME NEW l \in {2, 4}, step["client"] = "auth" => l = 4 PROVE \E k \in {2, 4} : ClientGoesOn(t, l, k)
      <4>1. PICK k \in {2, 4} : /\ k = l \/ ClientSent(l) = 2
                                /\ Flow("client", request.cmd, t, ClientSent(l), k)
                                /\ request.dest = "ip6" => ClientSent(l) + Len(t) <= k + 1
                                /\ ClientSent(l) + Len(t) = SaidAt(at, k)
                                /\ at = "auth" => k = 4
        BY <1>7, <3>1
      <4>2. k + 1 + 0 = k + 1 /\ k + 2 + 0 = k + 2
        BY SMT
      <4>3. ClientSent(k)' = SaidAt(at, k)
        BY <1>1, <1>14, <2>7, <2>11, <4>2 DEF ClientSent, SaidAt
      <4>4. ClientGoesOn(t, l, k)
        BY <2>7, <4>1, <4>3 DEF ClientGoesOn
      <4> QED
        BY <4>4
    <3> QED
      BY <1>1, <1>6, <1>12, <2>7, <2>10, <3>1, ToServerSends
  <2>21. ToClient'
    <3>1. ASSUME NEW l \in {2, 4, 6}, NEW k \in Nat, ToClientFrom(k, l) PROVE ClientAt(k + e, l)'
      <4>1. CASE s.verdict = "connected"
        <5>1. k + e = l + 2 /\ l + 2 + 0 = l + 2
          BY <2>5, <3>1, <4>1, SMT
        <5>2. Len(got'["client"]) = 0
          BY <1>14, <2>11, Nothing
        <5> QED
          BY <2>6, <4>1, <5>1, <5>2 DEF ClientAt
      <4>2. CASE s.verdict # "connected"
        <5>1. ReadAt(at, k + e, l)
          BY <2>5, <3>1, <4>2
        <5> QED
          BY <1>6, <2>6, <2>7, <4>2, <5>1 DEF ClientAt, ReadAt
      <4> QED
        BY <4>1, <4>2
    <3>2. recvBuf'["client"] = Drop(recvBuf["client"] \o SubSeq(wire["server"], 1, n), e)
      BY <2>7 DEF b, r, w
    <3>3. n \in 0..Len(wire["server"]) /\ e \in 0..(Len(recvBuf["client"]) + n)
          /\ wire'["server"] = Drop(wire["server"], n)
      BY <1>3, <1>4, <1>12, <2>3 DEF r, w
    <3>4. sock'["client"] = sock["client"]
      BY <2>9
    <3> QED
      BY <2>10, <3>1, <3>2, <3>3, <3>4, ToClientReads
  <2> QED
    BY <1>17, <2>12, <2>15, <2>16, <2>17, <2>18, <2>19, <2>20, <2>21, BothEnds
<1> QED
  BY <1>8, <1>18, <1>19

-----------------------------------------------------------------------------
(* Every step.                                                             *)

\* sock_readyRead(), in whatever state the end is.
LEMMA SockReadyReadStep ==
  ASSUME IInv, NEW e \in Ends, NEW n, SockReadyRead(e, n)
  PROVE  IInv'
<1>1. CASE active[e]
  BY <1>1, ReadsDataStep
<1>2. CASE ~active[e] /\ e = "client"
  BY <1>2, ClientReadsStep
<1>3. CASE ~active[e] /\ e = "server"
  BY <1>3, ServerReadsStep
<1> QED
  BY <1>1, <1>2, <1>3, BothEnds

\* sock_connectionClosed() leaves what has been received.
LEMMA SockConnectionClosedStep ==
  ASSUME IInv, NEW e \in Ends, SockConnectionClosed(e)
  PROVE  IInv'
<1>1. /\ ConnectionLost(e, FALSE) /\ wire' = wire
      /\ sock[e] \in {"connecting", "connected", "closing"}
  BY DEF SockConnectionClosed
<1>2. FALSE \in BOOLEAN /\ wire' \in {wire, [wire EXCEPT ![Peer(e)] = <<>>]}
  BY <1>1
<1> QED
  BY <1>1, <1>2, ConnectionLostStep

\* sock_error() takes what was on its way with it.
LEMMA SockErrorStep ==
  ASSUME IInv, NEW e \in Ends, SockError(e)
  PROVE  IInv'
<1>1. /\ ConnectionLost(e, TRUE) /\ wire' = [wire EXCEPT ![Peer(e)] = <<>>]
      /\ sock[e] \in {"connecting", "connected", "closing"}
  BY DEF SockError
<1>2. TRUE \in BOOLEAN /\ wire' \in {wire, [wire EXCEPT ![Peer(e)] = <<>>]}
  BY <1>1
<1> QED
  BY <1>1, <1>2, ConnectionLostStep

\* A step of the serving program.
LEMMA ServerStep ==
  ASSUME IInv, Server
  PROVE  IInv'
<1>1. CASE ConnectionReady
  BY <1>1, ConnectionReadyStep
<1>2. CASE TakeIncoming
  BY <1>2, TakeIncomingStep
<1>3. CASE Serve
  BY <1>3, ServeStep
<1>4. CASE \E m \in {"none", "user"} : ChooseMethod(m)
  BY <1>4, ChooseMethodStep
<1>5. CASE \E b \in BOOLEAN : AuthGrant(b)
  BY <1>5, AuthGrantStep
<1>6. CASE RequestDeny
  BY <1>6, RequestDenyStep
<1>7. CASE Grant
  BY <1>7, GrantStep
<1> QED
  BY <1>1, <1>2, <1>3, <1>4, <1>5, <1>6, <1>7 DEF Server

\* A step of the network.
LEMMA NetworkStep ==
  ASSUME IInv, NEW e \in Ends, Network(e)
  PROVE  IInv'
<1>1. CASE \E n \in 1..(2*MaxData + 6) : SockReadyRead(e, n)
  BY <1>1, SockReadyReadStep
<1>2. CASE \E n \in 1..(MaxData + 6) : SockBytesWritten(e, n)
  BY <1>2, SockBytesWrittenStep
<1>3. CASE SockConnectionClosed(e)
  BY <1>3, SockConnectionClosedStep
<1>4. CASE Discard(e)
  BY <1>4, DiscardStep
<1> QED
  BY <1>1, <1>2, <1>3, <1>4 DEF Network

\* Nothing happens.
LEMMA Stutter ==
  ASSUME IInv, UNCHANGED vars
  PROVE  IInv'
<1>1. /\ sock' = sock /\ unsent' = unsent /\ wire' = wire /\ recvBuf' = recvBuf /\ active' = active /\ udp' = udp
      /\ step' = step /\ pending' = pending /\ got' = got /\ wrote' = wrote /\ reported' = reported /\ ended' = ended
      /\ waiting' = waiting /\ served' = served /\ granted' = granted /\ inConnected' = inConnected /\ request' = request
  BY DEF vars, sockVars, histVars, serverVars
<1>2. Typed' /\ Fresh' /\ OfClient' /\ OfServer'
  BY <1>1, ZenonT(60) DEF IInv, Typed, Fresh, OfClient, OfServer, Foreign
<1>3. (\A e \in Ends : Counted(e)') /\ DataStreamIntact'
  BY <1>1 DEF IInv, Counted, PendingLimit, Foreign, DataStreamIntact
<1>4. ToServer'
  <2>1. \A h \in {2, 4}, o \in Nat : ToServerFrom(o, h)' <=> ToServerFrom(o, h)
    BY <1>1 DEF ToServerFrom, ServerAt, ClientSent, Foreign
  <2> QED
    BY <1>1, <2>1 DEF IInv, ToServer
<1>5. ToClient'
  <2>1. \A h \in {2, 4, 6}, p \in Nat : ToClientFrom(p, h)' <=> ToClientFrom(p, h)
    BY <1>1 DEF ToClientFrom, ClientAt, ServerSent
  <2> QED
    BY <1>1, <2>1 DEF IInv, ToClient, Foreign
<1> QED
  BY <1>2, <1>3, <1>4, <1>5 DEF IInv

\* The invariant is inductive.
LEMMA NextIInv ==
  ASSUME IInv, [Next]_vars
  PROVE  IInv'
<1>1. CASE \E cmd \in Commands, dest \in Dests : ConnectToHost(cmd, dest)
  BY <1>1, ConnectToHostStep
<1>2. CASE \E cmd \in Commands, withAuth \in BOOLEAN, n \in 0..MaxData : ForeignConnect(cmd, withAuth, n)
  BY <1>2, ForeignConnectStep
<1>3. CASE SockConnected
  BY <1>3, SockConnectedStep
<1>4. CASE ConnectedReturns
  BY <1>4, ConnectedReturnsStep
<1>5. CASE Server
  BY <1>5, ServerStep
<1>6. ASSUME NEW e \in Ends, Write(e) \/ Close(e) \/ Delete(e) \/ SockError(e) \/ Network(e) PROVE IInv'
  <2>1. CASE Write(e)
    BY <2>1, WriteStep
  <2>2. CASE Close(e)
    BY <2>2, CloseStep
  <2>3. CASE Delete(e)
    BY <2>3, DeleteStep
  <2>4. CASE SockError(e)
    BY <2>4, SockErrorStep
  <2>5. CASE Network(e)
    BY <2>5, NetworkStep
  <2> QED
    BY <1>6, <2>1, <2>2, <2>3, <2>4, <2>5
<1>7. CASE UNCHANGED vars
  BY <1>7, Stutter
<1> QED
  BY <1>1, <1>2, <1>3, <1>4, <1>5, <1>6, <1>7 DEF Next

-----------------------------------------------------------------------------
(* The theorems.                                                           *)

\* The invariant: at either end what has been taken, what lies in its buffer, what
\* is on the wire and what the other end has not sent yet are one flow, in which
\* the message that opens the stream has one place and the data follow it.
THEOREM InductiveInvariant == Spec => []IInv
<1>1. IInv /\ [Next]_vars => IInv'
  BY NextIInv
<1> QED
  BY <1>1, InitIInv, PTL DEF Spec

\* Every variable keeps its type; of the negotiation no end ever has more than six
\* units to send.
THEOREM TypeCorrect == Spec => []TypeOK
BY InductiveInvariant, IInvTypeOK, PTL

\* A client whose processOutgoing() has taken the stream for open has been granted
\* what it asked for, whatever the pieces the answers came in.
THEOREM GrantedWhenConnected == Spec => []ConnectedMeansGranted
<1>1. IInv => ConnectedMeansGranted
  BY DEF IInv, OfClient, ConnectedMeansGranted
<1> QED
  BY <1>1, InductiveInvariant, PTL

\* No unit of the negotiation is ever made available as data, and no byte that
\* came with the end of it, before it was served, or while connected() was being
\* handled is lost or out of order, in either direction.
THEOREM StreamIsIntact == Spec => []DataStreamIntact
<1>1. IInv => DataStreamIntact
  BY DEF IInv
<1> QED
  BY <1>1, InductiveInvariant, PTL

\* sock_bytesWritten() hides the units of the negotiation, which go through the
\* same socket as the user's bytes, and no others, at both ends.
THEOREM UserDataIsCounted == Spec => []BytesWrittenCountsUserData
<1>1. IInv => BytesWrittenCountsUserData
  <2> SUFFICES ASSUME IInv, NEW e \in Ends, sock[e] = "connected", ~Foreign(e)
               PROVE  reported[e] + Cardinality({i \in DOMAIN unsent[e] : IsUser(unsent[e][i])}) = wrote[e]
    BY DEF BytesWrittenCountsUserData
  <2> DEFINE u == unsent[e] l == Len(u) c == pending[e]
  <2>1. /\ \A i \in 1..l : IsUser(u[i]) <=> i > c
        /\ c <= l /\ reported[e] + l = wrote[e] + c
    BY DEF IInv, Counted
  <2>2. l \in Nat /\ c \in Nat /\ reported[e] \in Nat /\ wrote[e] \in Nat /\ DOMAIN u = 1..l
    BY SocksAssumption, LenProperties DEF IInv, Typed
  <2> HIDE DEF u, l, c
  <2>3. {i \in DOMAIN u : IsUser(u[i])} = (c + 1)..l
    <3>1. \A i : i \in (c + 1)..l <=> i \in 1..l /\ i > c
      BY <2>2, SMT
    <3> QED
      BY <2>1, <2>2, <3>1
  <2>4. Cardinality((c + 1)..l) = l - c
    <3>1. /\ c + 1 \in Int /\ l \in Int
          /\ (IF c + 1 > l THEN 0 ELSE l - (c + 1) + 1) = l - c
      BY <2>1, <2>2, SMT
    <3> QED
      BY <3>1, FS_Interval
  <2>5. reported[e] + (l - c) = wrote[e]
    BY <2>1, <2>2, SMT
  <2> QED
    BY <2>3, <2>4, <2>5 DEF u
<1> QED
  BY <1>1, InductiveInvariant, PTL

-----------------------------------------------------------------------------
(* The datagrams of SOCKS.                                                 *)

\* What is cut off, if it is longer.
LEMMA TruncatedProperties ==
  ASSUME NEW S, NEW s \in Seq(S), NEW n \in Nat
  PROVE  /\ Truncated(s, n) \in Seq(S)
         /\ Len(Truncated(s, n)) = IF Len(s) <= n THEN Len(s) ELSE n
         /\ \A i \in 1..Len(Truncated(s, n)) : Truncated(s, n)[i] = s[i]
<1>1. CASE Len(s) <= n
  BY <1>1 DEF Truncated
<1>2. CASE ~(Len(s) <= n)
  <2>1. Truncated(s, n) = SubSeq(s, 1, n)
    BY <1>2 DEF Truncated
  <2>2. Len(s) \in Nat /\ 1..n \subseteq 1..Len(s) /\ n - 1 + 1 = n /\ n \in Int
    BY <1>2, SMT
  <2>3. \A i \in 1..n : s[i] \in S
    BY <2>2, ElementOfSeq
  <2>4. /\ SubSeq(s, 1, n) \in Seq(S)
        /\ Len(SubSeq(s, 1, n)) = IF 1 <= n THEN n - 1 + 1 ELSE 0
        /\ \A i \in 1..(n - 1 + 1) : SubSeq(s, 1, n)[i] = s[1 + i - 1]
    BY <2>2, <2>3, SubSeqProperties
  <2>5. Len(SubSeq(s, 1, n)) = n
    BY <2>4, SMT
  <2>6. \A i \in 1..n : 1 + i - 1 = i
    BY SMT
  <2> QED
    BY <1>2, <2>1, <2>2, <2>4, <2>5, <2>6
<1> QED
  BY <1>1, <1>2

\* Where the parts of a datagram are.
DatagramOf(h, a, b, buf) == << 0, 0, 0, 3, Len(h) >> \o h \o << a, b >> \o buf

Layout(full, h, a, b, buf) ==
  /\ full \in Seq(Nat)
  /\ Len(full) = 7 + Len(h) + Len(buf)
  /\ full[4] = 3 /\ full[5] = Len(h)
  /\ \A n \in 1..Len(h) : full[5 + n] = h[n]
  /\ full[Len(h) + 6] = a /\ full[Len(h) + 7] = b
  /\ \A n \in 1..Len(buf) : full[Len(h) + 7 + n] = buf[n]

LEMMA DatagramLayout ==
  ASSUME NEW h \in Seq(Nat), NEW a \in Nat, NEW b \in Nat, NEW buf \in Seq(Nat)
  PROVE  Layout(DatagramOf(h, a, b, buf), h, a, b, buf)
<1> DEFINE s1 == << 0, 0, 0, 3, Len(h) >>
           s2 == s1 \o h
           s3 == s2 \o << a, b >>
           s4 == s3 \o buf
<1>1. s1 \in Seq(Nat) /\ Len(s1) = 5 /\ s1[4] = 3 /\ s1[5] = Len(h)
  BY LenProperties
<1>2. << a, b >> \in Seq(Nat) /\ Len(<< a, b >>) = 2 /\ << a, b >>[1] = a /\ << a, b >>[2] = b
  OBVIOUS
<1>3. Len(h) \in Nat /\ Len(buf) \in Nat
  OBVIOUS
<1> HIDE DEF s1
<1>4. /\ s2 \in Seq(Nat) /\ Len(s2) = Len(s1) + Len(h)
      /\ \A i \in 1..(Len(s1) + Len(h)) : s2[i] = IF i <= Len(s1) THEN s1[i] ELSE h[i - Len(s1)]
  BY <1>1, ConcatProperties
<1> HIDE DEF s2
<1>5. /\ s3 \in Seq(Nat) /\ Len(s3) = Len(s2) + 2
      /\ \A i \in 1..(Len(s2) + 2) : s3[i] = IF i <= Len(s2) THEN s2[i] ELSE << a, b >>[i - Len(s2)]
  BY <1>2, <1>4, ConcatProperties
<1> HIDE DEF s3
<1>6. /\ s4 \in Seq(Nat) /\ Len(s4) = Len(s3) + Len(buf)
      /\ \A i \in 1..(Len(s3) + Len(buf)) : s4[i] = IF i <= Len(s3) THEN s3[i] ELSE buf[i - Len(s3)]
  <2>1. s3 \in Seq(Nat)
    BY <1>5
  <2> QED
    BY <2>1, ConcatProperties
<1> HIDE DEF s4
<1>7. Len(s2) = 5 + Len(h) /\ Len(s3) = 7 + Len(h) /\ Len(s4) = 7 + Len(h) + Len(buf)
  BY <1>1, <1>3, <1>4, <1>5, <1>6, SMT
<1>8. \A i \in 1..5 : s4[i] = s1[i]
  <2> SUFFICES ASSUME NEW i \in 1..5 PROVE s4[i] = s1[i]
    OBVIOUS
  <2>1. /\ i \in 1..(5 + Len(h)) /\ i <= 5
        /\ i \in 1..(5 + Len(h) + 2) /\ i <= 5 + Len(h)
        /\ i \in 1..(7 + Len(h) + Len(buf)) /\ i <= 7 + Len(h)
    BY <1>3, SMT
  <2>2. s2[i] = s1[i]
    BY <1>1, <1>4, <2>1
  <2>3. s3[i] = s2[i]
    BY <1>5, <1>7, <2>1
  <2>4. s4[i] = s3[i]
    BY <1>6, <1>7, <2>1
  <2> QED
    BY <2>2, <2>3, <2>4
<1>9. \A n \in 1..Len(h) : s4[5 + n] = h[n]
  <2> SUFFICES ASSUME NEW n \in 1..Len(h) PROVE s4[5 + n] = h[n]
    OBVIOUS
  <2>1. /\ 5 + n \in 1..(5 + Len(h)) /\ ~(5 + n <= 5) /\ (5 + n) - 5 = n
        /\ 5 + n \in 1..(5 + Len(h) + 2) /\ 5 + n <= 5 + Len(h)
        /\ 5 + n \in 1..(7 + Len(h) + Len(buf)) /\ 5 + n <= 7 + Len(h)
    BY <1>3, SMT
  <2>2. s2[5 + n] = h[n]
    BY <1>1, <1>4, <2>1
  <2>3. s3[5 + n] = s2[5 + n]
    BY <1>5, <1>7, <2>1
  <2>4. s4[5 + n] = s3[5 + n]
    BY <1>6, <1>7, <2>1
  <2> QED
    BY <2>2, <2>3, <2>4
<1>10. s4[Len(h) + 6] = a /\ s4[Len(h) + 7] = b
  <2>1. /\ Len(h) + 6 \in 1..(5 + Len(h) + 2) /\ Len(h) + 7 \in 1..(5 + Len(h) + 2)
        /\ ~(Len(h) + 6 <= 5 + Len(h)) /\ ~(Len(h) + 7 <= 5 + Len(h))
        /\ Len(h) + 6 - (5 + Len(h)) = 1 /\ Len(h) + 7 - (5 + Len(h)) = 2
        /\ Len(h) + 6 \in 1..(7 + Len(h) + Len(buf)) /\ Len(h) + 7 \in 1..(7 + Len(h) + Len(buf))
        /\ Len(h) + 6 <= 7 + Len(h) /\ Len(h) + 7 <= 7 + Len(h)
    BY <1>3, SMT
  <2>2. s3[Len(h) + 6] = a /\ s3[Len(h) + 7] = b
    <3>1. \A i \in 1..(5 + Len(h) + 2) :
            ~(i <= 5 + Len(h)) => s3[i] = << a, b >>[i - (5 + Len(h))]
      BY <1>5, <1>7
    <3>2. s3[Len(h) + 6] = << a, b >>[Len(h) + 6 - (5 + Len(h))]
      BY <2>1, <3>1, SMTT(60)
    <3>3. s3[Len(h) + 7] = << a, b >>[Len(h) + 7 - (5 + Len(h))]
      BY <2>1, <3>1, SMTT(60)
    <3> QED
      BY <1>2, <2>1, <3>2, <3>3
  <2>3. s4[Len(h) + 6] = s3[Len(h) + 6] /\ s4[Len(h) + 7] = s3[Len(h) + 7]
    BY <1>6, <1>7, <2>1
  <2> QED
    BY <2>2, <2>3
<1>11. \A n \in 1..Len(buf) : s4[Len(h) + 7 + n] = buf[n]
  <2> SUFFICES ASSUME NEW n \in 1..Len(buf) PROVE s4[Len(h) + 7 + n] = buf[n]
    OBVIOUS
  <2>1. /\ Len(h) + 7 + n \in 1..(7 + Len(h) + Len(buf)) /\ ~(Len(h) + 7 + n <= 7 + Len(h))
        /\ Len(h) + 7 + n - (7 + Len(h)) = n
    BY <1>3, SMT
  <2> QED
    BY <1>6, <1>7, <2>1, SMTT(60)
<1>12. s4[4] = 3 /\ s4[5] = Len(h)
  <2>1. 4 \in 1..5 /\ 5 \in 1..5
    BY SMT
  <2> QED
    BY <1>1, <1>8, <2>1
<1> QED
  <2>1. Layout(s4, h, a, b, buf)
    BY <1>6, <1>7, <1>9, <1>10, <1>11, <1>12 DEF Layout
  <2> QED
    BY <2>1 DEF s1, s2, s3, s4, DatagramOf

\* A port is a number (socks.cpp:53).
LEMMA PortIsNat ==
  ASSUME NEW p \in Port
  PROVE  p \in Nat
  BY SMT DEF Port

\* SocksServer reads of a datagram what SocksUDP::write() put there: the host, cut
\* to what its length byte can say, the port, and the data as far as readBlock()
\* takes it (socks.cpp:53, 96, 1206), for every host, port and data.
THEOREM DatagramIsRead ==
  ASSUME NEW host \in Host, NEW port \in Port, NEW buf \in Payload
  PROVE  Received(sp_create_udp(host, port, buf)) =
           [kind |-> "name", host |-> Truncated(host, HostLimit), port |-> port,
            data |-> Truncated(buf, BufferSize - (7 + Len(Truncated(host, HostLimit))))]
<1> DEFINE h == Truncated(host, HostLimit)
           a == port \div 256
           b == port % 256
           full == DatagramOf(h, a, b, buf)
           from == Truncated(full, BufferSize)
           room == BufferSize - (7 + Len(h))
<1>1. HostLimit \in Nat /\ BufferSize \in Nat /\ BufferSize >= 7 + HostLimit
  BY SocksDatagramAssumption, SMT
<1>2. h \in Seq(1..127) /\ Len(h) = IF Len(host) <= HostLimit THEN Len(host) ELSE HostLimit
  BY <1>1, TruncatedProperties DEF Host
<1>3. h \in Seq(Nat)
  <2>1. 1..127 \subseteq Nat
    BY SMT
  <2> QED
    BY <1>2, <2>1, SeqMonotonic
<1>4. Len(h) \in Nat /\ Len(h) <= HostLimit
  <2>1. Len(host) \in Nat
    BY LenProperties DEF Host
  <2> QED
    BY <1>1, <1>2, <2>1, SMT
<1>5. buf \in Seq(Nat) /\ Len(buf) \in Nat
  <2>1. 0..255 \subseteq Nat
    BY SMT
  <2> QED
    BY <2>1, SeqMonotonic, LenProperties, ZenonT(60) DEF Payload
<1>6. a \in Nat /\ b \in Nat /\ a * 256 + b = port
  <2>1. port \in Nat
    BY PortIsNat, Zenon
  <2> QED
    BY <2>1, SMTT(60)
<1>7. room \in Nat /\ 7 + Len(h) <= BufferSize /\ room = BufferSize - (7 + Len(h))
  BY <1>1, <1>4, SMT
<1>8. sp_create_udp(host, port, buf) = full
  BY DEF sp_create_udp, DatagramOf
<1> HIDE DEF h, a, b
<1>9. /\ full \in Seq(Nat)
      /\ Len(full) = 7 + Len(h) + Len(buf)
      /\ full[4] = 3 /\ full[5] = Len(h)
      /\ \A n \in 1..Len(h) : full[5 + n] = h[n]
      /\ full[Len(h) + 6] = a /\ full[Len(h) + 7] = b
      /\ \A n \in 1..Len(buf) : full[Len(h) + 7 + n] = buf[n]
  <2>1. a \in Nat /\ b \in Nat /\ buf \in Seq(Nat)
    BY <1>5, <1>6
  <2>2. Layout(full, h, a, b, buf)
    BY <1>3, <2>1, DatagramLayout
  <2> QED
    BY <2>2 DEF Layout
<1> HIDE DEF full, room
<1>10. /\ from \in Seq(Nat)
       /\ Len(from) = IF Len(full) <= BufferSize THEN Len(full) ELSE BufferSize
       /\ \A i \in 1..Len(from) : from[i] = full[i]
  <2>1. full \in Seq(Nat)
    BY <1>9
  <2> QED
    BY <1>1, <2>1, TruncatedProperties
<1> HIDE DEF from
<1>11. /\ Len(from) \in Nat /\ Len(from) >= 7 + Len(h) /\ Len(from) <= 7 + Len(h) + Len(buf)
       /\ Len(from) = IF Len(buf) <= room THEN 7 + Len(h) + Len(buf) ELSE 7 + Len(h) + room
  <2>1. Len(full) = 7 + Len(h) + Len(buf)
    BY <1>9
  <2>2. Len(from) = IF Len(full) <= BufferSize THEN Len(full) ELSE BufferSize
    BY <1>10
  <2> HIDE DEF full, from, room
  <2>3. Len(buf) \in Nat
    BY <1>5
  <2> QED
    BY <1>1, <1>4, <1>7, <2>1, <2>2, <2>3, SMT
<1>12. from[4] = 3 /\ from[5] = Len(h)
  <2>1. 4 \in 1..Len(from) /\ 5 \in 1..Len(from)
    BY <1>4, <1>11, SMT
  <2> QED
    BY <1>9, <1>10, <2>1
<1>13. HostKind(from) = "name" /\ HostBegin(from) = 5 /\ HostLength(from) = Len(h)
  BY <1>12 DEF HostKind, HostBegin, HostLength
<1>14. /\ ~(Len(from) < 4) /\ ~(Len(from) < 5) /\ ~(Len(from) < 5 + Len(h) + 2)
       /\ 5 + Len(h) + 1 = Len(h) + 6 /\ 5 + Len(h) + 2 = Len(h) + 7 /\ 5 + Len(h) + 3 = Len(h) + 8
       /\ 5 + 1 = 6
  BY <1>4, <1>11, SMT
<1>15. sp_read_udp(from) =
         [kind |-> "name", host |-> SubSeq(from, 6, 5 + Len(h)),
          port |-> from[Len(h) + 6] * 256 + from[Len(h) + 7],
          data |-> SubSeq(from, Len(h) + 8, Len(from))]
  BY <1>13, <1>14 DEF sp_read_udp
<1>16. SubSeq(from, 6, 5 + Len(h)) = h
  <2>1. \A i \in 6..(5 + Len(h)) : from[i] \in Nat
    <3>1. \A i \in 6..(5 + Len(h)) : i \in 1..Len(from)
      BY <1>4, <1>11, SMT
    <3> QED
      BY <1>10, <3>1, ElementOfSeq
  <2>2. 6 \in Int /\ 5 + Len(h) \in Int /\ (5 + Len(h)) - 6 + 1 = Len(h)
        /\ (6 <= 5 + Len(h) \/ Len(h) = 0)
    BY <1>4, SMT
  <2>3. /\ SubSeq(from, 6, 5 + Len(h)) \in Seq(Nat)
        /\ Len(SubSeq(from, 6, 5 + Len(h))) = IF 6 <= 5 + Len(h) THEN (5 + Len(h)) - 6 + 1 ELSE 0
        /\ \A i \in 1..((5 + Len(h)) - 6 + 1) : SubSeq(from, 6, 5 + Len(h))[i] = from[6 + i - 1]
    BY <2>1, <2>2, SubSeqProperties
  <2>4. Len(SubSeq(from, 6, 5 + Len(h))) = Len(h)
    BY <1>4, <2>2, <2>3
  <2>5. ASSUME NEW i \in 1..Len(h) PROVE SubSeq(from, 6, 5 + Len(h))[i] = h[i]
    <3>1. 6 + i - 1 = 5 + i /\ 5 + i \in 1..Len(from)
      BY <1>4, <1>11, SMT
    <3>2. from[5 + i] = h[i]
      BY <1>9, <1>10, <3>1
    <3>3. SubSeq(from, 6, 5 + Len(h))[i] = from[6 + i - 1]
      BY <2>2, <2>3
    <3> QED
      BY <3>1, <3>2, <3>3
  <2>6. \A i \in 1..Len(SubSeq(from, 6, 5 + Len(h))) : SubSeq(from, 6, 5 + Len(h))[i] = h[i]
    BY <2>4, <2>5
  <2>7. SubSeq(from, 6, 5 + Len(h)) \in Seq(Nat)
    BY <2>3
  <2> QED
    BY <1>3, <2>4, <2>6, <2>7, SeqEqual
<1>17. from[Len(h) + 6] * 256 + from[Len(h) + 7] = port
  <2>1. Len(h) + 6 \in 1..Len(from) /\ Len(h) + 7 \in 1..Len(from)
    BY <1>4, <1>11, SMT
  <2>2. from[Len(h) + 6] = a /\ from[Len(h) + 7] = b
    BY <1>9, <1>10, <2>1
  <2> QED
    BY <1>6, <2>2
<1>18. SubSeq(from, Len(h) + 8, Len(from)) = Truncated(buf, room)
  <2> DEFINE lo == Len(h) + 8
             hi == Len(from)
  <2>1. /\ Truncated(buf, room) \in Seq(Nat)
        /\ Len(Truncated(buf, room)) = IF Len(buf) <= room THEN Len(buf) ELSE room
        /\ \A i \in 1..Len(Truncated(buf, room)) : Truncated(buf, room)[i] = buf[i]
    BY <1>5, <1>7, TruncatedProperties
  <2>2. /\ lo \in Int /\ hi \in Int /\ lo - 1 = Len(h) + 7 /\ (lo <= hi \/ hi - lo + 1 = 0)
        /\ hi - lo + 1 = Len(Truncated(buf, room))
        /\ Len(Truncated(buf, room)) \in Nat /\ Len(Truncated(buf, room)) <= Len(buf)
        /\ lo >= 1
    BY <1>4, <1>5, <1>7, <1>11, <2>1, SMTT(60)
  <2>3. \A i \in lo..hi : from[i] \in Nat
    <3>1. \A i \in lo..hi : i \in 1..Len(from)
      BY <2>2, SMT
    <3> QED
      BY <1>10, <3>1, ElementOfSeq
  <2> HIDE DEF lo, hi
  <2>4. /\ SubSeq(from, lo, hi) \in Seq(Nat)
        /\ Len(SubSeq(from, lo, hi)) = IF lo <= hi THEN hi - lo + 1 ELSE 0
        /\ \A i \in 1..(hi - lo + 1) : SubSeq(from, lo, hi)[i] = from[lo + i - 1]
    BY <2>2, <2>3, SubSeqProperties
  <2>5. Len(SubSeq(from, lo, hi)) = Len(Truncated(buf, room))
    BY <2>2, <2>4
  <2>6. ASSUME NEW i \in 1..Len(Truncated(buf, room))
        PROVE  SubSeq(from, lo, hi)[i] = Truncated(buf, room)[i]
    <3>1. i \in 1..Len(buf) /\ lo + i - 1 = Len(h) + 7 + i /\ Len(h) + 7 + i \in 1..Len(from)
      BY <1>4, <1>5, <2>2, SMT DEF hi
    <3>2. from[Len(h) + 7 + i] = buf[i]
      BY <1>9, <1>10, <3>1
    <3>3. SubSeq(from, lo, hi)[i] = from[lo + i - 1]
      BY <2>2, <2>4
    <3>4. Truncated(buf, room)[i] = buf[i]
      BY <2>1
    <3> QED
      BY <3>1, <3>2, <3>3, <3>4
  <2>7. \A i \in 1..Len(SubSeq(from, lo, hi)) : SubSeq(from, lo, hi)[i] = Truncated(buf, room)[i]
    BY <2>5, <2>6
  <2>8. SubSeq(from, lo, hi) \in Seq(Nat) /\ Truncated(buf, room) \in Seq(Nat)
    BY <2>1, <2>4
  <2>9. SubSeq(from, lo, hi) = Truncated(buf, room)
    BY <2>5, <2>7, <2>8, SeqEqual
  <2> QED
    BY <2>9 DEF lo, hi
<1> QED
  BY <1>8, <1>15, <1>16, <1>17, <1>18 DEF Received, from, h, room
=============================================================================
