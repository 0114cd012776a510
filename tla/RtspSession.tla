------------------------------ MODULE RtspSession ------------------------------
(***************************************************************************)
(* Session and PortMapper of src/rtsp/rtspproxy.cpp, as startIncoming()    *)
(* with a host and a port starts them: one RTSP client is taken in, its    *)
(* requests go to the server, the answers come back, and SETUP is          *)
(* rewritten so that the media goes through UDP ports of the proxy.        *)
(*                                                                         *)
(* The two RTSP::Client objects are what the RtspClient module shows of    *)
(* one: packets in order, and what is written before connected() is lost.  *)
(* One thread; each slot is a step.  The client and the server are         *)
(* external; the server answers the requests it gets in order, and takes   *)
(* all or the first ports of one transport that a SETUP offers, or none.   *)
(*                                                                         *)
(* The other two ways to start a session hand it a byte stream: no signal  *)
(* of that RTSP::Client is connected and it is never made active, so that  *)
(* nothing follows; the virtual ports of PortMapper are theirs.            *)
(***************************************************************************)
EXTENDS RtspTransport

CONSTANTS
  OtherPorts,   \* ports that other programs have bound
  Offers,       \* what a SETUP can offer: texts of its Transport header
  ServerBase,   \* first port of the server's ranges
  MaxRequests   \* bound: requests of the client

ASSUME RtspSessionAssumption ==
  /\ MaxRequests \in Nat /\ ServerBase \in Nat /\ ServerBase > 0
  /\ Offers \subseteq Seq(Tokens)
  /\ \A o \in Offers : \A i \in DOMAIN o :
       /\ o[i][1] = "range" => o[i][2] > 0 /\ o[i][3] > 0
       /\ o[i] # Word("server_port")

VARIABLES
  client,       \* "listen", "open", "gone"
  server,       \* "none", "connecting", "open"
  cpackets,     \* requests to be sent
  lastWasSetup,
  reserved,     \* the mapper's client.active
  cReal,        \* client.realPortRanges
  cKept,        \* client.realPorts
  cAlt,         \* client.altPortRanges
  cPorts,       \* client.altPorts
  sReal,        \* server.realPorts
  sAlt,         \* server.altPortRanges
  sPorts,       \* server.altPorts
  ready,
  requests,     \* history: requests of the client: the text and the ports they offer
  sent,         \* history: requests written to the server
  rushed,       \* history: a request came while the server was being connected
  answered,     \* number of requests the server has answered
  told,         \* history: answers to SETUP written to the client
  final         \* history: the answer that made the mapper ready, or None

mapperVars  == <<reserved, cReal, cKept, cAlt, cPorts, sReal, sAlt, sPorts, ready>>
sessionVars == <<client, server, cpackets, lastWasSetup>>
histVars    == <<requests, sent, rushed, told, final>>
vars == <<sessionVars, mapperVars, histVars, answered>>

PortNumbers == 0..(PORT_ALLOC_MAX + ServerBase)
PortRanges  == [base: PortNumbers, count: PortNumbers]
Lists       == Seq(PortRanges)
Texts       == Seq(Tokens)
TransportLists == Seq([name: Texts, args: Seq([name: Texts, value: Texts \cup {None}])])
AltStates   == [list: Lists, ports: PortRanges \cup {None}, orig: Lists]

\* Bound by this program or another.
Bound == OtherPorts \cup Held(cPorts) \cup Held(sPorts)

TypeOK ==
  /\ client \in {"listen", "open", "gone"}
  /\ server \in {"none", "connecting", "open"}
  /\ \A i \in DOMAIN cpackets : cpackets[i] \in [number: 1..MaxRequests, setup: BOOLEAN, text: Texts, list: TransportLists]
  /\ lastWasSetup \in BOOLEAN /\ reserved \in BOOLEAN /\ ready \in BOOLEAN /\ rushed \in BOOLEAN
  /\ cReal \in Lists /\ cAlt \in Lists /\ sAlt \in Lists
  /\ cPorts \in AltStates /\ sPorts \in AltStates
  /\ cKept \in PortRanges /\ sReal \in PortRanges
  /\ answered \in 0..Len(sent)
  /\ Len(requests) <= MaxRequests

\* lastWasSetup is not initialised.
Init ==
  /\ client = "listen" /\ server = "none"
  /\ cpackets = <<>>
  /\ lastWasSetup \in BOOLEAN
  /\ reserved = FALSE /\ ready = FALSE
  /\ cReal = <<>> /\ cKept = NoRange /\ cAlt = <<>> /\ cPorts = Empty
  /\ sReal = NoRange /\ sAlt = <<>> /\ sPorts = Empty
  /\ requests = <<>> /\ sent = <<>> /\ rushed = FALSE
  /\ answered = 0
  /\ told = {} /\ final = None

-----------------------------------------------------------------------------
(* The ports of a transport list.                                          *)

\* transport_get_ports()
GetPorts(list, type) ==
  LET AddPorts(ports, t) ==
        LET r == FromText(argument(t, type)) IN IF r = None THEN ports ELSE Merge(ports, r)
  IN  FoldLeft(AddPorts, <<>>, list)

\* transport_set_ports()
SetPorts(list, type, new) ==
  LET old == GetPorts(list, type)
      SetPort(t) ==
        LET r == FromText(argument(t, type))
        IN  IF r = None THEN t
            ELSE setArgument(t, type, ToText([r EXCEPT !.base = At(new, FindByBase(old, r.base)).base]))
  IN  [i \in DOMAIN list |-> SetPort(list[i])]

-----------------------------------------------------------------------------
(* The client's side.                                                      *)

\* local_incomingReady(): the listener is stopped.
LocalIncomingReady ==
  /\ client = "listen"
  /\ client' = "open"
  /\ UNCHANGED <<server, cpackets, lastWasSetup, mapperVars, histVars, answered>>

\* reserveDirectClient(); its result is not looked at.
ReserveDirectClient(ranges) ==
  IF reserved THEN UNCHANGED mapperVars
  ELSE /\ cReal' = ranges
       /\ IF CanReserve(cPorts, ranges, Bound)
            THEN /\ cPorts' = Reserve(cPorts, ranges, Bound)
                 /\ cAlt' = cPorts'.list
                 /\ reserved' = TRUE
            ELSE UNCHANGED <<cPorts, cAlt, reserved>>
       /\ UNCHANGED <<cKept, sReal, sAlt, sPorts, ready>>

\* sendPackets(): every packet is written, and goes out if the server is connected.
SendPackets(packets) ==
  /\ sent' = IF server' = "open" THEN sent \o packets ELSE sent
  /\ cpackets' = <<>>

\* The end of client_packetReady(): the server is connected to, or written to.
Forward(packet) ==
  \/ /\ server = "none"
     /\ server' = "connecting"
     /\ cpackets' = Append(cpackets, packet)
     /\ UNCHANGED <<sent, rushed>>
  \/ /\ server # "none"
     /\ UNCHANGED server
     /\ SendPackets(Append(cpackets, packet))
     /\ rushed' = (rushed \/ server = "connecting")

\* client_packetReady() of a SETUP.  What the server will read is in `list'.
ClientSetup(offer) ==
  /\ client = "open" /\ Len(requests) < MaxRequests
  /\ \E list \in {transports(offer)} : \E pl \in {GetPorts(list, "client_port")} :
       /\ requests' = Append(requests, [text |-> offer, ports |-> pl])
       /\ ReserveDirectClient(pl)
       /\ \E text \in {ListText(SetPorts(list, "client_port", cAlt'))} :
          \E read \in {transports(text)} :
            Forward([number |-> Len(requests'), setup |-> TRUE, text |-> text, list |-> read])
  /\ lastWasSetup' = TRUE
  /\ UNCHANGED <<client, told, final, answered>>

\* client_packetReady() of any other request.
ClientRequest ==
  /\ client = "open" /\ Len(requests) < MaxRequests
  /\ requests' = Append(requests, [text |-> <<>>, ports |-> <<>>])
  /\ lastWasSetup' = FALSE
  /\ Forward([number |-> Len(requests'), setup |-> FALSE, text |-> <<>>, list |-> <<>>])
  /\ UNCHANGED <<client, mapperVars, told, final, answered>>

\* client_connectionClosed() or client_error()
ClientGone ==
  /\ client = "open"
  /\ client' = "gone"
  /\ UNCHANGED <<server, cpackets, lastWasSetup, mapperVars, histVars, answered>>

-----------------------------------------------------------------------------
(* The server's side.                                                      *)

\* Mutant of ServerConnected: the packets wait for the next request.
ServerConnectedWaits ==
  /\ server = "connecting"
  /\ server' = "open"
  /\ UNCHANGED <<client, cpackets, lastWasSetup, mapperVars, histVars, answered>>

\* server_connected()
ServerConnected ==
  /\ server = "connecting"
  /\ server' = "open"
  /\ SendPackets(cpackets)
  /\ UNCHANGED <<client, lastWasSetup, mapperVars, requests, rushed, told, final, answered>>

\* server_connectionClosed() or server_error(): reset(), which leaves the mapper.
ServerGone ==
  /\ server # "none"
  /\ server' = "none"
  /\ client' = "gone"
  /\ UNCHANGED <<cpackets, lastWasSetup, mapperVars, histVars, answered>>

\* Mutant of FinalizeClient: the first range is taken.
FinalizeClientFirst(n, count) ==
  /\ cKept' = [cReal[1] EXCEPT !.count = count]
  /\ cPorts' = Keep(cPorts, cKept')
  /\ cAlt' = << RangeOf(cPorts') >>
  /\ UNCHANGED cReal

\* The client's half of finalize(), for the range with index n.
FinalizeClient(n, count) ==
  /\ cKept' = [cReal[n + 1] EXCEPT !.count = count]
  /\ cPorts' = Keep(cPorts, cKept')
  /\ cAlt' = << RangeOf(cPorts') >>
  /\ UNCHANGED cReal

\* Mutant of Finalize: the server's ports are named as they are.
FinalizeClientOnly(clientPorts, serverPorts) ==
  LET n == FindByBase(cAlt, clientPorts.base)
  IN  /\ IF ready \/ n = -1 THEN UNCHANGED <<cReal, cKept, cPorts, cAlt, sReal, sAlt, ready>>
         ELSE /\ FinalizeClient(n, clientPorts.count)
              /\ sReal' = serverPorts
              /\ sAlt' = << serverPorts >>
              /\ ready' = TRUE
      /\ UNCHANGED <<reserved, sPorts>>

\* finalize(); its result is not looked at.
Finalize(clientPorts, serverPorts) ==
  LET n == FindByBase(cAlt, clientPorts.base)
  IN  /\ IF ready \/ n = -1 THEN UNCHANGED <<cReal, cKept, cPorts, cAlt, sReal, sAlt, sPorts, ready>>
         ELSE /\ FinalizeClient(n, clientPorts.count)
              /\ sReal' = serverPorts
              /\ LET taken == OtherPorts \cup Held(cPorts') \cup Held(sPorts)
                     real  == <<serverPorts>>
                 IN  IF CanReserve(sPorts, real, taken)
                       THEN /\ sPorts' = Keep(Reserve(sPorts, real, taken), serverPorts)
                            /\ sAlt' = << sPorts'.ports >>
                            /\ ready' = TRUE
                       ELSE UNCHANGED <<sPorts, sAlt, ready>>
      /\ UNCHANGED reserved

\* server_packetReady() of the answer to a request without ports, or of a refusal:
\* finalize() is given a default range, which it does not find.
ServerAnswer ==
  /\ server = "open" /\ answered < Len(sent)
  /\ answered' = answered + 1
  /\ UNCHANGED <<sessionVars, mapperVars, histVars>>

\* The text of an answer to SETUP: one of the transports, with the ports taken.
ReplyText(t, ports, taken) ==
  toString(setArgument(t, "client_port", ToText([ports EXCEPT !.count = taken.count])))
  \o ArgText([name |-> <<Word("server_port")>>, value |-> ToText(taken)])

\* server_packetReady() of an answer to SETUP: the server takes count ports of
\* the transport with index k that it was offered.
ServerSetupAnswer(k, count) ==
  /\ server = "open" /\ answered < Len(sent)
  /\ answered' = answered + 1
  /\ LET r     == sent[answered + 1]
         ports == FromText(argument(r.list[k], "client_port"))
         taken == [base |-> ServerBase, count |-> count]
     IN  /\ r.setup /\ k \in DOMAIN r.list
         /\ ports # None /\ ports.base # 0 /\ count <= ports.count
         /\ \E reply \in {ReplyText(r.list[k], ports, taken)} : \E list \in {transports(reply)} :
            LET clientPorts == At(GetPorts(list, "client_port"), 0)
                serverPorts == At(GetPorts(list, "server_port"), 0)
            IN  /\ IF client = "open" /\ lastWasSetup
                     THEN Finalize(clientPorts, serverPorts)
                     ELSE UNCHANGED mapperVars
                /\ \E new \in {IF lastWasSetup THEN SetPorts(list, "server_port", sAlt') ELSE list} :
                     told' = IF client # "open" THEN told
                             ELSE told \cup { [number |-> r.number, latest |-> Len(requests), reply |-> reply,
                                               text |-> IF lastWasSetup THEN ListText(new) ELSE reply,
                                               ports |-> GetPorts(new, "server_port")] }
                /\ final' = IF ready' # ready
                              THEN [number |-> r.number, offered |-> ports, taken |-> taken,
                                    asked |-> FromText(argument(transports(requests[r.number].text)[k], "client_port")),
                                    again |-> cPorts.ports # None]
                              ELSE final
  /\ UNCHANGED <<sessionVars, requests, sent, rushed>>

\* Where the proxy sends a datagram that the server sends to the port with index
\* i of those kept for the client: its source and its destination.
RelayToClient(i) == << At(sAlt, 0).base + i, cKept.base + i >>

\* The same for one of the client to a port kept for the server.
RelayToServer(i) == << RangeOf(cPorts).base + i, sReal.base + i >>

Next ==
  \/ LocalIncomingReady
  \/ \E offer \in Offers : ClientSetup(offer)
  \/ ClientRequest
  \/ ClientGone
  \/ ServerConnected
  \/ ServerGone
  \/ ServerAnswer
  \/ \E k \in 1..3, count \in 1..PORT_ALLOC_MAX : ServerSetupAnswer(k, count)

Spec == Init /\ [][Next]_vars

-----------------------------------------------------------------------------
(* Properties.                                                             *)

\* Once the server is connected it has been sent every request, once and in
\* order: those of before the connection too, unless a second one came while it
\* was being set up, for then all of them are written too early.
RequestsForwarded ==
  server = "open" /\ ~rushed =>
    /\ Len(sent) = Len(requests)
    /\ \A i \in DOMAIN sent : sent[i].number = i

\* A text with a last argument that is empty behind its `='.  It is read as null,
\* and when the server reads what is forwarded it takes over the value before it.
EndsInEqual(text) == text # <<>> /\ text[Len(text)] = Equal

\* The ports that SETUP names to either side are the proxy's.  To the server,
\* those that it holds for the client, whatever ranges share a base: for what it
\* has reserved, and until it keeps one range only.  To the client, those that it
\* holds for the server, or 0 when it could get none, and never the server's own:
\* unless another request came after the SETUP, which unmarks the answer.
SetupNamesProxyPorts ==
  /\ \A i \in DOMAIN sent :
       LET asked == requests[sent[i].number]
       IN  sent[i].setup /\ cPorts.list # <<>> /\ asked.ports = cPorts.orig /\ ~EndsInEqual(asked.text) =>
             \A j \in DOMAIN sent[i].list :
               LET r == FromText(argument(sent[i].list[j], "client_port"))
               IN  r # None => Ports(r) \subseteq Held(cPorts)
  /\ \A t \in told : t.latest = t.number =>
       LET r == At(t.ports, 0)
       IN  /\ r.base \in {0, RangeOf(sPorts).base}
           /\ final # None /\ final.number = t.number => Ports(r) \subseteq Held(sPorts)

\* Place k is in a value that a quote opens before it and none closes.
Quoted(text, k) ==
  \E i \in 1..(k - 2) : /\ text[i] = Equal /\ text[i + 1] = Quote
                        /\ \A m \in (i + 2)..k : text[m] # Quote

\* A text that the code reads in full: a name or a value on either side of each
\* separator, quotes that close before a separator, one range as a port argument,
\* and no argument without a value behind one with a value in the same transport,
\* for that takes over the value (rtspbase.cpp:219).  Names are words.
Regular(text) ==
  LET separators == {i \in DOMAIN text : text[i] \in {Comma, Semi, Equal}}
      Ends(k)    == k = Len(text) + 1 \/ (k \in DOMAIN text /\ text[k] \in {Comma, Semi})
      NoValue(j) == text[j] = Semi /\ ~(j + 2 \in DOMAIN text /\ text[j + 2] = Equal)
  IN  /\ \A i \in separators : i - 1 \in DOMAIN text \ separators /\ i + 1 \in DOMAIN text \ separators
      /\ \A i \in separators : text[i] = Equal /\ text[i + 1] = Quote =>
           \E k \in (i + 2)..Len(text) : /\ text[k] = Quote /\ Ends(k + 1)
                                        /\ \A m \in (i + 2)..(k - 1) : text[m] # Quote
      /\ \A i \in separators : text[i] = Equal /\ text[i - 1] \in {Word("client_port"), Word("server_port")} =>
           text[i + 1][1] = "range" /\ (text[i + 1][3] > 1 => text[i + 1][2] > 0) /\ Ends(i + 2)
      /\ \A j \in {n \in separators : NoValue(n)} : \A i \in 1..j :
           text[i] = Equal => \E k \in i..j : text[k] = Comma /\ ~Quoted(text, k)

\* One text is the other but for the ports of the argument `type'.
OnlyPortsDiffer(text, new, type) ==
  /\ Len(text) = Len(new)
  /\ \A i \in DOMAIN text :
       \/ text[i] = new[i]
       \/ /\ i > 2 /\ text[i - 2] = Word(type) /\ text[i - 1] = Equal
          /\ text[i][1] = "range" /\ new[i][1] = "range" /\ text[i][3] = new[i][3]

\* Of a SETUP and of its answer only the ports are changed: transports, arguments,
\* values and their order come out of the structure as they went in.
TransportsForwarded ==
  /\ \A i \in DOMAIN sent : sent[i].setup /\ Regular(requests[sent[i].number].text) =>
       OnlyPortsDiffer(requests[sent[i].number].text, sent[i].text, "client_port")
  /\ \A t \in told : Regular(t.reply) => OnlyPortsDiffer(t.reply, t.text, "server_port")

\* The media of the stream that was set up goes both ways between the ports that
\* client and server named, each seeing the ports it was told: when the answer is
\* to the ranges that were reserved, and the first that kept one of them.
RelayPaired ==
  final # None /\ ~final.again /\ requests[final.number].ports = cPorts.orig
               /\ ~EndsInEqual(requests[final.number].text) =>
    \A i \in 0..(final.taken.count - 1) :
      /\ RelayToClient(i) = << RangeOf(sPorts).base + i, final.asked.base + i >>
      /\ RelayToServer(i) = << final.offered.base + i, final.taken.base + i >>
      /\ {RelayToClient(i)[1], RelayToServer(i)[1]} \subseteq Bound \ OtherPorts

\* No port is held twice: the ranges that stand in for those of the client, the range
\* for the server and the ports of other programs have none in common, and all are
\* ports that may be used: through reserve(), keep() and an answer that comes twice.
PortsApart ==
  /\ Held(cPorts) \cap Held(sPorts) = {}
  /\ Held(cPorts) \cup Held(sPorts) \subseteq (PORT_ALLOC_BASE..PORT_ALLOC_MAX) \ OtherPorts
  /\ \A list \in {cPorts.list, sPorts.list} : \A i, j \in DOMAIN list :
       i # j => Ports(list[i]) \cap Ports(list[j]) = {}

\* Allocation gives the first range of ports that is free, if there is one.
AllocationIsFirstFit ==
  \A count \in 1..3 :
    LET free == {b \in PORT_ALLOC_BASE..(PORT_ALLOC_MAX - count + 1) :
                   Ports([base |-> b, count |-> count]) \cap Bound = {}}
    IN  Allocate(count, Bound) = IF free = {} THEN None ELSE [base |-> Min(free), count |-> count]
=============================================================================
