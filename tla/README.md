# Verification of cutestuff

cutestuff is a Qt 3 library: byte streams that reach their peer in different
ways (directly, after an SRV search, through SOCKS or HTTP proxies, by HTTP
polling), a threaded resolver under them, and an RTSP proxy above them.  The
library has no tests.  Almost all of it runs in one thread of callbacks; what is
hard about it is the order in which callbacks, timers, deletions and calls made
from inside callbacks come, and, in the resolver, real threads.

This directory holds TLA+ models of those parts, checked with TLC, and proofs
about the resolver, the SRV search, every stream, the RTSP proxy and client, and
the codecs, checked with TLAPS.  `PROJECT.json` lists components, runs, mutants,
theorems, hazards and the lines of source each definition stands for.

## 1. Inventory

| Component (source) | State | Operations | Talks to |
|---|---|---|---|
| NDns, NDnsManager, NDnsWorker (`network/ndns.cpp`) | list of items, two mutexes, a flag and a result per thread, posted events | resolve, stop, destruction; the thread's run; event; quit loop | its threads; signal to its owner |
| SrvResolver (`network/srvresolver.cpp`) | QDns, timer, NDns, list of servers | resolve, resolveSrvOnly, next, stop; qdns_done, ndns_done, t_timeout | NDns |
| BSocket (`network/bsocket.cpp`) | state, QSocket, local read queue | connectToHost, connectToServer, setSocket, read, write, close; eight slots | QSocket, NDns, SrvResolver |
| ByteStream (`util/bytestream.cpp`) | read and write queues | read, write, tryWrite | base of all streams |
| BConsole (`util/bconsole.cpp`) | closing flag, write notifier | write, close, sn_read, sn_write | stdin, stdout |
| SocksClient, SocksServer, SocksUDP (`network/socks.cpp`) | step, waiting, active, udp, pending, receive buffer | connect, serve, chooseMethod, authGrant, grants, deny, read, write, close | BSocket, ServSock |
| HttpConnect (`network/httpconnect.cpp`) | inHeader, lines, toWrite, active | connect, read, write, close | BSocket |
| HttpPoll (`network/httppoll.cpp`) | state, closing, out, keys, timer | connect, write, close; result, error, timeout | HttpProxyPost |
| HttpProxyPost (same file) | header lines, body | post, stop | BSocket |
| RTSP Packet, Transport (`rtsp/rtspbase.cpp`) | none | text to structure and back | - |
| RTSP Parser, Client, Server (same file) | mode, input, packet under construction, sizes of written packets | connect, serve, write, processPackets | ByteStream, ServSock |
| AltPorts, PortSequence (`rtsp/altports.cpp`) | bound UDP sockets, the ranges they stand in for | reserve, keep, merge, send | UDP |
| Session, PortMapper, RTSPProxy (`rtsp/rtspproxy.cpp`) | packet queue, a flag for SETUP, two maps of ports | packets of either side, finalize, relay | two RTSP Clients, AltPorts |
| SafeDelete (`util/safedelete.cpp`) | list of objects | deleteLater, lock | BSocket, SrvResolver |
| Base64 (`util/base64.cpp`) | none | encode, decode | HttpConnect, HttpProxyPost |
| xmlsec, sha1, cipher, qrandom, programs | none that outlives a call | - | - |

What makes each of them correct, and hard:

- **NDns.** Threads share two mutexes that the manager deletes; a lookup
  outlives the object that asked for it.  Lookups must be serial
  (`gethostbyname`), the GUI thread must not wait for one, an answer must not
  reach a deleted object or a newer request, and quitting must end.
- **SrvResolver.** A search visits the servers in order, fails only when all
  have, and ends; the query never runs without its timer.
- **BSocket.** `reset()` moves unread data from one queue to another, and has
  to let go of lookup and search: the data read must belong to the current
  connection, and an idle stream must hear of nothing.
- **BConsole.** Short and refused writes, and signals emitted in the middle of
  writing.
- **SOCKS, HttpConnect.** A negotiation and a stream share one socket, one
  buffer and one count of bytes written; blocks are cut anywhere.
- **HttpPoll, HttpProxyPost.** A handler that emits five signals and reads its
  state again after each; a chain of keys over independent requests; an answer
  that is complete when the connection ends, and a body that is shared with
  whoever has asked for it.
- **RTSP.** A parser with modes over a stream cut anywhere; two queues and one
  flag to remember what an answer answers; a header that is taken apart, changed
  and put together again; ports that run out.
- **Codecs.** Lengths that are no multiple of a group, and fields of one byte.

`hazards` in `PROJECT.json` has these at their lines.

## 2. Modules

| Module | Models | Uses |
|---|---|---|
| `LookupService` | what a resolver promises (abstract) | |
| `NDns` | `ndns.cpp`; refines `LookupService` | `LookupService` (INSTANCE) |
| `NDnsInv`, `NDnsProofs` | its inductive invariant; theorems | `NDns` |
| `SrvResolver` | `srvresolver.cpp` | NDns as `LookupService` has it |
| `SrvResolverProofs` | its inductive invariant, its sorting; theorems | `SrvResolver` |
| `BSocket` | `bsocket.cpp` | `SrvResolver` (INSTANCE) |
| `BSocketProofs` | its inductive invariant; theorems | `BSocket` |
| `BConsole` | write side of `bconsole.cpp`, `ByteStream::write` | |
| `Socks` | both ends of `socks.cpp` | BSocket's behaviour |
| `SocksProofs` | its inductive invariant; theorems about it and the datagrams | `Socks`, `SocksDatagram` |
| `SocksDatagram` | the datagrams of `socks.cpp`, as operators | |
| `HttpHeader` | the lines of a header in a buffer (`extractLine()` and its loop, the same code in both files) | |
| `HttpConnect` | `httpconnect.cpp` | `HttpHeader`, BSocket's behaviour |
| `HttpConnectProofs` | its inductive invariant; theorems | `HttpConnect` |
| `PostService` | what a post promises (abstract) | |
| `HttpProxyPost` | `HttpProxyPost` of `httppoll.cpp` | `HttpHeader`, BSocket's behaviour |
| `HttpPoll` | `HttpPoll` of `httppoll.cpp`; the whole refines `PostService` | `HttpProxyPost`, `PostService` (INSTANCE) |
| `HttpPollProofs` | its inductive invariant; theorems about the whole | `HttpPoll` |
| `Base64` | `base64.cpp`, as operators | |
| `StreamProofs` | inductive invariants of BConsole and of `RtspClient`; theorems about them and base64 | `BConsole`, `Base64`, `RtspClient` |
| `RtspClient` | Parser, Client, Server of `rtspbase.cpp` | |
| `AltPorts` | `altports.cpp`, as operators | |
| `RtspTransport` | text of Transport headers (`rtspbase.cpp`) and of port ranges, as operators | `AltPorts` (EXTENDS) |
| `RtspSession` | Session and PortMapper of `rtspproxy.cpp` | `RtspTransport` (EXTENDS) |
| `RtspProofs` | its inductive invariants; theorems about it, allocation and texts | `RtspSession` (EXTENDS) |
| `MCSrvResolver`, `MCBSocket`, `MCRtspSession` | servers and offers for TLC | |
| `MCHttpConnect`, `MCSocks` | with the stream, its codec on short inputs, as assumptions that TLC evaluates | `Base64`, `SocksDatagram` |

### How state and actions correspond

Variables keep the names of the members they stand for; those marked "history"
in their declaration exist for properties only.  Every action stands for a
whole method or slot, with the calls it makes.

*Steps.*  In one thread, a slot that emits its signal last is one step: what the
program does in that signal's slot is the next step.  Where a handler goes on
after a signal it is split there, and what it was doing is kept: `stack` in
`HttpPoll` and `BConsole`, `inConnected` in `Socks` and `HttpConnect`, `signal`
in `SrvResolver`, `busy` in `RtspClient`.  While such a slot runs no event is
handled, but the program may call.  In `NDns` the GUI thread is split where it
may block (`gpc`) and a worker at each access of what it shares (`wpc`).

`HttpPoll` declares the variables of `HttpProxyPost` as its own and conjoins a
handler of its own to each step of it that signals: `http_result()` begins in the
step of `sock_connectionClosed()`, `http_error()` is part of the step of the slot
that emits `error()`.

*Data.*  A host's address is the host; a message is two units, so that it can
arrive in halves; a byte of data is a unit with its number, so that loss,
repetition and order show.  A hash is one step down a chain (`Hash`).  Error
codes are one outcome.  `ByteStream`'s queues are sequences.  The text of a
Transport header is a sequence of tokens: separators, quotes, words and port
ranges; a null string (`None`) is not an empty one, as `toString()` tells them
apart.  The codecs work on numbers from 0 to 255.

*External parts.*  `QSocket`, `QDns`, the peers, proxies and polling servers, and
the program are any sequence of the calls and signals they can make.  Variables
the constructors leave uninitialised (`d->step`, `lastWasSetup`) start with any
value.

## 3. Runs

| Run | Instance | States | Shows |
|---|---|---|---|
| `ndns` | 2 objects, 2 threads, 2 hosts | 42,320 | serial lookups, no use after deletion, a GUI that never waits for a lookup, an end of quitting; implements `LookupService` |
| `srvresolver` | replies of up to 3 of 4 servers, 3 calls | 2,281 | order, timer, no early failure, every search ends |
| `bsocket` | 3 connections, 3 bytes each way, 2 servers | 1,441 | what is read is the current connection's; idle means quiet; `connectToHost()` concludes |
| `bsocket_hang` | 2 connections | refuted | `connectToServer()` concludes |
| `bconsole` | 4 bytes, 2 a time, room for 2 | 1,032 | output in order and complete, closed after its last byte, close ends |
| `bconsole_refused` | 3 bytes | refuted | a delayed close finishes after a refused write |
| `socks` | 3 commands, 3 kinds of destination, 2 bytes each way | 54,230 | connected means granted; data intact; counts; connecting concludes |
| `httpconnect` | 3 statuses, 3 bytes, 3 connections | 5,788 | the tunnel is what follows the header; counts; connecting and a delayed close conclude |
| `httppoll` | chains of 3 keys, 2 bytes each way, 2 sessions, answers that are good, refused or broken off | 230,228 | keys chain; data goes once each way; delayed close ends; implements `PostService` with its fairness |
| `httppoll_closed` | 1 byte, close in `syncFinished` | refuted | a closed stream polls no more |
| `rtspclient` | 2 packets, content from -1 to 2, 2 packets written | 1,019,130 | packets decoded whole, in order, once; `packetWritten` per packet |
| `rtspsession` | 3 requests, 6 offers, 6 ports with 1 taken | 133,396 | requests forwarded in order; their text changed in the ports only; ports named and paired; first fit; no port held twice |

*Why the bounds are enough.*  Two threads are what a mutex has to keep apart, and
an object with two lookups needs two; the theorems hold for any number.  A cut
needs a message of two units; a mix-up of connections needs two; a chain of three
keys reaches its last one within a session; four servers hold every
combination of unequal priority, unequal weight and tie.  Of the ports, the
offers of `MCRtspSession` leave room for both sides, for the client's only, and
for neither, and hold a quoted value with a separator in it, an argument without a
value, one with an empty value at the end, and an error.  The answer to a post has a status, perhaps a cookie, and two
bytes, and is cut and broken off at each of its units.  Datagrams are cut at a host
of 3 bytes and a buffer of 12.  Every mutant in `PROJECT.json` is found within these
bounds: each property fails for one plausible slip in the code.

Each module with state has a `TypeOK` (`ClientTypeOK` in `RtspClient`, whose names
have to differ from those of `BConsole`, as one module has the proofs of both).  The runs of `bsocket`, `socks` and
`rtspclient` check it, where a counter could leave its range; in the other
modules it documents what the variables hold.  That of every module with an inductive
invariant is proved, as a theorem or as part of it, but for `RtspSession`: there the
types of all that is said of ports are proved, and its tokens are left out, since the
provers do not know that a literal is a string.

*Fairness.*  Weak fairness of the event loop: a pending slot returns, an expired
timer fires, a posted event is handled, a thread goes on.  `NDns` has strong
fairness for handling an event, returning from a slot and leaving the loop, since
Qt handles posted events in order however many calls the program makes in between;
and worker threads are scheduled.  `SrvResolver` and `BSocket` assume of the
network only what their own timer (15 s) or the operating system's connection
timeout brings about.  `Socks`, `HttpConnect` and `HttpPoll` have no timeout, so
their liveness holds for peers that answer or leave; that is part of each
`Fairness`.  For `HttpPoll` the server closes each connection in the end,
which HTTP/1.0 has it do after its answer and which is the only end of an answer
that `HttpProxyPost` knows.  `BConsole` assumes that the terminal is read.  The program is never
assumed to do anything, but for the serving program of `Socks`, which answers
what it is asked.

`CHECK_DEADLOCK FALSE` stands where the program may have nothing left to do: all
calls of the bound are made and the stream is closed.

### What the runs found

- `bsocket_hang`: `qs_error()` asks the SRV search for the next host and returns
  (`bsocket.cpp:378`); when there is none, `SrvResolver::next()` is silent
  (`srvresolver.cpp:130`) and the connection attempt hangs.
- `bconsole_refused`: a refused write leaves no notifier (`bconsole.cpp:119`), so
  a delayed close never ends, other than `bytestream.cpp:88-90` has it.
- `httppoll_closed`: `close()` in the slot of `syncFinished()` is undone by the
  rest of `http_result()`, which starts the poll timer (`httppoll.cpp:225`,
  `268`).

Some properties hold only outside a case the code gets wrong; the case is in the
property's statement and in `hazards`: a second request to the RTSP proxy while it
connects (`rushed`), a request pipelined behind SETUP, an empty line before an
RTSP packet (`stalled`), an RTSP packet written before the connection is there
(`early`), an IPv6 destination for SOCKS (`ConnectConcludes`), and a
`write()` in HttpPoll's `syncStarted()` (constant `WriteIn`).  Further: data that
HttpPoll has received, after an answer that was broken off, which passes for a
whole one (`httppoll.cpp:559`), or after a `write()` in the slot of `connected()`
or `bytesWritten()`, which posts again and so empties the body that is still to be
delivered (`gap`); a delayed close of an HttpConnect that was never open; whatever
lies behind an RTSP packet with a negative Content-length, which
`rtspbase.cpp:602` lets pass; and the text of a Transport header that has an
argument without a value behind one with a value, which inherits it
(`rtspbase.cpp:219`), or an error, which cuts the list (`Regular`).

## 4. Proofs

`NDnsProofs` proves, for any finite or infinite sets of objects, threads and
hosts, from `NoneAssumption` (the null values are none of the others):

- `Invariance`: `Spec => []IInv`;
- `TypeCorrect`, `LookupsAreSerial`, `ManagerLivesLongEnough`, `OwnersAreLive`,
  `GuiIsResponsive`, `EventsAreHandled`: the safety properties of `NDns`;
- `Refinement`: `Spec => ServiceSafety`, the safety part of `LookupService`.

None of the properties is inductive.  That two lookups are serial needs to know
which thread holds the mutex at which of its steps (`LockInv`); that the manager
outlives its threads needs the list to hold exactly the threads that are started
and not reaped (`ListInv`), each of which that has reported is in the event queue
once or is being waited for (`EventInv`); that no answer is misdirected needs
`OwnerInv`; and that a call in progress, `stop()` first and then the rest, has
its object to itself needs `CallInv`.  `ResultInv` says that a thread reports its
own host's address or none, which the refinement needs.  Each action has a lemma
for preserving the parts it touches, `Inductive` puts them together, and each
property follows from the invariant alone.  The refinement maps a pending request
to the item that refers to the object: starting a worker is `Ask`, `stop()` is
`Withdraw`, reaping with an owner is `Answer`, and all else stutters.

`SrvResolverProofs` proves, for any set of servers and replies of any length
(`SrvResolverAssumption`):

- `SortSRVListSorts`: what `sortSRVList()` returns is the reply by priority, then
  weight, with equals in the order received;
- `InductiveInvariant`: `Spec => []IInv`;
- `TypeCorrect`, `QueryIsTimed`, `SearchFollowsOrder`, `FailureIsLast`.

The sorting takes the least server out of the list until none is left.  Its loop is
a recursive function on the length of the list, and what it computes is proved by
the least-number principle: were there a length at which it goes wrong, there would
be a least one.  The order of a search then needs to say, for each phase, that what
has been tried, the server at hand and what is left are the sorted reply.

`BSocketProofs` proves, for any servers and bounds (`BSocketAssumption`):

- `InductiveInvariant`: `Spec => []IInv`;
- `TypeCorrect`, `StreamIsIntact`, `IdleStreamIsQuiet`: the safety properties of
  `BSocket`;
- `EmbeddedSearchInOrder`: the resolver in the stream keeps its own invariant under
  the calls BSocket makes of it, which are not those of `SrvResolver!Next`.

`IdleIsQuiet` is not inductive: each state of the stream has to say which of lookup,
search and socket are alive (`IInv`), for it is `reset()` in one state that leaves
nothing behind for the next.  The stream read is the bytes of the current connection
because what is in the socket and what has been moved to the read queue are, in this
order, what the peer has sent and the program has not read.

`HttpPollProofs` proves, for chains of any length, any data and any cutting into
blocks (`HttpPollAssumption`), about the composition of HttpPoll, the HttpProxyPost
under it and the polling server:

- `InductiveInvariant`: `Spec => []IInv`, for a program that calls `write()` in any
  slot but those of `syncStarted()` and `syncFinished()` (`WritesElsewhere`);
- `TypeCorrect`, `PacketsAreTaken`, `WritesGoOutOnce`, `AnswersAreDelivered`: the
  server refuses no packet for its key; what is written goes out once and in order;
  what the server sends is read once and in order;
- `ClosedStreamIsQuiet`: a closed stream polls no more, if `close()` is not called
  in those two slots either (`ClosesElsewhere`);
- `PostsAreAnswered`: `Spec => Post!Init /\ [][Post!Next]_(Post!vars)`, that is, the
  composition implements `PostService` but for its fairness.

The hypotheses are about the program, and needed.  A `write()` in the first slot
posts on top of the packet that is being made, one in the second before the packet
that was answered is taken off the buffer; and the run `httppoll_closed` refutes
`QuietWhenClosed` for a program that closes in the second, so that the theorem says
these slots are its only cause.  The invariant says, for every place where a handler
may be interrupted by its own signal (`Shape`), what the keys (`Chained`), the buffer
and the counts (`Counted`) and the data (`Delivered`) are while the packet is being
made, on its way, taken, and answered; and of the header that arrives in blocks, that
what has been cut off it and what is left are the header the server wrote (`Parsed`).
`Lines` is unrolled: a header of this server has three lines at most.  For
the refinement it is enough to know besides what a closing connection, whose end is
still reported, has left in its buffer and in the body (`Emptied`): nothing.  That a
result carries the whole answer follows from what `InAnswer` says of a connection that
is gone with nothing on the wire.

`HttpConnectProofs` proves, for any number of connections and bytes and for every
answer of the proxy the module knows (`HttpConnectAssumption`):

- `InductiveInvariant`: `Spec => []IInv`;
- `TypeCorrect`, `TunnelIsIntact`, `UserDataIsCounted`: the safety properties of
  `HttpConnect`.

The invariant compares what lies in a buffer or on the wire with what the proxy sends
in all, a function on the numbers: `Matches(s, o, w)` says that `s` is the part of `w`
behind its first `o` units.  Cutting a header line, taking a block or making data
available then only moves the cut (`MatchesCut`, `MatchesJoined`).  Of the other
direction it says that the units of the request are the first in the socket and that
`toWrite` is how many of them are still to go, so that what `bytesWritten()` hides is
these and no others.

`SocksProofs` proves, for any commands, destinations and number of bytes, and for
another program at the client's end as well (`SocksAssumption`):

- `InductiveInvariant`: `Spec => []IInv`;
- `TypeCorrect`, `GrantedWhenConnected`, `StreamIsIntact`, `UserDataIsCounted`: the
  safety properties of `Socks`.

Negotiation and data share one socket, and each end goes from one to the other at a
different time.  The invariant says of each direction that what has been taken, what
lies in the receive buffer, on the wire and in the sender's socket are one flow, in
this order (`Flow`): `h` units of greetings and authentication, the one message that
opens the stream (the request, or the reply that grants it), and then the data by
number.  A state may know `h` or not yet: whether there is authentication is for the
program to choose, so `h` is bound in `ToServer` and `ToClient`, and each step that
parses a message either leaves it or narrows it.  Moving a block from one buffer to
the next, cutting a message off, and appending one only move the borders (`FlowMoved`,
`FlowCut`, `FlowJoined`).  Of the counts, `Counted` says that the units of the
negotiation are the first in the socket and that `pending` is how many of them are
still to go.  What the client is granted is what it asked for since a reply of success
appears in the flow only behind the server's `granted`.  After a command `udp` the
server drops what comes, and nothing is claimed of that direction.

This proof corrected the model: a socket that is not connected ignores what is
written to it (`bsocket.cpp:193`), which `Written` now has; before, an answer written
to a closed connection waited in it for ever.

`DatagramIsRead`, in the same module: `Received(sp_create_udp(host, port, buf))` is
the host, cut to the limit of its length byte, the port, and the data as far as the
receiver's buffer holds it, for every host, port, data and every limit that
`SocksDatagramAssumption` allows.  Hosts are ASCII: the name is written in UTF-8 and
read in Latin-1, so of other names this is not true.

`StreamProofs` proves, for any number of bytes, any chunk and any room in the pipe
(`BConsoleAssumption`):

- `Invariance`: `Spec => []IInv`;
- `OutputIsInOrder`, `ClosesAfterLastByte`: the safety properties of `BConsole`;

and, with the sequence theorems of the library,

- `Base64RoundTrip`: `decode(encode(s)) = s` for every sequence of bytes.

The two properties of `BConsole` are inductive but for the types, and those need
`Counts`: a notifier is forgotten only in a `write()` that adds a byte, so there are no
more of them than bytes, and a finished close leaves the stream closed, so it finishes
once.  `TryWriteMoves` says what all callers of `tryWrite()` need: what is in the
buffer and what is on stdout together stay the same.  For base64 each group of four
characters is compared with its three bytes by arithmetic on `\div` and `%`, and the
three cases of the last group by its length; that `encode()` writes only what
`decode()` accepts, and the padding it counts, are lemmas.

The same module proves of `RtspClient`, for any number of packets of the peer and of the program, of any
size, and any reports of the stream (`RtspClientAssumption`),

- `PacketsDecoded`, `WritesAreCounted`, `ClientTypes`: its safety properties.

Of the parser, `ClientInv` says three things.  What lies in its buffer is the part of the
peer's stream that ends where the bytes that have arrived end (`Window`), so that the
buffer's front has a place in the stream.  The packets got are the first ones
(`GotAll`), and the front is in the packet behind them (`Placed`): before it, behind
so many of its header's lines, which are then in `cur`, or behind so much of its
content, which is in `data`.  And when the client waits, the packet behind those got
is not whole, or has a negative length (`Stuck`); that this packet stops all behind it
is why the property excepts them.  The steps of `read()` move the front within
one packet or to the next one (`WindowDrops`), and the arithmetic of places is in lemmas
on numbers only (`HeaderPlaces`, `TakesPlaces`).  What `Lines` and `Eaten` find in the
buffer is compared with the header (`LinesComplete`, `LinesPartial`): all its lines and
the empty one, or the whole lines among what is there.  That nothing is read before the
parser is reset, and that it is served only while connected, is `Connected`.

The number of packets written is a sum over the queue.  `Matches(t, s, a, r, g)` says
that the queue `t` is what is left of the sizes `s` of all packets when `a` bytes and
`r` packets have been reported, by the sums `g` of the prefixes of `s`; `QueueSums`
gives those of the queue, and `AckKeeps` follows `bs_bytesWritten()` through taking
whole packets off and a part of the next.  A packet that was written too early stays in
front of those sizes (`Awaited`): the count is then one behind, but the queue's sizes
still stay positive, since no more bytes are reported than the stream has accepted.

`RtspProofs` proves, for any offers, any ports of other programs and any number of
requests (`AltPortsAssumption`, `RtspSessionAssumption`):

- `AllocateIsFirstFit`: `allocate()`, which tries a start, and behind the first port
  that is refused goes on to the next, finds the first free range of the size asked
  for, or fails if there is none, whatever set of ports is taken;
- `InductiveInvariant`: `Spec => [](Requested /\ PortsInv)`;
- `AllRequestsForwarded`, `PortsAreApart`, `AllocatesFirstFit`: of the safety
  properties of `RtspSession`, those about requests and about ports held;
- `SessionInvariant`: `Spec => [](Requested /\ PortsInv /\ TextsInv /\ ServerInv /\ SessionInv)`;
- `TransportsAreForwarded`: of a `Regular` text only the ports are changed;
- `SetupsNameProxyPorts`, `RelayIsPaired`: the ports that either side is told are the
  proxy's, and the media goes both ways between the ports that client and server named;
- `ListReadBack`, `OfferRenamed`, `ReplyReadBack`: what the code writes of transports,
  of a SETUP and of an answer is read as what it was written from.

`Allocate` is a recursive function of where it starts; that it goes wrong nowhere is
proved by the least-number principle.  `PortsInv` says of each `AltPorts` that the
ranges it has bound are apart, that there are as many as originals and that what is
bound is a range the allocation gave (`AltOk`), that the two sides share none, and that
every packet under way names transports whose ports are numbers (`PacketsRead`).  The
last needs that whatever text a peer sends, what the code reads in it is a list of
transports: `readFromString()`, `findOneOf()`, `toString()`, `setArgument()` and
`merge()` each have a lemma.  Their loops are folds, which `FoldSolved` and
`FoldWithin` unroll: a property that each turn keeps holds at the end.  A range is
bound before it is known which will be kept, and `finalize()` unbinds the others; that
nothing is lost or shared between `reserve()` and `finalize()` is `ReserveStep` and
`FinalizeStep`.

`TransportsAreForwarded` follows a text through the code.  What `readFromString()` has
read up to a place is written by `toString()` as the text was up to there, ports aside
(`SameText`, built up by a turn of each loop): that holds as long as the text is
`Regular`, for then no name or value is empty, every quote closes before a separator
and no argument inherits a value.  `transport_set_ports()` changes ports only, and
keeps their number, because each range it puts in has the length of the one asked for:
`OnlyPortsDiffer`.  Whether an answer's ports are replaced by ones of the same number
is a matter of what the mapper holds (`ServerInv`), and that what is written to either
side is made of tokens that a text can hold, of `PacketOk`.

The two properties that name ports are about what the other side reads in the text that
the proxy has written, and a written text need not be `Regular`.  It is enough that the
transports it was written from are such as the code reads (`ProperTransport`: no
separator in a name, a value either in quotes or without separators); then each argument
stands in the text where `ReadArg()` looks for it (`ArgsStand`, `ItemsStand`), and each
turn of the two loops reads one (`ArgTurnBack`, `ListTurnBack`).  What is read back
differs in two ways, which `ReadBacks` states: an argument without a value takes over
the last one, and an empty value at the end is lost.  Neither is a port argument's, as
those have numbers, unless the offer ends in `=` (`EndsInEqual`), the case that the
properties except.  `merge()` gives no base twice and loses no range (`MergeCovers`), so
`findByBase()` finds for every transport the range that stands in for its own.

`SessionInv` adds what the session remembers; with the rest it is inductive.
`MappedInv`: without a reservation there are no ports; with one the ranges stand in for
the client's, one by one (`StandIn`), until one is kept.  `OrderInv`: each request has one
packet, so that an answer is to one.  `SetupsInv`: as long as nothing is reserved the
ranges of each SETUP under way could not be; while all are held it names them.  This
joins an answer, which may come after other requests, to the reservation that its SETUP
was written from: without it an answer could keep a range for a SETUP that asked for
others.  `AnswersInv`: what has been told names the server's range, and the answer that
made the mapper ready has left it with the ranges that were asked and offered
(`Paired`), which `finalize()`, doing nothing the second time (`FinalizedOnce`), keeps.
TLC found no counterexample to these four on the instance of `rtspsession` before they
were proved.  The media then follow by arithmetic (`MediaPaired`).

These proofs found no fault in the code beyond those of section 3, but one in the
models' form: `UNION` before `\cup`, as `Held` had it, is parsed in two ways by TLC
and the provers, and now has its parentheses.  In `RtspSession` they found that a second answer after a
`finalize()` that failed half-way, and an offer that ends in an empty value, break what
`RelayPaired` and `SetupNamesProxyPorts` said; both are now in the model's offers and
named in the properties' premises (`again`, `EndsInEqual`) and in the hazards.

Only model-checked:

- the liveness properties (TLAPS has no rules for fairness or ENABLED here), with them
  the fair parts of `LookupService` and `PostService`.

Every safety property of a run that passes is a theorem.

The library's induction theorems take an operator, which the provers used cannot
instantiate; what a recursive function or a fold computes is proved here through a set
instead, which has a least element if it is not empty (`SrvResolverProofs`,
`RtspProofs`), or by unrolling it where its depth is bounded (`HttpPollProofs`).

## 5. Not modelled

- The UDP sockets of `SocksUDP` and `writeUDP`, which lose and reorder what they
  like and keep no state; their datagrams are `SocksDatagram`.
- The read side of BConsole, which hands input on; the address getters everywhere.
- SafeDelete as such.  With Qt 3 `deleteSingle()` calls `deleteLater()` in any case,
  so that a lock only puts off a call whose effect comes later anyway; the modules
  have that effect.
- RTSP headers other than Transport: they are looked up by name and copied.
- The virtual client and server of the RTSP proxy: `startExisting()` and
  `startIncoming(stream)` connect none of the signals they would need.
- Deletion of an object in the slot of one of its signals, except in `NDns`,
  `Socks` and `RtspClient`; `HttpConnect` has no guard against it.
- Characters: an address in another script (`SocksDatagram`), bytes above 127 as
  input of `Base64::decode()`, which would index its table with a negative number.
- xmlsec, ciphers, hashes, the programs `adconn`, `socksd` and `enctest`: no state
  that outlives a call, or no protocol of their own.

## 6. Plan

Done, in this order: `NDns` with `LookupService` and its proofs, as the one part
with threads; `SrvResolver` and `BSocket` above it; the streams (`BConsole`,
`Socks`, `HttpPoll`, `HttpConnect`); RTSP from the bottom up; `HttpProxyPost` with
`PostService` under `HttpPoll`; the text of Transport headers in the proxy; the
codecs and their theorems; the proofs about `BConsole`, `SrvResolver`, `BSocket`,
`HttpPoll`, `HttpConnect`, `Socks`, `RtspClient` and `RtspSession`.

To model next: an abstract `Stream` (open, data in order, closed once) that
`BSocket`, `Socks` and `HttpConnect` implement; HeaderList.

To prove next: that `BSocket`, `Socks` and `HttpConnect` implement that `Stream`, from
the inductive invariants they have; and the parts of a Transport header that the proxy
does not look at, once HeaderList is there.
