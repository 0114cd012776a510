---------------------------- MODULE BSocketProofs ----------------------------
(***************************************************************************)
(* Proofs about BSocket, for any number of connections, bytes and servers: *)
(* what the program reads is the stream of its connection, and an idle     *)
(* stream is quiet.                                                        *)
(*                                                                         *)
(* The search inside the socket is that of SrvResolver: its inductive      *)
(* invariant holds here too, by its own lemmas, for every step of BSocket  *)
(* takes a step of the search or leaves it alone.                          *)
(***************************************************************************)
EXTENDS BSocket, SequenceTheorems, TLAPS

Search == INSTANCE SrvResolverProofs

-----------------------------------------------------------------------------
(* Streams of bytes.                                                       *)

\* The n bytes of connection c that follow the first k.
Stream(c, k, n) == [i \in 1..n |-> <<c, k + i>>]

LEMMA StreamLength ==
  ASSUME NEW c, NEW k \in Nat, NEW n \in Nat
  PROVE  Len(Stream(c, k, n)) = n /\ DOMAIN Stream(c, k, n) = 1..n
BY SMT DEF Stream

LEMMA StreamEmpty ==
  ASSUME NEW c, NEW k \in Nat
  PROVE  Stream(c, k, 0) = <<>>
<1>1. 1..0 = {}
  BY SMT
<1> QED
  BY <1>1 DEF Stream

\* The next byte to arrive continues the stream.
LEMMA StreamGrows ==
  ASSUME NEW c, NEW k \in Nat, NEW n \in Nat
  PROVE  Append(Stream(c, k, n), <<c, (k + n) + 1>>) = Stream(c, k, n + 1)
<1>1. Len(Stream(c, k, n)) = n
  BY StreamLength
<1> QED
  BY <1>1, SMT DEF Stream

\* Reading takes bytes off its front.
LEMMA StreamRead ==
  ASSUME NEW c, NEW k \in Nat, NEW n \in Nat, NEW r \in 0..n
  PROVE  SubSeq(Stream(c, k, n), r + 1, n) = Stream(c, k + r, n - r)
<1>1. SubSeq(Stream(c, k, n), r + 1, n) = [i \in 1..(n - r) |-> Stream(c, k, n)[i + r]]
  BY SMT DEF Stream
<1>2. ASSUME NEW i \in 1..(n - r) PROVE Stream(c, k, n)[i + r] = <<c, (k + r) + i>>
  <2>1. i + r \in 1..n /\ k + (i + r) = (k + r) + i
    BY SMT
  <2> QED
    BY <2>1, Zenon DEF Stream
<1> QED
  BY <1>1, <1>2, Zenon DEF Stream

-----------------------------------------------------------------------------
(* The search.                                                             *)

\* The two instances of SrvResolver, that of BSocket and that of its proofs,
\* are the same.
LEMMA SameState ==
  /\ Srv!TypeOK <=> Search!TypeOK
  /\ Srv!Busy <=> Search!Busy
  /\ Srv!Init <=> Search!Init
BY DEF Srv!TypeOK, Search!TypeOK, Srv!Busy, Search!Busy, Srv!Names, Search!Names,
       Srv!Init, Search!Init, Srv!NoResult, Search!NoResult

LEMMA SameSort == ASSUME NEW list PROVE Srv!SortSRVList(list) = Search!SortSRVList(list)
BY DEF Srv!SortSRVList, Search!SortSRVList, Srv!LeastIndex, Search!LeastIndex,
       Srv!Before, Search!Before, Srv!RemoveAt, Search!RemoveAt

LEMMA SameSteps ==
  /\ Srv!Cleared => Search!Cleared
  /\ Srv!Resolve(FALSE) => Search!Resolve(FALSE)
  /\ Srv!NextServer => Search!NextServer
  /\ Srv!QdnsFinish => Search!QdnsFinish
  /\ \A list \in Srv!Replies : list \in Search!Replies /\ (Srv!QdnsDone(list) => Search!QdnsDone(list))
  /\ \A found \in BOOLEAN : Srv!NdnsDone(found) => Search!NdnsDone(found)
<1>1. /\ Srv!Cleared => Search!Cleared
      /\ Srv!Resolve(FALSE) => Search!Resolve(FALSE)
      /\ Srv!NextServer => Search!NextServer
      /\ Srv!QdnsFinish => Search!QdnsFinish
  BY DEF Srv!Cleared, Search!Cleared, Srv!NoResult, Search!NoResult, Srv!Resolve, Search!Resolve,
         Srv!NextServer, Search!NextServer, Srv!QdnsFinish, Search!QdnsFinish
<1>2. ASSUME NEW list \in Srv!Replies
      PROVE  list \in Search!Replies /\ (Srv!QdnsDone(list) => Search!QdnsDone(list))
  <2>1. Srv!SortSRVList(list) = Search!SortSRVList(list)
    BY SameSort
  <2>2. list \in Search!Replies
    BY DEF Srv!Replies, Search!Replies, Srv!IsInjective, Search!IsInjective
  <2> QED
    BY <1>1, <2>1, <2>2 DEF Srv!QdnsDone, Search!QdnsDone
<1>3. ASSUME NEW found \in BOOLEAN
      PROVE  Srv!NdnsDone(found) => Search!NdnsDone(found)
  BY <1>1 DEF Srv!NdnsDone, Search!NdnsDone
<1> QED
  BY <1>1, <1>2, <1>3

\* The search's invariant after each step that BSocket has it take.
LEMMA SearchStopped ==
  Search!IInv /\ ~signal /\ Srv!Stop /\ calls' \in 0..MaxCalls => Search!IInv'
<1> SUFFICES ASSUME Search!IInv, ~signal, Srv!Stop, calls' \in 0..MaxCalls PROVE Search!IInv'
  OBVIOUS
<1>1. Search!Cleared /\ signal' \in BOOLEAN
  BY SameSteps DEF Srv!Stop, Search!IInv, Search!TypeOK
<1> QED
  BY <1>1, BSocketAssumption, Search!ClearedIInv

LEMMA SearchStarted ==
  Search!IInv /\ Srv!Resolve(FALSE) /\ calls' \in 0..MaxCalls => Search!IInv'
<1> SUFFICES ASSUME Search!IInv, Srv!Resolve(FALSE), calls' \in 0..MaxCalls PROVE Search!IInv'
  OBVIOUS
<1>1. Search!Resolve(FALSE)
  BY SameSteps
<1> QED
  BY <1>1, BSocketAssumption, Search!ResolveIInv

LEMMA SearchAdvanced ==
  ASSUME Search!IInv, UNCHANGED calls,
         \/ Srv!QdnsFinish
         \/ \E list \in Srv!Replies : Srv!QdnsDone(list)
         \/ \E found \in BOOLEAN : Srv!NdnsDone(found)
         \/ Srv!Timeout
         \/ Srv!NextServer
         \/ Srv!SlotReturns
  PROVE  Search!IInv'
<1>1. calls' \in 0..MaxCalls /\ signal \in BOOLEAN
  BY DEF Search!IInv, Search!TypeOK
<1>2. CASE Srv!QdnsFinish
  BY <1>2, SameSteps, BSocketAssumption, Search!OtherIInv
<1>3. ASSUME NEW list \in Srv!Replies, Srv!QdnsDone(list) PROVE Search!IInv'
  BY <1>3, SameSteps, BSocketAssumption, Search!QdnsDoneIInv
<1>4. ASSUME NEW found \in BOOLEAN, Srv!NdnsDone(found) PROVE Search!IInv'
  BY <1>4, SameSteps, BSocketAssumption, Search!NdnsDoneIInv
<1>5. CASE Srv!Timeout
  <2>1. Search!Cleared /\ signal' \in BOOLEAN
    BY <1>5, SameSteps DEF Srv!Timeout
  <2> QED
    BY <1>1, <2>1, BSocketAssumption, Search!ClearedIInv
<1>6. CASE Srv!NextServer
  BY <1>1, <1>6, SameSteps, BSocketAssumption, Search!NextServerIInv
<1>7. CASE Srv!SlotReturns
  <2>1. Search!SlotReturns
    BY <1>7 DEF Srv!SlotReturns, Search!SlotReturns
  <2> QED
    BY <2>1, BSocketAssumption, Search!OtherIInv
<1> QED
  BY <1>2, <1>3, <1>4, <1>5, <1>6, <1>7

LEMMA SearchLeftAlone ==
  Search!IInv /\ UNCHANGED srvVars /\ calls' \in 0..MaxCalls => Search!IInv'
<1> SUFFICES ASSUME Search!IInv, UNCHANGED srvVars, calls' \in 0..MaxCalls PROVE Search!IInv'
  OBVIOUS
<1>1. Search!ServersInOrder'
  BY DEF Search!IInv, Search!ServersInOrder, srvVars
<1>2. Search!TypeOK' /\ Search!TimerCoversQuery'
  BY DEF Search!IInv, Search!TypeOK, Search!TimerCoversQuery, srvVars
<1> QED
  BY <1>1, <1>2 DEF Search!IInv, srvVars

-----------------------------------------------------------------------------
(* The invariant.                                                          *)

\* Which socket, lookup and search each state has.
Placed ==
  /\ calls = 0 => state = "Idle"
  /\ sock = "none" => state \in {"Idle", "HostLookup"}
  /\ state = "Idle" => sock = "none"
  /\ sock = "idle" => state = "HostLookup"
  /\ sock = "connecting" => /\ state \in {"HostLookup", "Connecting"}
                            /\ ~Srv!Busy /\ ~signal /\ ~hostLookup
  /\ sock = "connected" => state = "Connected"
  /\ sock = "closing" => state = "Closing"
  /\ unsent > 0 => sock \in {"connected", "closing"}
  /\ Srv!Busy \/ signal \/ hostLookup => state = "HostLookup"
  /\ signal => ~Srv!Busy
  /\ hostLookup => ~Srv!Busy /\ ~signal

\* Nothing is received before the connection is there.
Received ==
  /\ taken <= arrived
  /\ state \in {"HostLookup", "Connecting"} => arrived = taken

IInv ==
  /\ TypeOK
  /\ Search!IInv
  /\ Placed
  /\ Received
  /\ ReadStreamIntact

LEMMA InitIInv == Init => IInv
<1> SUFFICES ASSUME Init PROVE IInv
  OBVIOUS
<1>1. Search!IInv
  BY SameState, BSocketAssumption, Search!InitIInv DEF Init
<1>2. calls = 0 /\ qdns = "none" /\ ndns = None /\ signal = FALSE
  BY DEF Init, Srv!Init
<1>3. TypeOK
  <2>1. Srv!TypeOK
    BY <1>1, SameState DEF Search!IInv
  <2>2. 0 \in 0..MaxBytes /\ <<>> \in Seq(Bytes)
    BY BSocketAssumption, EmptySeq, SMT
  <2> QED
    BY <2>1, <2>2 DEF Init, TypeOK
<1>4. Placed
  BY <1>2 DEF Init, Placed, Srv!Busy
<1>5. Received
  BY SMT DEF Init, Received
<1>6. ReadStreamIntact
  <2>1. 1..(arrived - taken) = {}
    BY SMT DEF Init
  <2> QED
    BY <2>1 DEF Init, ReadStreamIntact
<1> QED
  BY <1>1, <1>3, <1>4, <1>5, <1>6 DEF IInv

\* What the program can read, as a stream.
LEMMA Available ==
  ASSUME IInv
  PROVE  /\ calls \in 0..MaxCalls /\ taken \in Nat /\ arrived \in Nat
         /\ arrived - taken \in Nat /\ taken + (arrived - taken) = arrived
         /\ sock # "none" => readBuf = <<>> /\ rbuf = Stream(calls, taken, arrived - taken)
         /\ sock = "none" => readBuf = Stream(calls, taken, arrived - taken)
<1>1. calls \in 0..MaxCalls /\ taken \in 0..MaxBytes /\ arrived \in 0..MaxBytes /\ taken <= arrived
  BY DEF IInv, TypeOK, Received, Srv!TypeOK
<1>2. /\ taken \in Nat /\ arrived \in Nat
      /\ arrived - taken \in Nat /\ taken + (arrived - taken) = arrived
  BY <1>1, BSocketAssumption, SMT
<1> QED
  BY <1>1, <1>2 DEF IInv, ReadStreamIntact, Stream

\* Without bytes to read.
LEMMA NothingToRead ==
  ASSUME taken' \in Nat, arrived' = taken', readBuf' = <<>>, rbuf' = <<>>
  PROVE  ReadStreamIntact'
<1>1. arrived' - taken' = 0
  <2>1. \A n \in Nat : n - n = 0
    BY SMT
  <2> QED
    BY <2>1, Zenon
<1>2. Stream(calls', taken', arrived' - taken') = <<>>
  BY <1>1, StreamEmpty
<1> QED
  BY <1>2 DEF ReadStreamIntact, Stream

\* Before a connection there is nothing to read.
LEMMA NothingBefore ==
  ASSUME IInv, state \in {"HostLookup", "Connecting"}
  PROVE  arrived = taken /\ readBuf = <<>> /\ (sock # "none" => rbuf = <<>>)
<1>1. arrived = taken /\ arrived - taken = 0 /\ taken \in Nat
  BY Available, SMT DEF IInv, Received
<1> QED
  BY <1>1, Available, StreamEmpty

-----------------------------------------------------------------------------
(* The steps.                                                              *)

\* The parts of TypeOK that are the socket's own.
SocketTypeOK ==
  /\ state \in {"Idle", "HostLookup", "Connecting", "Connected", "Closing"}
  /\ sock \in {"none", "idle", "connecting", "connected", "closing"}
  /\ rbuf \in Seq(Bytes)
  /\ unsent \in 0..MaxBytes
  /\ readBuf \in Seq(Bytes)
  /\ hostLookup \in BOOLEAN
  /\ arrived \in 0..MaxBytes
  /\ taken \in 0..MaxBytes
  /\ attempt \in {"none", "host", "server"}

LEMMA TypeParts ==
  /\ IInv => SocketTypeOK /\ Search!IInv /\ Placed /\ Received /\ ReadStreamIntact
  /\ Search!IInv /\ SocketTypeOK /\ Placed /\ Received /\ ReadStreamIntact => IInv
BY SameState DEF IInv, TypeOK, SocketTypeOK, Search!IInv

LEMMA SearchTypes ==
  ASSUME IInv
  PROVE  /\ calls \in 0..MaxCalls /\ signal \in BOOLEAN
         /\ qdns # "none" => ndns = None
         /\ qdns # "none" <=> timer
         /\ qdns \in {"none", "working", "done"}
BY DEF IInv, Search!IInv, Search!TypeOK, Search!TimerCoversQuery

\* A connection the program asks for.
LEMMA NewConnectionStep ==
  ASSUME IInv, NEW kind, NewConnection(kind)
  PROVE  /\ calls' \in 0..MaxCalls /\ calls' # 0
         /\ arrived' = 0 /\ taken' = 0 /\ attempt' = kind
         /\ 0 \in 0..MaxBytes
BY SearchTypes, BSocketAssumption, SMT DEF NewConnection

LEMMA DropSocketClears ==
  ASSUME IInv, DropSocket(TRUE)
  PROVE  sock' = "none" /\ rbuf' = <<>> /\ unsent' = 0 /\ readBuf' = <<>>
BY Available DEF DropSocket

LEMMA ConnectToHostIInv == IInv /\ ConnectToHost => IInv'
<1> SUFFICES ASSUME IInv, ConnectToHost PROVE IInv'
  OBVIOUS
<1>1. /\ calls' \in 0..MaxCalls /\ calls' # 0
      /\ arrived' = 0 /\ taken' = 0 /\ attempt' = "host" /\ 0 \in 0..MaxBytes
  BY NewConnectionStep DEF ConnectToHost
<1>2. /\ sock' = "none" /\ rbuf' = <<>> /\ unsent' = 0 /\ readBuf' = <<>>
      /\ hostLookup' = TRUE /\ state' = "HostLookup" /\ ~signal
  BY DropSocketClears DEF ConnectToHost
<1>3. Search!IInv' /\ ~Srv!Busy' /\ ~signal'
  <2>1. CASE Srv!Busy
    <3>1. Srv!Stop
      BY <2>1 DEF ConnectToHost
    <3> QED
      BY <1>1, <1>2, <3>1, SearchStopped, TypeParts DEF Srv!Stop, Srv!Cleared, Srv!Busy
  <2>2. CASE ~Srv!Busy
    <3>1. UNCHANGED srvVars
      BY <2>2 DEF ConnectToHost
    <3> QED
      BY <1>1, <1>2, <2>2, <3>1, SearchLeftAlone, TypeParts DEF srvVars, Srv!Busy
  <2> QED
    BY <2>1, <2>2
<1>4. SocketTypeOK'
  BY <1>1, <1>2, EmptySeq DEF SocketTypeOK
<1>5. Placed'
  BY <1>1, <1>2, <1>3 DEF Placed
<1>6. Received'
  BY <1>1, SMT DEF Received
<1>7. ReadStreamIntact'
  BY <1>1, <1>2, NothingToRead
<1> QED
  BY <1>3, <1>4, <1>5, <1>6, <1>7, TypeParts, PTL

LEMMA ConnectToServerIInv == IInv /\ ConnectToServer => IInv'
<1> SUFFICES ASSUME IInv, ConnectToServer PROVE IInv'
  OBVIOUS
<1>1. /\ calls' \in 0..MaxCalls /\ calls' # 0
      /\ arrived' = 0 /\ taken' = 0 /\ attempt' = "server" /\ 0 \in 0..MaxBytes
  BY NewConnectionStep DEF ConnectToServer
<1>2. /\ sock' = "none" /\ rbuf' = <<>> /\ unsent' = 0 /\ readBuf' = <<>>
      /\ hostLookup' = FALSE /\ state' = "HostLookup" /\ ~signal
  BY DropSocketClears DEF ConnectToServer
<1>3. Search!IInv' /\ ~signal'
  BY <1>1, <1>2, SearchStarted, TypeParts DEF ConnectToServer, Srv!Resolve
<1>4. SocketTypeOK'
  BY <1>1, <1>2, EmptySeq DEF SocketTypeOK
<1>5. Placed'
  BY <1>1, <1>2, <1>3 DEF Placed
<1>6. Received'
  BY <1>1, SMT DEF Received
<1>7. ReadStreamIntact'
  BY <1>1, <1>2, NothingToRead
<1> QED
  BY <1>3, <1>4, <1>5, <1>6, <1>7, TypeParts, PTL

\* What reset() does about the search.
LEMMA StopLookupsStep ==
  ASSUME IInv, ~signal, StopLookups, calls' \in 0..MaxCalls
  PROVE  Search!IInv' /\ ~Srv!Busy' /\ ~signal' /\ hostLookup' = FALSE
<1>1. CASE Srv!Busy
  <2>1. Srv!Stop
    BY <1>1 DEF StopLookups
  <2> QED
    BY <2>1, SearchStopped, TypeParts DEF StopLookups, Srv!Stop, Srv!Cleared, Srv!Busy
<1>2. CASE ~Srv!Busy
  <2>1. UNCHANGED srvVars
    BY <1>2 DEF StopLookups
  <2> QED
    BY <1>2, <2>1, SearchLeftAlone, TypeParts DEF StopLookups, srvVars, Srv!Busy
<1> QED
  BY <1>1, <1>2

LEMMA SetSocketIInv == IInv /\ SetSocket => IInv'
<1> SUFFICES ASSUME IInv, SetSocket PROVE IInv'
  OBVIOUS
<1>1. /\ calls' \in 0..MaxCalls /\ calls' # 0
      /\ arrived' = 0 /\ taken' = 0 /\ attempt' = "none" /\ 0 \in 0..MaxBytes
  BY NewConnectionStep DEF SetSocket
<1>2. /\ sock' = "connected" /\ rbuf' = <<>> /\ unsent' = 0 /\ readBuf' = <<>>
      /\ state' = "Connected" /\ ~signal
  BY Available DEF SetSocket
<1>3. Search!IInv' /\ ~Srv!Busy' /\ ~signal' /\ hostLookup' = FALSE
  BY <1>1, StopLookupsStep DEF SetSocket
<1>4. SocketTypeOK'
  BY <1>1, <1>2, <1>3, EmptySeq DEF SocketTypeOK
<1>5. Placed'
  BY <1>1, <1>2, <1>3 DEF Placed
<1>6. Received'
  BY <1>1, <1>2, SMT DEF Received
<1>7. ReadStreamIntact'
  BY <1>1, <1>2, NothingToRead
<1> QED
  BY <1>3, <1>4, <1>5, <1>6, <1>7, TypeParts, PTL

LEMMA CloseIInv == IInv /\ Close => IInv'
<1> SUFFICES ASSUME IInv, Close PROVE IInv'
  OBVIOUS
<1>1. /\ attempt' = "none" /\ arrived' = taken /\ taken' = taken /\ calls' = calls
      /\ state # "Idle" /\ ~signal
  BY DEF Close
<1>2. SocketTypeOK /\ Placed /\ Search!IInv /\ taken \in Nat /\ calls \in 0..MaxCalls
  BY TypeParts, Available
\* The socket stays to send the rest.
<1>3. CASE unsent > 0
  <2>1. /\ sock' = "closing" /\ state' = "Closing" /\ rbuf' = <<>>
        /\ UNCHANGED <<srvVars, unsent, readBuf, hostLookup>>
    BY <1>3 DEF Close
  <2>2. sock \in {"connected", "closing"} /\ readBuf = <<>>
    BY <1>2, <1>3, Available DEF Placed
  <2>3. /\ state \in {"Connected", "Closing"} /\ ~Srv!Busy /\ ~signal /\ ~hostLookup
        /\ calls # 0
    BY <1>2, <2>2 DEF Placed
  <2>4. Search!IInv' /\ ~Srv!Busy' /\ ~signal'
    BY <1>1, <1>2, <2>1, <2>3, SearchLeftAlone DEF srvVars, Srv!Busy
  <2>5. SocketTypeOK'
    BY <1>1, <1>2, <2>1, EmptySeq DEF SocketTypeOK
  <2>6. Placed'
    BY <1>1, <2>1, <2>3, <2>4 DEF Placed
  <2>7. Received'
    BY <1>1, <1>2, <2>1, SMT DEF Received
  <2>8. ReadStreamIntact'
    BY <1>1, <1>2, <2>1, <2>2, NothingToRead
  <2> QED
    BY <2>4, <2>5, <2>6, <2>7, <2>8, TypeParts, PTL
\* reset() follows.
<1>4. CASE ~(unsent > 0)
  <2>1. /\ sock' = "none" /\ state' = "Idle" /\ rbuf' = <<>> /\ unsent' = 0
        /\ readBuf' = readBuf /\ StopLookups
    BY <1>4 DEF Close
  <2>2. readBuf = <<>>
    <3>1. CASE sock # "none"
      BY <3>1, Available
    <3>2. CASE sock = "none"
      <4>1. state = "HostLookup"
        BY <1>1, <1>2, <3>2 DEF Placed
      <4> QED
        BY <4>1, NothingBefore
    <3> QED
      BY <3>1, <3>2
  <2>3. Search!IInv' /\ ~Srv!Busy' /\ ~signal' /\ hostLookup' = FALSE
    BY <1>1, <1>2, <2>1, StopLookupsStep
  <2>4. 0 \in 0..MaxBytes
    BY BSocketAssumption, SMT
  <2>5. SocketTypeOK'
    BY <1>1, <1>2, <2>1, <2>3, <2>4, EmptySeq DEF SocketTypeOK
  <2>6. Placed'
    BY <1>1, <2>1, <2>3 DEF Placed
  <2>7. Received'
    BY <1>1, <1>2, <2>1, SMT DEF Received
  <2>8. ReadStreamIntact'
    BY <1>1, <1>2, <2>1, <2>2, NothingToRead
  <2> QED
    BY <2>3, <2>5, <2>6, <2>7, <2>8, TypeParts, PTL
<1> QED
  BY <1>3, <1>4

LEMMA WriteIInv == IInv /\ Write => IInv'
<1> SUFFICES ASSUME IInv, Write PROVE IInv'
  OBVIOUS
<1>1. /\ ~signal /\ state = "Connected" /\ unsent < MaxBytes /\ unsent' = unsent + 1
      /\ UNCHANGED <<srvVars, sock, rbuf, streamVars, calls, state, readBuf, hostLookup, attempt>>
  BY DEF Write
<1>2. SocketTypeOK /\ Placed /\ Search!IInv /\ Received /\ ReadStreamIntact /\ calls \in 0..MaxCalls
  BY TypeParts, Available
<1>3. unsent' \in 0..MaxBytes /\ unsent' > 0
  BY <1>1, <1>2, BSocketAssumption, SMT DEF SocketTypeOK
<1>4. sock = "connected"
  BY <1>1, <1>2 DEF Placed, SocketTypeOK
<1>5. Search!IInv'
  BY <1>1, <1>2, SearchLeftAlone
<1>6. SocketTypeOK'
  BY <1>1, <1>2, <1>3 DEF SocketTypeOK, streamVars
<1>7. Placed'
  BY <1>1, <1>2, <1>4 DEF Placed, srvVars, Srv!Busy
<1>8. Received'
  BY <1>1, <1>2 DEF Received, streamVars
<1>9. ReadStreamIntact'
  BY <1>1, <1>2 DEF ReadStreamIntact, streamVars
<1> QED
  BY <1>5, <1>6, <1>7, <1>8, <1>9, TypeParts, PTL

\* Reading takes bytes off the front of the stream, wherever it is.
LEMMA ReadIInv == ASSUME IInv, NEW n \in 0..MaxBytes, Read(n) PROVE IInv'
<1> DEFINE source == IF sock # "none" THEN rbuf ELSE readBuf
           count == IF n = 0 \/ n > Len(source) THEN Len(source) ELSE n
           rest == SubSeq(source, count + 1, Len(source))
           left == arrived - taken
<1>1. /\ count > 0 /\ taken' = taken + count
      /\ IF sock # "none" THEN rbuf' = rest /\ UNCHANGED readBuf
                          ELSE readBuf' = rest /\ UNCHANGED rbuf
      /\ ~signal
      /\ UNCHANGED <<srvVars, sock, unsent, arrived, calls, state, hostLookup, attempt>>
  BY DEF Read
<1>2. SocketTypeOK /\ Placed /\ Search!IInv /\ Received
  BY TypeParts
<1>3. /\ calls \in 0..MaxCalls /\ taken \in Nat /\ arrived \in Nat
      /\ left \in Nat /\ taken + left = arrived
      /\ source = Stream(calls, taken, left)
      /\ sock # "none" => readBuf = <<>>
  BY Available
<1> HIDE DEF source, left
<1>4. Len(source) = left
  BY <1>3, StreamLength
<1>5. count \in 0..left /\ count # 0
  BY <1>1, <1>3, <1>4, SMT
<1> HIDE DEF count
<1>6. rest = Stream(calls, taken + count, left - count)
  <2>1. taken \in Nat /\ left \in Nat /\ count \in 0..left
    BY <1>3, <1>5
  <2>2. \A c : SubSeq(Stream(c, taken, left), count + 1, left) = Stream(c, taken + count, left - count)
    BY <2>1, StreamRead
  <2> QED
    BY <1>3, <1>4, <2>2
<1>7. source \in Seq(Bytes)
  BY <1>2 DEF source, SocketTypeOK
<1>8. rest \in Seq(Bytes)
  <2>1. \A i \in (count + 1)..Len(source) : source[i] \in Bytes
    <3>1. \A i \in (count + 1)..Len(source) : i \in 1..Len(source)
      BY <1>3, <1>4, <1>5, SMT
    <3> QED
      BY <1>7, <3>1, ElementOfSeq
  <2>2. count + 1 \in Int /\ Len(source) \in Int
    BY <1>3, <1>4, <1>5, SMT
  <2> QED
    BY <1>7, <2>1, <2>2, SubSeqProperties
<1>9. arrived' - taken' = left - count /\ taken' \in 0..MaxBytes /\ taken' <= arrived'
  BY <1>1, <1>2, <1>3, <1>5, BSocketAssumption, SMT DEF SocketTypeOK
<1> HIDE DEF rest
<1>10. Search!IInv'
  BY <1>1, <1>2, <1>3, SearchLeftAlone
<1>11. SocketTypeOK'
  BY <1>1, <1>2, <1>8, <1>9 DEF SocketTypeOK
<1>12. Placed'
  BY <1>1, <1>2 DEF Placed, srvVars, Srv!Busy
<1>13. Received'
  <2>1. state \notin {"HostLookup", "Connecting"}
    BY <1>2, <1>3, <1>5, SMT DEF Received
  <2> QED
    BY <1>1, <1>9, <2>1 DEF Received
<1>14. ReadStreamIntact'
  BY <1>1, <1>3, <1>6, <1>9 DEF ReadStreamIntact, Stream
<1> QED
  BY <1>10, <1>11, <1>12, <1>13, <1>14, TypeParts, PTL

\* The search's slots change nothing else: neither its start nor its end takes
\* the stream out of HostLookup.
LEMMA SearchOnlyIInv ==
  ASSUME IInv, OnlySearch, state = "HostLookup", hostLookup = FALSE, sock # "connecting",
         Search!IInv', signal' => ~Srv!Busy'
  PROVE  IInv'
<1>1. SocketTypeOK /\ Placed /\ Received /\ ReadStreamIntact
  BY TypeParts
<1>2. SocketTypeOK'
  BY <1>1 DEF SocketTypeOK, OnlySearch, sockVars, streamVars
<1>3. Placed'
  BY <1>1 DEF Placed, OnlySearch, sockVars, streamVars
<1>4. Received' /\ ReadStreamIntact'
  BY <1>1 DEF Received, ReadStreamIntact, OnlySearch, sockVars, streamVars
<1> QED
  BY <1>2, <1>3, <1>4, TypeParts, PTL

LEMMA SearchSlotsIInv == IInv /\ (SrvReply \/ SrvLookup \/ SrvTimeout) => IInv'
<1> SUFFICES ASSUME IInv, SrvReply \/ SrvLookup \/ SrvTimeout PROVE IInv'
  OBVIOUS
<1>1. OnlySearch /\ UNCHANGED calls
  BY DEF SrvReply, SrvLookup, SrvTimeout, OnlySearch
<1>2. /\ \/ Srv!QdnsFinish
         \/ \E list \in Srv!Replies : Srv!QdnsDone(list)
         \/ \E found \in BOOLEAN : Srv!NdnsDone(found)
         \/ Srv!Timeout
  BY DEF SrvReply, SrvLookup, SrvTimeout
<1>3. /\ qdns # "none" => ndns = None
      /\ qdns # "none" <=> timer
  BY SearchTypes
<1>4. Placed /\ SocketTypeOK /\ Search!IInv
  BY TypeParts
<1>5. Srv!Busy /\ ~signal
  BY <1>2, <1>3 DEF Srv!Busy, Srv!QdnsFinish, Srv!QdnsDone, Srv!NdnsDone, Srv!Timeout
<1>6. state = "HostLookup" /\ hostLookup = FALSE /\ sock # "connecting"
  BY <1>4, <1>5 DEF Placed, SocketTypeOK
<1>7. Search!IInv'
  BY <1>1, <1>2, <1>4, SearchAdvanced
<1>8. signal' => ~Srv!Busy'
  <2>1. CASE Srv!QdnsFinish
    BY <1>5, <2>1 DEF Srv!QdnsFinish
  <2>2. ASSUME NEW list \in Srv!Replies, Srv!QdnsDone(list) PROVE signal' => ~Srv!Busy'
    <3>1. qdns # "none"
      BY <2>2 DEF Srv!QdnsDone
    <3> QED
      BY <1>3, <2>2, <3>1 DEF Srv!QdnsDone, Srv!Cleared, Srv!Busy
  <2>3. ASSUME NEW found \in BOOLEAN, Srv!NdnsDone(found) PROVE signal' => ~Srv!Busy'
    <3>1. ndns # None /\ qdns = "none"
      BY <1>3, <2>3 DEF Srv!NdnsDone
    <3> QED
      BY <1>5, <2>3, <3>1 DEF Srv!NdnsDone, Srv!Cleared, Srv!Busy
  <2>4. CASE Srv!Timeout
    BY <2>4 DEF Srv!Timeout, Srv!Cleared, Srv!Busy
  <2> QED
    BY <1>2, <2>1, <2>2, <2>3, <2>4
<1> QED
  BY <1>1, <1>6, <1>7, <1>8, SearchOnlyIInv

LEMMA SrvDoneIInv == IInv /\ SrvDone => IInv'
<1> SUFFICES ASSUME IInv, SrvDone PROVE IInv'
  OBVIOUS
<1>1. /\ signal /\ signal' = FALSE
      /\ attempt' = "none" \/ attempt' = attempt
      /\ UNCHANGED <<qdns, timer, ndns, servers, failed, result, srvonly, reply, tried,
                     streamVars, calls, state, readBuf, hostLookup>>
      /\ UNCHANGED sockVars \/ DoConnect
  BY DEF SrvDone
<1>2. Placed /\ SocketTypeOK /\ Search!IInv /\ Received /\ calls \in 0..MaxCalls
  BY TypeParts, Available
<1>3. /\ state = "HostLookup" /\ ~hostLookup /\ ~Srv!Busy /\ calls # 0
      /\ sock # "connected" /\ sock # "closing" /\ sock # "connecting"
  BY <1>1, <1>2 DEF Placed
<1>4. arrived = taken /\ readBuf = <<>> /\ (sock # "none" => rbuf = <<>>)
  BY <1>3, NothingBefore
<1>5. Search!IInv'
  <2>1. Srv!SlotReturns /\ UNCHANGED calls
    BY <1>1 DEF Srv!SlotReturns
  <2> QED
    BY <1>2, <2>1, SearchAdvanced
<1>6. ~Srv!Busy'
  BY <1>1, <1>3 DEF Srv!Busy
<1>7. Received'
  BY <1>1, <1>2 DEF Received, streamVars
<1>8. CASE UNCHANGED sockVars
  <2>1. SocketTypeOK'
    BY <1>1, <1>2, <1>8 DEF SocketTypeOK, sockVars, streamVars
  <2>2. Placed'
    BY <1>1, <1>2, <1>3, <1>6, <1>8 DEF Placed, sockVars
  <2>3. ReadStreamIntact'
    BY <1>1, <1>2, <1>8, TypeParts DEF ReadStreamIntact, sockVars, streamVars
  <2> QED
    BY <1>5, <1>7, <2>1, <2>2, <2>3, TypeParts, PTL
<1>9. CASE DoConnect
  <2>1. SocketTypeOK'
    <3>1. 0 \in 0..MaxBytes
      BY BSocketAssumption, SMT
    <3> QED
      BY <1>1, <1>2, <1>9, <3>1, EmptySeq DEF SocketTypeOK, DoConnect, streamVars
  <2>2. Placed'
    BY <1>1, <1>2, <1>3, <1>6, <1>9 DEF Placed, DoConnect
  <2>3. ReadStreamIntact'
    <3>1. arrived' = taken' /\ taken' \in Nat /\ readBuf' = <<>> /\ rbuf' = <<>>
      BY <1>1, <1>4, <1>9, Available DEF DoConnect, streamVars
    <3> QED
      BY <3>1, NothingToRead
  <2> QED
    BY <1>5, <1>7, <2>1, <2>2, <2>3, TypeParts, PTL
<1> QED
  BY <1>1, <1>8, <1>9

LEMMA NdnsDoneIInv == ASSUME IInv, NEW found \in BOOLEAN, NdnsDone(found) PROVE IInv'
<1>1. /\ hostLookup /\ ~signal /\ hostLookup' = FALSE
      /\ \/ state' = "Connecting" /\ DoConnect /\ UNCHANGED attempt
         \/ attempt' = "none" /\ UNCHANGED <<state, sockVars>>
      /\ UNCHANGED <<srvVars, streamVars, calls, readBuf>>
  BY DEF NdnsDone
<1>2. Placed /\ SocketTypeOK /\ Search!IInv /\ Received /\ calls \in 0..MaxCalls
  BY TypeParts, Available
<1>3. /\ state = "HostLookup" /\ ~Srv!Busy /\ calls # 0
      /\ sock # "connected" /\ sock # "closing" /\ sock # "connecting"
  BY <1>1, <1>2 DEF Placed
<1>4. arrived = taken /\ readBuf = <<>> /\ (sock # "none" => rbuf = <<>>)
  BY <1>3, NothingBefore
<1>5. Search!IInv'
  BY <1>1, <1>2, SearchLeftAlone
<1>6. ~Srv!Busy' /\ ~signal'
  BY <1>1, <1>3 DEF Srv!Busy, srvVars
<1>7. Received'
  BY <1>1, <1>2, <1>4 DEF Received, streamVars
<1>8. CASE attempt' = "none" /\ UNCHANGED <<state, sockVars>>
  <2>1. SocketTypeOK'
    BY <1>1, <1>2, <1>8 DEF SocketTypeOK, sockVars, streamVars
  <2>2. Placed'
    BY <1>1, <1>2, <1>3, <1>6, <1>8 DEF Placed, sockVars
  <2>3. ReadStreamIntact'
    BY <1>1, <1>2, <1>8, TypeParts DEF ReadStreamIntact, sockVars, streamVars
  <2> QED
    BY <1>5, <1>7, <2>1, <2>2, <2>3, TypeParts, PTL
<1>9. CASE state' = "Connecting" /\ DoConnect /\ UNCHANGED attempt
  <2>1. SocketTypeOK'
    <3>1. 0 \in 0..MaxBytes
      BY BSocketAssumption, SMT
    <3> QED
      BY <1>1, <1>2, <1>9, <3>1, EmptySeq DEF SocketTypeOK, DoConnect, streamVars
  <2>2. Placed'
    BY <1>1, <1>2, <1>3, <1>6, <1>9 DEF Placed, DoConnect
  <2>3. ReadStreamIntact'
    <3>1. arrived' = taken' /\ taken' \in Nat /\ readBuf' = <<>> /\ rbuf' = <<>>
      BY <1>1, <1>4, <1>9, Available DEF DoConnect, streamVars
    <3> QED
      BY <3>1, NothingToRead
  <2> QED
    BY <1>5, <1>7, <2>1, <2>2, <2>3, TypeParts, PTL
<1> QED
  BY <1>1, <1>8, <1>9

LEMMA QsConnectedIInv == IInv /\ QsConnected => IInv'
<1> SUFFICES ASSUME IInv, QsConnected PROVE IInv'
  OBVIOUS
<1>1. /\ ~signal /\ sock = "connecting" /\ sock' = "connected" /\ state' = "Connected"
      /\ attempt' = "none"
      /\ UNCHANGED <<srvVars, rbuf, unsent, streamVars, calls, readBuf, hostLookup>>
  BY DEF QsConnected
<1>2. Placed /\ SocketTypeOK /\ Search!IInv /\ Received /\ ReadStreamIntact /\ calls \in 0..MaxCalls
  BY TypeParts, Available
<1>3. ~Srv!Busy /\ ~hostLookup /\ calls # 0
  BY <1>1, <1>2 DEF Placed
<1>4. Search!IInv'
  BY <1>1, <1>2, SearchLeftAlone
<1>5. SocketTypeOK'
  BY <1>1, <1>2 DEF SocketTypeOK, streamVars
<1>6. Placed'
  BY <1>1, <1>2, <1>3 DEF Placed, srvVars, Srv!Busy
<1>7. Received' /\ ReadStreamIntact'
  BY <1>1, <1>2 DEF Received, ReadStreamIntact, streamVars
<1> QED
  BY <1>4, <1>5, <1>6, <1>7, TypeParts, PTL

\* reset() moves what is left to read to the local queue.
LEMMA ResetIInv ==
  ASSUME IInv, Reset, ~signal, sock # "none", UNCHANGED <<streamVars, calls>>,
         attempt' \in {"none", "host", "server"}
  PROVE  IInv'
<1>1. /\ sock' = "none" /\ rbuf' = <<>> /\ unsent' = 0 /\ readBuf' = readBuf \o rbuf
      /\ StopLookups /\ state' = "Idle"
  BY DEF Reset, DropSocket
<1>2. SocketTypeOK /\ Received /\ calls \in 0..MaxCalls
  BY TypeParts, Available
<1>3. readBuf = <<>> /\ rbuf = Stream(calls, taken, arrived - taken)
  BY Available
<1>4. readBuf' = rbuf
  BY <1>1, <1>2, <1>3, ConcatEmptySeq DEF SocketTypeOK
<1>5. Search!IInv' /\ ~Srv!Busy' /\ ~signal' /\ hostLookup' = FALSE
  BY <1>1, <1>2, StopLookupsStep
<1>6. SocketTypeOK'
  <2>1. 0 \in 0..MaxBytes
    BY BSocketAssumption, SMT
  <2> QED
    BY <1>1, <1>2, <1>4, <1>5, <2>1, EmptySeq DEF SocketTypeOK, streamVars
<1>7. Placed'
  BY <1>1, <1>5 DEF Placed
<1>8. Received'
  BY <1>1, <1>2 DEF Received, streamVars
<1>9. ReadStreamIntact'
  BY <1>1, <1>3, <1>4 DEF ReadStreamIntact, Stream, streamVars
<1> QED
  BY <1>5, <1>6, <1>7, <1>8, <1>9, TypeParts, PTL

LEMMA QsRefusedIInv == IInv /\ QsRefused => IInv'
<1> SUFFICES ASSUME IInv, QsRefused PROVE IInv'
  OBVIOUS
<1>1. ~signal /\ sock = "connecting" /\ UNCHANGED <<streamVars, calls>>
  BY DEF QsRefused
<1>2. Placed /\ SocketTypeOK /\ Search!IInv /\ Received /\ ReadStreamIntact /\ calls \in 0..MaxCalls
  BY TypeParts, Available
<1>3. ~hostLookup /\ calls # 0 /\ ~(unsent > 0)
  BY <1>1, <1>2 DEF Placed
<1>4. CASE state = "HostLookup"
  <2>1. /\ sock' = "idle" /\ Srv!NextServer
        /\ UNCHANGED <<rbuf, unsent, readBuf, hostLookup, state, attempt>>
    BY <1>4 DEF QsRefused
  <2>2. Search!IInv'
    BY <1>1, <1>2, <2>1, SearchAdvanced
  <2>3. ~signal'
    BY <1>1, <2>1 DEF Srv!NextServer
  <2>4. SocketTypeOK'
    BY <1>1, <1>2, <2>1 DEF SocketTypeOK, streamVars
  <2>5. Placed'
    BY <1>1, <1>2, <1>3, <1>4, <2>1, <2>3 DEF Placed
  <2>6. Received' /\ ReadStreamIntact'
    BY <1>1, <1>2, <2>1 DEF Received, ReadStreamIntact, streamVars
  <2> QED
    BY <2>2, <2>4, <2>5, <2>6, TypeParts, PTL
<1>5. CASE state # "HostLookup"
  <2>1. Reset /\ attempt' = "none"
    BY <1>5 DEF QsRefused
  <2> QED
    BY <1>1, <2>1, ResetIInv
<1> QED
  BY <1>4, <1>5

\* The byte that arrives is the next one of the stream.
LEMMA QsReadyReadIInv == IInv /\ QsReadyRead => IInv'
<1> SUFFICES ASSUME IInv, QsReadyRead PROVE IInv'
  OBVIOUS
<1> DEFINE left == arrived - taken
<1>1. /\ ~signal /\ sock = "connected" /\ arrived < MaxBytes
      /\ arrived' = arrived + 1
      /\ rbuf' = Append(rbuf, <<calls, arrived + 1>>)
      /\ UNCHANGED <<srvVars, sock, unsent, taken, calls, state, readBuf, hostLookup, attempt>>
  BY DEF QsReadyRead
<1>2. Placed /\ SocketTypeOK /\ Search!IInv /\ Received
  BY TypeParts
<1>3. /\ calls \in 0..MaxCalls /\ taken \in Nat /\ arrived \in Nat
      /\ left \in Nat /\ taken + left = arrived
      /\ rbuf = Stream(calls, taken, left) /\ readBuf = <<>>
  BY <1>1, Available
<1> HIDE DEF left
<1>4. arrived' - taken' = left + 1 /\ arrived' \in 0..MaxBytes /\ taken' <= arrived'
  BY <1>1, <1>3, BSocketAssumption, SMT
<1>5. rbuf' = Stream(calls, taken, left + 1)
  <2>1. \A c : Append(Stream(c, taken, left), <<c, (taken + left) + 1>>) = Stream(c, taken, left + 1)
    BY <1>3, StreamGrows
  <2> QED
    BY <1>1, <1>3, <2>1
<1>6. state = "Connected" /\ calls # 0
  BY <1>1, <1>2 DEF Placed
<1>7. rbuf' \in Seq(Bytes)
  <2>1. calls \in 1..MaxCalls /\ arrived + 1 \in 1..MaxBytes
    BY <1>1, <1>3, <1>6, BSocketAssumption, SMT
  <2>2. <<calls, arrived + 1>> \in Bytes
    BY <2>1 DEF Bytes
  <2>3. rbuf \in Seq(Bytes)
    BY <1>2 DEF SocketTypeOK
  <2> QED
    BY <1>1, <2>2, <2>3, AppendProperties
<1>8. Search!IInv'
  BY <1>1, <1>2, <1>3, SearchLeftAlone
<1>9. SocketTypeOK'
  BY <1>1, <1>2, <1>4, <1>7 DEF SocketTypeOK
<1>10. Placed'
  BY <1>1, <1>2 DEF Placed, srvVars, Srv!Busy
<1>11. Received'
  BY <1>1, <1>4, <1>6 DEF Received
<1>12. ReadStreamIntact'
  BY <1>1, <1>3, <1>4, <1>5 DEF ReadStreamIntact, Stream
<1> QED
  BY <1>8, <1>9, <1>10, <1>11, <1>12, TypeParts, PTL

LEMMA QsBytesWrittenIInv == IInv /\ QsBytesWritten => IInv'
<1> SUFFICES ASSUME IInv, QsBytesWritten PROVE IInv'
  OBVIOUS
<1>1. ~signal /\ unsent > 0 /\ UNCHANGED <<streamVars, calls, attempt>>
  BY DEF QsBytesWritten
<1>2. Placed /\ SocketTypeOK /\ Search!IInv /\ Received /\ ReadStreamIntact /\ calls \in 0..MaxCalls
  BY TypeParts, Available
<1>3. sock \in {"connected", "closing"}
  BY <1>1, <1>2 DEF Placed
<1>4. CASE /\ unsent' = unsent - 1
           /\ UNCHANGED <<srvVars, sock, rbuf, state, readBuf, hostLookup>>
  <2>1. unsent' \in 0..MaxBytes
    BY <1>1, <1>2, <1>4, BSocketAssumption, SMT DEF SocketTypeOK
  <2>2. Search!IInv'
    BY <1>1, <1>2, <1>4, SearchLeftAlone
  <2>3. SocketTypeOK'
    BY <1>1, <1>2, <1>4, <2>1 DEF SocketTypeOK, streamVars
  <2>4. Placed'
    BY <1>1, <1>2, <1>3, <1>4 DEF Placed, srvVars, Srv!Busy
  <2>5. Received' /\ ReadStreamIntact'
    BY <1>1, <1>2, <1>4 DEF Received, ReadStreamIntact, streamVars
  <2> QED
    BY <2>2, <2>3, <2>4, <2>5, TypeParts, PTL
<1>5. CASE Reset
  <2>1. attempt' \in {"none", "host", "server"}
    BY <1>1, <1>2 DEF SocketTypeOK
  <2> QED
    BY <1>1, <1>3, <1>5, <2>1, ResetIInv
<1> QED
  BY <1>4, <1>5 DEF QsBytesWritten

LEMMA QsConnectionClosedIInv == IInv /\ QsConnectionClosed => IInv'
<1> SUFFICES ASSUME IInv, QsConnectionClosed PROVE IInv'
  OBVIOUS
<1>1. /\ ~signal /\ sock # "none" /\ Reset /\ UNCHANGED <<streamVars, calls, attempt>>
  BY DEF QsConnectionClosed
<1>2. attempt' \in {"none", "host", "server"}
  BY <1>1, TypeParts DEF SocketTypeOK
<1> QED
  BY <1>1, <1>2, ResetIInv

LEMMA NextIInv == IInv /\ [Next]_vars => IInv'
<1> SUFFICES ASSUME IInv, [Next]_vars PROVE IInv'
  OBVIOUS
<1>1. CASE Program
  <2>1. CASE ConnectToHost \/ ConnectToServer \/ SetSocket
    BY <2>1, ConnectToHostIInv, ConnectToServerIInv, SetSocketIInv
  <2>2. CASE Close \/ Write
    BY <2>2, CloseIInv, WriteIInv
  <2>3. ASSUME NEW n \in 0..MaxBytes, Read(n) PROVE IInv'
    BY <2>3, ReadIInv
  <2> QED
    BY <1>1, <2>1, <2>2, <2>3 DEF Program
<1>2. CASE Event
  <2>1. CASE SrvReply \/ SrvLookup \/ SrvTimeout \/ SrvDone
    BY <2>1, SearchSlotsIInv, SrvDoneIInv
  <2>2. ASSUME NEW found \in BOOLEAN, NdnsDone(found) PROVE IInv'
    BY <2>2, NdnsDoneIInv
  <2>3. CASE QsConnected \/ QsRefused \/ QsReadyRead \/ QsBytesWritten \/ QsConnectionClosed
    BY <2>3, QsConnectedIInv, QsRefusedIInv, QsReadyReadIInv, QsBytesWrittenIInv,
       QsConnectionClosedIInv
  <2> QED
    BY <1>2, <2>1, <2>2, <2>3 DEF Event
<1>3. CASE UNCHANGED vars
  <2>1. /\ UNCHANGED <<srvVars, sockVars, streamVars, calls, state, readBuf, hostLookup, attempt>>
    BY <1>3 DEF vars
  <2>2. SocketTypeOK /\ Placed /\ Search!IInv /\ Received /\ ReadStreamIntact /\ calls \in 0..MaxCalls
    BY TypeParts, Available
  <2>3. Search!IInv'
    BY <2>1, <2>2, SearchLeftAlone
  <2>4. SocketTypeOK'
    BY <2>1, <2>2 DEF SocketTypeOK, sockVars, streamVars
  <2>5. Placed'
    BY <2>1, <2>2 DEF Placed, sockVars, srvVars, Srv!Busy
  <2>6. Received' /\ ReadStreamIntact'
    BY <2>1, <2>2 DEF Received, ReadStreamIntact, sockVars, streamVars
  <2> QED
    BY <2>3, <2>4, <2>5, <2>6, TypeParts, PTL
<1> QED
  BY <1>1, <1>2, <1>3 DEF Next

-----------------------------------------------------------------------------
(* The theorems.                                                           *)

\* The inductive invariant: the search's own, and which socket, lookup and
\* search each state has.
THEOREM InductiveInvariant == Spec => []IInv
<1>1. Init => IInv
  BY InitIInv
<1>2. IInv /\ [Next]_vars => IInv'
  BY NextIInv
<1> QED
  BY <1>1, <1>2, PTL DEF Spec

\* Every variable keeps its type; no byte is one that was never sent.
THEOREM TypeCorrect == Spec => []TypeOK
<1>1. IInv => TypeOK
  BY DEF IInv
<1> QED
  BY <1>1, InductiveInvariant, PTL

\* The program reads the stream of its own connection, in order and without a
\* gap, across reset()'s move of the data to the local queue.
THEOREM StreamIsIntact == Spec => []ReadStreamIntact
<1>1. IInv => ReadStreamIntact
  BY DEF IInv
<1> QED
  BY <1>1, InductiveInvariant, PTL

\* An idle stream has no socket, no lookup and no search, and none of their
\* signals is being emitted.
THEOREM IdleStreamIsQuiet == Spec => []IdleIsQuiet
<1>1. IInv => IdleIsQuiet
  BY DEF IInv, Placed, IdleIsQuiet
<1> QED
  BY <1>1, InductiveInvariant, PTL

\* The search in the socket goes through the servers in order, whatever the
\* socket does with it.
THEOREM EmbeddedSearchInOrder == Spec => [](Srv!ServersInOrder /\ Srv!TimerCoversQuery)
<1>1. IInv => Search!ServersInOrder /\ Search!TimerCoversQuery
  BY DEF IInv, Search!IInv
<1>2. Search!ServersInOrder => Srv!ServersInOrder
  BY DEF Srv!ServersInOrder, Search!ServersInOrder, Srv!Before, Search!Before, Srv!ToSet, Search!ToSet
<1>3. Search!TimerCoversQuery => Srv!TimerCoversQuery
  BY DEF Srv!TimerCoversQuery, Search!TimerCoversQuery
<1> QED
  BY <1>1, <1>2, <1>3, InductiveInvariant, PTL

=============================================================================
