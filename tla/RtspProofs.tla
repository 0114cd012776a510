----------------------------- MODULE RtspProofs -----------------------------
(***************************************************************************)
(* Proofs about RtspSession, for any offers, ports and number of requests: *)
(* every request gets to the server, once and in order; allocation finds   *)
(* the first range of ports that is free, whatever is taken; no port is    *)
(* held twice; what is forwarded of a SETUP and of its answer is the text  *)
(* that came in but for the ports; those are the proxy's; and the media    *)
(* goes both ways between the ports that client and server named.          *)
(*                                                                         *)
(* For the last three, the texts of Transport headers are shown to be read *)
(* as transports whose ports are numbers, a regular one to be written      *)
(* again as it was read, and what the code writes to be read back.         *)
(***************************************************************************)
EXTENDS RtspSession, SequenceTheorems, WellFoundedInduction, TLAPS

-----------------------------------------------------------------------------
(* Allocation.                                                             *)

Less == {ss \in Nat \X Nat : ss[1] < ss[2]}

\* A set of numbers has a least one.
LEMMA LeastNumber ==
  ASSUME NEW T \in SUBSET Nat, T # {}
  PROVE  \E m \in T : \A n \in T : m <= n
<1>1. IsWellFoundedOn(Less, Nat)
  BY NatLessThanWellFounded DEF OpToRel, Less
<1>2. PICK m \in T : \A n \in T : ~(<<n, m>> \in Less)
  BY <1>1, WFMin, Zenon
<1>3. ASSUME NEW n \in T PROVE m <= n
  <2>1. m \in Nat /\ n \in Nat /\ ~(<<n, m>> \in Less)
    BY <1>2
  <2>2. ~(n < m)
    BY <2>1 DEF Less
  <2> QED BY <2>1, <2>2, SMT
<1> QED BY <1>3

\* It is what Min() chooses.
LEMMA MinIsLeast ==
  ASSUME NEW T \in SUBSET Nat, T # {}
  PROVE  Min(T) \in T /\ \A n \in T : Min(T) <= n
BY LeastNumber, Zenon DEF Min

\* Nothing else is.
LEMMA MinIs ==
  ASSUME NEW T \in SUBSET Nat, NEW m \in T, \A n \in T : m <= n
  PROVE  Min(T) = m
<1>1. Min(T) \in T /\ Min(T) <= m
  BY MinIsLeast
<1>2. Min(T) \in Nat /\ m \in Nat /\ m <= Min(T)
  BY <1>1
<1> QED BY <1>1, <1>2, SMT

\* The starts from s on at which `count' ports are free.
FreeStarts(s, count, used) ==
  {b \in s..(PORT_ALLOC_MAX - count + 1) : Ports([base |-> b, count |-> count]) \cap used = {}}

FirstFit(s, count, used) ==
  LET free == FreeStarts(s, count, used)
  IN  IF free = {} THEN None ELSE [base |-> Min(free), count |-> count]

Refused(s, count, used) == {p \in Ports([base |-> s, count |-> count]) : p \in used}

\* What one turn of the scan does with start s.
Scan(f, s, count, used) ==
  IF s + count - 1 > PORT_ALLOC_MAX THEN None
  ELSE IF Refused(s, count, used) = {} THEN [base |-> s, count |-> count]
  ELSE f[Min(Refused(s, count, used)) + 1]

\* The scan goes on behind the first port that is refused: no start up to it is free.
LEMMA ScanGoesOn ==
  ASSUME NEW s \in Nat, NEW count \in Nat, NEW used,
         ~(s + count - 1 > PORT_ALLOC_MAX), Refused(s, count, used) # {}
  PROVE  LET p == Min(Refused(s, count, used))
         IN  p \in Nat /\ p >= s /\ FirstFit(p + 1, count, used) = FirstFit(s, count, used)
<1> DEFINE r == Refused(s, count, used)
           p == Min(r)
<1>1. Ports([base |-> s, count |-> count]) = s..(s + count - 1)
  BY DEF Ports
<1>2. r \in SUBSET Nat
  BY <1>1, SMT DEF Refused
<1>3. p \in r
  BY <1>2, MinIsLeast, Zenon
<1>4. p \in used /\ p \in s..(s + count - 1) /\ p \in Nat /\ p >= s
  BY <1>1, <1>3, SMT DEF Refused
<1> HIDE DEF p, r
<1>5. FreeStarts(p + 1, count, used) = FreeStarts(s, count, used)
  <2>1. \A b : b \in FreeStarts(p + 1, count, used) => b \in FreeStarts(s, count, used)
    BY <1>4, AltPortsAssumption, SMT DEF FreeStarts
  <2>2. ASSUME NEW b \in FreeStarts(s, count, used)
        PROVE  b \in FreeStarts(p + 1, count, used)
    <3>1. /\ b \in s..(PORT_ALLOC_MAX - count + 1)
          /\ Ports([base |-> b, count |-> count]) \cap used = {}
      BY <2>2 DEF FreeStarts
    <3>2. Ports([base |-> b, count |-> count]) = b..(b + count - 1)
      BY DEF Ports
    <3>3. p \notin b..(b + count - 1)
      BY <1>4, <3>1, <3>2
    <3>4. b \in (p + 1)..(PORT_ALLOC_MAX - count + 1)
      BY <1>4, <3>1, <3>3, AltPortsAssumption, SMT
    <3> QED BY <3>1, <3>4 DEF FreeStarts
  <2> QED BY <2>1, <2>2
<1> QED BY <1>4, <1>5 DEF FirstFit, p, r

\* FirstFit() does what the scan does at each start.
LEMMA FirstFitScans ==
  ASSUME NEW s \in Nat, NEW count \in Nat, NEW used, NEW f,
         \A q \in Nat : q > s => f[q] = FirstFit(q, count, used)
  PROVE  Scan(f, s, count, used) = FirstFit(s, count, used)
<1>1. CASE s + count - 1 > PORT_ALLOC_MAX
  <2>1. FreeStarts(s, count, used) = {}
    BY <1>1, AltPortsAssumption, SMT DEF FreeStarts
  <2> QED BY <1>1, <2>1 DEF FirstFit, Scan
<1>2. CASE ~(s + count - 1 > PORT_ALLOC_MAX) /\ Refused(s, count, used) = {}
  <2> DEFINE free == FreeStarts(s, count, used)
  <2>1. s \in s..(PORT_ALLOC_MAX - count + 1)
    BY <1>2, AltPortsAssumption, SMT
  <2>2. s \in free
    BY <1>2, <2>1 DEF FreeStarts, Refused
  <2>3. free \in SUBSET Nat /\ \A b \in free : s <= b
    BY AltPortsAssumption, SMT DEF FreeStarts
  <2>4. Min(free) = s
    BY <2>2, <2>3, MinIs, Zenon
  <2> QED BY <1>2, <2>2, <2>4 DEF FirstFit, Scan
<1>3. CASE ~(s + count - 1 > PORT_ALLOC_MAX) /\ Refused(s, count, used) # {}
  <2> DEFINE p == Min(Refused(s, count, used))
  <2>1. p \in Nat /\ p >= s /\ FirstFit(p + 1, count, used) = FirstFit(s, count, used)
    BY <1>3, ScanGoesOn
  <2> HIDE DEF p
  <2>2. p + 1 \in Nat /\ p + 1 > s
    BY <2>1, SMT
  <2>3. f[p + 1] = FirstFit(s, count, used)
    BY <2>1, <2>2
  <2> QED BY <1>3, <2>3 DEF Scan, p
<1> QED BY <1>1, <1>2, <1>3

\* The scan has one value at each start, which is that.
LEMMA ScanIsFirstFit ==
  ASSUME NEW count \in Nat, NEW used, NEW f, f = [s \in Nat |-> Scan(f, s, count, used)]
  PROVE  \A s \in Nat : f[s] = FirstFit(s, count, used)
<1> DEFINE m == PORT_ALLOC_MAX + 1
           Wrong(s) == f[s] # FirstFit(s, count, used)
           T == {k \in Nat : \E s \in Nat : k + s = m /\ Wrong(s)}
<1>1. m \in Nat
  BY AltPortsAssumption, SMT
<1>2. \A s \in Nat : f[s] = Scan(f, s, count, used)
  OBVIOUS
<1>3. ASSUME NEW s \in Nat, s > m PROVE ~Wrong(s)
  <2>1. s + count - 1 > PORT_ALLOC_MAX
    BY <1>1, <1>3, AltPortsAssumption, SMT
  <2>2. FreeStarts(s, count, used) = {}
    BY <2>1, AltPortsAssumption, SMT DEF FreeStarts
  <2> QED BY <1>2, <2>1, <2>2 DEF FirstFit, Scan
<1> SUFFICES ASSUME NEW s0 \in Nat, Wrong(s0) PROVE FALSE
  OBVIOUS
<1>4. T # {}
  <2>1. s0 <= m
    BY <1>1, <1>3, SMT
  <2>2. m - s0 \in Nat /\ (m - s0) + s0 = m
    BY <1>1, <2>1, SMT
  <2> QED BY <2>2
<1>5. PICK k \in T : \A j \in T : k <= j
  BY <1>4, LeastNumber, Zenon
<1>6. PICK s \in Nat : k + s = m /\ Wrong(s)
  BY <1>5
<1>7. ASSUME NEW q \in Nat, q > s PROVE f[q] = FirstFit(q, count, used)
  <2> SUFFICES ASSUME Wrong(q) PROVE FALSE
    OBVIOUS
  <2>1. q <= m
    BY <1>1, <1>3, SMT
  <2>2. k \in Nat /\ m - q \in Nat /\ (m - q) + q = m /\ m - q < k
    BY <1>1, <1>5, <1>6, <1>7, <2>1, SMT
  <2>3. m - q \in T
    BY <2>2
  <2>4. k <= m - q
    BY <1>5, <2>3
  <2> QED BY <2>2, <2>4, SMT
<1>8. Scan(f, s, count, used) = FirstFit(s, count, used)
  BY <1>7, FirstFitScans
<1> QED BY <1>2, <1>6, <1>8

\* allocate() without a base, for any number of ports and whatever is taken: the
\* first range that is free, or none when there is none.
THEOREM AllocateIsFirstFit ==
  ASSUME NEW count \in Nat, NEW used
  PROVE  Allocate(count, used) = FirstFit(PORT_ALLOC_BASE, count, used)
<1> DEFINE first == [s \in Nat |-> FirstFit(s, count, used)]
           IsScan(f) == f = [s \in Nat |-> Scan(f, s, count, used)]
           scan == CHOOSE f : IsScan(f)
<1>1. IsScan(first)
  <2>1. \A q \in Nat : first[q] = FirstFit(q, count, used)
    OBVIOUS
  <2> HIDE DEF first
  <2>2. \A s \in Nat : Scan(first, s, count, used) = FirstFit(s, count, used)
    BY <2>1, FirstFitScans
  <2> QED BY <2>2 DEF first
<1>2. IsScan(scan)
  BY <1>1, Zenon
<1>3. scan[PORT_ALLOC_BASE] = FirstFit(PORT_ALLOC_BASE, count, used)
  <2> HIDE DEF scan
  <2> QED BY <1>2, ScanIsFirstFit, AltPortsAssumption
<1>4. Allocate(count, used) = scan[PORT_ALLOC_BASE]
  BY Zenon DEF Allocate, Scan, Refused
<1> QED BY <1>3, <1>4

-----------------------------------------------------------------------------
(* Requests.                                                               *)

IsSeq(s) == \E S : s \in Seq(S)

\* s holds the n requests there have been, in their order.
InOrder(s, n) == Len(s) = n /\ \A i \in DOMAIN s : s[i].number = i

\* Until the server is asked for, nothing has come; while it is being connected, what
\* has come is kept, and after that it has been sent: but for a second request of
\* the time between.
Requested ==
  /\ IsSeq(requests) /\ IsSeq(sent) /\ IsSeq(cpackets)
  /\ server \in {"none", "connecting", "open"}
  /\ client = "listen" => server = "none"
  /\ server = "none" /\ client # "gone" => requests = <<>> /\ sent = <<>> /\ cpackets = <<>>
  /\ server = "connecting" /\ ~rushed => sent = <<>> /\ InOrder(cpackets, Len(requests))
  /\ server = "open" /\ ~rushed => cpackets = <<>> /\ InOrder(sent, Len(requests))

\* Append, for sequences of anything.
LEMMA Appended ==
  ASSUME NEW s, IsSeq(s), NEW e
  PROVE  /\ IsSeq(Append(s, e)) /\ Len(Append(s, e)) = Len(s) + 1
         /\ DOMAIN Append(s, e) = 1..(Len(s) + 1) /\ DOMAIN s = 1..Len(s) /\ Len(s) \in Nat
         /\ \A i \in 1..Len(s) : Append(s, e)[i] = s[i]
         /\ Append(s, e)[Len(s) + 1] = e
<1>1. PICK S : s \in Seq(S)
  BY DEF IsSeq
<1> DEFINE T == S \cup {e}
<1>2. s \in Seq(T) /\ e \in T
  <2>1. Len(s) \in Nat /\ s \in [1..Len(s) -> T]
    BY <1>1, LenProperties, SMT
  <2> QED BY <2>1, SeqDef
<1> HIDE DEF T
<1>3. Append(s, e) \in Seq(T)
  BY <1>2, AppendProperties
<1> QED BY <1>2, <1>3, AppendProperties, LenProperties DEF IsSeq

\* So are two sequences, one after the other.
LEMMA Joined ==
  ASSUME NEW s, IsSeq(s), NEW t, IsSeq(t)
  PROVE  IsSeq(s \o t)
<1>1. PICK S, T : s \in Seq(S) /\ t \in Seq(T)
  BY DEF IsSeq
<1> DEFINE U == S \cup T
<1>2. s \in Seq(U)
  <2>1. Len(s) \in Nat /\ s \in [1..Len(s) -> U]
    BY <1>1, LenProperties, SMT
  <2> QED BY <2>1, SeqDef
<1>3. t \in Seq(U)
  <2>1. Len(t) \in Nat /\ t \in [1..Len(t) -> U]
    BY <1>1, LenProperties, SMT
  <2> QED BY <2>1, SeqDef
<1> HIDE DEF U
<1>4. s \o t \in Seq(U)
  BY <1>2, <1>3, ConcatProperties
<1> QED BY <1>4 DEF IsSeq

\* So is the empty one.
LEMMA EmptyIsSeq == IsSeq(<<>>) /\ Len(<<>>) = 0 /\ DOMAIN <<>> = {}
<1>1. <<>> \in Seq({})
  BY EmptySeq
<1> QED BY <1>1, EmptySeq, SMT DEF IsSeq

\* What two sequences are, one after the other.
LEMMA JoinedIs ==
  ASSUME NEW s, IsSeq(s), NEW t, IsSeq(t)
  PROVE  /\ DOMAIN (s \o t) = 1..(Len(s) + Len(t)) /\ DOMAIN s = 1..Len(s) /\ DOMAIN t = 1..Len(t)
         /\ Len(s) \in Nat /\ Len(t) \in Nat
         /\ \A i \in 1..(Len(s) + Len(t)) : (s \o t)[i] = IF i <= Len(s) THEN s[i] ELSE t[i - Len(s)]
<1>1. PICK S, T : s \in Seq(S) /\ t \in Seq(T)
  BY DEF IsSeq
<1> DEFINE U == S \cup T
<1>2. s \in Seq(U)
  <2>1. Len(s) \in Nat /\ s \in [1..Len(s) -> U]
    BY <1>1, LenProperties, SMT
  <2> QED BY <2>1, SeqDef
<1>3. t \in Seq(U)
  <2>1. Len(t) \in Nat /\ t \in [1..Len(t) -> U]
    BY <1>1, LenProperties, SMT
  <2> QED BY <2>1, SeqDef
<1> HIDE DEF U
<1>4. /\ s \o t \in Seq(U) /\ Len(s \o t) = Len(s) + Len(t)
      /\ \A i \in 1..(Len(s) + Len(t)) : (s \o t)[i] = IF i <= Len(s) THEN s[i] ELSE t[i - Len(s)]
  BY <1>2, <1>3, ConcatProperties
<1> QED BY <1>2, <1>3, <1>4, LenProperties

\* Nothing comes in front.
LEMMA EmptyJoined ==
  ASSUME NEW s, IsSeq(s)
  PROVE  <<>> \o s = s
<1>1. PICK S : s \in Seq(S)
  BY DEF IsSeq
<1> QED BY <1>1, ConcatEmptySeq

\* The next request keeps the order.
LEMMA AppendInOrder ==
  ASSUME NEW s, IsSeq(s), NEW n \in Nat, InOrder(s, n), NEW e, e.number = n + 1
  PROVE  InOrder(Append(s, e), n + 1)
<1>1. /\ Len(s) = n /\ DOMAIN s = 1..n /\ Len(Append(s, e)) = n + 1
      /\ DOMAIN Append(s, e) = 1..(n + 1)
      /\ \A i \in 1..n : Append(s, e)[i] = s[i]
      /\ Append(s, e)[n + 1] = e
  BY Appended DEF InOrder
<1>2. ASSUME NEW i \in 1..(n + 1) PROVE Append(s, e)[i].number = i
  <2>1. CASE i = n + 1
    BY <1>1, <2>1
  <2>2. CASE i # n + 1
    <3>1. i \in 1..n
      BY <2>2, SMT
    <3> QED BY <1>1, <3>1 DEF InOrder
  <2> QED BY <2>1, <2>2
<1> QED BY <1>1, <1>2 DEF InOrder

\* A request of the client is kept or sent, with all that was kept.
LEMMA ForwardStep ==
  ASSUME Requested, NEW packet, NEW request, client = "open", client' = client,
         requests' = Append(requests, request), packet.number = Len(requests'), Forward(packet)
  PROVE  Requested'
<1> DEFINE n == Len(requests)
<1>1. IsSeq(requests') /\ n \in Nat /\ Len(requests') = n + 1 /\ packet.number = n + 1
  BY Appended DEF Requested
<1>2. IsSeq(cpackets) /\ IsSeq(sent) /\ IsSeq(<<>>) /\ IsSeq(Append(cpackets, packet))
  BY Appended, EmptyIsSeq DEF Requested
<1>3. InOrder(<<>>, 0)
  BY EmptyIsSeq DEF InOrder
<1>4. CASE server = "none"
  <2>1. /\ server' = "connecting" /\ cpackets' = Append(cpackets, packet) /\ sent' = sent
        /\ rushed' = rushed
    BY <1>4 DEF Forward
  <2>2. requests = <<>> /\ sent = <<>> /\ cpackets = <<>> /\ n = 0
    BY <1>4, EmptyIsSeq DEF Requested
  <2>3. InOrder(cpackets', n + 1)
    BY <1>1, <1>2, <1>3, <2>1, <2>2, AppendInOrder
  <2> QED BY <1>1, <1>2, <2>1, <2>2, <2>3 DEF Requested
<1>5. CASE server # "none"
  <2>1. /\ server' = server /\ cpackets' = <<>>
        /\ sent' = IF server = "open" THEN sent \o Append(cpackets, packet) ELSE sent
        /\ rushed' = (rushed \/ server = "connecting")
    BY <1>5 DEF Forward, SendPackets
  <2>2. IsSeq(sent')
    BY <1>2, <2>1, Joined
  <2>3. server \in {"connecting", "open"}
    BY <1>5 DEF Requested
  <2>4. ASSUME server = "open", ~rushed'
        PROVE  InOrder(sent', n + 1)
    <3>1. cpackets = <<>> /\ InOrder(sent, n)
      BY <2>1, <2>4 DEF Requested
    <3>2. Append(cpackets, packet) = <<packet>>
      BY <3>1
    <3>3. sent \o <<packet>> = Append(sent, packet)
      <4>1. PICK S : sent \in Seq(S)
        BY <1>2 DEF IsSeq
      <4> DEFINE T == S \cup {packet}
      <4>2. sent \in Seq(T) /\ packet \in T
        <5>1. Len(sent) \in Nat /\ sent \in [1..Len(sent) -> T]
          BY <4>1, LenProperties, SMT
        <5> QED BY <5>1, SeqDef
      <4> HIDE DEF T
      <4> QED BY <4>2, AppendIsConcat
    <3> QED BY <1>1, <1>2, <2>1, <2>4, <3>1, <3>2, <3>3, AppendInOrder
  <2> QED BY <1>1, <1>2, <2>1, <2>2, <2>3, <2>4 DEF Requested
<1> QED BY <1>4, <1>5

\* Every step keeps the requests in order.
LEMMA RequestedStep ==
  ASSUME Requested, [Next]_vars
  PROVE  Requested'
<1>1. CASE UNCHANGED vars
  BY <1>1 DEF Requested, IsSeq, InOrder, vars, sessionVars, histVars
<1>2. CASE LocalIncomingReady
  BY <1>2 DEF LocalIncomingReady, Requested, IsSeq, InOrder, histVars
<1>3. ASSUME NEW offer \in Offers, ClientSetup(offer) PROVE Requested'
  <2>1. PICK list \in {transports(offer)} : \E pl \in {GetPorts(list, "client_port")} :
          /\ requests' = Append(requests, [text |-> offer, ports |-> pl])
          /\ \E text \in {ListText(SetPorts(list, "client_port", cAlt'))} :
             \E read \in {transports(text)} :
               Forward([number |-> Len(requests'), setup |-> TRUE, text |-> text, list |-> read])
    BY <1>3, Zenon DEF ClientSetup
  <2>2. PICK pl \in {GetPorts(list, "client_port")} :
          /\ requests' = Append(requests, [text |-> offer, ports |-> pl])
          /\ \E text \in {ListText(SetPorts(list, "client_port", cAlt'))} :
             \E read \in {transports(text)} :
               Forward([number |-> Len(requests'), setup |-> TRUE, text |-> text, list |-> read])
    BY <2>1, Zenon
  <2>3. PICK text, read :
               Forward([number |-> Len(requests'), setup |-> TRUE, text |-> text, list |-> read])
    BY <2>2, Zenon
  <2>4. client = "open" /\ client' = client
    BY <1>3 DEF ClientSetup
  <2> DEFINE packet == [number |-> Len(requests'), setup |-> TRUE, text |-> text, list |-> read]
  <2>5. packet.number = Len(requests') /\ Forward(packet)
    BY <2>3
  <2> HIDE DEF packet
  <2> QED BY <2>2, <2>4, <2>5, ForwardStep
<1>4. CASE ClientRequest
  <2> DEFINE packet == [number |-> Len(requests'), setup |-> FALSE, text |-> <<>>, list |-> <<>>]
  <2>1. packet.number = Len(requests') /\ Forward(packet)
    BY <1>4 DEF ClientRequest
  <2>2. /\ client = "open" /\ client' = client
        /\ requests' = Append(requests, [text |-> <<>>, ports |-> <<>>])
    BY <1>4 DEF ClientRequest
  <2> HIDE DEF packet
  <2> QED BY <2>1, <2>2, ForwardStep
<1>5. CASE ClientGone
  BY <1>5 DEF ClientGone, Requested, IsSeq, InOrder, histVars
<1>6. CASE ServerConnected
  <2>1. /\ server = "connecting" /\ server' = "open" /\ cpackets' = <<>>
        /\ sent' = sent \o cpackets
        /\ client' = client /\ requests' = requests /\ rushed' = rushed
    BY <1>6 DEF ServerConnected, SendPackets
  <2>2. IsSeq(sent') /\ IsSeq(cpackets') /\ IsSeq(cpackets)
    BY <2>1, Joined, EmptyIsSeq DEF Requested
  <2>3. ~rushed => sent' = cpackets
    BY <2>1, <2>2, EmptyJoined DEF Requested
  <2> QED BY <2>1, <2>2, <2>3 DEF Requested, IsSeq, InOrder
<1>7. CASE ServerGone
  BY <1>7 DEF ServerGone, Requested, IsSeq, InOrder, histVars
<1>8. CASE ServerAnswer
  BY <1>8 DEF ServerAnswer, Requested, IsSeq, InOrder, histVars, sessionVars
<1>9. ASSUME NEW k \in 1..3, NEW count \in 1..PORT_ALLOC_MAX, ServerSetupAnswer(k, count)
      PROVE  Requested'
  <2>1. UNCHANGED <<sessionVars, requests, sent, rushed>>
    BY <1>9, Zenon DEF ServerSetupAnswer
  <2> QED BY <2>1 DEF Requested, IsSeq, InOrder, sessionVars
<1> QED BY <1>1, <1>2, <1>3, <1>4, <1>5, <1>6, <1>7, <1>8, <1>9 DEF Next

-----------------------------------------------------------------------------
(* Folds.                                                                  *)

\* Induction, for a set of numbers.
LEMMA InductionOnSet ==
  ASSUME NEW T \in SUBSET Nat, 0 \in T, \A n \in Nat : n \in T => n + 1 \in T
  PROVE  \A n \in Nat : n \in T
<1> SUFFICES ASSUME Nat \ T # {} PROVE FALSE
  OBVIOUS
<1>1. PICK m \in Nat \ T : \A n \in Nat \ T : m <= n
  BY LeastNumber, Zenon
<1>2. m - 1 \in Nat
  BY <1>1, SMT
<1>3. m - 1 \in T
  BY <1>1, <1>2, SMT
<1> QED BY <1>1, <1>2, <1>3, SMT

\* What Max() chooses.
LEMMA MaxIsGreatest ==
  ASSUME NEW n \in Nat, NEW T \in SUBSET (1..n), T # {}
  PROVE  Max(T) \in T /\ \A i \in T : i <= Max(T)
<1> DEFINE U == {k \in Nat : \E i \in T : k + i = n}
<1>1. U # {}
  <2>1. PICK i \in T : TRUE
    OBVIOUS
  <2>2. n - i \in Nat /\ (n - i) + i = n
    BY <2>1, SMT
  <2> QED BY <2>1, <2>2
<1>2. PICK k \in U : \A j \in U : k <= j
  BY <1>1, LeastNumber, Zenon
<1>3. PICK m \in T : k + m = n
  BY <1>2
<1>4. \A i \in T : m >= i /\ i \in Int
  <2> TAKE i \in T
  <2>1. n - i \in Nat /\ (n - i) + i = n /\ i \in Int /\ m \in Int /\ k \in Nat
    BY <1>3, SMT
  <2>2. n - i \in U
    BY <2>1
  <2>3. k <= n - i
    BY <1>2, <2>2
  <2> QED BY <1>3, <2>1, <2>3, SMT
<1>5. Max(T) \in T /\ \A i \in T : Max(T) >= i
  BY <1>3, <1>4, Zenon DEF Max
<1> QED BY <1>5, SMT

\* A set that reaches to k + 1 has it as its maximum.
LEMMA LastIsMax ==
  ASSUME NEW k \in Nat, NEW T \in SUBSET (1..(k + 1)), k + 1 \in T
  PROVE  Max(T) = k + 1
<1>1. T # {} /\ k + 1 \in Nat
  BY SMT
<1>2. Max(T) \in T /\ \A i \in T : i <= Max(T)
  BY <1>1, MaxIsGreatest
<1>3. Max(T) \in 1..(k + 1) /\ k + 1 <= Max(T)
  BY <1>2
<1> QED BY <1>3, SMT

\* A prefix without its maximum is the prefix before.
LEMMA MaxOfPrefix ==
  ASSUME NEW k \in Nat
  PROVE  Max(1..(k + 1)) = k + 1 /\ (1..(k + 1)) \ {k + 1} = 1..k /\ 1..(k + 1) # {}
<1>1. k + 1 \in 1..(k + 1)
  BY SMT
<1>2. (1..(k + 1)) \ {k + 1} = 1..k
  BY SMT
<1> QED BY <1>1, <1>2, LastIsMax

\* What a fold over 1..n gives for each subset, if a step is G.
FoldOf(f, b, G, n) ==
  f = [S \in SUBSET (1..n) |-> IF S = {} THEN b ELSE G[<<f[S \ {Max(S)}], Max(S)>>]]

\* There is such a function, with values in X.
LEMMA FoldSolved ==
  ASSUME NEW n \in Nat, NEW X, NEW b \in X, NEW G \in [X \X (1..n) -> X]
  PROVE  \E f \in [SUBSET (1..n) -> X] : FoldOf(f, b, G, n)
<1> DEFINE Solved(m) == \E f \in [SUBSET (1..m) -> X] : FoldOf(f, b, G, m)
           T == {m \in Nat : m <= n => Solved(m)}
<1>1. 0 \in T
  <2> DEFINE f == [S \in SUBSET (1..0) |-> b]
  <2>1. \A S \in SUBSET (1..0) : S = {}
    BY SMT
  <2>2. f = [S \in SUBSET (1..0) |-> IF S = {} THEN b ELSE G[<<f[S \ {Max(S)}], Max(S)>>]]
    BY <2>1
  <2>3. FoldOf(f, b, G, 0) /\ f \in [SUBSET (1..0) -> X]
    BY <2>2 DEF FoldOf
  <2> HIDE DEF f
  <2> QED BY <2>3
<1>2. ASSUME NEW m \in Nat, m \in T PROVE m + 1 \in T
  <2> SUFFICES ASSUME m + 1 <= n PROVE Solved(m + 1)
    <3> HIDE DEF Solved
    <3>1. m + 1 \in Nat
      BY SMT
    <3> QED BY <3>1
  <2>1. m <= n /\ m + 1 \in 1..n
    BY <1>2, SMT
  <2>2. PICK f \in [SUBSET (1..m) -> X] : FoldOf(f, b, G, m)
    BY <1>2, <2>1
  <2> DEFINE g == [S \in SUBSET (1..(m + 1)) |->
                     IF m + 1 \in S THEN G[<<f[S \ {m + 1}], m + 1>>] ELSE f[S]]
  <2>3. ASSUME NEW S \in SUBSET (1..(m + 1))
        PROVE  /\ m + 1 \notin S => S \in SUBSET (1..m)
               /\ S \ {m + 1} \in SUBSET (1..m)
               /\ m + 1 \in S => Max(S) = m + 1
    <3>1. m + 1 \notin S => S \in SUBSET (1..m)
      BY SMT
    <3>2. S \ {m + 1} \in SUBSET (1..m)
      BY SMT
    <3>3. ASSUME m + 1 \in S PROVE Max(S) = m + 1
      BY <3>3, LastIsMax
    <3> QED BY <3>1, <3>2, <3>3
  <2>4. g \in [SUBSET (1..(m + 1)) -> X]
    BY <2>1, <2>2, <2>3, Zenon
  <2>5. ASSUME NEW S \in SUBSET (1..(m + 1))
        PROVE  g[S] = IF S = {} THEN b ELSE G[<<g[S \ {Max(S)}], Max(S)>>]
    <3>1. CASE m + 1 \in S
      <4>1. S # {} /\ g[S] = G[<<f[S \ {m + 1}], m + 1>>] /\ Max(S) = m + 1
        BY <2>3, <3>1
      <4>2. S \ {m + 1} \in SUBSET (1..(m + 1)) /\ m + 1 \notin S \ {m + 1}
        OBVIOUS
      <4>3. g[S \ {m + 1}] = f[S \ {m + 1}]
        BY <4>2
      <4> QED BY <4>1, <4>3
    <3>2. CASE m + 1 \notin S
      <4>1. g[S] = f[S] /\ S \in SUBSET (1..m)
        BY <2>3, <3>2
      <4>2. f[S] = IF S = {} THEN b ELSE G[<<f[S \ {Max(S)}], Max(S)>>]
        BY <2>2, <4>1 DEF FoldOf
      <4>3. S \ {Max(S)} \in SUBSET (1..(m + 1)) /\ m + 1 \notin S \ {Max(S)}
        BY <3>2
      <4>4. g[S \ {Max(S)}] = f[S \ {Max(S)}]
        BY <4>3
      <4> QED BY <4>1, <4>2, <4>4
    <3> QED BY <3>1, <3>2
  <2> HIDE DEF g
  <2>6. FoldOf(g, b, G, m + 1)
    <3>1. g = [S \in SUBSET (1..(m + 1)) |-> g[S]]
      BY <2>4
    <3> QED BY <2>5, <3>1 DEF FoldOf
  <2> QED BY <2>4, <2>6
<1> HIDE DEF T
<1>3. \A m \in Nat : m \in T
  <2>1. T \in SUBSET Nat
    BY DEF T
  <2> QED BY <1>1, <1>2, <2>1, InductionOnSet
<1>4. n \in T /\ n <= n
  BY <1>3, SMT
<1>5. Solved(n)
  <2> HIDE DEF Solved
  <2> QED BY <1>4 DEF T
<1> QED BY <1>5

\* A fold whose value for a set that is not empty is H's.
Steps(f, b, H, n) == f = [S \in SUBSET (1..n) |-> IF S = {} THEN b ELSE H[S]]

\* It goes through the prefixes.
LEMMA FoldSteps ==
  ASSUME NEW n \in Nat, NEW b, NEW f, NEW H, Steps(f, b, H, n)
  PROVE  /\ f[1..0] = b
         /\ \A k \in Nat : k < n => /\ f[1..(k + 1)] = H[1..(k + 1)]
                                    /\ Max(1..(k + 1)) = k + 1
                                    /\ (1..(k + 1)) \ {k + 1} = 1..k
<1> USE DEF Steps
<1>1. 1..0 = {} /\ 1..0 \in SUBSET (1..n)
  BY SMT
<1>2. ASSUME NEW k \in Nat, k < n
      PROVE  /\ f[1..(k + 1)] = H[1..(k + 1)]
             /\ Max(1..(k + 1)) = k + 1
             /\ (1..(k + 1)) \ {k + 1} = 1..k
  <2>1. 1..(k + 1) \in SUBSET (1..n)
    BY <1>2, SMT
  <2>2. /\ 1..(k + 1) # {} /\ Max(1..(k + 1)) = k + 1
        /\ (1..(k + 1)) \ {k + 1} = 1..k
    BY MaxOfPrefix
  <2> QED BY <2>1, <2>2
<1>3. f[1..0] = b
  BY <1>1
<1> QED BY <1>2, <1>3

\* H is a step by G, as long as the value before is in X.
Agrees(f, H, G, X, n) ==
  \A S \in SUBSET (1..n) : S # {} /\ f[S \ {Max(S)}] \in X =>
    H[S] = G[<<f[S \ {Max(S)}], Max(S)>>]

\* Each prefix gives a value in X, by a step of G from the one before.
Walks(f, G, X, n) ==
  \A k \in Nat : /\ k <= n => f[1..k] \in X
                 /\ k < n => f[1..(k + 1)] = G[<<f[1..k], k + 1>>]

\* A function that takes these steps as long as its values are in X has them there.
LEMMA FoldWithin ==
  ASSUME NEW n \in Nat, NEW X, NEW b \in X, NEW G \in [X \X (1..n) -> X], NEW f, NEW H,
         Steps(f, b, H, n), Agrees(f, H, G, X, n)
  PROVE  Walks(f, G, X, n)
<1>1. /\ f[1..0] = b
      /\ \A k \in Nat : k < n => /\ f[1..(k + 1)] = H[1..(k + 1)]
                                 /\ Max(1..(k + 1)) = k + 1
                                 /\ (1..(k + 1)) \ {k + 1} = 1..k
  BY FoldSteps
<1>2. ASSUME NEW k \in Nat, k < n, f[1..k] \in X
      PROVE  f[1..(k + 1)] = G[<<f[1..k], k + 1>>] /\ f[1..(k + 1)] \in X
  <2>1. 1..(k + 1) \in SUBSET (1..n) /\ 1..(k + 1) # {} /\ k + 1 \in 1..n
    <3>1. 1..(k + 1) \in SUBSET (1..n) /\ k + 1 \in 1..n
      BY ONLY k \in Nat, n \in Nat, k < n, SMT
    <3> QED BY <3>1, MaxOfPrefix
  <2>2. (1..(k + 1)) \ {Max(1..(k + 1))} = 1..k /\ Max(1..(k + 1)) = k + 1
    BY <1>1, <1>2
  <2>3. H[1..(k + 1)] = G[<<f[1..k], k + 1>>]
    BY <1>2, <2>1, <2>2 DEF Agrees
  <2> QED BY <1>1, <1>2, <2>1, <2>3
<1> DEFINE T == {k \in Nat : k <= n => f[1..k] \in X}
<1>3. 0 \in T
  BY <1>1
<1>4. ASSUME NEW k \in Nat, k \in T PROVE k + 1 \in T
  <2> SUFFICES ASSUME k + 1 <= n PROVE f[1..(k + 1)] \in X
    OBVIOUS
  <2>1. k < n /\ k <= n
    BY SMT
  <2> QED BY <1>2, <1>4, <2>1
<1>5. \A k \in Nat : k \in T
  <2> HIDE DEF T
  <2>1. T \in SUBSET Nat
    BY DEF T
  <2> QED BY <1>3, <1>4, <2>1, InductionOnSet
<1>6. \A k \in Nat : k <= n => f[1..k] \in X
  BY <1>5
<1>7. \A k \in Nat : k < n => k <= n
  BY SMT
<1> QED BY <1>2, <1>6, <1>7 DEF Walks

\* f gives what the first sequences are, put together.
Joins(f, seqs) ==
  \A i \in 1..Len(seqs) : f[i] = IF i = 1 THEN seqs[i] ELSE f[i - 1] \o seqs[i]

\* FlattenSeq() puts them together one by one.
LEMMA FlattenJoins ==
  ASSUME NEW X, NEW seqs \in Seq(Seq(X)), Len(seqs) # 0
  PROVE  \E f \in [1..Len(seqs) -> Seq(X)] : Joins(f, seqs) /\ FlattenSeq(seqs) = f[Len(seqs)]
<1> DEFINE n == Len(seqs)
           Is(m, f) == f = [i \in 1..m |-> IF i = 1 THEN seqs[i] ELSE f[i - 1] \o seqs[i]]
           Solved(m) == \E f \in [1..m -> Seq(X)] : Is(m, f)
           T == {m \in Nat : m <= n => Solved(m)}
<1>1. n \in Nat /\ \A i \in 1..n : seqs[i] \in Seq(X)
  BY LenProperties, ElementOfSeq
<1>2. n # 0
  OBVIOUS
<1>3. Solved(0)
  <2> DEFINE f == [i \in 1..0 |-> <<>>]
  <2>1. \A i \in 1..0 : FALSE
    BY SMT
  <2>2. f \in [1..0 -> Seq(X)] /\ Is(0, f)
    BY <2>1
  <2> QED BY <2>2
<1>4. ASSUME NEW m \in Nat, Solved(m), m + 1 <= n PROVE Solved(m + 1)
  <2>1. PICK f \in [1..m -> Seq(X)] : Is(m, f)
    BY <1>4
  <2> DEFINE g == [i \in 1..(m + 1) |->
                     IF i = m + 1 THEN IF m = 0 THEN seqs[1] ELSE f[m] \o seqs[m + 1] ELSE f[i]]
  <2>2. \A i \in 1..(m + 1) : /\ i # m + 1 => i \in 1..m
                              /\ i \in 1..m /\ i # 1 => i - 1 \in 1..m /\ i - 1 \in 1..(m + 1) /\ i - 1 # m + 1
    BY SMT
  <2>3. /\ m + 1 \in 1..n /\ 1 \in 1..n
        /\ m # 0 => m \in 1..m /\ m \in 1..(m + 1) /\ m # m + 1 /\ (m + 1) - 1 = m /\ m + 1 # 1
        /\ m = 0 => m + 1 = 1
    BY <1>1, <1>4, SMT
  <2>4. g \in [1..(m + 1) -> Seq(X)]
    <3>1. m # 0 => f[m] \o seqs[m + 1] \in Seq(X)
      BY <1>1, <2>1, <2>3, ConcatProperties
    <3> QED BY <1>1, <2>1, <2>2, <2>3, <3>1
  <2>5. ASSUME NEW i \in 1..(m + 1)
        PROVE  g[i] = IF i = 1 THEN seqs[i] ELSE g[i - 1] \o seqs[i]
    <3>1. CASE i = m + 1
      BY <2>2, <2>3, <3>1
    <3>2. CASE i # m + 1
      BY <2>1, <2>2, <3>2
    <3> QED BY <3>1, <3>2
  <2> HIDE DEF g
  <2>6. Is(m + 1, g)
    BY <2>4, <2>5
  <2> QED BY <2>4, <2>6
<1>5. Solved(n)
  <2> HIDE DEF Solved
  <2>1. 0 \in T /\ T \in SUBSET Nat
    BY <1>3
  <2>2. ASSUME NEW m \in Nat, m \in T PROVE m + 1 \in T
    <3> SUFFICES ASSUME m + 1 <= n PROVE Solved(m + 1)
      <4>1. m + 1 \in Nat
        BY SMT
      <4> QED BY <4>1
    <3>1. m <= n
      BY <1>1, SMT
    <3> QED BY <1>4, <2>2, <3>1
  <2>3. n \in T
    <3> HIDE DEF T, n
    <3> QED BY <1>1, <2>1, <2>2, InductionOnSet
  <2>4. n <= n
    BY <1>1, SMT
  <2> QED BY <2>3, <2>4 DEF T
<1> DEFINE flatten == CHOOSE f : Is(n, f)
<1>6. Is(n, flatten)
  BY <1>5, Zenon
<1>7. FlattenSeq(seqs) = flatten[n]
  BY <1>2, Zenon DEF FlattenSeq
<1> HIDE DEF flatten
<1> DEFINE U == {m \in Nat : m + 1 <= n => flatten[m + 1] \in Seq(X)}
<1>8. 0 \in U
  <2>1. 1 \in 1..n /\ 0 + 1 = 1
    BY <1>1, <1>2, SMT
  <2> QED BY <1>1, <1>6, <2>1
<1>9. ASSUME NEW m \in Nat, m \in U PROVE m + 1 \in U
  <2> SUFFICES ASSUME (m + 1) + 1 <= n PROVE flatten[(m + 1) + 1] \in Seq(X)
    OBVIOUS
  <2>1. m + 1 <= n /\ (m + 1) + 1 \in 1..n /\ (m + 1) + 1 # 1 /\ ((m + 1) + 1) - 1 = m + 1
    BY <1>1, SMT
  <2>2. flatten[m + 1] \in Seq(X) /\ seqs[(m + 1) + 1] \in Seq(X)
    BY <1>1, <1>9, <2>1
  <2>3. flatten[(m + 1) + 1] = flatten[m + 1] \o seqs[(m + 1) + 1]
    BY <1>6, <2>1
  <2> QED BY <2>2, <2>3, ConcatProperties
<1>10. \A m \in Nat : m \in U
  <2>1. U \in SUBSET Nat
    OBVIOUS
  <2> HIDE DEF U
  <2> QED BY <1>8, <1>9, <2>1, InductionOnSet
<1>11. \A i \in 1..n : i - 1 \in Nat /\ (i - 1) + 1 = i /\ i <= n
  BY <1>1, SMT
<1>12. \A i \in 1..n : flatten[i] \in Seq(X)
  BY <1>10, <1>11
<1>13. flatten \in [1..n -> Seq(X)]
  BY <1>6, <1>12
<1>14. Joins(flatten, seqs)
  BY <1>6 DEF Joins
<1> QED BY <1>7, <1>13, <1>14


\* Sequences put together are one of the same elements.
LEMMA FlattenTyped ==
  ASSUME NEW X, NEW seqs \in Seq(Seq(X))
  PROVE  FlattenSeq(seqs) \in Seq(X)
<1>1. CASE Len(seqs) = 0
  <2>1. seqs = <<>>
    BY <1>1, EmptySeq
  <2> QED BY <1>1, <2>1, EmptySeq DEF FlattenSeq
<1>2. CASE Len(seqs) # 0
  <2>1. PICK f \in [1..Len(seqs) -> Seq(X)] : FlattenSeq(seqs) = f[Len(seqs)]
    BY <1>2, FlattenJoins
  <2>2. Len(seqs) \in 1..Len(seqs)
    BY <1>2, LenProperties, SMT
  <2> QED BY <2>1, <2>2
<1> QED BY <1>1, <1>2

-----------------------------------------------------------------------------
(* What texts are read and written as.                                     *)

\* Texts.
TokenSeqs == Seq(Tokens)

Places     == Nat \ {0}
Values     == TokenSeqs \cup {None}
Arguments  == [name: TokenSeqs, value: Values]
Transports == [name: TokenSeqs, args: Seq(Arguments)]
Ranges     == [base: Nat, count: Nat]

\* Those of some of the tokens.
ValuesOf(X)     == Seq(X) \cup {None}
ArgumentsOf(X)  == [name: Seq(X), value: ValuesOf(X)]
TransportsOf(X) == [name: Seq(X), args: Seq(ArgumentsOf(X))]

\* Those of all are all.
LEMMA OfTokens ==
  /\ Seq(Tokens) = TokenSeqs /\ ValuesOf(Tokens) = Values
  /\ ArgumentsOf(Tokens) = Arguments /\ TransportsOf(Tokens) = Transports
BY DEF TokenSeqs, Values, Arguments, Transports, ValuesOf, ArgumentsOf, TransportsOf

\* They are texts, values and so on.
LEMMA AreTexts ==
  ASSUME NEW X, X \subseteq Tokens
  PROVE  /\ \A v \in Seq(X) : v \in TokenSeqs
         /\ \A v \in ValuesOf(X) : v \in Values
         /\ \A a \in ArgumentsOf(X) : a \in Arguments
         /\ \A args \in Seq(ArgumentsOf(X)) : args \in Seq(Arguments)
         /\ \A t \in TransportsOf(X) : t \in Transports
         /\ \A list \in Seq(TransportsOf(X)) : list \in Seq(Transports)
<1>1. ASSUME NEW A, NEW B, A \subseteq B, NEW v \in Seq(A) PROVE v \in Seq(B)
  <2>1. Len(v) \in Nat /\ v \in [1..Len(v) -> A]
    BY LenProperties, ElementOfSeq
  <2>2. v \in [1..Len(v) -> B]
    BY <1>1, <2>1
  <2> QED BY <2>1, <2>2, SeqDef
<1>2. \A v \in Seq(X) : v \in TokenSeqs
  BY <1>1 DEF TokenSeqs
<1>3. \A v \in ValuesOf(X) : v \in Values
  BY <1>2 DEF ValuesOf, Values
<1>4. ArgumentsOf(X) \subseteq Arguments
  BY <1>2, <1>3 DEF ArgumentsOf, Arguments
<1>5. \A args \in Seq(ArgumentsOf(X)) : args \in Seq(Arguments)
  BY <1>1, <1>4
<1>6. TransportsOf(X) \subseteq Transports
  BY <1>2, <1>5 DEF TransportsOf, Transports
<1>7. \A list \in Seq(TransportsOf(X)) : list \in Seq(Transports)
  BY <1>1, <1>6
<1> QED BY <1>2, <1>3, <1>4, <1>5, <1>6, <1>7

\* The state of the loop over the arguments.
ArgStates ==
  [ok: BOOLEAN, args: Seq(Arguments), tval: Values, at: Places, last: BOOLEAN]

\* A part of a text.
LEMMA PartOf ==
  ASSUME NEW X, NEW s \in Seq(X), NEW i \in Places, NEW j \in Int, j <= Len(s)
  PROVE  SubSeq(s, i, j) \in Seq(X)
<1>1. Len(s) \in Nat /\ \A k \in 1..Len(s) : s[k] \in X
  BY LenProperties, ElementOfSeq
<1>2. i \in Int /\ \A k \in i..j : k \in 1..Len(s)
  BY <1>1, SMT DEF Places
<1> QED BY <1>1, <1>2, SubSeqProperties

\* mid(), for places in the text.
LEMMA PartOfText ==
  ASSUME NEW s \in TokenSeqs, NEW i \in Places, NEW j \in Int, j <= Len(s)
  PROVE  SubSeq(s, i, j) \in TokenSeqs
BY PartOf, OfTokens

\* Texts, one after the other, are one.
LEMMA TextsJoined == \A s, t \in TokenSeqs : s \o t \in TokenSeqs
BY ConcatProperties DEF TokenSeqs

\* The texts that the code writes itself.
LEMMA ShortTexts ==
  /\ <<>> \in TokenSeqs
  /\ <<Semi>> \in TokenSeqs /\ <<Equal>> \in TokenSeqs /\ <<Comma>> \in TokenSeqs
  /\ <<Word("server_port")>> \in TokenSeqs
  /\ \A r \in Ranges : <<PortText(r)>> \in TokenSeqs
<1>1. \A t \in Tokens : <<t>> \in Seq(Tokens)
  OBVIOUS
<1>2. Semi \in Tokens /\ Equal \in Tokens /\ Comma \in Tokens /\ Word("server_port") \in Tokens
  BY RtspTransportAssumption DEF Tokens, Semi, Equal, Comma, Word
<1>3. \A r \in Ranges : PortText(r) \in Tokens
  <2>1. \A r \in Ranges : r.base \in Nat /\ r.count \in Nat
    BY DEF Ranges
  <2> QED BY <2>1, RtspTransportAssumption DEF PortText, Tokens
<1>4. <<>> \in Seq(Tokens)
  BY EmptySeq
<1> QED BY <1>1, <1>2, <1>3, <1>4 DEF TokenSeqs

\* findOneOf() gives a place of the text, or the end.
LEMMA PlaceFound ==
  ASSUME NEW s \in TokenSeqs, NEW list, NEW i \in Places
  PROVE  findOneOf(s, list, i) \in Places /\ findOneOf(s, list, i) <= Len(s) + 1
<1> DEFINE T == {n \in i..Len(s) : s[n] \in list} \cup {Len(s) + 1}
<1>1. Len(s) \in Nat
  BY LenProperties DEF TokenSeqs
<1>2. T \in SUBSET Nat /\ T # {} /\ \A n \in T : n \in Places /\ n <= Len(s) + 1
  BY <1>1, SMT DEF Places
<1>3. Min(T) \in T
  BY <1>2, MinIsLeast, Zenon
<1> QED BY <1>2, <1>3 DEF findOneOf

\* PortRange::fromString() and toString().
LEMMA RangeRead ==
  ASSUME NEW value \in Values
  PROVE  FromText(value) \in Ranges \cup {None}
<1>1. CASE value \in {None, <<>>}
  BY <1>1 DEF FromText
<1>2. CASE value \notin {None, <<>>}
  <2>1. value \in TokenSeqs /\ value # <<>>
    BY <1>2 DEF Values
  <2>2. 1 \in 1..Len(value)
    <3>1. Len(value) \in Nat /\ Len(value) # 0
      BY <2>1, LenProperties, EmptySeq DEF TokenSeqs
    <3> QED BY <3>1, SMT
  <2>3. value[1] \in Tokens
    BY <2>1, <2>2, ElementOfSeq DEF TokenSeqs
  <2> USE DEF Tokens
  <2>4. [base |-> value[1][2], count |-> value[1][3]] \in Ranges
    BY <2>3 DEF Ranges
  <2>5. [base |-> 0, count |-> 1] \in Ranges
    BY DEF Ranges
  <2> QED BY <1>2, <2>4, <2>5 DEF FromText
<1> QED BY <1>1, <1>2

\* And the other way.
LEMMA RangeWritten ==
  ASSUME NEW r \in Ranges
  PROVE  ToText(r) \in Values
BY ShortTexts DEF ToText, Values

\* The first index of those that are found is one of the sequence.
LEMMA IndexFound ==
  ASSUME NEW s, NEW X, s \in Seq(X), NEW P, P \in SUBSET DOMAIN s, P # {}
  PROVE  Min(P) \in P /\ Min(P) \in 1..Len(s) /\ s[Min(P)] \in X
<1>1. DOMAIN s = 1..Len(s) /\ Len(s) \in Nat /\ \A i \in 1..Len(s) : s[i] \in X
  BY LenProperties, ElementOfSeq
<1>2. P \in SUBSET Nat
  BY <1>1
<1>3. Min(P) \in P
  BY <1>2, MinIsLeast, Zenon
<1> QED BY <1>1, <1>3

\* Transport::argument().
LEMMA ArgumentOf ==
  ASSUME NEW X, NEW t \in TransportsOf(X), NEW name
  PROVE  argument(t, name) \in ValuesOf(X)
<1> DEFINE P == {i \in DOMAIN t.args : t.args[i].name = <<Word(name)>>}
<1>1. t.args \in Seq(ArgumentsOf(X)) /\ P \in SUBSET DOMAIN t.args
  BY DEF TransportsOf
<1>2. argument(t, name) = IF P = {} THEN None ELSE t.args[Min(P)].value
  BY Zenon DEF argument
<1> HIDE DEF P
<1>3. P # {} => t.args[Min(P)] \in ArgumentsOf(X)
  BY <1>1, IndexFound
<1> QED BY <1>2, <1>3 DEF ArgumentsOf, ValuesOf

LEMMA ArgumentRead ==
  ASSUME NEW t \in Transports, NEW name
  PROVE  argument(t, name) \in Values
BY ArgumentOf, OfTokens

\* setArgument().
LEMMA ArgumentSetOf ==
  ASSUME NEW X, NEW t \in TransportsOf(X), NEW name, NEW value \in ValuesOf(X)
  PROVE  setArgument(t, name, value) \in TransportsOf(X)
<1> DEFINE P == {i \in DOMAIN t.args : t.args[i].name = <<Word(name)>>}
           k == Min(P)
<1>1. t.args \in Seq(ArgumentsOf(X)) /\ P \in SUBSET DOMAIN t.args /\ t.name \in Seq(X)
  BY DEF TransportsOf
<1>2. setArgument(t, name, value) = IF P = {} THEN t ELSE [t EXCEPT !.args[k].value = value]
  BY Zenon DEF setArgument
<1>3. CASE P # {}
  <2> HIDE DEF P
  <2>1. k \in 1..Len(t.args) /\ t.args[k] \in ArgumentsOf(X)
    BY <1>1, <1>3, IndexFound
  <2> HIDE DEF k
  <2>2. [t.args[k] EXCEPT !.value = value] \in ArgumentsOf(X)
    BY <2>1 DEF ArgumentsOf
  <2>3. [t.args EXCEPT ![k] = [t.args[k] EXCEPT !.value = value]] \in Seq(ArgumentsOf(X))
    BY <1>1, <2>1, <2>2, ExceptSeq
  <2>4. [t EXCEPT !.args[k].value = value]
        = [t EXCEPT !.args = [t.args EXCEPT ![k] = [t.args[k] EXCEPT !.value = value]]]
    BY <2>1 DEF TransportsOf
  <2> QED BY <1>2, <1>3, <2>3, <2>4 DEF TransportsOf
<1> QED BY <1>2, <1>3

LEMMA ArgumentSet ==
  ASSUME NEW t \in Transports, NEW name, NEW value \in Values
  PROVE  setArgument(t, name, value) \in Transports
BY ArgumentSetOf, OfTokens

\* Tokens that are enough for what the code writes itself.
Writable(X) ==
  /\ X \subseteq Tokens /\ Comma \in X /\ Semi \in X /\ Equal \in X
  /\ \A r \in Ranges : r.count > 0 => PortText(r) \in X

\* All of them are.
LEMMA TokensWritable == Writable(Tokens)
<1>1. \A r \in Ranges : r.base \in Nat /\ r.count \in Nat
  BY DEF Ranges
<1> QED BY <1>1, RtspTransportAssumption DEF Writable, Tokens, Semi, Equal, Comma, Word, PortText

\* The texts that it writes itself.
LEMMA ShortTextsOf ==
  ASSUME NEW X, Writable(X)
  PROVE  /\ <<>> \in Seq(X) /\ <<Semi>> \in Seq(X) /\ <<Equal>> \in Seq(X) /\ <<Comma>> \in Seq(X)
         /\ \A r \in Ranges : r.count > 0 => <<PortText(r)>> \in Seq(X)
         /\ \A r \in Ranges : ToText(r) \in ValuesOf(X)
<1>1. \A t \in X : <<t>> \in Seq(X)
  OBVIOUS
<1>2. \A r \in Ranges : r.count > 0 => <<PortText(r)>> \in Seq(X)
  BY <1>1 DEF Writable
<1>3. \A r \in Ranges : ToText(r) \in ValuesOf(X)
  BY <1>2 DEF ToText, ValuesOf
<1> QED BY <1>1, <1>2, <1>3, EmptySeq DEF Writable

\* The text of an argument, a transport and a list.
LEMMA ArgTextOf ==
  ASSUME NEW X, Writable(X), NEW v \in ArgumentsOf(X)
  PROVE  ArgText(v) \in Seq(X)
<1>1. v.name \in Seq(X) /\ v.value \in ValuesOf(X)
  BY DEF ArgumentsOf
<1>2. <<Semi>> \in Seq(X) /\ <<Equal>> \in Seq(X) /\ <<>> \in Seq(X)
  BY ShortTextsOf
<1>3. (IF v.value = None THEN <<>> ELSE <<Equal>> \o v.value) \in Seq(X)
  BY <1>1, <1>2, ConcatProperties DEF ValuesOf
<1>4. <<Semi>> \o v.name \in Seq(X)
  BY <1>1, <1>2, ConcatProperties
<1> QED BY <1>3, <1>4, ConcatProperties DEF ArgText

LEMMA ArgumentWritten ==
  ASSUME NEW v \in Arguments
  PROVE  ArgText(v) \in TokenSeqs
BY ArgTextOf, TokensWritable, OfTokens

\* A transport.
LEMMA TransportTextOf ==
  ASSUME NEW X, Writable(X), NEW t \in TransportsOf(X)
  PROVE  toString(t) \in Seq(X)
<1> DEFINE parts == [i \in DOMAIN t.args |-> ArgText(t.args[i])]
<1>1. /\ t.name \in Seq(X) /\ t.args \in Seq(ArgumentsOf(X)) /\ DOMAIN t.args = 1..Len(t.args)
      /\ Len(t.args) \in Nat /\ \A i \in 1..Len(t.args) : t.args[i] \in ArgumentsOf(X)
  BY LenProperties, ElementOfSeq DEF TransportsOf
<1>2. \A i \in 1..Len(t.args) : ArgText(t.args[i]) \in Seq(X)
  BY <1>1, ArgTextOf
<1>3. parts \in Seq(Seq(X))
  BY <1>1, <1>2, SeqDef
<1> HIDE DEF parts
<1>4. FlattenSeq(parts) \in Seq(X)
  BY <1>3, FlattenTyped
<1> QED BY <1>1, <1>4, ConcatProperties DEF toString, parts

LEMMA TransportWritten ==
  ASSUME NEW t \in Transports
  PROVE  toString(t) \in TokenSeqs
BY TransportTextOf, TokensWritable, OfTokens

\* A list of them.
LEMMA ListTextOf ==
  ASSUME NEW X, Writable(X), NEW list \in Seq(TransportsOf(X))
  PROVE  ListText(list) \in Seq(X)
<1> DEFINE parts == [i \in DOMAIN list |-> (IF i > 1 THEN <<Comma>> ELSE <<>>) \o toString(list[i])]
<1>1. DOMAIN list = 1..Len(list) /\ Len(list) \in Nat /\ \A i \in 1..Len(list) : list[i] \in TransportsOf(X)
  BY LenProperties, ElementOfSeq
<1>2. ASSUME NEW i \in 1..Len(list)
      PROVE  (IF i > 1 THEN <<Comma>> ELSE <<>>) \o toString(list[i]) \in Seq(X)
  <2>1. <<Comma>> \in Seq(X) /\ <<>> \in Seq(X)
    BY ShortTextsOf
  <2>2. toString(list[i]) \in Seq(X)
    BY <1>1, TransportTextOf
  <2> QED BY <2>1, <2>2, ConcatProperties
<1>3. parts \in Seq(Seq(X))
  BY <1>1, <1>2, SeqDef
<1> HIDE DEF parts
<1>4. FlattenSeq(parts) \in Seq(X)
  BY <1>3, FlattenTyped
<1> QED BY <1>4, Zenon DEF ListText, parts

LEMMA ListWritten ==
  ASSUME NEW list \in Seq(Transports)
  PROVE  ListText(list) \in TokenSeqs
BY ListTextOf, TokensWritable, OfTokens

\* The arguments and the value that the loop has read.
ReadOf(X, r) == r \in ArgStates /\ r.args \in Seq(ArgumentsOf(X)) /\ r.tval \in ValuesOf(X)

\* A turn of the loop over the arguments.
LEMMA TakenOf ==
  ASSUME NEW X, X \subseteq Tokens, NEW s \in Seq(X), NEW r, ReadOf(X, r)
  PROVE  ReadOf(X, TakeArg(s, r, ReadArg(s, r.at, r.tval)))
<1> DEFINE i == r.at
           n == findOneOf(s, {Comma, Semi, Equal}, i)
           end == IF n <= Len(s) /\ s[n] = Equal THEN ValueEnd(s, n) ELSE n
           a == Arg(s, i, n, end, r.tval)
           x == TakeArg(s, r, a)
<1>1. s \in TokenSeqs /\ Len(s) \in Nat
  BY AreTexts, LenProperties
<1>2. /\ r \in ArgStates /\ r.args \in Seq(ArgumentsOf(X)) /\ r.tval \in ValuesOf(X) /\ i \in Places
      /\ r.ok \in BOOLEAN /\ r.last \in BOOLEAN
  BY DEF ReadOf, ArgStates
<1>3. ReadArg(s, r.at, r.tval) = a
  BY DEF ReadArg, ArgNamed
<1>5. n \in Places /\ n <= Len(s) + 1
  BY <1>1, <1>2, PlaceFound
<1>6. end \in Places
  <2>1. n + 2 \in Places /\ n + 1 \in Places
    <3> HIDE DEF n
    <3> QED BY <1>5, SMT DEF Places
  <2>2. findOneOf(s, {Quote}, n + 2) \in Places /\ findOneOf(s, {Comma, Semi}, n + 1) \in Places
    BY <1>1, <2>1, PlaceFound
  <2>3. ValueEnd(s, n) \in Places
    BY <2>2, SMT DEF ValueEnd, Places
  <2> HIDE DEF n
  <2> QED BY <1>5, <2>3
<1> HIDE DEF n, end, i
<1>4. end + 1 \in Places
  BY <1>6, SMT DEF Places
<1>7. ReadOf(X, x)
  <2>1. CASE a.name = <<>> \/ a.end > Len(s) + 1 \/ (a.end <= Len(s) /\ s[a.end] \notin {Comma, Semi})
    <3>1. x = [r EXCEPT !.ok = FALSE, !.last = TRUE]
      BY <2>1 DEF TakeArg
    <3> QED BY <1>2, <3>1 DEF ReadOf, ArgStates
  <2>2. CASE ~(a.name = <<>> \/ a.end > Len(s) + 1 \/ (a.end <= Len(s) /\ s[a.end] \notin {Comma, Semi}))
    <3>1. x = [ok |-> TRUE, args |-> Append(r.args, [name |-> a.name, value |-> a.value]),
               tval |-> a.value, at |-> a.end + 1, last |-> a.end > Len(s) \/ s[a.end] = Comma]
      BY <2>2 DEF TakeArg
    <3>2. /\ a.name = SubSeq(s, i, n - 1) /\ a.end = end
          /\ a.value = IF n < end THEN mid(s, n + 1, end) ELSE r.tval
      BY DEF Arg
    <3>3. end <= Len(s) + 1
      BY <1>1, <1>6, <2>2, <3>2, SMT DEF Places
    <3>4. a.name \in Seq(X)
      <4>1. n - 1 \in Int /\ n - 1 <= Len(s)
        BY <1>1, <1>5, SMT DEF Places
      <4> QED BY <1>2, <3>2, <4>1, PartOf
    <3>5. a.value \in ValuesOf(X)
      <4> DEFINE last == IF end > Len(s) THEN Len(s) ELSE end - 1
      <4>1. last \in Int /\ last <= Len(s) /\ n + 1 \in Places
        BY <1>1, <1>5, <1>6, <3>3, SMT DEF Places
      <4> HIDE DEF last
      <4>2. SubSeq(s, n + 1, last) \in Seq(X)
        BY <4>1, PartOf
      <4> USE DEF last
      <4> QED BY <1>2, <3>2, <4>2 DEF mid, ValuesOf
    <3>6. Append(r.args, [name |-> a.name, value |-> a.value]) \in Seq(ArgumentsOf(X))
      <4>1. [name |-> a.name, value |-> a.value] \in ArgumentsOf(X)
        BY <3>4, <3>5 DEF ArgumentsOf
      <4> QED BY <1>2, <4>1, AppendProperties
    <3> DEFINE args == Append(r.args, [name |-> a.name, value |-> a.value])
               last == a.end > Len(s) \/ s[a.end] = Comma
    <3>7. last \in BOOLEAN /\ args \in Seq(Arguments) /\ a.value \in Values
      BY <3>5, <3>6, AreTexts
    <3> HIDE DEF x, a, args, last
    <3>8. x = [ok |-> TRUE, args |-> args, tval |-> a.value, at |-> end + 1, last |-> last]
      BY <3>1, <3>2 DEF args, last
    <3> QED BY <1>4, <3>5, <3>6, <3>7, <3>8 DEF ReadOf, ArgStates, args
  <2> QED BY <2>1, <2>2
<1> HIDE DEF x, a
<1> QED BY <1>3, <1>7 DEF x

LEMMA ArgumentTaken ==
  ASSUME NEW s \in TokenSeqs, NEW r \in ArgStates
  PROVE  TakeArg(s, r, ReadArg(s, r.at, r.tval)) \in ArgStates
<1>1. ReadOf(Tokens, r)
  BY OfTokens DEF ReadOf, ArgStates
<1> QED BY <1>1, TakenOf, OfTokens DEF ReadOf

\* A turn of the loop, and its start.
ArgTurn(s, r) == IF r.last \/ r.at > Len(s) THEN r ELSE TakeArg(s, r, ReadArg(s, r.at, r.tval))
ArgStart(start) == [ok |-> TRUE, args |-> <<>>, tval |-> None, at |-> start, last |-> FALSE]

\* The states of the loop, g[k] after k turns.
ArgLoop(s, start, g) ==
  /\ g \in [Nat -> ArgStates] /\ g[0] = ArgStart(start)
  /\ \A k \in Nat : k < Len(s) => g[k + 1] = ArgTurn(s, g[k])

\* The loop, from its start to its end.
LEMMA ArgumentTurns ==
  ASSUME NEW s \in TokenSeqs, NEW start \in Places
  PROVE  \E g : ArgLoop(s, start, g) /\ ReadArgs(s, start) = g[Len(s)]
<1> DEFINE n == Len(s)
           b == ArgStart(start)
           Turn(r) == ArgTurn(s, r)
           G == [p \in ArgStates \X (1..n) |-> Turn(p[1])]
           Is(f) == f = [S \in SUBSET (1..n) |-> IF S = {} THEN b ELSE Turn(f[S \ {Max(S)}])]
           fold == CHOOSE f : Is(f)
           H == [S \in SUBSET (1..n) |-> Turn(fold[S \ {Max(S)}])]
<1>1. n \in Nat /\ DOMAIN s = 1..n
  BY LenProperties DEF TokenSeqs
<1>2. b \in ArgStates
  BY EmptySeq DEF ArgStart, ArgStates, Values
<1>3. \A r \in ArgStates : Turn(r) \in ArgStates
  BY ArgumentTaken DEF ArgTurn
<1>4. ReadArgs(s, start) = fold[1..n]
  <2> HIDE DEF n
  <2>1. ReadArgs(s, start) = (CHOOSE f : f = [S \in SUBSET (DOMAIN s) |->
                                IF S = {} THEN b ELSE Turn(f[S \ {Max(S)}])])[DOMAIN s]
    BY Zenon DEF ReadArgs, FoldLeft, MapThenFoldSet, ArgTurn, ArgStart
  <2> QED BY <1>1, <2>1, Zenon
<1> HIDE DEF b, n, Turn
<1>5. G \in [ArgStates \X (1..n) -> ArgStates]
  BY <1>3
<1>6. Is(fold)
  <2>1. PICK f \in [SUBSET (1..n) -> ArgStates] : FoldOf(f, b, G, n)
    <3> HIDE DEF G
    <3> QED BY <1>1, <1>2, <1>5, FoldSolved
  <2>2. ASSUME NEW S \in SUBSET (1..n), S # {}
        PROVE  G[<<f[S \ {Max(S)}], Max(S)>>] = Turn(f[S \ {Max(S)}])
    <3>1. Max(S) \in 1..n
      BY <1>1, <2>2, MaxIsGreatest
    <3> QED BY <2>1, <3>1
  <2>3. Is(f)
    BY <2>1, <2>2 DEF FoldOf
  <2> QED BY <2>3, Zenon
<1> HIDE DEF fold
<1>7. Steps(fold, b, H, n)
  <2>1. \A S \in SUBSET (1..n) : H[S] = Turn(fold[S \ {Max(S)}])
    OBVIOUS
  <2> HIDE DEF H
  <2> QED BY <1>6, <2>1 DEF Steps
<1>8. Agrees(fold, H, G, ArgStates, n)
  <2> SUFFICES ASSUME NEW S \in SUBSET (1..n), S # {}, fold[S \ {Max(S)}] \in ArgStates
               PROVE  H[S] = G[<<fold[S \ {Max(S)}], Max(S)>>]
    BY DEF Agrees
  <2>1. Max(S) \in 1..n
    BY <1>1, MaxIsGreatest
  <2> QED BY <2>1
<1>9. \A r \in ArgStates, k \in 1..n : G[<<r, k>>] = Turn(r)
  OBVIOUS
<1> HIDE DEF H, G
<1>10. fold[1..0] = b /\ Walks(fold, G, ArgStates, n)
  BY <1>1, <1>2, <1>5, <1>7, <1>8, FoldSteps, FoldWithin
<1>11. ASSUME NEW k \in Nat, k < n
       PROVE  fold[1..(k + 1)] = Turn(fold[1..k])
  <2>1. k <= n /\ k + 1 \in 1..n
    BY <1>1, <1>11, SMT
  <2> QED BY <1>9, <1>10, <1>11, <2>1 DEF Walks
<1> DEFINE g == [k \in Nat |-> IF k <= n THEN fold[1..k] ELSE b]
<1>12. 0 <= n /\ n <= n /\ \A k \in Nat : k < n => k <= n /\ k + 1 <= n /\ k + 1 \in Nat
  BY <1>1, SMT
<1>13. g \in [Nat -> ArgStates]
  BY <1>2, <1>10 DEF Walks
<1>14. g[0] = b /\ g[n] = fold[1..n] /\ \A k \in Nat : k < n => g[k + 1] = Turn(g[k])
  BY <1>1, <1>10, <1>11, <1>12
<1> HIDE DEF g
<1>15. ArgLoop(s, start, g)
  BY <1>13, <1>14 DEF ArgLoop, b, n, Turn
<1> QED BY <1>4, <1>14, <1>15 DEF n

\* That loop.
LEMMA ReadArgsOf ==
  ASSUME NEW X, X \subseteq Tokens, NEW s \in Seq(X), NEW start \in Places
  PROVE  ReadOf(X, ReadArgs(s, start))
<1>1. s \in TokenSeqs /\ Len(s) \in Nat /\ 0 \in Nat
  BY AreTexts, LenProperties
<1>2. PICK g : ArgLoop(s, start, g) /\ ReadArgs(s, start) = g[Len(s)]
  BY <1>1, ArgumentTurns
<1>3. g \in [Nat -> ArgStates] /\ g[0] = ArgStart(start)
      /\ \A j \in Nat : j < Len(s) => g[j + 1] = ArgTurn(s, g[j])
  BY <1>2 DEF ArgLoop
<1> DEFINE T == {j \in Nat : j <= Len(s) => ReadOf(X, g[j])}
<1>4. ReadOf(X, g[0])
  <2>1. g[0] \in ArgStates
    BY <1>1, <1>3
  <2>2. g[0].args = <<>> /\ g[0].tval = None
    <3> DEFINE r == ArgStart(start)
    <3>1. r.args = <<>> /\ r.tval = None
      BY DEF ArgStart
    <3>2. g[0] = r
      BY <1>3
    <3> HIDE DEF r
    <3> QED BY <3>1, <3>2
  <2> QED BY <2>1, <2>2, EmptySeq DEF ReadOf, ValuesOf
<1>5. \A j \in Nat : j \in T => j + 1 \in T
  <2> SUFFICES ASSUME NEW j \in Nat, j <= Len(s) => ReadOf(X, g[j]), j + 1 <= Len(s) PROVE ReadOf(X, g[j + 1])
    OBVIOUS
  <2>1. j <= Len(s) /\ j < Len(s)
    BY <1>1, SMT
  <2>2. g[j + 1] = ArgTurn(s, g[j])
    BY <1>3, <2>1
  <2> QED BY <2>1, <2>2, TakenOf DEF ArgTurn
<1>6. T \in SUBSET Nat /\ 0 \in T
  BY <1>4
<1> HIDE DEF T
<1>7. Len(s) \in T
  BY <1>1, <1>5, <1>6, InductionOnSet
<1>8. Len(s) <= Len(s)
  BY <1>1, SMT
<1> QED BY <1>2, <1>7, <1>8 DEF T

LEMMA ArgumentsRead ==
  ASSUME NEW s \in TokenSeqs, NEW start \in Places
  PROVE  ReadArgs(s, start) \in ArgStates
BY ReadArgsOf, OfTokens DEF ReadOf

\* Transport::readFromString().
LEMMA TransportReadOf ==
  ASSUME NEW X, X \subseteq Tokens, NEW s \in Seq(X), NEW start \in Places
  PROVE  LET r == readFromString(s, start)
         IN  r.at \in Places /\ r.transport \in TransportsOf(X)
<1> DEFINE n == findOneOf(s, {Comma, Semi}, start)
           args == IF n <= Len(s) /\ s[n] = Semi THEN ReadArgs(s, n + 1)
                   ELSE [ok |-> TRUE, args |-> <<>>, at |-> n + 1]
           r == readFromString(s, start)
<1>1. s \in TokenSeqs /\ Len(s) \in Nat
  BY AreTexts, LenProperties
<1>2. n \in Places /\ n <= Len(s) + 1
  BY <1>1, PlaceFound
<1>3. r = [ok |-> n > start /\ args.ok, at |-> args.at,
           transport |-> [name |-> SubSeq(s, start, n - 1), args |-> args.args]]
  BY Zenon DEF readFromString, ReadTransport, TransportNamed
<1>4. n + 1 \in Places /\ n - 1 \in Int /\ n - 1 <= Len(s)
  <2> HIDE DEF n
  <2> QED BY <1>1, <1>2, SMT DEF Places
<1> HIDE DEF n
<1>5. args.at \in Places /\ args.args \in Seq(ArgumentsOf(X))
  <2>1. ReadOf(X, ReadArgs(s, n + 1))
    BY <1>4, ReadArgsOf
  <2> QED BY <1>4, <2>1, EmptySeq DEF ReadOf, ArgStates
<1>6. SubSeq(s, start, n - 1) \in Seq(X)
  BY <1>4, PartOf
<1> HIDE DEF args, r
<1> QED BY <1>3, <1>5, <1>6 DEF TransportsOf, r

LEMMA TransportRead ==
  ASSUME NEW s \in TokenSeqs, NEW start \in Places
  PROVE  LET r == readFromString(s, start)
         IN  r.at \in Places /\ r.transport \in Transports
BY TransportReadOf, OfTokens

ListStates == [list: Seq(Transports), at: Places]

\* A turn of the loop over the transports, and its start.
ListTurn(s, acc) == IF acc.at > Len(s) THEN acc ELSE TakeTransport(s, acc, readFromString(s, acc.at))
ListStart == [list |-> <<>>, at |-> 1]

\* The states of the loop, g[k] after k turns.
ListLoop(s, g) ==
  /\ g \in [Nat -> ListStates] /\ g[0] = ListStart
  /\ \A k \in Nat : k < Len(s) => g[k + 1] = ListTurn(s, g[k])

\* Packet::transports().
LEMMA TransportTurns ==
  ASSUME NEW s \in TokenSeqs
  PROVE  \E g : ListLoop(s, g) /\ transports(s) = g[Len(s)].list
<1> DEFINE n == Len(s)
           b == ListStart
           Turn(acc, i) == ListTurn(s, acc)
           G == [p \in ListStates \X (1..n) |-> Turn(p[1], p[2])]
           Is(f) == f = [S \in SUBSET (1..n) |-> IF S = {} THEN b ELSE Turn(f[S \ {Max(S)}], Max(S))]
           fold == CHOOSE f : Is(f)
           H == [S \in SUBSET (1..n) |-> Turn(fold[S \ {Max(S)}], Max(S))]
<1>1. n \in Nat /\ DOMAIN s = 1..n
  BY LenProperties DEF TokenSeqs
<1>2. b \in ListStates
  BY EmptySeq DEF ListStart, ListStates, Places
<1>3. \A acc \in ListStates, i \in 1..n : Turn(acc, i) \in ListStates
  <2> TAKE acc \in ListStates, i \in 1..n
  <2> DEFINE r == readFromString(s, acc.at)
  <2>1. acc.list \in Seq(Transports) /\ acc.at \in Places
    BY DEF ListStates
  <2>2. r.at \in Places /\ r.transport \in Transports
    BY <2>1, TransportRead
  <2> HIDE DEF r
  <2>3. [list |-> Append(acc.list, r.transport), at |-> r.at] \in ListStates
    BY <2>1, <2>2, AppendProperties DEF ListStates
  <2>4. [acc EXCEPT !.at = Len(s) + 1] \in ListStates
    <3>1. Len(s) + 1 \in Places
      BY <1>1, SMT DEF Places
    <3> QED BY <2>1, <3>1 DEF ListStates
  <2> QED BY <2>3, <2>4 DEF ListTurn, TakeTransport, r
<1>4. transports(s) = fold[1..n].list
  <2> HIDE DEF n
  <2>1. transports(s) = (CHOOSE f : f = [S \in SUBSET (DOMAIN s) |->
                 IF S = {} THEN b ELSE Turn(f[S \ {Max(S)}], Max(S))])[DOMAIN s].list
    BY Zenon DEF transports, FoldLeft, MapThenFoldSet, ListTurn, ListStart
  <2> QED BY <1>1, <2>1, Zenon
<1> HIDE DEF b, n, Turn
<1>5. G \in [ListStates \X (1..n) -> ListStates]
  BY <1>3
<1>6. Is(fold)
  <2>1. PICK f \in [SUBSET (1..n) -> ListStates] : FoldOf(f, b, G, n)
    <3> HIDE DEF G
    <3> QED BY <1>1, <1>2, <1>5, FoldSolved
  <2>2. ASSUME NEW S \in SUBSET (1..n), S # {}
        PROVE  G[<<f[S \ {Max(S)}], Max(S)>>] = Turn(f[S \ {Max(S)}], Max(S))
    <3>1. Max(S) \in 1..n
      BY <1>1, <2>2, MaxIsGreatest
    <3> QED BY <2>1, <3>1
  <2>3. Is(f)
    BY <2>1, <2>2 DEF FoldOf
  <2> QED BY <2>3, Zenon
<1> HIDE DEF fold
<1>7. Steps(fold, b, H, n)
  <2>1. \A S \in SUBSET (1..n) : H[S] = Turn(fold[S \ {Max(S)}], Max(S))
    OBVIOUS
  <2> HIDE DEF H
  <2> QED BY <1>6, <2>1 DEF Steps
<1>8. Agrees(fold, H, G, ListStates, n)
  <2> SUFFICES ASSUME NEW S \in SUBSET (1..n), S # {}, fold[S \ {Max(S)}] \in ListStates
               PROVE  H[S] = G[<<fold[S \ {Max(S)}], Max(S)>>]
    BY DEF Agrees
  <2>1. Max(S) \in 1..n
    BY <1>1, MaxIsGreatest
  <2> QED BY <2>1
<1>9. \A acc \in ListStates, k \in 1..n : G[<<acc, k>>] = Turn(acc, k)
  OBVIOUS
<1> HIDE DEF H, G
<1>10. fold[1..0] = b /\ Walks(fold, G, ListStates, n)
  BY <1>1, <1>2, <1>5, <1>7, <1>8, FoldSteps, FoldWithin
<1>11. ASSUME NEW k \in Nat, k < n
       PROVE  fold[1..(k + 1)] = Turn(fold[1..k], k + 1)
  <2>1. k <= n /\ k + 1 \in 1..n
    BY <1>1, <1>11, SMT
  <2> QED BY <1>9, <1>10, <1>11, <2>1 DEF Walks
<1> DEFINE g == [k \in Nat |-> IF k <= n THEN fold[1..k] ELSE b]
<1>12. 0 <= n /\ n <= n /\ \A k \in Nat : k < n => k <= n /\ k + 1 <= n /\ k + 1 \in Nat
  BY <1>1, SMT
<1>13. g \in [Nat -> ListStates]
  BY <1>2, <1>10 DEF Walks
<1>14. g[0] = b /\ g[n] = fold[1..n] /\ \A k \in Nat : k < n => g[k + 1] = Turn(g[k], k + 1)
  BY <1>1, <1>10, <1>11, <1>12
<1> HIDE DEF g
<1>15. ListLoop(s, g)
  BY <1>13, <1>14 DEF ListLoop, b, n, Turn
<1> QED BY <1>4, <1>14, <1>15 DEF n

\* What is read has the tokens of the text.
LEMMA TransportsReadOf ==
  ASSUME NEW X, X \subseteq Tokens, NEW s \in Seq(X)
  PROVE  transports(s) \in Seq(TransportsOf(X))
<1>1. s \in TokenSeqs /\ Len(s) \in Nat /\ 0 \in Nat
  BY AreTexts, LenProperties
<1>2. PICK g : ListLoop(s, g) /\ transports(s) = g[Len(s)].list
  BY <1>1, TransportTurns
<1>3. /\ g \in [Nat -> ListStates] /\ g[0] = ListStart
      /\ \A k \in Nat : k < Len(s) => g[k + 1] = ListTurn(s, g[k])
  BY <1>2 DEF ListLoop
<1> DEFINE T == {j \in Nat : j <= Len(s) => g[j].list \in Seq(TransportsOf(X))}
<1>4. g[0].list \in Seq(TransportsOf(X))
  BY <1>3, EmptySeq DEF ListStart
<1>5. \A j \in Nat : j \in T => j + 1 \in T
  <2> SUFFICES ASSUME NEW j \in Nat, j <= Len(s) => g[j].list \in Seq(TransportsOf(X)), j + 1 <= Len(s)
               PROVE  g[j + 1].list \in Seq(TransportsOf(X))
    OBVIOUS
  <2>1. j <= Len(s) /\ j < Len(s)
    BY <1>1, SMT
  <2> DEFINE acc == g[j]
             r == readFromString(s, acc.at)
  <2>2. g[j + 1] = ListTurn(s, acc) /\ acc \in ListStates /\ acc.list \in Seq(TransportsOf(X))
    BY <1>3, <2>1
  <2>3. acc.at \in Places /\ Append(acc.list, r.transport) \in Seq(TransportsOf(X))
    <3>1. acc.at \in Places
      BY <2>2 DEF ListStates
    <3>2. r.transport \in TransportsOf(X)
      BY <3>1, TransportReadOf
    <3> QED BY <2>2, <3>1, <3>2, AppendProperties
  <2> HIDE DEF acc, r
  <2>4. ListTurn(s, acc).list = acc.list \/ ListTurn(s, acc).list = Append(acc.list, r.transport)
    BY <2>2 DEF ListTurn, TakeTransport, r, ListStates
  <2> QED BY <2>2, <2>3, <2>4
<1>6. T \in SUBSET Nat /\ 0 \in T
  BY <1>4
<1> HIDE DEF T
<1>7. Len(s) \in T
  BY <1>1, <1>5, <1>6, InductionOnSet
<1>8. Len(s) <= Len(s)
  BY <1>1, SMT
<1> QED BY <1>2, <1>7, <1>8 DEF T

LEMMA TransportsRead ==
  ASSUME NEW s \in TokenSeqs
  PROVE  transports(s) \in Seq(Transports)
BY TransportsReadOf, OfTokens

\* merge() of PortRangeList.
LEMMA Merged ==
  ASSUME NEW list \in Seq(Ranges), NEW r \in Ranges
  PROVE  Merge(list, r) \in Seq(Ranges)
<1> DEFINE P == {i \in DOMAIN list : list[i].base = r.base}
           k == Min(P)
<1>1. P \in SUBSET DOMAIN list
  OBVIOUS
<1>2. Merge(list, r) = IF P # {} THEN [list EXCEPT ![k].count = Max({list[k].count, r.count})] ELSE Append(list, r)
  <2>1. P # {} <=> \E i \in DOMAIN list : list[i].base = r.base
    OBVIOUS
  <2>2. Merge(list, r) = IF \E i \in DOMAIN list : list[i].base = r.base
                           THEN [list EXCEPT ![k].count = Max({list[k].count, r.count})] ELSE Append(list, r)
    BY Zenon DEF Merge
  <2> HIDE DEF P, k
  <2> QED BY <2>1, <2>2, Zenon
<1>3. CASE P # {}
  <2> HIDE DEF P
  <2>1. k \in 1..Len(list) /\ list[k] \in Ranges
    BY <1>1, <1>3, IndexFound
  <2> HIDE DEF k
  <2>2. Max({list[k].count, r.count}) \in Nat
    <3> DEFINE a == list[k].count c == r.count
    <3>1. a \in Nat /\ c \in Nat
      BY <2>1 DEF Ranges
    <3> HIDE DEF a, c
    <3>2. \E m \in {a, c} : \A i \in {a, c} : m >= i
      <4>1. a >= c \/ c >= a
        BY <3>1, SMT
      <4>2. a >= a /\ c >= c
        BY <3>1, SMT
      <4> QED BY <4>1, <4>2
    <3>3. Max({a, c}) \in {a, c}
      BY <3>2, Zenon DEF Max
    <3> QED BY <3>1, <3>3 DEF a, c
  <2>3. [list[k] EXCEPT !.count = Max({list[k].count, r.count})] \in Ranges
    BY <2>1, <2>2 DEF Ranges
  <2>4. [list EXCEPT ![k].count = Max({list[k].count, r.count})]
        = [list EXCEPT ![k] = [list[k] EXCEPT !.count = Max({list[k].count, r.count})]]
    <3> DEFINE m == Max({list[k].count, r.count})
    <3> HIDE DEF m
    <3>1. [list EXCEPT ![k].count = m] = [list EXCEPT ![k] = [list[k] EXCEPT !.count = m]]
      OBVIOUS
    <3> QED BY <3>1 DEF m
  <2> QED BY <1>2, <1>3, <2>1, <2>3, <2>4, ExceptSeq
<1>4. CASE P = {}
  BY <1>2, <1>4, AppendProperties
<1> QED BY <1>3, <1>4

\* What transport_get_ports() does with a transport.
PortsTurn(ports, t, type) ==
  LET r == FromText(argument(t, type)) IN IF r = None THEN ports ELSE Merge(ports, r)

\* The states of its loop, g[k] after k turns.
PortsLoop(list, type, g) ==
  /\ g \in [Nat -> Seq(Ranges)] /\ g[0] = <<>>
  /\ \A k \in Nat : k < Len(list) => g[k + 1] = PortsTurn(g[k], list[k + 1], type)

\* The loop over the transports, from its start to its end.
LEMMA PortsTurns ==
  ASSUME NEW list \in Seq(Transports), NEW type
  PROVE  \E g : PortsLoop(list, type, g) /\ GetPorts(list, type) = g[Len(list)]
<1> DEFINE n == Len(list)
           b == <<>>
           Turn(ports, i) == PortsTurn(ports, list[i], type)
           G == [p \in Seq(Ranges) \X (1..n) |-> Turn(p[1], p[2])]
           Is(f) == f = [S \in SUBSET (1..n) |-> IF S = {} THEN b ELSE Turn(f[S \ {Max(S)}], Max(S))]
           fold == CHOOSE f : Is(f)
           H == [S \in SUBSET (1..n) |-> Turn(fold[S \ {Max(S)}], Max(S))]
<1>1. n \in Nat /\ DOMAIN list = 1..n
  BY LenProperties
<1>2. b \in Seq(Ranges)
  BY EmptySeq
<1>3. \A ports \in Seq(Ranges), i \in 1..n : Turn(ports, i) \in Seq(Ranges)
  <2> TAKE ports \in Seq(Ranges), i \in 1..n
  <2> DEFINE r == FromText(argument(list[i], type))
  <2>1. list[i] \in Transports
    BY <1>1, ElementOfSeq
  <2>2. r \in Ranges \cup {None}
    BY <2>1, ArgumentRead, RangeRead
  <2> HIDE DEF r
  <2> QED BY <2>2, Merged DEF PortsTurn, r
<1>4. GetPorts(list, type) = fold[1..n]
  <2> HIDE DEF n
  <2>1. GetPorts(list, type) = (CHOOSE f : f = [S \in SUBSET (DOMAIN list) |->
                 IF S = {} THEN b ELSE Turn(f[S \ {Max(S)}], Max(S))])[DOMAIN list]
    BY Zenon DEF GetPorts, FoldLeft, MapThenFoldSet, PortsTurn
  <2> QED BY <1>1, <2>1, Zenon
<1> HIDE DEF b, n, Turn
<1>5. G \in [Seq(Ranges) \X (1..n) -> Seq(Ranges)]
  BY <1>3
<1>6. Is(fold)
  <2>1. PICK f \in [SUBSET (1..n) -> Seq(Ranges)] : FoldOf(f, b, G, n)
    <3> HIDE DEF G
    <3> QED BY <1>1, <1>2, <1>5, FoldSolved
  <2>2. ASSUME NEW S \in SUBSET (1..n), S # {}
        PROVE  G[<<f[S \ {Max(S)}], Max(S)>>] = Turn(f[S \ {Max(S)}], Max(S))
    <3>1. Max(S) \in 1..n
      BY <1>1, <2>2, MaxIsGreatest
    <3> QED BY <2>1, <3>1
  <2>3. Is(f)
    BY <2>1, <2>2 DEF FoldOf
  <2> QED BY <2>3, Zenon
<1> HIDE DEF fold
<1>7. Steps(fold, b, H, n)
  <2>1. \A S \in SUBSET (1..n) : H[S] = Turn(fold[S \ {Max(S)}], Max(S))
    OBVIOUS
  <2> HIDE DEF H
  <2> QED BY <1>6, <2>1 DEF Steps
<1>8. Agrees(fold, H, G, Seq(Ranges), n)
  <2> SUFFICES ASSUME NEW S \in SUBSET (1..n), S # {}, fold[S \ {Max(S)}] \in Seq(Ranges)
               PROVE  H[S] = G[<<fold[S \ {Max(S)}], Max(S)>>]
    BY DEF Agrees
  <2>1. Max(S) \in 1..n
    BY <1>1, MaxIsGreatest
  <2> QED BY <2>1
<1>9. \A ports \in Seq(Ranges), k \in 1..n : G[<<ports, k>>] = Turn(ports, k)
  OBVIOUS
<1> HIDE DEF H, G
<1>10. fold[1..0] = b /\ Walks(fold, G, Seq(Ranges), n)
  BY <1>1, <1>2, <1>5, <1>7, <1>8, FoldSteps, FoldWithin
<1>11. ASSUME NEW k \in Nat, k < n
       PROVE  fold[1..(k + 1)] = Turn(fold[1..k], k + 1)
  <2>1. k <= n /\ k + 1 \in 1..n
    BY <1>1, <1>11, SMT
  <2> QED BY <1>9, <1>10, <1>11, <2>1 DEF Walks
<1> DEFINE g == [k \in Nat |-> IF k <= n THEN fold[1..k] ELSE b]
<1>12. 0 <= n /\ n <= n /\ \A k \in Nat : k < n => k <= n /\ k + 1 <= n /\ k + 1 \in Nat
  BY <1>1, SMT
<1>13. g \in [Nat -> Seq(Ranges)]
  BY <1>2, <1>10 DEF Walks
<1>14. g[0] = b /\ g[n] = fold[1..n] /\ \A k \in Nat : k < n => g[k + 1] = Turn(g[k], k + 1)
  BY <1>1, <1>10, <1>11, <1>12
<1> HIDE DEF g
<1>15. PortsLoop(list, type, g)
  BY <1>13, <1>14 DEF PortsLoop, b, n, Turn
<1> QED BY <1>4, <1>14, <1>15 DEF n

\* transport_get_ports().
LEMMA PortsGot ==
  ASSUME NEW list \in Seq(Transports), NEW type
  PROVE  GetPorts(list, type) \in Seq(Ranges)
<1>1. Len(list) \in Nat
  BY LenProperties
<1> QED BY <1>1, PortsTurns DEF PortsLoop

\* findByBase() gives an index, or -1.
LEMMA BaseFound ==
  ASSUME NEW list \in Seq(Ranges), NEW base
  PROVE  LET n == FindByBase(list, base) IN n = -1 \/ (n \in Nat /\ n + 1 \in 1..Len(list))
<1> DEFINE P == {i \in DOMAIN list : list[i].base = base}
<1>1. P \in SUBSET DOMAIN list
  OBVIOUS
<1>2. P # {} <=> \E i \in DOMAIN list : list[i].base = base
  OBVIOUS
<1>3. FindByBase(list, base) = IF \E i \in DOMAIN list : list[i].base = base THEN Min(P) - 1 ELSE -1
  BY Zenon DEF FindByBase
<1> HIDE DEF P
<1>4. P # {} => Min(P) \in 1..Len(list)
  BY <1>1, IndexFound
<1>5. Len(list) \in Nat
  BY LenProperties
<1> QED BY <1>2, <1>3, <1>4, <1>5, SMT

\* QValueList's operator[], which gives a default element past the end.
LEMMA ElementAt ==
  ASSUME NEW list \in Seq(Ranges), NEW n \in Int
  PROVE  At(list, n) \in Ranges
<1> DEFINE k == n % (Len(list) + 1)
<1>1. Len(list) \in Nat /\ NoRange \in Ranges
  BY LenProperties DEF NoRange, Ranges
<1>2. k \in 0..Len(list)
  BY <1>1, SMT
<1> HIDE DEF k
<1>3. k # Len(list) => k + 1 \in 1..Len(list)
  BY <1>1, <1>2, SMT
<1>4. k # Len(list) => list[k + 1] \in Ranges
  BY <1>3, ElementOfSeq
<1> QED BY <1>1, <1>4 DEF At, k

\* transport_set_ports().
LEMMA PortsSetOf ==
  ASSUME NEW X, Writable(X), NEW list \in Seq(TransportsOf(X)), NEW type, NEW new \in Seq(Ranges)
  PROVE  SetPorts(list, type, new) \in Seq(TransportsOf(X))
<1> DEFINE old == GetPorts(list, type)
           Range0(t) == FromText(argument(t, type))
           SetPort(t) ==
             LET r == Range0(t)
             IN  IF r = None THEN t
                 ELSE setArgument(t, type, ToText([r EXCEPT !.base = At(new, FindByBase(old, r.base)).base]))
<1>1. old \in Seq(Ranges)
  BY AreTexts, PortsGot DEF Writable
<1>2. /\ DOMAIN list = 1..Len(list) /\ Len(list) \in Nat
      /\ \A i \in 1..Len(list) : list[i] \in TransportsOf(X)
  BY LenProperties, ElementOfSeq
<1>3. SetPorts(list, type, new) = [i \in DOMAIN list |-> SetPort(list[i])]
  BY Zenon DEF SetPorts
<1> HIDE DEF old
<1>4. ASSUME NEW t \in TransportsOf(X) PROVE SetPort(t) \in TransportsOf(X)
  <2>1. Range0(t) \in Ranges \cup {None}
    BY AreTexts, ArgumentRead, RangeRead DEF Writable
  <2> HIDE DEF Range0
  <2> SUFFICES ASSUME NEW r \in Ranges
               PROVE  setArgument(t, type, ToText([r EXCEPT !.base = At(new, FindByBase(old, r.base)).base]))
                        \in TransportsOf(X)
    BY <2>1
  <2>2. FindByBase(old, r.base) \in Int
    BY <1>1, BaseFound
  <2>3. At(new, FindByBase(old, r.base)) \in Ranges
    BY <2>2, ElementAt
  <2>4. [r EXCEPT !.base = At(new, FindByBase(old, r.base)).base] \in Ranges
    BY <2>3 DEF Ranges
  <2> QED BY <2>4, ShortTextsOf, ArgumentSetOf
<1> HIDE DEF SetPort
<1> QED BY <1>2, <1>3, <1>4, SeqDef

LEMMA PortsSet ==
  ASSUME NEW list \in Seq(Transports), NEW type, NEW new \in Seq(Ranges)
  PROVE  SetPorts(list, type, new) \in Seq(Transports)
BY PortsSetOf, TokensWritable, OfTokens

\* The text of an answer to SETUP.
LEMMA ReplyOf ==
  ASSUME NEW X, Writable(X), Word("server_port") \in X,
         NEW t \in TransportsOf(X), NEW ports \in Ranges, NEW used \in Ranges
  PROVE  ReplyText(t, ports, used) \in Seq(X)
<1> DEFINE set == setArgument(t, "client_port", ToText([ports EXCEPT !.count = used.count]))
           arg == [name |-> <<Word("server_port")>>, value |-> ToText(used)]
<1>1. [ports EXCEPT !.count = used.count] \in Ranges
  BY DEF Ranges
<1>2. set \in TransportsOf(X)
  BY <1>1, ShortTextsOf, ArgumentSetOf
<1>3. arg \in ArgumentsOf(X)
  BY ShortTextsOf DEF ArgumentsOf
<1> HIDE DEF set, arg
<1>4. toString(set) \in Seq(X) /\ ArgText(arg) \in Seq(X)
  BY <1>2, <1>3, TransportTextOf, ArgTextOf
<1>5. ReplyText(t, ports, used) = toString(set) \o ArgText(arg)
  BY Zenon DEF ReplyText, set, arg
<1> QED BY <1>4, <1>5, ConcatProperties

LEMMA ReplyWritten ==
  ASSUME NEW t \in Transports, NEW ports \in Ranges, NEW used \in Ranges
  PROVE  ReplyText(t, ports, used) \in TokenSeqs
<1>1. Word("server_port") \in Tokens
  BY RtspTransportAssumption DEF Tokens, Word
<1> QED BY <1>1, ReplyOf, TokensWritable, OfTokens

-----------------------------------------------------------------------------
(* The ports that an AltPorts holds.                                       *)

Allowed == PORT_ALLOC_BASE..PORT_ALLOC_MAX

\* A range that is allocated has the size that was asked for, and nobody holds it.
LEMMA Allocated ==
  ASSUME NEW count \in Nat, NEW used, NEW r, r = Allocate(count, used), r # None
  PROVE  r \in Ranges /\ r.count = count /\ Ports(r) \subseteq Allowed /\ Ports(r) \cap used = {}
<1> DEFINE free == FreeStarts(PORT_ALLOC_BASE, count, used)
           b == Min(free)
<1>1. free # {} /\ r = [base |-> b, count |-> count]
  <2>1. r = FirstFit(PORT_ALLOC_BASE, count, used)
    BY AllocateIsFirstFit
  <2>2. FirstFit(PORT_ALLOC_BASE, count, used) = IF free = {} THEN None ELSE [base |-> b, count |-> count]
    BY Zenon DEF FirstFit
  <2> HIDE DEF free, b
  <2> QED BY <2>1, <2>2
<1>2. free \in SUBSET Nat
  BY AltPortsAssumption, SMT DEF FreeStarts
<1>3. b \in free
  BY <1>1, <1>2, MinIsLeast, Zenon
<1>4. /\ b \in PORT_ALLOC_BASE..(PORT_ALLOC_MAX - count + 1)
      /\ Ports([base |-> b, count |-> count]) \cap used = {}
  BY <1>3 DEF FreeStarts
<1> HIDE DEF b, free
<1>5. Ports([base |-> b, count |-> count]) = b..(b + count - 1)
  BY DEF Ports
<1>6. b..(b + count - 1) \subseteq Allowed /\ b \in Nat
  BY <1>4, AltPortsAssumption, SMT DEF Allowed
<1> QED BY <1>1, <1>4, <1>5, <1>6 DEF Ranges

Apart(list) ==
  \A i, j \in 1..Len(list) : i # j => Ports(list[i]) \cap Ports(list[j]) = {}

\* A range for each of the first k, free but for each other, apart and of their sizes.
Reserves(list, real, k, used) ==
  /\ list \in Seq(Ranges) /\ Len(list) = k
  /\ Apart(list)
  /\ \A i \in 1..Len(list) : list[i].count = real[i].count
  /\ \A i \in 1..Len(list) : Ports(list[i]) \subseteq Allowed /\ Ports(list[i]) \cap used = {}

\* One more range, that was free, is apart from those before.
LEMMA OneMore ==
  ASSUME NEW real, NEW k \in Nat, NEW used, NEW list, Reserves(list, real, k, used),
         NEW count \in Nat, real[k + 1].count = count,
         NEW held, held = UNION {Ports(list[i]) : i \in DOMAIN list},
         NEW r, r = Allocate(count, used \cup held), r # None
  PROVE  Reserves(Append(list, r), real, k + 1, used)
<1> DEFINE new == Append(list, r)
<1>1. /\ r \in Ranges /\ Ports(r) \subseteq Allowed /\ Ports(r) \cap (used \cup held) = {}
      /\ r.count = count
  <2>1. r = Allocate(count, used \cup held) /\ r # None
    OBVIOUS
  <2> QED BY ONLY count \in Nat, <2>1, Allocated
<1>2. list \in Seq(Ranges) /\ Len(list) = k /\ DOMAIN list = 1..k
  BY LenProperties DEF Reserves
<1>3. \A i \in 1..k : Ports(list[i]) \cap Ports(r) = {}
  BY <1>1, <1>2
<1>4. /\ new \in Seq(Ranges) /\ Len(new) = k + 1 /\ new[k + 1] = r
      /\ \A i \in 1..k : new[i] = list[i]
  BY <1>1, <1>2, AppendProperties
<1> HIDE DEF new
<1>5. \A i \in 1..(k + 1) : i # k + 1 => i \in 1..k
  BY SMT
<1>6. ASSUME NEW i \in 1..(k + 1)
      PROVE  /\ Ports(new[i]) \subseteq Allowed /\ Ports(new[i]) \cap used = {}
             /\ new[i].count = real[i].count
  <2>1. CASE i = k + 1
    BY <1>1, <1>4, <2>1
  <2>2. CASE i # k + 1
    BY <1>2, <1>4, <1>5, <2>2 DEF Reserves
  <2> QED BY <2>1, <2>2
<1>7. ASSUME NEW i \in 1..(k + 1), NEW j \in 1..(k + 1), i # j
      PROVE  Ports(new[i]) \cap Ports(new[j]) = {}
  <2>1. CASE i = k + 1
    BY <1>3, <1>4, <1>5, <1>7, <2>1
  <2>2. CASE j = k + 1
    BY <1>3, <1>4, <1>5, <1>7, <2>2
  <2>3. CASE i # k + 1 /\ j # k + 1
    BY <1>2, <1>4, <1>5, <1>7, <2>3 DEF Reserves, Apart
  <2> QED BY <2>1, <2>2, <2>3
<1>8. Reserves(new, real, k + 1, used)
  BY <1>4, <1>6, <1>7 DEF Reserves, Apart
<1> QED BY <1>8 DEF new

ReserveStates == Seq(Ranges) \cup {None}

\* The loop of reserve().
LEMMA RangesReserved ==
  ASSUME NEW real \in Seq(Ranges), NEW used, Reserved(real, used) # None
  PROVE  Reserves(Reserved(real, used), real, Len(real), used)
<1> DEFINE n == Len(real)
           b == <<>>
           Turn(acc, k) ==
             IF acc = None THEN None
             ELSE LET s == Allocate(real[k].count, used \cup UNION {Ports(acc[i]) : i \in DOMAIN acc})
                  IN  IF s = None THEN None ELSE Append(acc, s)
           G == [p \in ReserveStates \X (1..n) |-> Turn(p[1], p[2])]
           Is(f) == f = [S \in SUBSET (1..n) |-> IF S = {} THEN b ELSE Turn(f[S \ {Max(S)}], Max(S))]
           fold == CHOOSE f : Is(f)
           H == [S \in SUBSET (1..n) |-> Turn(fold[S \ {Max(S)}], Max(S))]
<1>1. n \in Nat /\ DOMAIN real = 1..n /\ \A k \in 1..n : real[k].count \in Nat
  <2>1. Len(real) \in Nat /\ DOMAIN real = 1..Len(real)
    BY LenProperties
  <2>2. \A k \in 1..Len(real) : real[k] \in Ranges
    BY ElementOfSeq
  <2>3. \A r \in Ranges : r.count \in Nat
    BY DEF Ranges
  <2> QED BY <2>1, <2>2, <2>3
<1>2. b \in ReserveStates
  BY EmptySeq DEF ReserveStates
<1>3. \A acc \in ReserveStates, k \in 1..n : Turn(acc, k) \in ReserveStates
  <2> TAKE acc \in ReserveStates, k \in 1..n
  <2> DEFINE held == UNION {Ports(acc[i]) : i \in DOMAIN acc}
             r == Allocate(real[k].count, used \cup held)
  <2>1. real[k].count \in Nat
    BY <1>1
  <2>2. r # None => r \in Ranges
    <3> HIDE DEF held
    <3> QED BY <2>1, Allocated
  <2>3. Turn(acc, k) = IF acc = None THEN None ELSE IF r = None THEN None ELSE Append(acc, r)
    OBVIOUS
  <2> HIDE DEF r, Turn
  <2>4. acc # None /\ r # None => Append(acc, r) \in Seq(Ranges)
    BY <2>2, AppendProperties DEF ReserveStates
  <2> QED BY <2>3, <2>4 DEF ReserveStates
<1>4. Reserved(real, used) = fold[1..n]
  <2> HIDE DEF n
  <2>1. Reserved(real, used) = (CHOOSE f : f = [S \in SUBSET (DOMAIN real) |->
                 IF S = {} THEN b ELSE Turn(f[S \ {Max(S)}], Max(S))])[DOMAIN real]
    BY Zenon DEF Reserved, FoldLeft, MapThenFoldSet
  <2> QED BY <1>1, <2>1, Zenon
<1> HIDE DEF b, n, Turn
<1>5. G \in [ReserveStates \X (1..n) -> ReserveStates]
  BY <1>3
<1>6. Is(fold)
  <2>1. PICK f \in [SUBSET (1..n) -> ReserveStates] : FoldOf(f, b, G, n)
    <3> HIDE DEF G
    <3> QED BY <1>1, <1>2, <1>5, FoldSolved
  <2>2. ASSUME NEW S \in SUBSET (1..n), S # {}
        PROVE  G[<<f[S \ {Max(S)}], Max(S)>>] = Turn(f[S \ {Max(S)}], Max(S))
    <3>1. Max(S) \in 1..n
      BY <1>1, <2>2, MaxIsGreatest
    <3> QED BY <2>1, <3>1
  <2>3. Is(f)
    BY <2>1, <2>2 DEF FoldOf
  <2> QED BY <2>3, Zenon
<1> HIDE DEF fold
<1>7. Steps(fold, b, H, n)
  <2>1. \A S \in SUBSET (1..n) : H[S] = Turn(fold[S \ {Max(S)}], Max(S))
    OBVIOUS
  <2> HIDE DEF H
  <2> QED BY <1>6, <2>1 DEF Steps
<1>8. Agrees(fold, H, G, ReserveStates, n)
  <2> SUFFICES ASSUME NEW S \in SUBSET (1..n), S # {}, fold[S \ {Max(S)}] \in ReserveStates
               PROVE  H[S] = G[<<fold[S \ {Max(S)}], Max(S)>>]
    BY DEF Agrees
  <2>1. Max(S) \in 1..n
    BY <1>1, MaxIsGreatest
  <2> QED BY <2>1
<1>9. \A acc \in ReserveStates, k \in 1..n : G[<<acc, k>>] = Turn(acc, k)
  OBVIOUS
<1> HIDE DEF H, G
<1>10. /\ fold[1..0] = b
       /\ \A k \in Nat : k <= n => fold[1..k] \in ReserveStates
       /\ \A k \in Nat : k < n => fold[1..(k + 1)] = G[<<fold[1..k], k + 1>>]
  <2>1. fold[1..0] = b
    BY <1>1, <1>7, FoldSteps
  <2>2. Walks(fold, G, ReserveStates, n)
    BY <1>1, <1>2, <1>5, <1>7, <1>8, FoldWithin
  <2> QED BY <2>1, <2>2 DEF Walks
<1>11. fold[1..0] = <<>>
  BY <1>10 DEF b
<1>12. ASSUME NEW k \in Nat, k < n
       PROVE  fold[1..(k + 1)] = Turn(fold[1..k], k + 1) /\ fold[1..k] \in ReserveStates
  <2>1. k <= n /\ k + 1 \in 1..n
    BY <1>1, <1>12, SMT
  <2> QED BY <1>9, <1>10, <1>12, <2>1
<1> DEFINE T == {k \in Nat : k <= n => fold[1..k] = None \/ Reserves(fold[1..k], real, k, used)}
<1>13. 0 \in T
  <2>1. \A i \in 1..0 : FALSE
    BY SMT
  <2>2. Reserves(<<>>, real, 0, used)
    BY <2>1, EmptySeq DEF Reserves, Apart
  <2> QED BY <1>11, <2>2
<1>14. ASSUME NEW k \in Nat, k \in T PROVE k + 1 \in T
  <2> SUFFICES ASSUME k + 1 <= n
               PROVE  fold[1..(k + 1)] = None \/ Reserves(fold[1..(k + 1)], real, k + 1, used)
    OBVIOUS
  <2>1. k < n /\ k <= n /\ k + 1 \in 1..n
    BY <1>1, SMT
  <2>2. fold[1..(k + 1)] = Turn(fold[1..k], k + 1)
    BY <1>12, <2>1
  <2>3. CASE fold[1..k] = None
    BY <2>2, <2>3 DEF Turn
  <2>4. CASE fold[1..k] # None
    <3>1. Reserves(fold[1..k], real, k, used)
      BY <1>14, <2>1, <2>4
    <3>2. real[k + 1].count \in Nat
      BY <1>1, <2>1
    <3> DEFINE acc == fold[1..k]
    <3> HIDE DEF acc
    <3>3. Reserves(acc, real, k, used) /\ acc # None /\ fold[1..(k + 1)] = Turn(acc, k + 1)
      BY <2>2, <2>4, <3>1 DEF acc
    <3> DEFINE held == UNION {Ports(acc[i]) : i \in DOMAIN acc}
               r == Allocate(real[k + 1].count, used \cup held)
    <3>4. Turn(acc, k + 1) = IF r = None THEN None ELSE Append(acc, r)
      BY <3>3 DEF Turn
    <3>5. r # None => Reserves(Append(acc, r), real, k + 1, used)
      BY <3>2, <3>3, OneMore, Zenon
    <3> HIDE DEF r
    <3> QED BY <3>3, <3>4, <3>5
  <2> QED BY <2>3, <2>4
<1>15. n \in T
  <2> HIDE DEF T
  <2>1. T \in SUBSET Nat
    BY DEF T
  <2> QED BY <1>1, <1>13, <1>14, <2>1, InductionOnSet
<1>16. n <= n
  BY <1>1, SMT
<1>17. fold[1..n] = None \/ Reserves(fold[1..n], real, n, used)
  BY <1>15, <1>16
<1> QED BY <1>4, <1>17 DEF n

-----------------------------------------------------------------------------
(* The ports that the proxy holds.                                         *)

AltPortsStates == [list: Seq(Ranges), ports: Ranges \cup {None}, orig: Seq(Ranges)]

\* An AltPorts holds a range for each that it was given, or the one it keeps; its
\* ports are allowed and of no other program.
AltOk(alt) ==
  /\ alt \in AltPortsStates
  /\ alt.ports = None => Len(alt.list) = Len(alt.orig)
  /\ alt.ports # None => alt.list = <<>>
  /\ Apart(alt.list)
  /\ Held(alt) \subseteq Allowed \ OtherPorts

\* An AltPorts without ports.
LEMMA EmptyIsOk == AltOk(Empty) /\ Held(Empty) = {}
<1>1. Empty \in AltPortsStates
  BY EmptySeq DEF Empty, AltPortsStates
<1>2. Empty.list = <<>> /\ Empty.orig = <<>> /\ Empty.ports = None
  BY DEF Empty
<1>3. DOMAIN <<>> = {} /\ Len(<<>>) = 0 /\ \A i \in 1..0 : FALSE
  BY EmptyIsSeq, SMT
<1>4. Apart(<<>>)
  BY <1>3 DEF Apart
<1>5. Held(Empty) = {}
  BY <1>2, <1>3 DEF Held
<1> QED BY <1>1, <1>2, <1>4, <1>5 DEF AltOk

\* reserve(): the new ports are not bound yet.
LEMMA HeldReserved ==
  ASSUME NEW alt, AltOk(alt), NEW real \in Seq(Ranges), NEW used, OtherPorts \subseteq used,
         CanReserve(alt, real, used), NEW new, new = Reserve(alt, real, used)
  PROVE  /\ AltOk(new) /\ Held(new) \cap used = {}
         /\ new.list \in Seq(Ranges) /\ Len(new.list) = Len(real)
         /\ new.orig = real /\ new.ports = None
         /\ \A i \in 1..Len(real) : new.list[i].count = real[i].count
<1> DEFINE list == Reserved(real, used)
<1>1. list # None /\ alt.ports = None
  BY DEF CanReserve, IsEmpty
<1>2. Reserves(list, real, Len(real), used)
  BY <1>1, RangesReserved
<1>3. new = [alt EXCEPT !.list = list, !.orig = real]
  BY DEF Reserve
<1> HIDE DEF list
<1>4. new.list = list /\ new.orig = real /\ new.ports = None
  BY <1>1, <1>3 DEF AltOk, AltPortsStates
<1>5. list \in Seq(Ranges) /\ Len(list) = Len(real) /\ Apart(list) /\ DOMAIN list = 1..Len(list)
  BY <1>2, LenProperties DEF Reserves
<1>6. new \in AltPortsStates
  BY <1>1, <1>3, <1>5 DEF AltOk, AltPortsStates
<1>7. Held(new) = UNION {Ports(list[i]) : i \in 1..Len(list)}
  BY <1>4, <1>5 DEF Held
<1>8. Held(new) \subseteq Allowed /\ Held(new) \cap used = {}
  BY <1>2, <1>7 DEF Reserves
<1>9. \A i \in 1..Len(real) : list[i].count = real[i].count
  BY <1>2, <1>5 DEF Reserves
<1> QED BY <1>4, <1>5, <1>6, <1>8, <1>9 DEF AltOk

\* keep(): no port is added.
LEMMA HeldKept ==
  ASSUME NEW alt, AltOk(alt), NEW r \in Ranges, NEW new, new = Keep(alt, r)
  PROVE  AltOk(new) /\ Held(new) \subseteq Held(alt) /\ RangeOf(new) \in Ranges
<1> DEFINE n == FindByBase(alt.orig, r.base)
           s == alt.list[n + 1]
<1>1. /\ alt \in AltPortsStates /\ alt.list \in Seq(Ranges) /\ alt.orig \in Seq(Ranges)
      /\ alt.ports \in Ranges \cup {None}
  BY DEF AltOk, AltPortsStates
<1>2. n = -1 \/ (n \in Nat /\ n + 1 \in 1..Len(alt.orig))
  BY <1>1, BaseFound
<1>3. new = IF alt.ports # None \/ n = -1 THEN alt
            ELSE [alt EXCEPT !.ports = Resize(s, r.count), !.list = <<>>]
  BY DEF Keep
<1>4. NoRange \in Ranges
  BY DEF NoRange, Ranges
<1> HIDE DEF n
<1>5. CASE alt.ports # None \/ n = -1
  BY <1>1, <1>3, <1>4, <1>5 DEF RangeOf
<1>6. CASE ~(alt.ports # None \/ n = -1)
  <2>1. n + 1 \in 1..Len(alt.list) /\ DOMAIN alt.list = 1..Len(alt.list) /\ s \in Ranges
    BY <1>1, <1>2, <1>6, ElementOfSeq, LenProperties DEF AltOk
  <2>2. Ports(s) \subseteq Held(alt)
    BY <2>1 DEF Held
  <2> HIDE DEF s
  <2> DEFINE kept == Resize(s, r.count)
  <2>3. kept \in Ranges /\ kept.base = s.base /\ kept.count <= s.count
    BY <2>1, SMT DEF Resize, Ranges
  <2>4. Ports(kept) \subseteq Ports(s)
    BY <2>1, <2>3, SMT DEF Ports, Ranges
  <2> HIDE DEF kept
  <2>5. kept # None
    BY <2>3, AltPortsAssumption DEF Ranges
  <2>6. new = [alt EXCEPT !.ports = kept, !.list = <<>>]
    BY <1>3, <1>6 DEF kept
  <2>7. new.ports = kept /\ new.list = <<>> /\ new \in AltPortsStates
    BY <1>1, <2>3, <2>6, EmptySeq DEF AltPortsStates
  <2>8. DOMAIN <<>> = {} /\ Len(<<>>) = 0 /\ \A i \in 1..0 : FALSE
    BY EmptyIsSeq, SMT
  <2>9. Apart(<<>>)
    BY <2>8 DEF Apart
  <2>10. Held(new) = Ports(kept)
    BY <2>5, <2>7, <2>8 DEF Held
  <2> QED BY <2>2, <2>3, <2>4, <2>5, <2>7, <2>9, <2>10 DEF AltOk, RangeOf
<1> QED BY <1>5, <1>6

\* A packet holds the transports that the code reads from its text.
PacketsRead(s) == \A i \in DOMAIN s : s[i].list \in Seq(Transports)

\* One more packet.
LEMMA PacketAppended ==
  ASSUME NEW s, IsSeq(s), PacketsRead(s), NEW e, e.list \in Seq(Transports)
  PROVE  PacketsRead(Append(s, e))
<1>1. \A i \in 1..(Len(s) + 1) : i = Len(s) + 1 \/ i \in 1..Len(s)
  <2>1. Len(s) \in Nat
    BY Appended
  <2> QED BY <2>1, SMT
<1> QED BY <1>1, Appended DEF PacketsRead

\* The packets of two sequences.
LEMMA PacketsJoined ==
  ASSUME NEW s, IsSeq(s), PacketsRead(s), NEW t, IsSeq(t), PacketsRead(t)
  PROVE  PacketsRead(s \o t)
<1>1. /\ DOMAIN (s \o t) = 1..(Len(s) + Len(t)) /\ DOMAIN s = 1..Len(s) /\ DOMAIN t = 1..Len(t)
      /\ Len(s) \in Nat /\ Len(t) \in Nat
      /\ \A i \in 1..(Len(s) + Len(t)) : (s \o t)[i] = IF i <= Len(s) THEN s[i] ELSE t[i - Len(s)]
  BY JoinedIs
<1>2. \A i \in 1..(Len(s) + Len(t)) : IF i <= Len(s) THEN i \in 1..Len(s) ELSE i - Len(s) \in 1..Len(t)
  BY <1>1, SMT
<1> QED BY <1>1, <1>2 DEF PacketsRead

\* What the two AltPorts hold, and the lists of the mapper.
MapperInv ==
  /\ AltOk(cPorts) /\ AltOk(sPorts)
  /\ Held(cPorts) \cap Held(sPorts) = {}
  /\ cReal \in Seq(Ranges) /\ cAlt \in Seq(Ranges)
  /\ reserved => Len(cAlt) <= Len(cReal)
  /\ ~reserved => cAlt = <<>>

PortsInv ==
  /\ MapperInv
  /\ PacketsRead(sent) /\ PacketsRead(cpackets)
  /\ answered \in Nat

\* The client's ranges are reserved.
LEMMA ReserveStep ==
  ASSUME MapperInv, NEW ranges \in Seq(Ranges), ReserveDirectClient(ranges)
  PROVE  MapperInv'
<1>1. CASE reserved
  BY <1>1 DEF ReserveDirectClient, MapperInv, mapperVars
<1>2. CASE ~reserved
  <2>1. cReal' = ranges /\ sPorts' = sPorts
    BY <1>2 DEF ReserveDirectClient
  <2>2. CASE CanReserve(cPorts, ranges, Bound)
    <3>1. /\ cPorts' = Reserve(cPorts, ranges, Bound) /\ cAlt' = cPorts'.list /\ reserved' = TRUE
      BY <1>2, <2>2 DEF ReserveDirectClient
    <3>2. OtherPorts \subseteq Bound /\ Held(sPorts) \subseteq Bound
      BY DEF Bound
    <3>3. AltOk(cPorts)
      BY DEF MapperInv
    <3>4. /\ AltOk(cPorts') /\ Held(cPorts') \cap Bound = {}
          /\ cPorts'.list \in Seq(Ranges) /\ Len(cPorts'.list) = Len(ranges)
      BY <2>2, <3>1, <3>2, <3>3, HeldReserved
    <3>5. Held(cPorts') \cap Held(sPorts) = {}
      BY <3>2, <3>4
    <3>6. AltOk(sPorts') /\ Held(sPorts') = Held(sPorts) /\ Held(cPorts)' = Held(cPorts')
      BY <2>1 DEF MapperInv, AltOk, Held
    <3> QED BY <2>1, <3>1, <3>4, <3>5, <3>6 DEF MapperInv
  <2>3. CASE ~CanReserve(cPorts, ranges, Bound)
    BY <1>2, <2>1, <2>3 DEF ReserveDirectClient, MapperInv
  <2> QED BY <2>2, <2>3
<1> QED BY <1>1, <1>2

\* One of them is kept, and a range for the server is reserved and kept.
LEMMA FinalizeStep ==
  ASSUME MapperInv, NEW clientPorts \in Ranges, NEW serverPorts \in Ranges,
         Finalize(clientPorts, serverPorts)
  PROVE  MapperInv'
<1> DEFINE n == FindByBase(cAlt, clientPorts.base)
           real == [cReal[n + 1] EXCEPT !.count = clientPorts.count]
           list == <<serverPorts>>
           used == OtherPorts \cup Held(cPorts') \cup Held(sPorts)
           held == Reserve(sPorts, list, used)
<1>1. reserved' = reserved
  BY DEF Finalize
<1>2. CASE ready \/ n = -1
  <2>1. UNCHANGED <<cReal, cPorts, cAlt, sPorts>>
    BY <1>2 DEF Finalize
  <2> QED BY <1>1, <2>1 DEF MapperInv
<1>3. CASE ~(ready \/ n = -1)
  <2>1. /\ FinalizeClient(n, clientPorts.count)
        /\ IF CanReserve(sPorts, list, used) THEN sPorts' = Keep(held, serverPorts) ELSE sPorts' = sPorts
    BY <1>3 DEF Finalize
  <2>2. cReal' = cReal /\ cPorts' = Keep(cPorts, real) /\ cAlt' = <<RangeOf(cPorts')>>
    BY <2>1 DEF FinalizeClient
  <2>3. n = -1 \/ (n \in Nat /\ n + 1 \in 1..Len(cAlt))
    BY BaseFound DEF MapperInv
  <2>4. reserved /\ n + 1 \in 1..Len(cReal)
    <3>1. Len(<<>>) = 0 /\ \A i \in 1..0 : FALSE
      BY EmptyIsSeq, SMT
    <3> HIDE DEF n
    <3>2. reserved /\ n + 1 \in 1..Len(cAlt)
      BY <1>3, <2>3, <3>1 DEF MapperInv
    <3>3. Len(cAlt) \in Nat /\ Len(cReal) \in Nat /\ Len(cAlt) <= Len(cReal)
      BY <3>2, LenProperties DEF MapperInv
    <3> QED BY <3>2, <3>3, SMT
  <2> HIDE DEF n
  <2>5. real \in Ranges
    <3>1. cReal[n + 1] \in Ranges
      BY <2>4, ElementOfSeq DEF MapperInv
    <3> QED BY <3>1 DEF Ranges
  <2> HIDE DEF real
  <2>6. AltOk(cPorts) /\ AltOk(sPorts) /\ Held(cPorts) \cap Held(sPorts) = {}
    BY DEF MapperInv
  <2>7. AltOk(cPorts') /\ Held(cPorts') \subseteq Held(cPorts) /\ RangeOf(cPorts') \in Ranges
    BY <2>2, <2>5, <2>6, HeldKept
  <2>8. AltOk(sPorts') /\ Held(cPorts') \cap Held(sPorts') = {}
    <3>1. CASE CanReserve(sPorts, list, used)
      <4>1. OtherPorts \subseteq used /\ Held(cPorts') \subseteq used /\ list \in Seq(Ranges)
        OBVIOUS
      <4>2. sPorts' = Keep(held, serverPorts)
        BY <2>1, <3>1
      <4> HIDE DEF list, used
      <4>3. AltOk(held) /\ Held(held) \cap used = {}
        BY <2>6, <3>1, <4>1, HeldReserved
      <4> HIDE DEF held
      <4>4. AltOk(sPorts') /\ Held(sPorts') \subseteq Held(held)
        BY <4>2, <4>3, HeldKept
      <4> QED BY <4>1, <4>3, <4>4
    <3>2. CASE ~CanReserve(sPorts, list, used)
      <4>1. sPorts' = sPorts
        BY <2>1, <3>2
      <4> HIDE DEF list, used
      <4> QED BY <2>6, <2>7, <4>1
    <3> QED BY <3>1, <3>2
  <2>9. /\ cReal' \in Seq(Ranges) /\ cAlt' \in Seq(Ranges) /\ Len(cAlt') <= Len(cReal')
    <3>1. cReal' \in Seq(Ranges) /\ cAlt' \in Seq(Ranges) /\ Len(cAlt') = 1
      BY <2>2, <2>7 DEF MapperInv
    <3>2. Len(cReal) \in Nat
      BY LenProperties DEF MapperInv
    <3> QED BY <2>2, <2>4, <3>1, <3>2, SMT
  <2> QED BY <1>1, <2>4, <2>7, <2>8, <2>9 DEF MapperInv
<1> QED BY <1>2, <1>3

\* A packet is kept or sent.
LEMMA PacketForwarded ==
  ASSUME Requested, PacketsRead(sent), PacketsRead(cpackets),
         NEW packet, packet.list \in Seq(Transports), Forward(packet)
  PROVE  PacketsRead(sent') /\ PacketsRead(cpackets')
<1>1. /\ IsSeq(cpackets) /\ IsSeq(sent) /\ PacketsRead(<<>>) /\ IsSeq(Append(cpackets, packet))
      /\ PacketsRead(Append(cpackets, packet))
  BY Appended, EmptyIsSeq, PacketAppended DEF Requested, PacketsRead
<1>2. PacketsRead(sent \o Append(cpackets, packet))
  BY <1>1, PacketsJoined
<1>3. CASE server = "none"
  BY <1>1, <1>3 DEF Forward
<1>4. CASE server # "none"
  BY <1>1, <1>2, <1>4 DEF Forward, SendPackets
<1> QED BY <1>3, <1>4

\* Every step leaves the ports apart.
LEMMA PortsStep ==
  ASSUME Requested, PortsInv, [Next]_vars
  PROVE  PortsInv'
<1> USE DEF PortsInv
<1>1. CASE UNCHANGED vars
  BY <1>1 DEF MapperInv, vars, sessionVars, histVars, mapperVars
<1>2. CASE LocalIncomingReady
  BY <1>2 DEF LocalIncomingReady, MapperInv, histVars, mapperVars
<1>3. ASSUME NEW offer \in Offers, ClientSetup(offer) PROVE PortsInv'
  <2>1. PICK list \in {transports(offer)} : \E pl \in {GetPorts(list, "client_port")} :
          /\ requests' = Append(requests, [text |-> offer, ports |-> pl])
          /\ ReserveDirectClient(pl)
          /\ \E text \in {ListText(SetPorts(list, "client_port", cAlt'))} :
             \E read \in {transports(text)} :
               Forward([number |-> Len(requests'), setup |-> TRUE, text |-> text, list |-> read])
    BY <1>3, Zenon DEF ClientSetup
  <2>2. PICK pl \in {GetPorts(list, "client_port")} :
          /\ ReserveDirectClient(pl)
          /\ \E text \in {ListText(SetPorts(list, "client_port", cAlt'))} :
             \E read \in {transports(text)} :
               Forward([number |-> Len(requests'), setup |-> TRUE, text |-> text, list |-> read])
    BY <2>1, Zenon
  <2>3. PICK text \in {ListText(SetPorts(list, "client_port", cAlt'))} : \E read \in {transports(text)} :
               Forward([number |-> Len(requests'), setup |-> TRUE, text |-> text, list |-> read])
    BY <2>2, Zenon
  <2>4. PICK read \in {transports(text)} :
               Forward([number |-> Len(requests'), setup |-> TRUE, text |-> text, list |-> read])
    BY <2>3, Zenon
  <2>5. offer \in TokenSeqs
    BY RtspSessionAssumption DEF TokenSeqs
  <2>6. list \in Seq(Transports)
    BY <2>5, TransportsRead
  <2>7. pl \in Seq(Ranges)
    BY <2>6, PortsGot
  <2>8. MapperInv'
    BY <2>2, <2>7, ReserveStep
  <2>9. text \in TokenSeqs
    <3>1. cAlt' \in Seq(Ranges)
      BY <2>8 DEF MapperInv
    <3>2. SetPorts(list, "client_port", cAlt') \in Seq(Transports)
      BY <2>6, <3>1, PortsSet
    <3> QED BY <3>2, ListWritten
  <2>10. read \in Seq(Transports)
    BY <2>9, TransportsRead
  <2> DEFINE packet == [number |-> Len(requests'), setup |-> TRUE, text |-> text, list |-> read]
  <2>11. packet.list \in Seq(Transports) /\ Forward(packet)
    BY <2>4, <2>10
  <2>12. answered' = answered
    BY <1>3 DEF ClientSetup
  <2> HIDE DEF packet
  <2>13. PacketsRead(sent') /\ PacketsRead(cpackets')
    BY <2>11, PacketForwarded
  <2> QED BY <2>8, <2>12, <2>13
<1>4. CASE ClientRequest
  <2> DEFINE packet == [number |-> Len(requests'), setup |-> FALSE, text |-> <<>>, list |-> <<>>]
  <2>1. packet.list \in Seq(Transports) /\ Forward(packet)
    BY <1>4, EmptySeq DEF ClientRequest
  <2>2. UNCHANGED <<mapperVars, answered>>
    BY <1>4 DEF ClientRequest
  <2> HIDE DEF packet
  <2>3. PacketsRead(sent') /\ PacketsRead(cpackets')
    BY <2>1, PacketForwarded
  <2> QED BY <2>2, <2>3 DEF MapperInv, mapperVars
<1>5. CASE ClientGone
  BY <1>5 DEF ClientGone, MapperInv, histVars, mapperVars
<1>6. CASE ServerConnected
  <2>1. /\ cpackets' = <<>> /\ sent' = sent \o cpackets
        /\ UNCHANGED mapperVars /\ answered' = answered
    BY <1>6 DEF ServerConnected, SendPackets
  <2>2. PacketsRead(<<>>)
    BY EmptyIsSeq DEF PacketsRead
  <2>3. PacketsRead(sent \o cpackets)
    BY PacketsJoined DEF Requested
  <2> QED BY <2>1, <2>2, <2>3 DEF MapperInv, mapperVars
<1>7. CASE ServerGone
  BY <1>7 DEF ServerGone, MapperInv, histVars, mapperVars
<1>8. CASE ServerAnswer
  BY <1>8 DEF ServerAnswer, MapperInv, histVars, mapperVars, sessionVars
<1>9. ASSUME NEW k \in 1..3, NEW count \in 1..PORT_ALLOC_MAX, ServerSetupAnswer(k, count)
      PROVE  PortsInv'
  <2> DEFINE r     == sent[answered + 1]
             ports == FromText(argument(r.list[k], "client_port"))
             used == [base |-> ServerBase, count |-> count]
  <2>1. /\ answered < Len(sent) /\ answered' = answered + 1
        /\ UNCHANGED <<sessionVars, sent>>
    BY <1>9, Zenon DEF ServerSetupAnswer
  <2>2. /\ k \in DOMAIN r.list /\ ports # None
        /\ \E reply \in {ReplyText(r.list[k], ports, used)} : \E list \in {transports(reply)} :
             IF client = "open" /\ lastWasSetup
               THEN Finalize(At(GetPorts(list, "client_port"), 0), At(GetPorts(list, "server_port"), 0))
               ELSE UNCHANGED mapperVars
    BY <1>9, Zenon DEF ServerSetupAnswer
  <2>20. PICK reply \in {ReplyText(r.list[k], ports, used)} : \E list \in {transports(reply)} :
             IF client = "open" /\ lastWasSetup
               THEN Finalize(At(GetPorts(list, "client_port"), 0), At(GetPorts(list, "server_port"), 0))
               ELSE UNCHANGED mapperVars
    BY <2>2, Zenon
  <2>3. PICK list \in {transports(reply)} :
             IF client = "open" /\ lastWasSetup
               THEN Finalize(At(GetPorts(list, "client_port"), 0), At(GetPorts(list, "server_port"), 0))
               ELSE UNCHANGED mapperVars
    BY <2>20, Zenon
  <2>4. answered + 1 \in 1..Len(sent)
    <3>1. Len(sent) \in Nat
      BY Appended DEF Requested
    <3> QED BY <2>1, <3>1, SMT
  <2>5. r.list \in Seq(Transports)
    <3>1. DOMAIN sent = 1..Len(sent)
      BY Appended DEF Requested
    <3> QED BY <2>4, <3>1 DEF PacketsRead
  <2>6. r.list[k] \in Transports
    <3> HIDE DEF r
    <3> QED BY <2>2, <2>5, LenProperties, ElementOfSeq
  <2>7. ports \in Ranges
    <3> HIDE DEF r
    <3> QED BY <2>2, <2>6, ArgumentRead, RangeRead
  <2>8. used \in Ranges
    BY RtspSessionAssumption, SMT DEF Ranges
  <2> HIDE DEF r, ports, used
  <2>9. reply \in TokenSeqs
    BY <2>6, <2>7, <2>8, ReplyWritten
  <2>10. list \in Seq(Transports)
    BY <2>9, TransportsRead
  <2>11. \A type : At(GetPorts(list, type), 0) \in Ranges
    BY <2>10, PortsGot, ElementAt
  <2>12. MapperInv'
    <3>1. CASE client = "open" /\ lastWasSetup
      BY <2>3, <2>11, <3>1, FinalizeStep
    <3>2. CASE ~(client = "open" /\ lastWasSetup)
      <4>1. UNCHANGED mapperVars
        BY <2>3, <3>2
      <4> QED BY <4>1 DEF MapperInv, mapperVars
    <3> QED BY <3>1, <3>2
  <2> QED BY <2>1, <2>12 DEF sessionVars
<1> QED BY <1>1, <1>2, <1>3, <1>4, <1>5, <1>6, <1>7, <1>8, <1>9 DEF Next
-----------------------------------------------------------------------------
(* The theorems.                                                           *)

\* The inductive invariant, for any offers, ports and number of requests.
THEOREM InductiveInvariant == Spec => [](Requested /\ PortsInv)
<1>1. Init => Requested /\ PortsInv
  <2> SUFFICES ASSUME Init PROVE Requested /\ PortsInv
    OBVIOUS
  <2>1. Requested /\ PacketsRead(sent) /\ PacketsRead(cpackets) /\ answered \in Nat
    BY EmptyIsSeq DEF Init, Requested, PacketsRead
  <2>2. AltOk(Empty) /\ Held(Empty) = {}
    BY EmptyIsOk
  <2>3. MapperInv
    BY <2>2, EmptySeq DEF Init, MapperInv
  <2> QED BY <2>1, <2>3 DEF PortsInv
<1>2. Requested /\ PortsInv /\ [Next]_vars => (Requested /\ PortsInv)'
  BY RequestedStep, PortsStep
<1> QED BY <1>1, <1>2, PTL DEF Spec

\* Once the server is connected it has been sent every request, once and in
\* order, unless a second one came while it was being connected.
THEOREM AllRequestsForwarded == Spec => []RequestsForwarded
<1>1. Requested => RequestsForwarded
  BY DEF Requested, RequestsForwarded, InOrder
<1> QED BY <1>1, InductiveInvariant, PTL

\* Whatever ports the proxy and other programs have bound, the range that is
\* allocated is the first that is free.
THEOREM AllocatesFirstFit == Spec => []AllocationIsFirstFit
<1>1. AllocationIsFirstFit
  <2> SUFFICES ASSUME NEW count \in 1..3
               PROVE  Allocate(count, Bound) = FirstFit(PORT_ALLOC_BASE, count, Bound)
    BY Zenon DEF AllocationIsFirstFit, FirstFit, FreeStarts
  <2> QED BY AllocateIsFirstFit, SMT
<1> QED BY <1>1, PTL

\* No port is held twice, nor one of another program: for any offers, and whatever
\* the two sides send and when.
THEOREM PortsAreApart == Spec => []PortsApart
<1>1. PortsInv => PortsApart
  <2> SUFFICES ASSUME PortsInv PROVE PortsApart
    OBVIOUS
  <2>1. AltOk(cPorts) /\ AltOk(sPorts) /\ Held(cPorts) \cap Held(sPorts) = {}
    BY DEF PortsInv, MapperInv
  <2>2. \A list \in {cPorts.list, sPorts.list} : Apart(list) /\ DOMAIN list = 1..Len(list)
    BY <2>1, LenProperties DEF AltOk, AltPortsStates
  <2>3. \A list \in {cPorts.list, sPorts.list} : \A i, j \in DOMAIN list :
          i # j => Ports(list[i]) \cap Ports(list[j]) = {}
    BY <2>2 DEF Apart
  <2> QED BY <2>1, <2>3 DEF AltOk, PortsApart, Allowed
<1> QED BY <1>1, InductiveInvariant, PTL
-----------------------------------------------------------------------------
(* Reading back what is written.                                           *)

\* v is in s, behind place k.
Stands(s, k, v) == k + Len(v) <= Len(s) /\ \A i \in 1..Len(v) : s[k + i] = v[i]

Without(v, list) == \A i \in 1..Len(v) : v[i] \notin list

\* The lengths and the elements of two texts put together.
LEMMA TextOf ==
  ASSUME NEW s \in TokenSeqs
  PROVE  Len(s) \in Nat /\ DOMAIN s = 1..Len(s) /\ \A i \in 1..Len(s) : s[i] \in Tokens
BY LenProperties, ElementOfSeq DEF TokenSeqs

\* Two texts, one after the other, element by element.
LEMMA TextsAre ==
  ASSUME NEW u \in TokenSeqs, NEW v \in TokenSeqs
  PROVE  /\ Len(u \o v) = Len(u) + Len(v)
         /\ \A i \in 1..Len(u) : (u \o v)[i] = u[i]
         /\ \A i \in 1..Len(v) : (u \o v)[Len(u) + i] = v[i]
<1>1. Len(u) \in Nat /\ Len(v) \in Nat
  BY TextOf
<1>2. /\ Len(u \o v) = Len(u) + Len(v)
      /\ \A i \in 1..(Len(u) + Len(v)) : (u \o v)[i] = IF i <= Len(u) THEN u[i] ELSE v[i - Len(u)]
  BY ConcatProperties DEF TokenSeqs
<1>3. \A i \in 1..Len(u) : i \in 1..(Len(u) + Len(v)) /\ i <= Len(u)
  BY <1>1, SMT
<1>4. \A i \in 1..Len(v) : /\ Len(u) + i \in 1..(Len(u) + Len(v)) /\ ~(Len(u) + i <= Len(u))
                           /\ (Len(u) + i) - Len(u) = i
  BY <1>1, SMT
<1> QED BY <1>2, <1>3, <1>4

\* Two texts put together stand one behind the other.
LEMMA StandsApart ==
  ASSUME NEW s \in TokenSeqs, NEW k \in Nat, NEW u \in TokenSeqs, NEW v \in TokenSeqs, Stands(s, k, u \o v)
  PROVE  Stands(s, k, u) /\ Stands(s, k + Len(u), v)
<1>1. Len(u) \in Nat /\ Len(v) \in Nat /\ Len(s) \in Nat
  BY TextOf
<1>2. /\ Len(u \o v) = Len(u) + Len(v)
      /\ \A i \in 1..Len(u) : (u \o v)[i] = u[i]
      /\ \A i \in 1..Len(v) : (u \o v)[Len(u) + i] = v[i]
  BY TextsAre
<1> DEFINE w == u \o v
<1>3. /\ Len(w) = Len(u) + Len(v)
      /\ \A i \in 1..Len(u) : w[i] = u[i]
      /\ \A i \in 1..Len(v) : w[Len(u) + i] = v[i]
      /\ k + Len(w) <= Len(s) /\ \A i \in 1..Len(w) : s[k + i] = w[i]
  BY <1>2 DEF Stands
<1> HIDE DEF w
<1>4. k + Len(u) <= Len(s) /\ (k + Len(u)) + Len(v) <= Len(s)
  BY <1>1, <1>3, SMT
<1>5. \A i \in 1..Len(u) : i \in 1..Len(w)
  BY <1>1, <1>3, SMT
<1>6. \A i \in 1..Len(v) : Len(u) + i \in 1..Len(w) /\ (k + Len(u)) + i = k + (Len(u) + i)
  BY <1>1, <1>3, SMT
<1>7. \A i \in 1..Len(v) : s[(k + Len(u)) + i] = v[i]
  BY <1>3, <1>6
<1> QED BY <1>3, <1>4, <1>5, <1>7 DEF Stands

\* What stands there is that part of the text.
LEMMA PartStands ==
  ASSUME NEW s \in TokenSeqs, NEW k \in Nat, NEW v \in TokenSeqs, Stands(s, k, v)
  PROVE  SubSeq(s, k + 1, k + Len(v)) = v
<1>1. Len(v) \in Nat /\ Len(s) \in Nat /\ \A i \in 1..Len(s) : s[i] \in Tokens
  BY TextOf
<1>2. k + 1 \in Int /\ k + Len(v) \in Int /\ \A i \in (k + 1)..(k + Len(v)) : i \in 1..Len(s)
  BY <1>1, SMT DEF Stands
<1> DEFINE p == SubSeq(s, k + 1, k + Len(v))
<1>3. /\ p \in Seq(Tokens)
      /\ Len(p) = IF k + 1 <= k + Len(v) THEN (k + Len(v)) - (k + 1) + 1 ELSE 0
      /\ \A i \in 1..Len(p) : p[i] = s[(k + 1) + i - 1]
  BY <1>1, <1>2, SubSeqProperties DEF TokenSeqs
<1> HIDE DEF p
<1>4. Len(p) = Len(v)
  BY <1>1, <1>3, SMT
<1>5. \A i \in 1..Len(v) : (k + 1) + i - 1 = k + i
  BY <1>1, SMT
<1>6. \A i \in 1..Len(v) : p[i] = v[i]
  BY <1>3, <1>4, <1>5 DEF Stands
<1>7. p = v
  BY <1>3, <1>4, <1>6, SeqEqual DEF TokenSeqs
<1> QED BY <1>7 DEF p

\* Where findOneOf() finds the first of those it looks for.
LEMMA FindIs ==
  ASSUME NEW s \in TokenSeqs, NEW list, NEW i \in Places, NEW n \in Places, i <= n, n <= Len(s) + 1,
         \A k \in i..(n - 1) : s[k] \notin list,
         n <= Len(s) => s[n] \in list
  PROVE  findOneOf(s, list, i) = n
<1> DEFINE T == {k \in i..Len(s) : s[k] \in list} \cup {Len(s) + 1}
<1>1. Len(s) \in Nat
  BY TextOf
<1>2. T \in SUBSET Nat
  BY <1>1, SMT DEF Places
<1>3. n \in T
  <2>1. n <= Len(s) => n \in i..Len(s)
    BY <1>1, SMT DEF Places
  <2>2. ~(n <= Len(s)) => n = Len(s) + 1
    BY <1>1, SMT DEF Places
  <2> QED BY <2>1, <2>2
<1>4. \A k \in T : n <= k
  <2> SUFFICES ASSUME NEW k \in T, ~(n <= k) PROVE FALSE
    OBVIOUS
  <2>1. CASE k = Len(s) + 1
    BY <2>1, <1>1, SMT DEF Places
  <2>2. CASE k \in i..Len(s) /\ s[k] \in list
    <3>1. k \in i..(n - 1)
      BY <1>1, <2>2, SMT DEF Places
    <3> QED BY <2>2, <3>1
  <2> QED BY <2>1, <2>2
<1>5. Min(T) = n
  <2> HIDE DEF T
  <2> QED BY <1>2, <1>3, <1>4, MinIs
<1> QED BY <1>5 DEF findOneOf

\* An argument that the code can have read: a name without separators, and a value
\* without those that end it, or in quotes.
PlainValue(v)  == v \in TokenSeqs /\ Without(v, {Comma, Semi}) /\ (Len(v) > 0 => v[1] # Quote)
QuotedValue(v) == v \in TokenSeqs /\ Len(v) > 1 /\ v[1] = Quote /\ v[Len(v)] = Quote
                  /\ \A i \in 2..(Len(v) - 1) : v[i] # Quote
ProperArg(a) ==
  /\ a \in Arguments /\ Len(a.name) > 0 /\ Without(a.name, {Comma, Semi, Equal})
  /\ a.value = None \/ PlainValue(a.value) \/ QuotedValue(a.value)

\* The words that the code looks for are different ones.
LEMMA Separators ==
  /\ Comma # Semi /\ Comma # Equal /\ Semi # Equal /\ Quote # Comma /\ Quote # Semi /\ Quote # Equal
BY DEF Comma, Semi, Equal, Quote, Word

\* Null is no text.
LEMMA NoneIsNoText == None \notin TokenSeqs
BY RtspTransportAssumption DEF TokenSeqs

NameLen(v)  == Len(v.name)
ValueLen(v) == Len(v.value)

\* What an argument stands as.
LEMMA ArgStands ==
  ASSUME NEW s \in TokenSeqs, NEW k \in Nat, NEW v \in Arguments, Stands(s, k, ArgText(v))
  PROVE  LET n == k + 1 + NameLen(v)
             e == k + Len(ArgText(v))
         IN  /\ e <= Len(s) /\ s[k + 1] = Semi /\ Stands(s, k + 1, v.name)
             /\ v.value = None => e = n
             /\ v.value # None => e = n + 1 + ValueLen(v) /\ s[n + 1] = Equal /\ Stands(s, n + 1, v.value)
<1>1. v.name \in TokenSeqs /\ v.value \in TokenSeqs \cup {None} /\ v.value \in Values
  BY DEF Arguments, Values
<1>2. <<Semi>> \in TokenSeqs /\ <<Equal>> \in TokenSeqs /\ <<>> \in TokenSeqs
  BY ShortTexts
<1>3. Len(<<Semi>>) = 1 /\ <<Semi>>[1] = Semi /\ Len(<<Equal>>) = 1 /\ <<Equal>>[1] = Equal /\ Len(<<>>) = 0
  BY EmptyIsSeq
<1> DEFINE head == <<Semi>> \o v.name
           rest == IF v.value = None THEN <<>> ELSE <<Equal>> \o v.value
           n == k + 1 + NameLen(v)
<1>4. ArgText(v) = head \o rest
  BY DEF ArgText
<1>5. head \in TokenSeqs /\ rest \in TokenSeqs
  BY <1>1, <1>2, TextsJoined
<1>6. Len(head) = 1 + NameLen(v)
  BY <1>1, <1>2, <1>3, TextsAre DEF NameLen
<1>7. /\ v.value = None => Len(rest) = 0
      /\ v.value # None => Len(rest) = 1 + ValueLen(v)
  BY <1>1, <1>2, <1>3, TextsAre DEF ValueLen
<1>8. Len(ArgText(v)) = Len(head) + Len(rest)
  BY <1>4, <1>5, TextsAre
<1>9. Stands(s, k, head) /\ Stands(s, k + Len(head), rest)
  <2> HIDE DEF head, rest
  <2> QED BY <1>4, <1>5, StandsApart
<1>10. Stands(s, k, <<Semi>>) /\ Stands(s, k + 1, v.name)
  BY <1>1, <1>2, <1>3, <1>9, StandsApart
<1>11. NameLen(v) \in Nat /\ Len(s) \in Nat /\ (v.value # None => ValueLen(v) \in Nat)
  BY <1>1, TextOf DEF NameLen, ValueLen
<1>12. k + Len(head) = n /\ n \in Nat
  <2> HIDE DEF head
  <2> QED BY <1>6, <1>11, SMT
<1>13. ASSUME v.value # None
       PROVE  Stands(s, n, <<Equal>>) /\ Stands(s, n + 1, v.value)
  <2>1. Stands(s, n, <<Equal>> \o v.value)
    BY <1>9, <1>12, <1>13
  <2> HIDE DEF n
  <2> QED BY <1>1, <1>2, <1>3, <1>12, <1>13, <2>1, StandsApart
<1>14. s[k + 1] = Semi
  BY <1>3, <1>10 DEF Stands
<1>15. v.value # None => s[n + 1] = Equal
  BY <1>3, <1>13 DEF Stands
<1>16. /\ k + Len(ArgText(v)) <= Len(s)
       /\ v.value = None => k + Len(ArgText(v)) = n
       /\ v.value # None => k + Len(ArgText(v)) = n + 1 + ValueLen(v)
  <2>1. n + Len(rest) <= Len(s) /\ Len(rest) \in Nat /\ Len(head) \in Nat
    BY <1>5, <1>9, <1>12, TextOf DEF Stands
  <2>2. Len(ArgText(v)) \in Nat
    BY ArgumentWritten, LenProperties DEF TokenSeqs
  <2> DEFINE l == Len(s)
             a == Len(ArgText(v))
             h == Len(head)
             r == Len(rest)
             name == NameLen(v)
             value == ValueLen(v)
             none == v.value = None
  <2>3. /\ h = 1 + name /\ a = h + r /\ n = k + 1 + name /\ n + r <= l
        /\ none => r = 0
        /\ ~none => r = 1 + value /\ value \in Nat
    BY <1>6, <1>7, <1>8, <1>11, <2>1
  <2>4. l \in Nat /\ a \in Nat /\ h \in Nat /\ r \in Nat /\ name \in Nat /\ k \in Nat /\ n \in Nat
    BY <1>11, <1>12, <2>1, <2>2
  <2> HIDE DEF l, a, h, r, name, value, none, n
  <2>5. k + a <= l /\ (none => k + a = n) /\ (~none => k + a = n + 1 + value)
    BY ONLY <2>3, <2>4, SMT
  <2> QED BY <2>5 DEF l, a, value, none
<1> QED BY <1>10, <1>13, <1>14, <1>15, <1>16

\* The value that ReadArg() gives for it: an empty one at the end is null, and
\* null stands for the one before.
ValueBack(value, tval, last) ==
  IF value = None THEN tval ELSE IF Len(value) = 0 /\ last THEN None ELSE value

\* Where its value ends.
LEMMA ValueEnds ==
  ASSUME NEW s \in TokenSeqs, NEW n \in Nat, NEW v \in TokenSeqs, PlainValue(v) \/ QuotedValue(v),
         NEW e \in Nat, e = n + 1 + Len(v), Stands(s, n + 1, v), e <= Len(s),
         e = Len(s) \/ s[e + 1] \in {Comma, Semi}
  PROVE  ValueEnd(s, n + 1) = e + 1
<1>1. Len(s) \in Nat /\ Len(v) \in Nat
  BY TextOf
<1>2. \A i \in 1..Len(v) : s[(n + 1) + i] = v[i]
  BY DEF Stands
<1>3. Len(v) > 0 => n + 1 < Len(s) /\ s[(n + 1) + 1] = v[1]
  <2>1. Len(v) > 0 => n + 1 < Len(s) /\ 1 \in 1..Len(v)
    BY <1>1, SMT
  <2> QED BY <1>2, <2>1
<1>4. ASSUME NEW i \in (n + 2)..e PROVE i - (n + 1) \in 1..Len(v) /\ s[i] = v[i - (n + 1)]
  <2>1. i - (n + 1) \in 1..Len(v) /\ (n + 1) + (i - (n + 1)) = i
    BY <1>1, SMT
  <2> QED BY <1>2, <2>1
<1>5. CASE PlainValue(v)
  <2>1. findOneOf(s, {Comma, Semi}, n + 2) = e + 1
    <3>1. \A i \in (n + 2)..((e + 1) - 1) : s[i] \notin {Comma, Semi}
      <4>1. \A i \in (n + 2)..((e + 1) - 1) : i \in (n + 2)..e
        BY SMT
      <4> QED BY <1>4, <1>5, <4>1 DEF PlainValue, Without
    <3>2. n + 2 \in Places /\ e + 1 \in Places /\ n + 2 <= e + 1 /\ e + 1 <= Len(s) + 1
      BY <1>1, SMT DEF Places
    <3>3. e + 1 <= Len(s) => s[e + 1] \in {Comma, Semi}
      BY <1>1, SMT
    <3> QED BY <3>1, <3>2, <3>3, FindIs
  <2>2. ~(n + 1 < Len(s) /\ s[(n + 1) + 1] = Quote)
    <3>1. CASE Len(v) > 0
      BY <1>3, <1>5, <3>1 DEF PlainValue
    <3>2. CASE Len(v) = 0
      <4>1. e = n + 1
        BY <1>1, <3>2, SMT
      <4>2. n + 1 < Len(s) => s[(n + 1) + 1] \in {Comma, Semi}
        BY <1>1, <4>1, SMT
      <4> QED BY <4>2, Separators
    <3> QED BY <1>1, <3>1, <3>2, SMT
  <2>3. (n + 1) + 1 = n + 2
    BY SMT
  <2> QED BY <2>1, <2>2, <2>3 DEF ValueEnd
<1>6. CASE QuotedValue(v)
  <2>1. Len(v) > 1 /\ v[1] = Quote /\ v[Len(v)] = Quote /\ \A i \in 2..(Len(v) - 1) : v[i] # Quote
    BY <1>6 DEF QuotedValue
  <2>2. n + 1 < Len(s) /\ s[(n + 1) + 1] = Quote
    <3>1. Len(v) > 0
      BY <1>1, <2>1, SMT
    <3> QED BY <1>3, <2>1, <3>1
  <2>3. findOneOf(s, {Quote}, n + 3) = e
    <3>1. \A i \in (n + 3)..(e - 1) : s[i] \notin {Quote}
      <4>1. \A i \in (n + 3)..(e - 1) : i \in (n + 2)..e /\ i - (n + 1) \in 2..(Len(v) - 1)
        BY <1>1, SMT
      <4> QED BY <1>4, <2>1, <4>1
    <3>2. s[e] = Quote
      <4>1. e \in (n + 2)..e /\ e - (n + 1) = Len(v)
        BY <1>1, <2>1, SMT
      <4> QED BY <1>4, <2>1, <4>1
    <3>3. n + 3 \in Places /\ e \in Places /\ n + 3 <= e /\ e <= Len(s) + 1
      BY <1>1, <2>1, SMT DEF Places
    <3> QED BY <3>1, <3>2, <3>3, FindIs
  <2>4. (n + 1) + 2 = n + 3
    BY SMT
  <2> QED BY <2>2, <2>3, <2>4 DEF ValueEnd
<1> QED BY <1>5, <1>6

\* An argument that stands behind place k, up to place e and the end or a separator.
ArgHere(s, k, v, e) ==
  Stands(s, k, ArgText(v)) /\ e = k + Len(ArgText(v)) /\ (e = Len(s) \/ s[e + 1] \in {Comma, Semi})

\* ReadArg() of it.
LEMMA ArgReadBack ==
  ASSUME NEW s \in TokenSeqs, NEW k \in Nat, NEW v, ProperArg(v), NEW e \in Nat, ArgHere(s, k, v, e), NEW tval
  PROVE  ReadArg(s, k + 2, tval)
           = [name |-> v.name, value |-> ValueBack(v.value, tval, e = Len(s)), end |-> e + 1]
<1> DEFINE n == k + 1 + NameLen(v)
<1>1. v \in Arguments /\ v.name \in TokenSeqs /\ NameLen(v) > 0
  BY DEF ProperArg, Arguments, NameLen
<1>2. /\ e <= Len(s) /\ s[k + 1] = Semi /\ Stands(s, k + 1, v.name)
      /\ v.value = None => e = n
      /\ v.value # None => e = n + 1 + ValueLen(v) /\ s[n + 1] = Equal /\ Stands(s, n + 1, v.value)
      /\ e = Len(s) \/ s[e + 1] \in {Comma, Semi}
  BY <1>1, ArgStands DEF ArgHere
<1>3. Len(s) \in Nat /\ NameLen(v) \in Nat
  BY <1>1, TextOf DEF NameLen
<1>4. n \in Nat /\ k + 2 <= n + 1 /\ (n + 1) - 1 = (k + 1) + NameLen(v) /\ (k + 1) + 1 = k + 2
  BY <1>1, <1>3, SMT
<1>5. SubSeq(s, k + 2, (n + 1) - 1) = v.name
  <2>1. k + 1 \in Nat
    BY SMT
  <2> HIDE DEF n
  <2> QED BY <1>1, <1>2, <1>4, <2>1, PartStands DEF NameLen
<1>6. \A i \in (k + 2)..((n + 1) - 1) : s[i] \notin {Comma, Semi, Equal}
  <2> TAKE i \in (k + 2)..((n + 1) - 1)
  <2>1. i - (k + 1) \in 1..NameLen(v) /\ (k + 1) + (i - (k + 1)) = i
    BY <1>3, SMT
  <2> QED BY <1>2, <2>1 DEF Stands, ProperArg, Without, NameLen
<1>7. v.value # None => v.value \in TokenSeqs /\ ValueLen(v) \in Nat
  BY <1>1, TextOf DEF Arguments, Values, ValueLen
<1> HIDE DEF n
<1>8. n + 1 <= Len(s) + 1 /\ (n + 1 <= Len(s) => s[n + 1] \in {Comma, Semi, Equal})
  <2>1. CASE v.value = None
    <3>1. e = n
      BY <1>2, <2>1
    <3>2. n + 1 <= Len(s) + 1 /\ (n + 1 <= Len(s) => e # Len(s))
      BY <1>2, <1>3, <1>4, <3>1, SMT
    <3> QED BY <1>2, <3>1, <3>2
  <2>2. CASE v.value # None
    <3>1. s[n + 1] = Equal /\ e = n + 1 + ValueLen(v)
      BY <1>2, <2>2
    <3>2. n + 1 <= Len(s) + 1
      BY <1>2, <1>3, <1>4, <1>7, <2>2, <3>1, SMT
    <3> QED BY <3>1, <3>2
  <2> QED BY <2>1, <2>2
<1>9. findOneOf(s, {Comma, Semi, Equal}, k + 2) = n + 1
  <2>1. k + 2 \in Places /\ n + 1 \in Places
    BY <1>4, SMT DEF Places
  <2> QED BY <1>4, <1>6, <1>8, <2>1, FindIs
<1> DEFINE end == IF n + 1 <= Len(s) /\ s[n + 1] = Equal THEN ValueEnd(s, n + 1) ELSE n + 1
<1>10. ReadArg(s, k + 2, tval) = Arg(s, k + 2, n + 1, end, tval)
  BY <1>9 DEF ReadArg, ArgNamed
<1>11. end = e + 1
  <2>1. CASE v.value = None
    <3>1. e = n
      BY <1>2, <2>1
    <3>2. n + 1 <= Len(s) => s[n + 1] \in {Comma, Semi}
      BY <1>2, <1>3, <1>4, <3>1, SMT
    <3> QED BY <3>1, <3>2, Separators
  <2>2. CASE v.value # None
    <3>1. n + 1 <= Len(s)
      BY <1>2, <1>3, <1>4, <1>7, <2>2, SMT
    <3>2. PlainValue(v.value) \/ QuotedValue(v.value)
      BY <2>2 DEF ProperArg
    <3>3. ValueEnd(s, n + 1) = e + 1
      BY <1>2, <1>4, <1>7, <2>2, <3>2, ValueEnds DEF ValueLen
    <3> QED BY <1>2, <2>2, <3>1, <3>3
  <2> QED BY <2>1, <2>2
<1> HIDE DEF end
<1>12. (IF n + 1 < end THEN mid(s, (n + 1) + 1, end) ELSE tval) = ValueBack(v.value, tval, e = Len(s))
  <2>1. CASE v.value = None
    <3>1. e = n
      BY <1>2, <2>1
    <3>2. ~(n + 1 < end)
      BY <1>4, <1>11, <3>1, SMT
    <3> QED BY <2>1, <3>2 DEF ValueBack
  <2>2. CASE v.value # None
    <3>1. e = n + 1 + ValueLen(v) /\ Stands(s, n + 1, v.value)
      BY <1>2, <2>2
    <3>2. n + 1 < end
      BY <1>4, <1>7, <1>11, <2>2, <3>1, SMT
    <3>3. CASE ValueLen(v) = 0 /\ e = Len(s)
      <4>1. (n + 1) + 1 > Len(s)
        BY <1>3, <1>4, <3>1, <3>3, SMT
      <4> QED BY <2>2, <3>2, <3>3, <4>1 DEF mid, ValueBack, ValueLen
    <3>4. CASE ~(ValueLen(v) = 0 /\ e = Len(s))
      <4>1. ~((n + 1) + 1 > Len(s))
        <5>1. CASE ValueLen(v) = 0
          BY <1>2, <1>3, <1>4, <3>1, <3>4, <5>1, SMT
        <5>2. CASE ValueLen(v) # 0
          BY <1>2, <1>3, <1>4, <1>7, <2>2, <3>1, <5>2, SMT
        <5> QED BY <5>1, <5>2
      <4>2. (IF end > Len(s) THEN Len(s) ELSE end - 1) = (n + 1) + ValueLen(v)
        <5> DEFINE l == ValueLen(v)
                   z == Len(s)
        <5>1. l \in Nat /\ z \in Nat /\ e = n + 1 + l /\ end = e + 1 /\ e <= z /\ n \in Nat
          BY <1>2, <1>3, <1>4, <1>7, <1>11, <2>2, <3>1
        <5> HIDE DEF l, z
        <5>2. (IF end > z THEN z ELSE end - 1) = (n + 1) + l
          BY ONLY <5>1, SMT
        <5> QED BY <5>2 DEF l, z
      <4>3. SubSeq(s, (n + 1) + 1, (n + 1) + ValueLen(v)) = v.value
        <5>1. n + 1 \in Nat
          BY <1>4, SMT
        <5> QED BY <1>7, <2>2, <3>1, <5>1, PartStands DEF ValueLen
      <4> QED BY <2>2, <3>2, <3>4, <4>1, <4>2, <4>3 DEF mid, ValueBack, ValueLen
    <3> QED BY <3>3, <3>4
  <2> QED BY <2>1, <2>2
<1> QED BY <1>5, <1>10, <1>11, <1>12 DEF Arg
-----------------------------------------------------------------------------
(* What is read is written as it was.                                      *)

\* The token at place i is x, but for the ports of the argument `type'.
IsBut(type, s, i, x) ==
  \/ s[i] = x
  \/ /\ i > 2 /\ s[i - 2] = Word(type) /\ s[i - 1] = Equal
     /\ s[i][1] = "range" /\ x[1] = "range" /\ s[i][3] = x[3]

\* v stands behind place k, but for those.
Shown(type, s, k, v) == k + Len(v) <= Len(s) /\ \A i \in 1..Len(v) : IsBut(type, s, k + i, v[i])

\* One behind the other.
LEMMA ShownTogether ==
  ASSUME NEW type, NEW s \in TokenSeqs, NEW k \in Nat, NEW u \in TokenSeqs, NEW v \in TokenSeqs,
         Shown(type, s, k, u), Shown(type, s, k + Len(u), v)
  PROVE  Shown(type, s, k, u \o v)
<1>1. Len(u) \in Nat /\ Len(v) \in Nat /\ Len(s) \in Nat
  BY TextOf
<1> DEFINE w == u \o v
<1>2. /\ Len(w) = Len(u) + Len(v)
      /\ \A i \in 1..Len(u) : w[i] = u[i]
      /\ \A i \in 1..Len(v) : w[Len(u) + i] = v[i]
  BY TextsAre
<1> HIDE DEF w
<1>3. k + Len(w) <= Len(s)
  <2>1. (k + Len(u)) + Len(v) <= Len(s)
    BY DEF Shown
  <2> QED BY <1>1, <1>2, <2>1, SMT
<1>4. ASSUME NEW i \in 1..Len(w) PROVE IsBut(type, s, k + i, w[i])
  <2>1. CASE i <= Len(u)
    <3>1. i \in 1..Len(u)
      BY <1>1, <1>2, <2>1, SMT
    <3> QED BY <1>2, <3>1 DEF Shown
  <2>2. CASE ~(i <= Len(u))
    <3>1. i - Len(u) \in 1..Len(v) /\ (k + Len(u)) + (i - Len(u)) = k + i /\ Len(u) + (i - Len(u)) = i
      BY <1>1, <1>2, <2>2, SMT
    <3>2. IsBut(type, s, (k + Len(u)) + (i - Len(u)), v[i - Len(u)])
      BY <3>1 DEF Shown
    <3>3. w[i] = v[i - Len(u)]
      BY <1>2, <3>1
    <3> QED BY <3>1, <3>2, <3>3
  <2> QED BY <2>1, <2>2
<1> QED BY <1>3, <1>4 DEF Shown, w

\* A part of the text itself.
LEMMA PartShown ==
  ASSUME NEW type, NEW s \in TokenSeqs, NEW k \in Nat, NEW j \in Nat, k <= j, j <= Len(s)
  PROVE  LET v == SubSeq(s, k + 1, j)
         IN  v \in TokenSeqs /\ Len(v) = j - k /\ Shown(type, s, k, v)
<1>1. Len(s) \in Nat /\ \A i \in 1..Len(s) : s[i] \in Tokens
  BY TextOf
<1>2. k + 1 \in Int /\ j \in Int /\ \A i \in (k + 1)..j : i \in 1..Len(s)
  BY <1>1, SMT
<1> DEFINE v == SubSeq(s, k + 1, j)
<1>3. /\ v \in Seq(Tokens)
      /\ Len(v) = IF k + 1 <= j THEN j - (k + 1) + 1 ELSE 0
      /\ \A i \in 1..Len(v) : v[i] = s[(k + 1) + i - 1]
  BY <1>1, <1>2, SubSeqProperties DEF TokenSeqs
<1> HIDE DEF v
<1>4. Len(v) = j - k /\ k + Len(v) <= Len(s)
  BY <1>1, <1>3, SMT
<1>5. \A i \in 1..Len(v) : (k + 1) + i - 1 = k + i
  BY <1>1, <1>4, SMT
<1>6. \A i \in 1..Len(v) : IsBut(type, s, k + i, v[i])
  BY <1>3, <1>5 DEF IsBut
<1> QED BY <1>3, <1>4, <1>6 DEF Shown, TokenSeqs, v

\* One token.
LEMMA TokenShown ==
  ASSUME NEW type, NEW s \in TokenSeqs, NEW k \in Nat, k + 1 <= Len(s), NEW x \in Tokens,
         IsBut(type, s, k + 1, x)
  PROVE  <<x>> \in TokenSeqs /\ Len(<<x>>) = 1 /\ Shown(type, s, k, <<x>>)
<1>1. <<x>> \in TokenSeqs /\ Len(<<x>>) = 1 /\ <<x>>[1] = x
  BY DEF TokenSeqs
<1>2. \A i \in 1..1 : i = 1
  BY SMT
<1> QED BY <1>1, <1>2 DEF Shown

\* findOneOf() goes over none of those it looks for.
LEMMA FindGives ==
  ASSUME NEW s \in TokenSeqs, NEW list, NEW i \in Places
  PROVE  LET n == findOneOf(s, list, i)
         IN  /\ n \in Places /\ n <= Len(s) + 1
             /\ n <= Len(s) => s[n] \in list
             /\ i <= Len(s) + 1 => i <= n
             /\ \A k \in i..(n - 1) : s[k] \notin list
<1> DEFINE T == {m \in i..Len(s) : s[m] \in list} \cup {Len(s) + 1}
           n == findOneOf(s, list, i)
<1>1. Len(s) \in Nat
  BY TextOf
<1>2. T \in SUBSET Nat /\ T # {} /\ \A m \in T : m \in Places /\ m <= Len(s) + 1
  BY <1>1, SMT DEF Places
<1>3. Min(T) \in T /\ \A m \in T : Min(T) <= m
  BY <1>2, MinIsLeast, Zenon
<1>4. n = Min(T)
  BY DEF findOneOf
<1>5. n \in Places /\ n <= Len(s) + 1
  BY <1>2, <1>3, <1>4
<1>6. n <= Len(s) => s[n] \in list /\ i <= n
  <2> SUFFICES ASSUME n <= Len(s) PROVE s[n] \in list /\ i <= n
    OBVIOUS
  <2>1. n # Len(s) + 1
    <3> HIDE DEF n
    <3> QED BY <1>1, <1>5, SMT DEF Places
  <2>2. n \in {m \in i..Len(s) : s[m] \in list}
    BY <1>3, <1>4, <2>1
  <2> QED BY <2>2
<1>7. i <= Len(s) + 1 => i <= n
  <2> HIDE DEF n, T
  <2> QED BY <1>1, <1>5, <1>6, SMT DEF Places
<1>8. ASSUME NEW k \in i..(n - 1), s[k] \in list PROVE FALSE
  <2>1. k \in i..Len(s)
    <3> HIDE DEF n
    <3> QED BY <1>1, <1>5, SMT DEF Places
  <2>2. k \in T
    BY <1>8, <2>1
  <2>3. n <= k
    BY <1>3, <1>4, <2>2
  <2> HIDE DEF n, T
  <2> QED BY <1>5, <2>3, SMT DEF Places
<1> QED BY <1>5, <1>6, <1>7, <1>8

\* Sequences that begin alike are put together alike.
LEMMA JoinsAgree ==
  ASSUME NEW f, NEW h, NEW a, NEW b, Joins(f, a), Joins(h, b), NEW m \in Nat,
         Len(a) \in Nat, Len(b) \in Nat, m <= Len(a), m <= Len(b), \A i \in 1..m : a[i] = b[i]
  PROVE  \A i \in 1..m : f[i] = h[i]
<1> DEFINE T == {n \in Nat : n <= m => \A i \in 1..n : f[i] = h[i]}
<1>1. 0 \in T
  <2>1. \A i \in 1..0 : FALSE
    BY SMT
  <2> QED BY <2>1
<1>2. ASSUME NEW n \in Nat, n \in T PROVE n + 1 \in T
  <2> SUFFICES ASSUME n + 1 <= m PROVE \A i \in 1..(n + 1) : f[i] = h[i]
    OBVIOUS
  <2>1. \A i \in 1..n : f[i] = h[i]
    <3>1. n <= m
      BY SMT
    <3> QED BY <1>2, <3>1
  <2>2. n + 1 \in 1..m /\ n + 1 \in 1..Len(a) /\ n + 1 \in 1..Len(b)
    BY SMT
  <2>3. f[n + 1] = h[n + 1]
    <3>1. CASE n + 1 = 1
      BY <2>2, <3>1 DEF Joins
    <3>2. CASE n + 1 # 1
      <4>1. n \in 1..n /\ (n + 1) - 1 = n
        BY <3>2, SMT
      <4>2. f[n + 1] = f[(n + 1) - 1] \o a[n + 1] /\ h[n + 1] = h[(n + 1) - 1] \o b[n + 1]
        BY <2>2, <3>2 DEF Joins
      <4> QED BY <2>1, <2>2, <4>1, <4>2
    <3> QED BY <3>1, <3>2
  <2>4. \A i \in 1..(n + 1) : i \in 1..n \/ i = n + 1
    BY SMT
  <2> QED BY <2>1, <2>3, <2>4
<1>3. T \in SUBSET Nat
  OBVIOUS
<1> HIDE DEF T
<1>4. m \in T
  BY <1>1, <1>2, <1>3, InductionOnSet
<1>5. m <= m
  BY SMT
<1> QED BY <1>4, <1>5 DEF T

\* FlattenSeq() of one sequence more.
LEMMA FlattenMore ==
  ASSUME NEW X, NEW seqs \in Seq(Seq(X)), NEW x \in Seq(X)
  PROVE  FlattenSeq(Append(seqs, x)) = FlattenSeq(seqs) \o x
<1> DEFINE n == Len(seqs)
           more == Append(seqs, x)
<1>1. n \in Nat
  BY LenProperties
<1>2. more \in Seq(Seq(X)) /\ Len(more) = n + 1 /\ (\A i \in 1..n : more[i] = seqs[i]) /\ more[n + 1] = x
  BY AppendProperties
<1> HIDE DEF more, n
<1>3. Len(more) # 0
  BY <1>1, <1>2, SMT
<1>4. PICK h \in [1..Len(more) -> Seq(X)] : Joins(h, more) /\ FlattenSeq(more) = h[Len(more)]
  BY <1>2, <1>3, FlattenJoins
<1>5. n + 1 \in 1..Len(more)
  BY <1>1, <1>2, SMT
<1>6. CASE n = 0
  <2>1. seqs = <<>>
    BY <1>6, EmptySeq DEF n
  <2>2. FlattenSeq(seqs) = <<>>
    BY <2>1, EmptySeq DEF FlattenSeq
  <2>3. n + 1 = 1
    BY <1>6, SMT
  <2>4. h[n + 1] = x
    BY <1>2, <1>4, <1>5, <2>3 DEF Joins
  <2>5. <<>> \o x = x
    BY ConcatEmptySeq
  <2> QED BY <1>2, <1>4, <2>2, <2>4, <2>5 DEF more
<1>7. CASE n # 0
  <2>1. PICK f \in [1..Len(seqs) -> Seq(X)] : Joins(f, seqs) /\ FlattenSeq(seqs) = f[Len(seqs)]
    BY <1>7, FlattenJoins DEF n
  <2>2. n <= Len(seqs) /\ n <= Len(more) /\ n \in 1..n /\ n + 1 # 1 /\ (n + 1) - 1 = n
    BY <1>1, <1>2, <1>7, SMT DEF n
  <2>3. Len(seqs) \in Nat /\ Len(more) \in Nat /\ \A i \in 1..n : seqs[i] = more[i]
    BY <1>1, <1>2, LenProperties DEF n
  <2>4. f[n] = h[n]
    BY <1>1, <1>4, <2>1, <2>2, <2>3, JoinsAgree
  <2>5. h[n + 1] = h[(n + 1) - 1] \o more[n + 1]
    BY <1>4, <1>5, <2>2 DEF Joins
  <2> QED BY <1>2, <1>4, <2>1, <2>2, <2>4, <2>5 DEF more, n
<1> QED BY <1>6, <1>7

\* The arguments of a transport as they are written.
ArgsText(args) == FlattenSeq([i \in DOMAIN args |-> ArgText(args[i])])

\* One argument more.
LEMMA ArgsTextMore ==
  /\ ArgsText(<<>>) = <<>>
  /\ \A args \in Seq(Arguments) : ArgsText(args) \in TokenSeqs
  /\ \A args \in Seq(Arguments), a \in Arguments :
       ArgsText(Append(args, a)) = ArgsText(args) \o ArgText(a)
<1> DEFINE Parts(args) == [i \in DOMAIN args |-> ArgText(args[i])]
<1>1. ArgsText(<<>>) = <<>>
  <2>1. Parts(<<>>) = <<>>
    <3>1. DOMAIN <<>> = {}
      BY EmptyIsSeq
    <3>2. Parts(<<>>) \in Seq(TokenSeqs) /\ Len(Parts(<<>>)) = 0
      <4>1. Parts(<<>>) = [i \in 1..0 |-> ArgText(<<>>[i])]
        <5>1. 1..0 = {}
          BY SMT
        <5> QED BY <3>1, <5>1
      <4>2. \A i \in 1..0 : ArgText(<<>>[i]) \in TokenSeqs
        <5>1. 1..0 = {}
          BY SMT
        <5> QED BY <5>1
      <4>3. Parts(<<>>) \in [1..0 -> TokenSeqs] /\ 0 \in Nat
        BY <4>1, <4>2, SMT
      <4>4. Parts(<<>>) \in Seq(TokenSeqs)
        BY <4>3, SeqDef
      <4> QED BY <3>1, <4>4, LenProperties, SMT
    <3> HIDE DEF Parts
    <3> QED BY <3>2, EmptySeq
  <2> QED BY <2>1, EmptySeq DEF ArgsText, FlattenSeq
<1>2. ASSUME NEW args \in Seq(Arguments)
      PROVE  Parts(args) \in Seq(TokenSeqs) /\ Len(Parts(args)) = Len(args)
             /\ \A i \in 1..Len(args) : Parts(args)[i] = ArgText(args[i])
  <2>1. DOMAIN args = 1..Len(args) /\ Len(args) \in Nat /\ \A i \in 1..Len(args) : args[i] \in Arguments
    BY LenProperties, ElementOfSeq
  <2>2. Parts(args) \in [1..Len(args) -> TokenSeqs]
    BY <2>1, ArgumentWritten
  <2>3. Parts(args) \in Seq(TokenSeqs)
    BY <2>1, <2>2, SeqDef
  <2>4. DOMAIN Parts(args) = 1..Len(args) /\ DOMAIN Parts(args) = 1..Len(Parts(args)) /\ Len(Parts(args)) \in Nat
    BY <2>1, <2>3, LenProperties
  <2>5. Len(Parts(args)) = Len(args)
    <3> HIDE DEF Parts
    <3> QED BY <2>1, <2>3, <2>4, LenProperties, SMT
  <2> QED BY <2>1, <2>3, <2>5
<1>3. \A args \in Seq(Arguments) : ArgsText(args) \in TokenSeqs
  BY <1>2, FlattenTyped DEF ArgsText, TokenSeqs
<1>4. ASSUME NEW args \in Seq(Arguments), NEW a \in Arguments
      PROVE  ArgsText(Append(args, a)) = ArgsText(args) \o ArgText(a)
  <2> DEFINE n == Len(args)
             more == Append(args, a)
  <2>1. /\ more \in Seq(Arguments) /\ Len(more) = n + 1 /\ n \in Nat
        /\ (\A i \in 1..n : more[i] = args[i]) /\ more[n + 1] = a
    BY AppendProperties, LenProperties
  <2>2. /\ Parts(args) \in Seq(TokenSeqs) /\ Len(Parts(args)) = n
        /\ \A i \in 1..n : Parts(args)[i] = ArgText(args[i])
    BY <1>2
  <2> HIDE DEF more
  <2>3. /\ Parts(more) \in Seq(TokenSeqs) /\ Len(Parts(more)) = n + 1
        /\ \A i \in 1..(n + 1) : Parts(more)[i] = ArgText(more[i])
    BY <1>2, <2>1
  <2>4. ArgText(a) \in TokenSeqs
    BY ArgumentWritten
  <2> HIDE DEF Parts
  <2> DEFINE whole == Append(Parts(args), ArgText(a))
  <2>5. /\ whole \in Seq(TokenSeqs) /\ Len(whole) = n + 1
        /\ (\A i \in 1..n : whole[i] = Parts(args)[i]) /\ whole[n + 1] = ArgText(a)
    BY <2>2, <2>4, AppendProperties
  <2> HIDE DEF whole
  <2>6. ASSUME NEW i \in 1..(n + 1) PROVE Parts(more)[i] = whole[i]
    <3>1. i \in 1..n \/ i = n + 1
      BY <2>1, SMT
    <3>2. CASE i \in 1..n
      BY <2>1, <2>2, <2>3, <2>5, <3>2
    <3>3. CASE i = n + 1
      BY <2>1, <2>3, <2>5, <3>3
    <3> QED BY <3>1, <3>2, <3>3
  <2>7. Parts(more) = whole
    BY <2>3, <2>5, <2>6, SeqEqual
  <2>8. FlattenSeq(whole) = FlattenSeq(Parts(args)) \o ArgText(a)
    BY <2>2, <2>4, FlattenMore DEF whole, TokenSeqs
  <2> QED BY <2>7, <2>8 DEF ArgsText, Parts, more
<1> QED BY <1>1, <1>3, <1>4

\* A transport in the text of a list, and one more.
ItemText(i, t) == (IF i > 1 THEN <<Comma>> ELSE <<>>) \o toString(t)

\* One transport more.
LEMMA ListTextMore ==
  /\ ListText(<<>>) = <<>>
  /\ \A list \in Seq(Transports), t \in Transports :
       ListText(Append(list, t)) = ListText(list) \o ItemText(Len(list) + 1, t)
<1> DEFINE Parts(list) == [i \in DOMAIN list |-> ItemText(i, list[i])]
<1>0. \A list : ListText(list) = FlattenSeq(Parts(list))
  BY DEF ListText, ItemText
<1>1. ListText(<<>>) = <<>>
  <2>1. Parts(<<>>) = <<>>
    <3>1. DOMAIN <<>> = {}
      BY EmptyIsSeq
    <3>2. Parts(<<>>) \in Seq(TokenSeqs) /\ Len(Parts(<<>>)) = 0
      <4>1. Parts(<<>>) = [i \in 1..0 |-> ItemText(i, <<>>[i])]
        <5>1. 1..0 = {}
          BY SMT
        <5> QED BY <3>1, <5>1
      <4>2. \A i \in 1..0 : ItemText(i, <<>>[i]) \in TokenSeqs
        <5>1. 1..0 = {}
          BY SMT
        <5> QED BY <5>1
      <4>3. Parts(<<>>) \in [1..0 -> TokenSeqs] /\ 0 \in Nat
        BY <4>1, <4>2, SMT
      <4>4. Parts(<<>>) \in Seq(TokenSeqs)
        BY <4>3, SeqDef
      <4> QED BY <3>1, <4>4, LenProperties, SMT
    <3> HIDE DEF Parts
    <3> QED BY <3>2, EmptySeq
  <2> QED BY <1>0, <2>1, EmptySeq DEF FlattenSeq
<1>2. ASSUME NEW i, NEW t \in Transports PROVE ItemText(i, t) \in TokenSeqs
  <2>1. <<Comma>> \in TokenSeqs /\ <<>> \in TokenSeqs
    BY ShortTexts
  <2>2. toString(t) \in TokenSeqs
    BY TransportWritten
  <2> QED BY <2>1, <2>2, TextsJoined DEF ItemText
<1>3. ASSUME NEW list \in Seq(Transports)
      PROVE  Parts(list) \in Seq(TokenSeqs) /\ Len(Parts(list)) = Len(list)
             /\ \A i \in 1..Len(list) : Parts(list)[i] = ItemText(i, list[i])
  <2>1. DOMAIN list = 1..Len(list) /\ Len(list) \in Nat /\ \A i \in 1..Len(list) : list[i] \in Transports
    BY LenProperties, ElementOfSeq
  <2>2. Parts(list) \in [1..Len(list) -> TokenSeqs]
    BY <1>2, <2>1
  <2>3. Parts(list) \in Seq(TokenSeqs)
    BY <2>1, <2>2, SeqDef
  <2>4. DOMAIN Parts(list) = 1..Len(list) /\ DOMAIN Parts(list) = 1..Len(Parts(list)) /\ Len(Parts(list)) \in Nat
    BY <2>1, <2>3, LenProperties
  <2>5. Len(Parts(list)) = Len(list)
    <3> HIDE DEF Parts
    <3> QED BY <2>1, <2>3, <2>4, LenProperties, SMT
  <2> QED BY <2>1, <2>3, <2>5
<1>4. ASSUME NEW list \in Seq(Transports), NEW t \in Transports
      PROVE  ListText(Append(list, t)) = ListText(list) \o ItemText(Len(list) + 1, t)
  <2> DEFINE n == Len(list)
             more == Append(list, t)
  <2>1. /\ more \in Seq(Transports) /\ Len(more) = n + 1 /\ n \in Nat
        /\ (\A i \in 1..n : more[i] = list[i]) /\ more[n + 1] = t
    BY AppendProperties, LenProperties
  <2>2. /\ Parts(list) \in Seq(TokenSeqs) /\ Len(Parts(list)) = n
        /\ \A i \in 1..n : Parts(list)[i] = ItemText(i, list[i])
    BY <1>3
  <2> HIDE DEF more
  <2>3. /\ Parts(more) \in Seq(TokenSeqs) /\ Len(Parts(more)) = n + 1
        /\ \A i \in 1..(n + 1) : Parts(more)[i] = ItemText(i, more[i])
    BY <1>3, <2>1
  <2>4. ItemText(n + 1, t) \in TokenSeqs
    BY <1>2
  <2> HIDE DEF Parts
  <2> DEFINE whole == Append(Parts(list), ItemText(n + 1, t))
  <2>5. /\ whole \in Seq(TokenSeqs) /\ Len(whole) = n + 1
        /\ (\A i \in 1..n : whole[i] = Parts(list)[i]) /\ whole[n + 1] = ItemText(n + 1, t)
    BY <2>2, <2>4, AppendProperties
  <2> HIDE DEF whole
  <2>6. ASSUME NEW i \in 1..(n + 1) PROVE Parts(more)[i] = whole[i]
    <3>1. i \in 1..n \/ i = n + 1
      BY <2>1, SMT
    <3>2. CASE i \in 1..n
      BY <2>1, <2>2, <2>3, <2>5, <3>2
    <3>3. CASE i = n + 1
      BY <2>1, <2>3, <2>5, <3>3
    <3> QED BY <3>1, <3>2, <3>3
  <2>7. Parts(more) = whole
    BY <2>3, <2>5, <2>6, SeqEqual
  <2>8. FlattenSeq(whole) = FlattenSeq(Parts(list)) \o ItemText(n + 1, t)
    BY <2>2, <2>4, FlattenMore DEF whole, TokenSeqs
  <2> QED BY <1>0, <2>7, <2>8 DEF more
<1> QED BY <1>1, <1>4

\* On either side of a separator of a regular text is what is none.
LEMMA RegularSides ==
  ASSUME NEW s \in TokenSeqs, Regular(s), NEW i \in 1..Len(s), s[i] \in {Comma, Semi, Equal}
  PROVE  /\ i - 1 \in 1..Len(s) /\ s[i - 1] \notin {Comma, Semi, Equal}
         /\ i + 1 \in 1..Len(s) /\ s[i + 1] \notin {Comma, Semi, Equal}
<1>1. DOMAIN s = 1..Len(s)
  BY TextOf
<1> DEFINE separators == {k \in DOMAIN s : s[k] \in {Comma, Semi, Equal}}
<1>2. i \in separators
  BY <1>1
<1>3. \A k \in separators : k - 1 \in DOMAIN s \ separators /\ k + 1 \in DOMAIN s \ separators
  BY Zenon DEF Regular
<1>4. i - 1 \in DOMAIN s \ separators /\ i + 1 \in DOMAIN s \ separators
  BY <1>2, <1>3
<1> QED BY <1>1, <1>4

\* A quote that opens a value closes it.
LEMMA RegularQuotes ==
  ASSUME NEW s \in TokenSeqs, Regular(s), NEW n \in 1..Len(s), s[n] = Equal, s[n + 1] = Quote
  PROVE  \E k \in (n + 2)..Len(s) : /\ s[k] = Quote
                                    /\ k + 1 = Len(s) + 1 \/ (k + 1 \in 1..Len(s) /\ s[k + 1] \in {Comma, Semi})
                                    /\ \A m \in (n + 2)..(k - 1) : s[m] # Quote
<1>1. DOMAIN s = 1..Len(s)
  BY TextOf
<1> DEFINE separators == {k \in DOMAIN s : s[k] \in {Comma, Semi, Equal}}
           Ends(k) == k = Len(s) + 1 \/ (k \in DOMAIN s /\ s[k] \in {Comma, Semi})
<1>2. n \in separators
  BY <1>1
<1>3. \A i \in separators : s[i] = Equal /\ s[i + 1] = Quote =>
        \E k \in (i + 2)..Len(s) : /\ s[k] = Quote /\ Ends(k + 1)
                                  /\ \A m \in (i + 2)..(k - 1) : s[m] # Quote
  BY Zenon DEF Regular
<1> HIDE DEF separators
<1> QED BY <1>1, <1>2, <1>3

\* The value of a port argument is one range.
LEMMA RegularPorts ==
  ASSUME NEW s \in TokenSeqs, Regular(s), NEW n \in 1..Len(s), s[n] = Equal,
         s[n - 1] \in {Word("client_port"), Word("server_port")}
  PROVE  /\ s[n + 1][1] = "range" /\ (s[n + 1][3] > 1 => s[n + 1][2] > 0)
         /\ n + 2 = Len(s) + 1 \/ (n + 2 \in 1..Len(s) /\ s[n + 2] \in {Comma, Semi})
<1>1. DOMAIN s = 1..Len(s)
  BY TextOf
<1> DEFINE separators == {k \in DOMAIN s : s[k] \in {Comma, Semi, Equal}}
           Ends(k) == k = Len(s) + 1 \/ (k \in DOMAIN s /\ s[k] \in {Comma, Semi})
<1>2. n \in separators
  BY <1>1
<1>3. \A i \in separators : s[i] = Equal /\ s[i - 1] \in {Word("client_port"), Word("server_port")} =>
        s[i + 1][1] = "range" /\ (s[i + 1][3] > 1 => s[i + 1][2] > 0) /\ Ends(i + 2)
  BY Zenon DEF Regular
<1> HIDE DEF separators
<1> QED BY <1>1, <1>2, <1>3

\* Behind place i a value has been read in the same transport.
Valued(s, i) == \E k \in 1..i : s[k] = Equal /\ \A m \in k..i : s[m] = Comma => Quoted(s, m)

\* Then no argument without one follows.
LEMMA RegularValues ==
  ASSUME NEW s \in TokenSeqs, Regular(s), NEW j \in 1..Len(s), s[j] = Semi,
         ~(j + 2 \in 1..Len(s) /\ s[j + 2] = Equal)
  PROVE  ~Valued(s, j)
<1>1. DOMAIN s = 1..Len(s)
  BY TextOf
<1> DEFINE separators == {k \in DOMAIN s : s[k] \in {Comma, Semi, Equal}}
           NoValue(i) == s[i] = Semi /\ ~(i + 2 \in DOMAIN s /\ s[i + 2] = Equal)
<1>2. j \in {n \in separators : NoValue(n)}
  BY <1>1
<1>3. \A n \in {m \in separators : NoValue(m)} : \A i \in 1..n :
        s[i] = Equal => \E k \in i..n : s[k] = Comma /\ ~Quoted(s, k)
  BY Zenon DEF Regular
<1>4. \A i \in 1..j : s[i] = Equal => \E k \in i..j : s[k] = Comma /\ ~Quoted(s, k)
  BY <1>2, <1>3
<1> QED BY <1>4 DEF Valued

\* The value of a regular text whose `=' is at place n.
LEMMA RegularEnd ==
  ASSUME NEW s \in TokenSeqs, Regular(s), NEW n \in 1..Len(s), s[n] = Equal
  PROVE  LET e == ValueEnd(s, n)
         IN  /\ e \in Places /\ n + 1 < e /\ e <= Len(s) + 1
             /\ e <= Len(s) => s[e] \in {Comma, Semi}
             /\ \A m \in n..(e - 1) : s[m] = Comma => Quoted(s, m)
             /\ s[n - 1] \in {Word("client_port"), Word("server_port")} =>
                  e = n + 2 /\ s[n + 1][1] = "range" /\ (s[n + 1][3] > 1 => s[n + 1][2] > 0)
<1> DEFINE e == ValueEnd(s, n)
<1>1. Len(s) \in Nat /\ n \in Nat /\ n + 1 \in Places /\ n + 2 \in Places
  BY TextOf, SMT DEF Places
<1>2. n + 1 \in 1..Len(s) /\ s[n + 1] \notin {Comma, Semi, Equal}
  BY RegularSides
<1>3. n < Len(s) /\ n + 1 <= Len(s)
  BY <1>1, <1>2, SMT
<1>4. CASE s[n + 1] = Quote
  <2>1. PICK k \in (n + 2)..Len(s) :
          /\ s[k] = Quote
          /\ k + 1 = Len(s) + 1 \/ (k + 1 \in 1..Len(s) /\ s[k + 1] \in {Comma, Semi})
          /\ \A m \in (n + 2)..(k - 1) : s[m] # Quote
    BY <1>4, RegularQuotes
  <2>2. k \in Places /\ n + 2 <= k /\ k <= Len(s) + 1 /\ k + 1 \in Places
    BY <1>1, SMT DEF Places
  <2>3. findOneOf(s, {Quote}, n + 2) = k
    <3>1. \A m \in (n + 2)..(k - 1) : s[m] \notin {Quote}
      BY <2>1
    <3>2. k <= Len(s) => s[k] \in {Quote}
      BY <2>1
    <3> QED BY <1>1, <2>2, <3>1, <3>2, FindIs
  <2>4. e = k + 1
    BY <1>3, <1>4, <2>3 DEF ValueEnd
  <2>5. e \in Places /\ n + 1 < e /\ e <= Len(s) + 1
    <3> HIDE DEF e
    <3> QED BY <1>1, <2>2, <2>4, SMT DEF Places
  <2>6. e <= Len(s) => s[e] \in {Comma, Semi}
    <3> HIDE DEF e
    <3>1. e <= Len(s) => k + 1 # Len(s) + 1
      BY <1>1, <2>4, <2>2, SMT DEF Places
    <3> QED BY <2>1, <2>4, <3>1
  <2>7. ASSUME NEW m \in n..(e - 1), s[m] = Comma PROVE Quoted(s, m)
    <3>1. m # n /\ m # n + 1 /\ m # k
      BY <1>4, <2>1, <2>7, Separators
    <3>2. m \in n..k /\ n \in 1..(m - 2) /\ \A i \in (n + 2)..m : i \in (n + 2)..(k - 1)
      <4>1. m \in n..k
        <5> HIDE DEF e
        <5> QED BY <2>2, <2>4, SMT DEF Places
      <4>2. n \in 1..(m - 2)
        BY <1>1, <2>2, <3>1, <4>1, SMT DEF Places
      <4>3. \A i \in (n + 2)..m : i \in (n + 2)..(k - 1)
        BY <1>1, <2>2, <3>1, <4>1, SMT DEF Places
      <4> QED BY <4>1, <4>2, <4>3
    <3>3. \A i \in (n + 2)..m : s[i] # Quote
      BY <2>1, <3>2
    <3> QED BY <1>4, <3>2, <3>3 DEF Quoted
  <2>8. s[n - 1] \notin {Word("client_port"), Word("server_port")}
    <3>1. Quote[1] # "range"
      BY DEF Quote, Word
    <3> QED BY <1>4, <3>1, RegularPorts
  <2> QED BY <2>5, <2>6, <2>7, <2>8
<1>5. CASE s[n + 1] # Quote
  <2>1. e = findOneOf(s, {Comma, Semi}, n + 1)
    BY <1>5 DEF ValueEnd
  <2>2. /\ e \in Places /\ e <= Len(s) + 1
        /\ e <= Len(s) => s[e] \in {Comma, Semi}
        /\ n + 1 <= Len(s) + 1 => n + 1 <= e
        /\ \A k \in (n + 1)..(e - 1) : s[k] \notin {Comma, Semi}
    <3> HIDE DEF e
    <3> QED BY <1>1, <2>1, FindGives
  <2> HIDE DEF e
  <2>3. e # n + 1
    BY <1>2, <1>3, <2>2
  <2>4. n + 1 < e
    BY <1>1, <1>3, <2>2, <2>3, SMT DEF Places
  <2>5. ASSUME NEW m \in n..(e - 1), s[m] = Comma PROVE FALSE
    <3>1. m # n
      BY <2>5, Separators
    <3>2. m \in (n + 1)..(e - 1)
      BY <1>1, <2>2, <3>1, SMT DEF Places
    <3> QED BY <2>2, <2>5, <3>2
  <2>6. ASSUME s[n - 1] \in {Word("client_port"), Word("server_port")}
        PROVE  e = n + 2 /\ s[n + 1][1] = "range" /\ (s[n + 1][3] > 1 => s[n + 1][2] > 0)
    <3>1. /\ s[n + 1][1] = "range" /\ (s[n + 1][3] > 1 => s[n + 1][2] > 0)
          /\ n + 2 = Len(s) + 1 \/ (n + 2 \in 1..Len(s) /\ s[n + 2] \in {Comma, Semi})
      BY <2>6, RegularPorts
    <3>2. n + 2 <= Len(s) + 1 /\ (n + 2 <= Len(s) => n + 2 # Len(s) + 1)
      BY <1>1, <1>3, SMT
    <3>3. \A k \in (n + 1)..((n + 2) - 1) : s[k] \notin {Comma, Semi}
      <4>1. \A k \in (n + 1)..((n + 2) - 1) : k = n + 1
        BY <1>1, SMT
      <4> QED BY <1>2, <4>1
    <3>4. n + 2 <= Len(s) => s[n + 2] \in {Comma, Semi}
      BY <3>1, <3>2
    <3>5. n + 1 <= n + 2
      BY <1>1, SMT
    <3>6. e = n + 2
      BY <1>1, <2>1, <3>2, <3>3, <3>4, <3>5, FindIs
    <3> QED BY <3>1, <3>6
  <2> QED BY <2>2, <2>4, <2>5, <2>6 DEF e
<1> QED BY <1>4, <1>5

\* The parts of an argument are shown behind place k, its `=' behind place n.
ArgFits(type, s, k, n, b) ==
  /\ k + 1 <= Len(s) /\ s[k + 1] = Semi /\ Shown(type, s, k + 1, b.name)
  /\ n = k + 1 + NameLen(b)
  /\ b.value # None => n + 1 <= Len(s) /\ s[n + 1] = Equal /\ Shown(type, s, n + 1, b.value)

\* Then it is.
LEMMA ArgTextShown ==
  ASSUME NEW type, NEW s \in TokenSeqs, NEW k \in Nat, NEW b \in Arguments,
         NEW n \in Nat, ArgFits(type, s, k, n, b)
  PROVE  /\ Shown(type, s, k, ArgText(b))
         /\ b.value = None => k + Len(ArgText(b)) = n
         /\ b.value # None => k + Len(ArgText(b)) = n + 1 + ValueLen(b)
<1> USE DEF ArgFits
<1>1. b.name \in TokenSeqs /\ b.value \in TokenSeqs \cup {None} /\ b.value \in Values
  BY DEF Arguments, Values
<1>2. /\ <<Semi>> \in TokenSeqs /\ Len(<<Semi>>) = 1 /\ Shown(type, s, k, <<Semi>>)
      /\ <<>> \in TokenSeqs /\ Len(<<>>) = 0 /\ Semi \in Tokens /\ Equal \in Tokens
  <2>1. Semi \in Tokens /\ Equal \in Tokens
    BY RtspTransportAssumption DEF Tokens, Semi, Equal, Word
  <2>2. IsBut(type, s, k + 1, Semi)
    BY DEF IsBut
  <2> QED BY <2>1, <2>2, TokenShown, ShortTexts, EmptyIsSeq
<1> DEFINE head == <<Semi>> \o b.name
           rest == IF b.value = None THEN <<>> ELSE <<Equal>> \o b.value
<1>3. ArgText(b) = head \o rest
  BY DEF ArgText
<1>4. NameLen(b) \in Nat /\ Len(s) \in Nat /\ (b.value # None => ValueLen(b) \in Nat)
  BY <1>1, TextOf DEF NameLen, ValueLen
<1>5. head \in TokenSeqs /\ Len(head) = 1 + NameLen(b) /\ Shown(type, s, k, head)
  <2>1. Shown(type, s, k + Len(<<Semi>>), b.name)
    BY <1>2
  <2>2. Len(head) = Len(<<Semi>>) + Len(b.name)
    BY <1>1, <1>2, TextsAre
  <2> QED BY <1>1, <1>2, <2>1, <2>2, TextsJoined, ShownTogether DEF NameLen
<1>6. k + Len(head) = n
  <2> HIDE DEF head
  <2> QED BY <1>4, <1>5, SMT
<1>7. /\ rest \in TokenSeqs /\ Shown(type, s, n, rest)
      /\ b.value = None => Len(rest) = 0
      /\ b.value # None => Len(rest) = 1 + ValueLen(b)
  <2>1. CASE b.value = None
    <3>1. rest = <<>>
      BY <2>1
    <3>2. n + 0 <= Len(s)
      <4>1. (k + 1) + NameLen(b) <= Len(s)
        BY DEF Shown, NameLen
      <4> QED BY <1>4, <4>1, SMT
    <3>3. \A i \in 1..0 : FALSE
      BY SMT
    <3>4. Shown(type, s, n, <<>>)
      BY <1>2, <3>2, <3>3 DEF Shown
    <3> QED BY <1>2, <2>1, <3>1, <3>4
  <2>2. CASE b.value # None
    <3>1. rest = <<Equal>> \o b.value /\ b.value \in TokenSeqs
      BY <1>1, <2>2
    <3>2. IsBut(type, s, n + 1, Equal)
      BY <2>2 DEF IsBut
    <3>3. <<Equal>> \in TokenSeqs /\ Len(<<Equal>>) = 1 /\ Shown(type, s, n, <<Equal>>)
      BY <1>2, <2>2, <3>2, TokenShown
    <3>4. Shown(type, s, n + Len(<<Equal>>), b.value)
      BY <2>2, <3>3
    <3>5. Len(<<Equal>> \o b.value) = Len(<<Equal>>) + Len(b.value)
      BY <3>1, <3>3, TextsAre
    <3> QED BY <2>2, <3>1, <3>3, <3>4, <3>5, TextsJoined, ShownTogether DEF ValueLen
  <2> QED BY <2>1, <2>2
<1> HIDE DEF head, rest
<1>8. Len(head \o rest) = Len(head) + Len(rest) /\ Len(head) \in Nat /\ Len(rest) \in Nat
  BY <1>5, <1>7, TextsAre, TextOf
<1>9. Shown(type, s, k, head \o rest)
  <2>1. Shown(type, s, k + Len(head), rest)
    BY <1>6, <1>7
  <2> QED BY <1>5, <1>7, <2>1, ShownTogether
<1>10. /\ b.value = None => k + Len(head \o rest) = n
       /\ b.value # None => k + Len(head \o rest) = n + 1 + ValueLen(b)
  <2> DEFINE h == Len(head)
             r == Len(rest)
             w == Len(head \o rest)
             p == ValueLen(b)
  <2>1. /\ h \in Nat /\ r \in Nat /\ w = h + r /\ k + h = n /\ (b.value = None => r = 0)
        /\ b.value # None => r = 1 + p /\ p \in Nat
    BY <1>4, <1>6, <1>7, <1>8
  <2> HIDE DEF h, r, w, p
  <2>2. /\ b.value = None => k + w = n
        /\ b.value # None => k + w = n + 1 + p
    BY ONLY <2>1, k \in Nat, n \in Nat, SMT
  <2> QED BY <2>2 DEF w, p
<1> QED BY <1>3, <1>9, <1>10

\* b is a but for the first of its ports.
MovedTo(base, a, b) == b = [a EXCEPT !.value = ToText([base |-> base, count |-> FromText(a.value).count])]

Moved(type, a, b) ==
  \/ b = a
  \/ /\ a.name = <<Word(type)>> /\ FromText(a.value) # None
     /\ \E base \in Nat : MovedTo(base, a, b)

Counted(s) == \A i \in 1..Len(s) : s[i][1] = "range" => s[i][3] > 0

\* An argument with a value is in s from behind place k to before place e, its `=' at n.
ValueArgAt(type, s, k, n, e, a) ==
  /\ k + 2 < n /\ n + 1 < e /\ e <= Len(s) + 1 /\ s[k + 1] = Semi /\ s[n] = Equal
  /\ NameLen(a) = n - (k + 2) /\ ValueLen(a) = (e - 1) - n
  /\ a.name[1] = s[k + 2] /\ a.value[1] = s[n + 1]
  /\ Shown(type, s, k + 1, a.name) /\ Shown(type, s, n, a.value)
  /\ s[n - 1] \in {Word("client_port"), Word("server_port")} =>
       e = n + 2 /\ s[n + 1][1] = "range" /\ (s[n + 1][3] > 1 => s[n + 1][2] > 0)

Alike(type, s, n, a, b) ==
  b.name = a.name /\ b.value # None /\ ValueLen(b) = ValueLen(a) /\ Shown(type, s, n, b.value)

\* So is one with the same name and a value that is shown there.
LEMMA ValueShown ==
  ASSUME NEW type, NEW s \in TokenSeqs, NEW k \in Nat, NEW n \in Nat, NEW e \in Nat,
         NEW a \in Arguments, a.value # None, ValueArgAt(type, s, k, n, e, a),
         NEW b \in Arguments, Alike(type, s, n, a, b)
  PROVE  Shown(type, s, k, ArgText(b)) /\ k + Len(ArgText(b)) = e - 1
<1>1. Len(s) \in Nat /\ NameLen(a) \in Nat /\ ValueLen(a) \in Nat
  BY TextOf DEF NameLen, ValueLen, Arguments, Values
<1>2. /\ k + 2 < n /\ n + 1 < e /\ e <= Len(s) + 1 /\ s[k + 1] = Semi /\ s[n] = Equal
      /\ NameLen(b) = n - (k + 2) /\ ValueLen(b) = (e - 1) - n
      /\ Shown(type, s, k + 1, b.name) /\ b.value # None /\ Shown(type, s, n, b.value)
  BY DEF ValueArgAt, NameLen, Alike
<1>3. n - 1 \in Nat /\ n - 1 = k + 1 + NameLen(b) /\ (n - 1) + 1 = n /\ n <= Len(s) /\ k + 1 <= Len(s)
  <2> DEFINE m == NameLen(b)
  <2>1. m = n - (k + 2)
    BY <1>2
  <2> HIDE DEF m
  <2>2. n - 1 \in Nat /\ n - 1 = k + 1 + m /\ (n - 1) + 1 = n /\ n <= Len(s) /\ k + 1 <= Len(s)
    BY ONLY <1>1, <1>2, <2>1, k \in Nat, n \in Nat, e \in Nat, SMT
  <2> QED BY <2>2 DEF m
<1> DEFINE m == n - 1
<1>4. /\ Shown(type, s, k, ArgText(b))
      /\ k + Len(ArgText(b)) = m + 1 + ValueLen(b)
  <2>1. m \in Nat /\ ArgFits(type, s, k, m, b)
    <3>1. Shown(type, s, m + 1, b.value) /\ s[m + 1] = Equal /\ m + 1 <= Len(s)
      BY <1>2, <1>3
    <3> QED BY <1>2, <1>3, <3>1 DEF ArgFits
  <2> HIDE DEF m
  <2>2. /\ Shown(type, s, k, ArgText(b))
        /\ b.value # None => k + Len(ArgText(b)) = m + 1 + ValueLen(b)
    <3>1. /\ Shown(type, s, k, ArgText(b))
          /\ b.value = None => k + Len(ArgText(b)) = m
          /\ b.value # None => k + Len(ArgText(b)) = m + 1 + ValueLen(b)
      BY ONLY s \in TokenSeqs, k \in Nat, b \in Arguments, <2>1, ArgTextShown
    <3> QED BY <3>1
  <2> QED BY <1>2, <2>2
<1>5. (n - 1) + 1 + ValueLen(b) = e - 1
  BY <1>1, <1>2, SMT
<1> QED BY <1>4, <1>5

\* A port argument that the code moves.
LEMMA PortMoved ==
  ASSUME NEW type \in {"client_port", "server_port"}, NEW s \in TokenSeqs, Counted(s),
         NEW k \in Nat, NEW n \in Nat, NEW e \in Nat,
         NEW a \in Arguments, a.value # None, ValueArgAt(type, s, k, n, e, a), a.name = <<Word(type)>>,
         NEW base \in Nat, NEW b, MovedTo(base, a, b)
  PROVE  b \in Arguments /\ Alike(type, s, n, a, b)
<1> DEFINE x == s[n + 1]
           y == PortText([base |-> base, count |-> x[3]])
<1>1. /\ k + 2 < n /\ n + 1 < e /\ e <= Len(s) + 1 /\ s[n] = Equal
      /\ NameLen(a) = n - (k + 2) /\ ValueLen(a) = (e - 1) - n
      /\ a.name[1] = s[k + 2] /\ a.value[1] = x
      /\ s[n - 1] \in {Word("client_port"), Word("server_port")} =>
           e = n + 2 /\ x[1] = "range" /\ (x[3] > 1 => x[2] > 0)
  BY DEF ValueArgAt
<1>2. NameLen(a) = 1 /\ a.name[1] = Word(type)
  <2>1. Len(<<Word(type)>>) = 1 /\ <<Word(type)>>[1] = Word(type)
    OBVIOUS
  <2> QED BY <2>1 DEF NameLen
<1>3. k + 2 = n - 1 /\ n > 1 /\ (n + 1) - 2 = n - 1 /\ (n + 1) - 1 = n
  BY <1>1, <1>2, SMT
<1>4. s[n - 1] = Word(type) /\ e = n + 2 /\ x[1] = "range" /\ (x[3] > 1 => x[2] > 0)
  BY <1>1, <1>2, <1>3
<1>5. Len(s) \in Nat /\ n + 1 \in 1..Len(s) /\ n + 1 <= Len(s) /\ n + 1 > 2 /\ (e - 1) - n = 1
  <2>1. Len(s) \in Nat
    BY TextOf
  <2>2. /\ k + 2 < n /\ n + 1 < e /\ e <= Len(s) + 1 /\ n > 1 /\ e = n + 2
    BY <1>1, <1>3, <1>4
  <2> QED BY ONLY <2>1, <2>2, k \in Nat, n \in Nat, e \in Nat, SMT
<1>6. x \in Tokens /\ x[3] > 0
  BY <1>4, <1>5, TextOf DEF Counted
<1>7. IsBut(type, s, n + 1, y) /\ y \in Tokens
  <2>1. y = <<"range", base, x[3]>>
    BY DEF PortText
  <2>2. y[1] = "range" /\ y[3] = x[3]
    BY <2>1
  <2>3. y \in Tokens
    <3>1. x[3] \in Nat /\ "range" \in STRING
      BY <1>6, RtspTransportAssumption DEF Tokens
    <3> HIDE DEF x, y
    <3> QED BY ONLY <2>1, <3>1, base \in Nat DEF Tokens
  <2> HIDE DEF y
  <2> QED BY <1>1, <1>3, <1>4, <1>5, <2>2, <2>3 DEF IsBut
<1>8. a.value \in TokenSeqs /\ a.name \in TokenSeqs /\ Len(a.value) = 1 /\ a.value # <<>>
  <2>1. a.value \in TokenSeqs /\ a.name \in TokenSeqs
    BY DEF Arguments, Values
  <2>2. Len(a.value) = 1
    BY <1>1, <1>5 DEF ValueLen
  <2>3. Len(<<>>) = 0 /\ 0 # 1
    BY EmptyIsSeq
  <2>4. a.value # <<>>
    BY <2>2, <2>3, Zenon
  <2> QED BY <2>1, <2>2, <2>4
<1>9. FromText(a.value) = [base |-> x[2], count |-> x[3]]
  BY <1>1, <1>4, <1>8 DEF FromText
<1>10. ToText([base |-> base, count |-> FromText(a.value).count]) = <<y>>
  <2>1. FromText(a.value).count = x[3]
    BY <1>9
  <2> HIDE DEF x
  <2> QED BY <1>6, <2>1 DEF ToText
<1> HIDE DEF x, y
<1>11. <<y>> \in TokenSeqs /\ Len(<<y>>) = 1 /\ Shown(type, s, n, <<y>>)
  BY <1>5, <1>7, TokenShown
<1>12. b.name = a.name /\ b.value = <<y>> /\ b \in Arguments
  <2>1. <<y>> \in Values
    BY <1>11 DEF Values
  <2>2. b = [a EXCEPT !.value = <<y>>]
    BY <1>10 DEF MovedTo
  <2> QED BY <2>1, <2>2 DEF Arguments
<1>13. ValueLen(b) = 1 /\ ValueLen(a) = 1
  BY <1>8, <1>11, <1>12 DEF ValueLen
<1> QED BY <1>11, <1>12, <1>13, NoneIsNoText DEF Alike

\* An argument that transport_set_ports() changes, or not, as the text shows it.
LEMMA ArgMoved ==
  ASSUME NEW type \in {"client_port", "server_port"}, NEW s \in TokenSeqs, Counted(s),
         NEW k \in Nat, NEW n \in Nat, NEW e \in Nat,
         NEW a \in Arguments, a.value # None, ValueArgAt(type, s, k, n, e, a), NEW b, Moved(type, a, b)
  PROVE  b \in Arguments /\ Shown(type, s, k, ArgText(b)) /\ k + Len(ArgText(b)) = e - 1
<1>1. Alike(type, s, n, a, a)
  BY DEF ValueArgAt, Alike
<1>2. CASE b = a
  <2>1. Shown(type, s, k, ArgText(a)) /\ k + Len(ArgText(a)) = e - 1
    BY <1>1, ValueShown
  <2> QED BY <1>2, <2>1
<1>3. CASE b # a
  <2>1. a.name = <<Word(type)>> /\ \E base \in Nat : MovedTo(base, a, b)
    BY <1>3 DEF Moved
  <2>2. PICK base \in Nat : MovedTo(base, a, b)
    BY <2>1
  <2>3. b \in Arguments /\ Alike(type, s, n, a, b)
    BY <2>1, <2>2, PortMoved
  <2> QED BY <2>3, ValueShown
<1> QED BY <1>2, <1>3

\* The argument with a value that ReadArg() gives.
LEMMA ValueArgRead ==
  ASSUME NEW type, NEW s \in TokenSeqs, Regular(s), NEW k \in Nat, NEW n \in 1..Len(s), k + 2 < n,
         s[n] = Equal, s[k + 1] = Semi, NEW e, e = ValueEnd(s, n)
  PROVE  LET a == [name |-> SubSeq(s, k + 2, n - 1), value |-> SubSeq(s, n + 1, e - 1)]
         IN  /\ a \in Arguments /\ a.value # None /\ e \in Nat /\ ValueArgAt(type, s, k, n, e, a)
<1>1. /\ e \in Places /\ n + 1 < e /\ e <= Len(s) + 1
      /\ s[n - 1] \in {Word("client_port"), Word("server_port")} =>
                  e = n + 2 /\ s[n + 1][1] = "range" /\ (s[n + 1][3] > 1 => s[n + 1][2] > 0)
  BY RegularEnd
<1> DEFINE name == SubSeq(s, k + 2, n - 1)
           value == SubSeq(s, n + 1, e - 1)
           a == [name |-> name, value |-> value]
<1>2. Len(s) \in Nat /\ k + 1 \in Nat /\ n \in Nat /\ n - 1 \in Nat /\ e - 1 \in Nat /\ e \in Nat /\ k + 1 <= n - 1
      /\ n - 1 <= Len(s) /\ n <= e - 1 /\ e - 1 <= Len(s) /\ (k + 1) + 1 = k + 2 /\ (n - 1) - (k + 1) = n - (k + 2)
  BY ONLY <1>1, TextOf, k \in Nat, n \in 1..Len(s), k + 2 < n, s \in TokenSeqs, SMT DEF Places
<1>3. name \in TokenSeqs /\ Len(name) = n - (k + 2) /\ Shown(type, s, k + 1, name)
  <2>1. LET v == SubSeq(s, (k + 1) + 1, n - 1)
        IN  v \in TokenSeqs /\ Len(v) = (n - 1) - (k + 1) /\ Shown(type, s, k + 1, v)
    BY <1>2, PartShown
  <2> QED BY <1>2, <2>1
<1>4. value \in TokenSeqs /\ Len(value) = (e - 1) - n /\ Shown(type, s, n, value)
  BY <1>2, PartShown
<1>5. name[1] = s[k + 2] /\ value[1] = s[n + 1]
  <2>1. \A i \in 1..Len(s) : s[i] \in Tokens
    BY TextOf
  <2>2. /\ \A i \in (k + 2)..(n - 1) : i \in 1..Len(s)
        /\ \A i \in (n + 1)..(e - 1) : i \in 1..Len(s)
        /\ k + 2 \in Int /\ n + 1 \in Int /\ n - 1 \in Int /\ e - 1 \in Int
        /\ 1 \in 1..(n - (k + 2)) /\ 1 \in 1..((e - 1) - n) /\ (k + 2) + 1 - 1 = k + 2 /\ (n + 1) + 1 - 1 = n + 1
    BY <1>1, <1>2, SMT DEF Places
  <2>3. /\ \A i \in 1..Len(name) : name[i] = s[(k + 2) + i - 1]
        /\ \A i \in 1..Len(value) : value[i] = s[(n + 1) + i - 1]
    BY <2>1, <2>2, SubSeqProperties DEF TokenSeqs
  <2> HIDE DEF name, value
  <2> QED BY <1>3, <1>4, <2>2, <2>3
<1> HIDE DEF name, value
<1>6. a \in Arguments /\ a.value # None
  BY <1>3, <1>4, NoneIsNoText DEF Arguments, Values
<1>7. NameLen(a) = n - (k + 2) /\ ValueLen(a) = (e - 1) - n
  BY <1>3, <1>4 DEF NameLen, ValueLen
<1>8. a.name = name /\ a.value = value
  OBVIOUS
<1> HIDE DEF a
<1>9. ValueArgAt(type, s, k, n, e, a)
  BY <1>1, <1>3, <1>4, <1>5, <1>7, <1>8 DEF ValueArgAt
<1> QED BY <1>2, <1>6, <1>9 DEF a, name, value

\* What ReadArg() gives behind the semicolon at place k + 1 of a regular text: an
\* argument of the text, moved or not, up to its end or a separator.
ArgRegular(type, s, k, a) ==
  /\ a.end \in Nat /\ k + 2 < a.end /\ a.end <= Len(s) + 1 /\ (a.end <= Len(s) => s[a.end] \in {Comma, Semi})
  /\ a.name # <<>> /\ [name |-> a.name, value |-> a.value] \in Arguments
  /\ a.end <= Len(s) /\ s[a.end] = Semi /\ a.value # None => Valued(s, a.end)
  /\ \A b : Moved(type, [name |-> a.name, value |-> a.value], b) =>
       b \in Arguments /\ Shown(type, s, k, ArgText(b)) /\ k + Len(ArgText(b)) = a.end - 1

\* With a value.
LEMMA ReadWithValue ==
  ASSUME NEW type \in {"client_port", "server_port"}, NEW s \in TokenSeqs, Regular(s), Counted(s), NEW tval,
         NEW k \in Nat, k + 1 <= Len(s), s[k + 1] = Semi, NEW n \in 1..Len(s), k + 2 < n, s[n] = Equal
  PROVE  ArgRegular(type, s, k, ArgNamed(s, k + 2, n, tval))
<1> DEFINE e == ValueEnd(s, n)
           v == [name |-> SubSeq(s, k + 2, n - 1), value |-> SubSeq(s, n + 1, e - 1)]
           a == ArgNamed(s, k + 2, n, tval)
<1>1. /\ e \in Places /\ n + 1 < e /\ e <= Len(s) + 1
      /\ e <= Len(s) => s[e] \in {Comma, Semi}
      /\ \A m \in n..(e - 1) : s[m] = Comma => Quoted(s, m)
  BY RegularEnd
<1>2. v \in Arguments /\ v.value # None /\ e \in Nat /\ ValueArgAt(type, s, k, n, e, v)
  BY ValueArgRead
<1>3. Len(s) \in Nat /\ n \in Nat
  BY TextOf
<1>4. a = [name |-> v.name, value |-> v.value, end |-> e]
  <2>1. a = Arg(s, k + 2, n, e, tval)
    <3>1. n <= Len(s)
      BY <1>3, SMT
    <3> QED BY <3>1 DEF ArgNamed
  <2> DEFINE f == e
  <2>2. f \in Nat /\ n + 1 < f /\ f <= Len(s) + 1 /\ f = e
    BY <1>1, <1>2
  <2> HIDE DEF f
  <2>3. n < f /\ ~(n + 1 > Len(s)) /\ (IF f > Len(s) THEN Len(s) ELSE f - 1) = f - 1
    BY ONLY <2>2, <1>3, n \in 1..Len(s), SMT
  <2>4. mid(s, n + 1, e) = SubSeq(s, n + 1, e - 1)
    BY <2>2, <2>3 DEF mid
  <2>5. n < e
    BY <2>2, <2>3
  <2> HIDE DEF e
  <2> QED BY <2>1, <2>4, <2>5 DEF Arg
<1> HIDE DEF e, v, a
<1>5. v.name # <<>>
  <2>1. NameLen(v) = n - (k + 2)
    BY <1>2 DEF ValueArgAt
  <2>2. n - (k + 2) # 0
    BY <1>3, SMT
  <2>3. Len(<<>>) = 0
    BY EmptyIsSeq
  <2> QED BY <2>1, <2>2, <2>3, Zenon DEF NameLen
<1>6. ASSUME e <= Len(s), s[e] = Semi PROVE Valued(s, e)
  <2>1. n \in 1..e /\ \A m \in n..e : m \in n..(e - 1) \/ m = e
    BY <1>1, <1>2, <1>3, SMT
  <2>2. \A m \in n..e : s[m] = Comma => Quoted(s, m)
    BY <1>1, <1>6, <2>1, Separators
  <2> QED BY <2>1, <2>2 DEF Valued
<1>7. v = [name |-> v.name, value |-> v.value]
  BY <1>2 DEF Arguments
<1>8. \A b : Moved(type, v, b) =>
        b \in Arguments /\ Shown(type, s, k, ArgText(b)) /\ k + Len(ArgText(b)) = e - 1
  BY <1>2, <1>3, ArgMoved
<1>9. k + 2 < e
  BY <1>1, <1>2, <1>3, SMT
<1>10. a.name = v.name /\ a.value = v.value /\ a.end = e
  BY <1>4
<1>11. ArgRegular(type, s, k, a)
  BY <1>1, <1>2, <1>5, <1>6, <1>7, <1>8, <1>9, <1>10 DEF ArgRegular
<1> QED BY <1>11 DEF a

\* Without one.
LEMMA ReadWithoutValue ==
  ASSUME NEW type \in {"client_port", "server_port"}, NEW s \in TokenSeqs, NEW k \in Nat, k + 1 <= Len(s),
         s[k + 1] = Semi, NEW n \in Nat, k + 2 < n, n <= Len(s) + 1, n <= Len(s) => s[n] \in {Comma, Semi}
  PROVE  ArgRegular(type, s, k, ArgNamed(s, k + 2, n, None))
<1> DEFINE name == SubSeq(s, k + 2, n - 1)
           v == [name |-> name, value |-> None]
           a == ArgNamed(s, k + 2, n, None)
<1>1. Len(s) \in Nat
  BY TextOf
<1>2. a = [name |-> name, value |-> None, end |-> n]
  <2>1. ~(n <= Len(s) /\ s[n] = Equal)
    BY Separators
  <2>2. ~(n < n)
    BY SMT
  <2> QED BY <2>1, <2>2 DEF ArgNamed, Arg
<1>3. k + 1 \in Nat /\ n - 1 \in Nat /\ k + 1 <= n - 1 /\ n - 1 <= Len(s) /\ (k + 1) + 1 = k + 2
      /\ (n - 1) - (k + 1) > 0 /\ n - 1 = k + 1 + ((n - 1) - (k + 1))
  BY <1>1, SMT
<1>4. name \in TokenSeqs /\ Len(name) = (n - 1) - (k + 1) /\ Shown(type, s, k + 1, name)
  <2>1. LET u == SubSeq(s, (k + 1) + 1, n - 1)
        IN  u \in TokenSeqs /\ Len(u) = (n - 1) - (k + 1) /\ Shown(type, s, k + 1, u)
    BY <1>3, PartShown
  <2> QED BY <1>3, <2>1
<1> HIDE DEF name, a
<1>5. v \in Arguments /\ v.name = name /\ v.value = None
  BY <1>4 DEF Arguments, Values
<1>6. ArgFits(type, s, k, n - 1, v)
  <2>1. NameLen(v) = (n - 1) - (k + 1)
    BY <1>4, <1>5 DEF NameLen
  <2> QED BY <1>3, <1>4, <1>5, <2>1 DEF ArgFits
<1>7. Shown(type, s, k, ArgText(v)) /\ k + Len(ArgText(v)) = n - 1
  BY <1>3, <1>5, <1>6, ArgTextShown
<1>8. ASSUME NEW b, Moved(type, v, b) PROVE b = v
  <2>1. FromText(v.value) = None
    BY <1>5 DEF FromText
  <2> QED BY <1>8, <2>1 DEF Moved
<1>9. name # <<>>
  <2>1. Len(name) # 0
    BY <1>3, <1>4
  <2>2. Len(<<>>) = 0
    BY EmptyIsSeq
  <2> QED BY <2>1, <2>2, Zenon
<1>10. a.name = name /\ a.value = None /\ a.end = n
  BY <1>2
<1>11. ArgRegular(type, s, k, a)
  BY <1>5, <1>7, <1>8, <1>9, <1>10 DEF ArgRegular
<1> QED BY <1>11 DEF a

\* ReadArg() of a regular text.
LEMMA ReadRegular ==
  ASSUME NEW type \in {"client_port", "server_port"}, NEW s \in TokenSeqs, Regular(s), Counted(s),
         NEW k \in Nat, k + 1 <= Len(s), s[k + 1] = Semi, NEW tval, tval # None => Valued(s, k + 1)
  PROVE  ArgRegular(type, s, k, ReadArg(s, k + 2, tval))
<1> DEFINE n == findOneOf(s, {Comma, Semi, Equal}, k + 2)
<1>1. Len(s) \in Nat /\ k + 2 \in Places /\ k + 1 \in 1..Len(s)
  BY TextOf, SMT DEF Places
<1>2. k + 2 \in 1..Len(s) /\ s[k + 2] \notin {Comma, Semi, Equal}
  <2>1. (k + 1) + 1 = k + 2
    BY SMT
  <2> QED BY <1>1, <2>1, RegularSides
<1>3. /\ n \in Places /\ n <= Len(s) + 1
      /\ n <= Len(s) => s[n] \in {Comma, Semi, Equal}
      /\ k + 2 <= Len(s) + 1 => k + 2 <= n
      /\ \A i \in (k + 2)..(n - 1) : s[i] \notin {Comma, Semi, Equal}
  BY <1>1, FindGives
<1>4. ReadArg(s, k + 2, tval) = ArgNamed(s, k + 2, n, tval)
  BY DEF ReadArg
<1> HIDE DEF n
<1>5. k + 2 < n /\ n \in Nat
  <2>1. k + 2 <= n /\ (n = k + 2 => n <= Len(s))
    BY <1>1, <1>2, <1>3, SMT DEF Places
  <2>2. n # k + 2
    BY <1>2, <1>3, <2>1
  <2> QED BY <1>3, <2>1, <2>2, SMT DEF Places
<1>6. CASE n <= Len(s) /\ s[n] = Equal
  <2>1. n \in 1..Len(s)
    BY <1>1, <1>3, <1>6, SMT DEF Places
  <2> QED BY <1>4, <1>5, <1>6, <2>1, ReadWithValue
<1>7. CASE ~(n <= Len(s) /\ s[n] = Equal)
  <2>1. n <= Len(s) => s[n] \in {Comma, Semi}
    BY <1>3, <1>7
  <2>2. ASSUME (k + 1) + 2 \in 1..Len(s), s[(k + 1) + 2] = Equal PROVE FALSE
    <3>1. (k + 1) + 2 = n \/ (k + 1) + 2 \in (k + 2)..(n - 1)
      BY <1>5, SMT
    <3>2. (k + 1) + 2 <= Len(s)
      BY <1>1, <2>2, SMT
    <3> QED BY <1>3, <1>7, <2>2, <3>1, <3>2
  <2>3. tval = None
    BY <1>1, <2>2, RegularValues
  <2> QED BY <1>3, <1>4, <1>5, <2>1, <2>3, ReadWithoutValue
<1> QED BY <1>6, <1>7

\* A sequence is what comes before its last element, and that.
LEMMA LastApart ==
  ASSUME NEW X, NEW new \in Seq(X), NEW m \in Nat, Len(new) = m + 1
  PROVE  \E front \in Seq(X) : /\ new = Append(front, new[m + 1]) /\ Len(front) = m /\ new[m + 1] \in X
                              /\ \A i \in 1..m : front[i] = new[i]
<1> DEFINE front == SubSeq(new, 1, m)
<1>1. \A i \in 1..(m + 1) : new[i] \in X
  BY ElementOfSeq
<1>2. 1 \in Int /\ m \in Int /\ (\A i \in 1..m : i \in 1..(m + 1)) /\ m + 1 \in 1..(m + 1)
      /\ (1 <= m => m - 1 + 1 = m) /\ (~(1 <= m) => m = 0) /\ \A i \in 1..m : 1 + i - 1 = i
  BY SMT
<1>3. front \in Seq(X) /\ Len(front) = m /\ \A i \in 1..m : front[i] = new[i]
  <2>1. /\ front \in Seq(X)
        /\ Len(front) = IF 1 <= m THEN m - 1 + 1 ELSE 0
        /\ \A i \in 1..Len(front) : front[i] = new[1 + i - 1]
    BY <1>1, <1>2, SubSeqProperties
  <2> HIDE DEF front
  <2>2. Len(front) = m
    BY <1>2, <2>1
  <2> QED BY <1>2, <2>1, <2>2
<1> HIDE DEF front
<1> DEFINE whole == Append(front, new[m + 1])
<1>4. new[m + 1] \in X
  BY <1>1, <1>2
<1>5. /\ whole \in Seq(X) /\ Len(whole) = m + 1
      /\ (\A i \in 1..m : whole[i] = front[i]) /\ whole[m + 1] = new[m + 1]
  BY <1>3, <1>4, AppendProperties
<1> HIDE DEF whole
<1>6. ASSUME NEW i \in 1..(m + 1) PROVE new[i] = whole[i]
  <2>1. i \in 1..m \/ i = m + 1
    BY SMT
  <2> QED BY <1>3, <1>5, <2>1
<1>7. new = whole
  BY <1>5, <1>6, SeqEqual
<1> QED BY <1>3, <1>4, <1>7 DEF whole

\* All arguments of a transport, moved or not.
AllMoved(type, args, new) ==
  new \in Seq(Arguments) /\ Len(new) = Len(args) /\ \A i \in 1..Len(args) : Moved(type, args[i], new[i])

\* The arguments read so far stand behind place k, and the next one is to be read.
ArgsRegular(type, s, k, j, r) ==
  /\ r \in ArgStates /\ r.ok /\ 1 < r.at
  /\ ~r.last => /\ j < r.at /\ r.at <= Len(s) /\ s[r.at - 1] = Semi
                /\ r.tval # None => Valued(s, r.at - 1)
  /\ r.last => r.at = Len(s) + 2 \/ (r.at <= Len(s) + 1 /\ s[r.at - 1] = Comma)
  /\ \A new : AllMoved(type, r.args, new) =>
       Shown(type, s, k, ArgsText(new)) /\ k + Len(ArgsText(new)) = r.at - 2

\* One argument more.
LEMMA ArgsGrow ==
  ASSUME NEW type, NEW s \in TokenSeqs, NEW k \in Nat, NEW args \in Seq(Arguments), NEW at \in Nat, at > 1,
         \A new : AllMoved(type, args, new) =>
           Shown(type, s, k, ArgsText(new)) /\ k + Len(ArgsText(new)) = at - 2,
         NEW a, ArgRegular(type, s, at - 2, a),
         NEW new, AllMoved(type, Append(args, [name |-> a.name, value |-> a.value]), new)
  PROVE  Shown(type, s, k, ArgsText(new)) /\ k + Len(ArgsText(new)) = a.end - 1
<1> DEFINE v == [name |-> a.name, value |-> a.value]
           m == Len(args)
           more == Append(args, v)
<1>1. v \in Arguments
  BY DEF ArgRegular
<1>2. m \in Nat
  BY LenProperties
<1>3. AllMoved(type, more, new)
  OBVIOUS
<1> HIDE DEF v
<1>4. Len(more) = m + 1 /\ (\A i \in 1..m : more[i] = args[i]) /\ more[m + 1] = v
  BY <1>1, AppendProperties
<1> HIDE DEF more
<1>5. new \in Seq(Arguments) /\ Len(new) = m + 1 /\ \A i \in 1..(m + 1) : Moved(type, more[i], new[i])
  BY <1>3, <1>4 DEF AllMoved
<1> HIDE DEF m
<1>6. PICK front \in Seq(Arguments) :
        /\ new = Append(front, new[m + 1]) /\ Len(front) = m /\ new[m + 1] \in Arguments
        /\ \A i \in 1..m : front[i] = new[i]
  BY <1>2, <1>5, LastApart
<1>7. (\A i \in 1..m : i \in 1..(m + 1)) /\ m + 1 \in 1..(m + 1)
  BY <1>2, SMT
<1>8. AllMoved(type, args, front)
  BY <1>4, <1>5, <1>6, <1>7 DEF AllMoved, m
<1> DEFINE b == new[m + 1]
           u == ArgsText(front)
           w == ArgText(b)
<1>9. Moved(type, v, b)
  BY <1>4, <1>5, <1>7
<1>10. Shown(type, s, k, u) /\ k + Len(u) = at - 2
  BY <1>8
<1>11. Shown(type, s, at - 2, w) /\ (at - 2) + Len(w) = a.end - 1
  BY <1>9 DEF ArgRegular, v
<1>12. ArgsText(new) = u \o w /\ u \in TokenSeqs /\ w \in TokenSeqs
  BY <1>6, ArgsTextMore, ArgumentWritten
<1> HIDE DEF u, w, b
<1>13. Len(u) \in Nat /\ Len(w) \in Nat /\ Len(u \o w) = Len(u) + Len(w) /\ a.end \in Nat
  BY <1>12, TextOf, TextsAre DEF ArgRegular
<1>14. Shown(type, s, k, u \o w)
  BY <1>10, <1>11, <1>12, ShownTogether
<1>15. k + Len(u \o w) = a.end - 1
  <2> DEFINE p == Len(u)
             q == Len(w)
             z == Len(u \o w)
             e == a.end
  <2>1. p \in Nat /\ q \in Nat /\ z = p + q /\ e \in Nat /\ k + p = at - 2 /\ (at - 2) + q = e - 1
    BY <1>10, <1>11, <1>13
  <2> HIDE DEF p, q, z, e
  <2>2. k + z = e - 1
    BY ONLY <2>1, k \in Nat, at \in Nat, SMT
  <2> QED BY <2>2 DEF z, e
<1> QED BY <1>12, <1>14, <1>15

\* A turn of the loop.
LEMMA ArgTurnRegular ==
  ASSUME NEW type \in {"client_port", "server_port"}, NEW s \in TokenSeqs, Regular(s), Counted(s),
         NEW k \in Nat, NEW j \in Nat, NEW r, ArgsRegular(type, s, k, j, r)
  PROVE  ArgsRegular(type, s, k, j + 1, ArgTurn(s, r))
<1>1. /\ r \in ArgStates /\ r.ok /\ 1 < r.at
      /\ ~r.last => /\ j < r.at /\ r.at <= Len(s) /\ s[r.at - 1] = Semi
                    /\ r.tval # None => Valued(s, r.at - 1)
      /\ \A new : AllMoved(type, r.args, new) =>
           Shown(type, s, k, ArgsText(new)) /\ k + Len(ArgsText(new)) = r.at - 2
  BY DEF ArgsRegular
<1>2. Len(s) \in Nat /\ r.at \in Nat /\ r.last \in BOOLEAN /\ r.args \in Seq(Arguments)
  BY <1>1, TextOf DEF ArgStates, Places
<1>3. CASE r.last
  <2>1. ArgTurn(s, r) = r
    BY <1>3 DEF ArgTurn
  <2> QED BY <1>3, <2>1 DEF ArgsRegular
<1>4. CASE ~r.last
  <2> DEFINE at == r.at
             a == ReadArg(s, at, r.tval)
             v == [name |-> a.name, value |-> a.value]
             x == TakeArg(s, r, a)
  <2>1. at - 2 \in Nat /\ (at - 2) + 1 = at - 1 /\ (at - 2) + 2 = at /\ at - 1 <= Len(s) /\ ~(at > Len(s))
    BY <1>1, <1>2, <1>4, SMT
  <2>2. ArgTurn(s, r) = x /\ x \in ArgStates
    BY <1>1, <1>4, <2>1, ArgumentTaken DEF ArgTurn
  <2>3. ArgRegular(type, s, at - 2, a)
    <3>1. (at - 2) + 1 <= Len(s) /\ s[(at - 2) + 1] = Semi /\ (r.tval # None => Valued(s, (at - 2) + 1))
      BY <1>1, <1>4, <2>1
    <3>2. ArgRegular(type, s, at - 2, ReadArg(s, (at - 2) + 2, r.tval))
      <4> DEFINE l == at - 2
      <4>1. l \in Nat /\ l + 1 <= Len(s) /\ s[l + 1] = Semi /\ (r.tval # None => Valued(s, l + 1))
        BY <2>1, <3>1
      <4> HIDE DEF l
      <4>2. ArgRegular(type, s, l, ReadArg(s, l + 2, r.tval))
        BY <4>1, ReadRegular
      <4> QED BY <4>2 DEF l
    <3> QED BY <2>1, <3>2
  <2> HIDE DEF a
  <2>4. /\ a.end \in Nat /\ (at - 2) + 2 < a.end /\ a.end <= Len(s) + 1 /\ (a.end <= Len(s) => s[a.end] \in {Comma, Semi})
        /\ a.name # <<>> /\ v \in Arguments
        /\ a.end <= Len(s) /\ s[a.end] = Semi /\ a.value # None => Valued(s, a.end)
    BY <2>3 DEF ArgRegular
  <2> DEFINE e == a.end
  <2>5. ~(e > Len(s) + 1) /\ at < e /\ e \in Nat /\ e <= Len(s) + 1 /\ (e + 1) - 1 = e /\ (e + 1) - 2 = e - 1
    <3> HIDE DEF at, e
    <3>1. e \in Nat /\ (at - 2) + 2 < e /\ e <= Len(s) + 1
      BY <2>4 DEF e
    <3>2. at \in Nat
      BY <1>2 DEF at
    <3> QED BY ONLY <1>2, <3>1, <3>2, SMT
  <2>6. x = [ok |-> TRUE, args |-> Append(r.args, v), tval |-> a.value, at |-> e + 1,
             last |-> e > Len(s) \/ s[e] = Comma]
    BY <2>4, <2>5 DEF TakeArg
  <2>7. x.ok /\ x.at = e + 1 /\ x.args = Append(r.args, v) /\ x.tval = a.value
        /\ (x.last <=> (e > Len(s) \/ s[e] = Comma))
    <3> DEFINE l == e > Len(s) \/ s[e] = Comma
    <3>1. x = [ok |-> TRUE, args |-> Append(r.args, v), tval |-> a.value, at |-> e + 1, last |-> l]
      BY <2>6
    <3> HIDE DEF l, x, v, e
    <3>2. x.ok /\ x.at = e + 1 /\ x.args = Append(r.args, v) /\ x.tval = a.value /\ x.last = l
      BY <3>1
    <3> QED BY <3>2, Zenon DEF l
  <2>8. ASSUME NEW new, AllMoved(type, x.args, new)
        PROVE  Shown(type, s, k, ArgsText(new)) /\ k + Len(ArgsText(new)) = x.at - 2
    <3>1. AllMoved(type, Append(r.args, v), new)
      BY <2>7, <2>8
    <3>2. Shown(type, s, k, ArgsText(new)) /\ k + Len(ArgsText(new)) = a.end - 1
      BY <1>1, <1>2, <2>3, <3>1, ArgsGrow
    <3> QED BY <2>5, <2>7, <3>2
  <2>9. ASSUME ~x.last
        PROVE  /\ j + 1 < x.at /\ x.at <= Len(s) /\ s[x.at - 1] = Semi
               /\ x.tval # None => Valued(s, x.at - 1)
    <3>1. ~(e > Len(s)) /\ s[e] # Comma
      BY <2>7, <2>9
    <3>2. e \in 1..Len(s) /\ e <= Len(s) /\ j + 1 < e + 1
      <4>1. j < at /\ at \in Nat
        BY <1>1, <1>2, <1>4
      <4> HIDE DEF at, e
      <4> QED BY ONLY <1>2, <2>5, <3>1, <4>1, j \in Nat, SMT
    <3>3. s[e] = Semi
      BY <2>4, <3>1, <3>2
    <3>4. e + 1 \in 1..Len(s)
      BY <3>2, <3>3, RegularSides
    <3>5. e + 1 <= Len(s)
      BY <3>4
    <3> QED BY <2>4, <2>5, <2>7, <3>2, <3>3, <3>5
  <2>10. ASSUME x.last
         PROVE  x.at = Len(s) + 2 \/ (x.at <= Len(s) + 1 /\ s[x.at - 1] = Comma)
    <3>1. CASE e > Len(s)
      <4>1. e + 1 = Len(s) + 2
        <5> HIDE DEF e
        <5> QED BY ONLY <1>2, <2>5, <3>1, SMT
      <4> QED BY <2>7, <4>1
    <3>2. CASE ~(e > Len(s))
      <4>1. e + 1 <= Len(s) + 1
        <5> HIDE DEF e
        <5> QED BY ONLY <1>2, <2>5, <3>2, SMT
      <4>2. s[e] = Comma
        BY <2>7, <2>10, <3>2
      <4> QED BY <2>5, <2>7, <4>1, <4>2
    <3> QED BY <3>1, <3>2
  <2>11. 1 < x.at
    <3>1. 1 < e + 1
      <4>1. 1 < at /\ at \in Nat
        BY <1>1, <1>2
      <4> HIDE DEF at, e
      <4> QED BY ONLY <2>5, <4>1, SMT
    <3> QED BY <2>7, <3>1
  <2> HIDE DEF x, v, e
  <2>12. ArgsRegular(type, s, k, j + 1, x)
    BY <2>2, <2>7, <2>8, <2>9, <2>10, <2>11 DEF ArgsRegular
  <2> QED BY <2>2, <2>12
<1> QED BY <1>2, <1>3, <1>4

\* Nothing stands anywhere.
LEMMA NothingShown ==
  ASSUME NEW type, NEW s \in TokenSeqs, NEW k \in Nat, k <= Len(s)
  PROVE  Shown(type, s, k, <<>>) /\ Len(<<>>) = 0 /\ k + Len(<<>>) = k
<1>1. Len(<<>>) = 0 /\ k + 0 = k /\ \A i \in 1..0 : FALSE
  BY EmptyIsSeq, SMT
<1> QED BY <1>1 DEF Shown

\* What the loop over the arguments gives: r ends with the text or before a comma, and
\* behind place k are the arguments.
ArgsShown(type, s, k, r) ==
  /\ r.ok /\ r.at \in Nat /\ k + 2 <= r.at
  /\ r.at = Len(s) + 2 \/ (r.at <= Len(s) + 1 /\ s[r.at - 1] = Comma)
  /\ \A new : AllMoved(type, r.args, new) =>
       Shown(type, s, k, ArgsText(new)) /\ k + Len(ArgsText(new)) = r.at - 2

LEMMA NoArgs ==
  ASSUME NEW type, NEW new, AllMoved(type, <<>>, new)
  PROVE  new = <<>> /\ ArgsText(new) = <<>>
<1>1. new \in Seq(Arguments) /\ Len(new) = 0
  BY EmptyIsSeq DEF AllMoved
<1>2. new = <<>>
  BY <1>1, EmptySeq
<1> QED BY <1>2, ArgsTextMore

\* The loop over the arguments of a regular text.
LEMMA ReadArgsRegular ==
  ASSUME NEW type \in {"client_port", "server_port"}, NEW s \in TokenSeqs, Regular(s), Counted(s),
         NEW n \in 1..Len(s), s[n] = Semi
  PROVE  ArgsShown(type, s, n - 1, ReadArgs(s, n + 1)) /\ ReadArgs(s, n + 1) \in ArgStates
<1>1. Len(s) \in Nat /\ n \in Nat /\ n - 1 \in Nat /\ n + 1 \in Places /\ n + 1 \in Nat /\ n <= Len(s)
  BY TextOf, SMT DEF Places
<1> DEFINE k == n - 1
<1>2. PICK g : ArgLoop(s, n + 1, g) /\ ReadArgs(s, n + 1) = g[Len(s)]
  BY <1>1, ArgumentTurns
<1>3. g \in [Nat -> ArgStates] /\ g[0] = ArgStart(n + 1)
      /\ \A j \in Nat : j < Len(s) => g[j + 1] = ArgTurn(s, g[j])
  BY <1>2 DEF ArgLoop
<1>4. k \in Nat /\ k <= Len(s) /\ (n + 1) - 2 = k /\ (n + 1) - 1 = n /\ 0 < n + 1 /\ 1 < n + 1
  BY <1>1, SMT
<1>5. ArgsRegular(type, s, k, 0, g[0])
  <2>1. n + 1 \in 1..Len(s)
    BY RegularSides
  <2>2. n + 1 <= Len(s)
    BY <1>1, <2>1, SMT
  <2> DEFINE r == ArgStart(n + 1)
  <2>3. r.ok /\ r.args = <<>> /\ r.tval = None /\ r.at = n + 1 /\ r.last = FALSE
    BY DEF ArgStart
  <2>4. r \in ArgStates
    <3>1. 0 \in Nat
      BY SMT
    <3> QED BY <1>3, <3>1
  <2> HIDE DEF r
  <2>5. \A new : AllMoved(type, r.args, new) =>
          Shown(type, s, k, ArgsText(new)) /\ k + Len(ArgsText(new)) = r.at - 2
    <3> SUFFICES ASSUME NEW new, AllMoved(type, <<>>, new)
                 PROVE  Shown(type, s, k, ArgsText(new)) /\ k + Len(ArgsText(new)) = r.at - 2
      BY <2>3
    <3> HIDE DEF k
    <3> QED BY <1>4, <2>3, NoArgs, NothingShown
  <2>6. ArgsRegular(type, s, k, 0, r)
    BY <1>4, <2>2, <2>3, <2>4, <2>5 DEF ArgsRegular
  <2> QED BY <1>3, <2>6 DEF r
<1> DEFINE T == {j \in Nat : j <= Len(s) => ArgsRegular(type, s, k, j, g[j])}
<1>6. \A j \in Nat : j \in T => j + 1 \in T
  <2> SUFFICES ASSUME NEW j \in Nat, j <= Len(s) => ArgsRegular(type, s, k, j, g[j]), j + 1 <= Len(s)
               PROVE  ArgsRegular(type, s, k, j + 1, g[j + 1])
    OBVIOUS
  <2>1. j <= Len(s) /\ j < Len(s)
    BY <1>1, SMT
  <2>2. g[j + 1] = ArgTurn(s, g[j])
    BY <1>3, <2>1
  <2> HIDE DEF k
  <2> QED BY <1>4, <2>1, <2>2, ArgTurnRegular
<1>7. T \in SUBSET Nat /\ 0 \in T
  BY <1>5
<1> HIDE DEF T
<1>8. Len(s) \in T
  BY <1>1, <1>6, <1>7, InductionOnSet
<1> DEFINE r == ReadArgs(s, n + 1)
<1>9. ArgsRegular(type, s, k, Len(s), r)
  <2>1. Len(s) <= Len(s)
    BY <1>1, SMT
  <2> QED BY <1>2, <1>8, <2>1 DEF T
<1> HIDE DEF r, k
<1>10. /\ r \in ArgStates /\ r.ok /\ 1 < r.at
       /\ ~r.last => Len(s) < r.at /\ r.at <= Len(s)
       /\ r.last => r.at = Len(s) + 2 \/ (r.at <= Len(s) + 1 /\ s[r.at - 1] = Comma)
       /\ \A new : AllMoved(type, r.args, new) =>
            Shown(type, s, k, ArgsText(new)) /\ k + Len(ArgsText(new)) = r.at - 2
  BY <1>9 DEF ArgsRegular
<1>11. r.at \in Nat /\ r.args \in Seq(Arguments)
  BY <1>10 DEF ArgStates, Places
<1>12. r.last
  BY <1>1, <1>10, <1>11, SMT
<1>13. k + 2 <= r.at
  <2> DEFINE u == ArgsText(r.args)
  <2>1. AllMoved(type, r.args, r.args)
    BY <1>11 DEF AllMoved, Moved
  <2>2. k + Len(u) = r.at - 2 /\ Len(u) \in Nat
    BY <1>10, <1>11, <2>1, ArgsTextMore, TextOf
  <2> DEFINE p == Len(u)
             at == r.at
  <2>3. k + p = at - 2 /\ p \in Nat /\ at \in Nat
    BY <1>11, <2>2
  <2> HIDE DEF p, at
  <2>4. k + 2 <= at
    BY ONLY <1>4, <2>3, SMT
  <2> QED BY <2>4 DEF at
<1>14. ArgsShown(type, s, k, r)
  BY <1>10, <1>11, <1>12, <1>13 DEF ArgsShown
<1> QED BY <1>10, <1>14 DEF r, k

\* A transport, with its arguments moved or not.
TransportMoved(type, t, new) ==
  new \in Transports /\ new.name = t.name /\ AllMoved(type, t.args, new.args)

\* What readFromString() gives from place `start' on.
TransportShown(type, s, start, r) ==
  /\ r.ok /\ r.at \in Nat /\ start < r.at
  /\ r.at = Len(s) + 2 \/ (r.at <= Len(s) + 1 /\ s[r.at - 1] = Comma)
  /\ \A new : TransportMoved(type, r.transport, new) =>
       Shown(type, s, start - 1, toString(new)) /\ (start - 1) + Len(toString(new)) = r.at - 2

\* readFromString() of one of its transports.
LEMMA ReadTransportRegular ==
  ASSUME NEW type \in {"client_port", "server_port"}, NEW s \in TokenSeqs, Regular(s), Counted(s),
         NEW start \in 1..Len(s), s[start] \notin {Comma, Semi, Equal}
  PROVE  TransportShown(type, s, start, readFromString(s, start))
<1> DEFINE n == findOneOf(s, {Comma, Semi}, start)
           args == IF n <= Len(s) /\ s[n] = Semi THEN ReadArgs(s, n + 1)
                   ELSE [ok |-> TRUE, args |-> <<>>, at |-> n + 1]
           r == readFromString(s, start)
           name == SubSeq(s, start, n - 1)
<1>1. Len(s) \in Nat /\ start \in Nat /\ start \in Places /\ start <= Len(s)
  BY TextOf, SMT DEF Places
<1>2. /\ n \in Places /\ n <= Len(s) + 1
      /\ n <= Len(s) => s[n] \in {Comma, Semi}
      /\ start <= Len(s) + 1 => start <= n
  BY <1>1, FindGives
<1>3. r = [ok |-> n > start /\ args.ok, at |-> args.at, transport |-> [name |-> name, args |-> args.args]]
  BY Zenon DEF readFromString, ReadTransport, TransportNamed
<1> HIDE DEF n, args, name
<1>4. start < n /\ n \in Nat /\ n > start
  <2>1. start <= n /\ (n = start => n <= Len(s)) /\ n \in Nat
    BY <1>1, <1>2, SMT DEF Places
  <2>2. n # start
    BY <1>2, <2>1
  <2> QED BY <1>1, <2>1, <2>2, SMT
<1>5. ArgsShown(type, s, n - 1, args)
  <2>1. CASE n <= Len(s) /\ s[n] = Semi
    <3>1. n \in 1..Len(s)
      BY <1>1, <1>4, <2>1, SMT
    <3>2. args = ReadArgs(s, n + 1)
      BY <2>1 DEF args
    <3> QED BY <2>1, <3>1, <3>2, ReadArgsRegular
  <2>2. CASE ~(n <= Len(s) /\ s[n] = Semi)
    <3>1. args = [ok |-> TRUE, args |-> <<>>, at |-> n + 1]
      BY <2>2 DEF args
    <3>2. args.ok /\ args.args = <<>> /\ args.at = n + 1
      BY <3>1
    <3>3. n + 1 \in Nat /\ (n - 1) + 2 <= n + 1 /\ n - 1 \in Nat /\ n - 1 <= Len(s) /\ (n + 1) - 2 = n - 1
          /\ (n + 1) - 1 = n /\ (~(n <= Len(s)) => n + 1 = Len(s) + 2) /\ (n <= Len(s) => n + 1 <= Len(s) + 1)
      BY <1>1, <1>2, <1>4, SMT
    <3>4. args.at = Len(s) + 2 \/ (args.at <= Len(s) + 1 /\ s[args.at - 1] = Comma)
      <4>1. CASE n <= Len(s)
        <5>1. s[n] = Comma
          BY <1>2, <2>2, <4>1
        <5> QED BY <3>2, <3>3, <4>1, <5>1
      <4>2. CASE ~(n <= Len(s))
        BY <3>2, <3>3, <4>2
      <4> QED BY <4>1, <4>2
    <3>5. ASSUME NEW new, AllMoved(type, args.args, new)
          PROVE  Shown(type, s, n - 1, ArgsText(new)) /\ (n - 1) + Len(ArgsText(new)) = args.at - 2
      <4>1. ArgsText(new) = <<>>
        BY <3>2, <3>5, NoArgs
      <4>2. Shown(type, s, n - 1, <<>>) /\ (n - 1) + Len(<<>>) = n - 1
        BY <3>3, NothingShown
      <4> QED BY <3>2, <3>3, <4>1, <4>2
    <3> QED BY <3>2, <3>3, <3>4, <3>5 DEF ArgsShown
  <2> QED BY <2>1, <2>2
<1> HIDE DEF r
<1>6. r.ok /\ r.at = args.at /\ r.transport.name = name /\ r.transport.args = args.args
  <2>1. args.ok
    BY <1>5 DEF ArgsShown
  <2>2. r = [ok |-> TRUE, at |-> args.at, transport |-> [name |-> name, args |-> args.args]]
    <3>1. (n > start /\ args.ok) = TRUE
      BY <1>4, <2>1
    <3> QED BY <1>3, <3>1
  <2> QED BY <2>2
<1>7. /\ r.at \in Nat /\ (n - 1) + 2 <= r.at
      /\ r.at = Len(s) + 2 \/ (r.at <= Len(s) + 1 /\ s[r.at - 1] = Comma)
      /\ \A new : AllMoved(type, r.transport.args, new) =>
           Shown(type, s, n - 1, ArgsText(new)) /\ (n - 1) + Len(ArgsText(new)) = r.at - 2
  BY <1>5, <1>6 DEF ArgsShown
<1>8. start < r.at
  BY <1>1, <1>4, <1>7, SMT
<1>9. name \in TokenSeqs /\ Len(name) = (n - 1) - (start - 1) /\ Shown(type, s, start - 1, name)
  <2> DEFINE k == start - 1
  <2>1. k \in Nat /\ n - 1 \in Nat /\ k <= n - 1 /\ n - 1 <= Len(s) /\ k + 1 = start
    BY <1>1, <1>2, <1>4, SMT
  <2> HIDE DEF k
  <2>2. LET v == SubSeq(s, k + 1, n - 1)
        IN  v \in TokenSeqs /\ Len(v) = (n - 1) - k /\ Shown(type, s, k, v)
    BY <2>1, PartShown
  <2> QED BY <2>1, <2>2 DEF k, name
<1>10. ASSUME NEW new, TransportMoved(type, r.transport, new)
       PROVE  Shown(type, s, start - 1, toString(new)) /\ (start - 1) + Len(toString(new)) = r.at - 2
  <2> DEFINE u == ArgsText(new.args)
             k == start - 1
  <2>1. new.name = name /\ AllMoved(type, r.transport.args, new.args) /\ new.args \in Seq(Arguments)
    BY <1>6, <1>10 DEF TransportMoved, AllMoved
  <2>2. toString(new) = name \o u /\ u \in TokenSeqs
    BY <2>1, ArgsTextMore DEF toString, ArgsText
  <2>3. Shown(type, s, n - 1, u) /\ (n - 1) + Len(u) = r.at - 2
    BY <1>7, <2>1
  <2> HIDE DEF u
  <2>4. Len(u) \in Nat /\ Len(name \o u) = Len(name) + Len(u) /\ k \in Nat
    <3>1. k \in Nat
      BY <1>1, SMT
    <3> QED BY <1>9, <2>2, <3>1, TextOf, TextsAre
  <2>5. k + Len(name) = n - 1
    BY <1>1, <1>4, <1>9, <2>4, SMT
  <2>6. Shown(type, s, k, name \o u)
    <3>1. Shown(type, s, k, name) /\ Shown(type, s, k + Len(name), u)
      BY <1>9, <2>3, <2>5
    <3> HIDE DEF k
    <3> QED BY ONLY <1>9, <2>2, <2>4, <3>1, s \in TokenSeqs, ShownTogether
  <2>7. k + Len(name \o u) = r.at - 2
    <3> DEFINE p == Len(u)
               q == Len(name)
               z == Len(name \o u)
               at == r.at
    <3>1. p \in Nat /\ z = q + p /\ k + q = n - 1 /\ (n - 1) + p = at - 2 /\ q = (n - 1) - k
      BY <1>9, <2>3, <2>4, <2>5
    <3>2. at \in Nat /\ k \in Nat
      BY <1>7, <2>4
    <3> HIDE DEF p, q, z, at, k
    <3>3. k + z = at - 2
      BY ONLY <1>4, <3>1, <3>2, SMT
    <3> QED BY <3>3 DEF z, at
  <2> QED BY <2>2, <2>6, <2>7
<1>11. TransportShown(type, s, start, r)
  BY <1>6, <1>7, <1>8, <1>10 DEF TransportShown
<1> QED BY <1>11 DEF r

\* All transports of a list.
ListMoved(type, list, new) ==
  new \in Seq(Transports) /\ Len(new) = Len(list) /\ \A i \in 1..Len(list) : TransportMoved(type, list[i], new[i])

\* The transports read so far are the text up to a comma or the end.
ListRegular(type, s, j, acc) ==
  /\ acc \in ListStates
  /\ acc.at > Len(s) \/ j < acc.at
  /\ \/ acc.list = <<>> /\ acc.at = 1
     \/ /\ acc.list # <<>>
        /\ acc.at > 1 /\ (acc.at = Len(s) + 2 \/ (acc.at <= Len(s) + 1 /\ s[acc.at - 1] = Comma))
        /\ \A new : ListMoved(type, acc.list, new) => Shown(type, s, 0, ListText(new)) /\ Len(ListText(new)) = acc.at - 2

\* One transport more: behind a comma, unless it is the first.
LEMMA ListGrows ==
  ASSUME NEW type, NEW s \in TokenSeqs, NEW acc, NEW j, ListRegular(type, s, j, acc), acc.at <= Len(s),
         NEW r, TransportShown(type, s, acc.at, r), r.transport \in Transports,
         NEW new, ListMoved(type, Append(acc.list, r.transport), new)
  PROVE  Shown(type, s, 0, ListText(new)) /\ Len(ListText(new)) = r.at - 2
<1> DEFINE list == acc.list
           v == r.transport
           m == Len(list)
           more == Append(list, v)
           start == acc.at
<1>1. list \in Seq(Transports) /\ start \in Nat /\ start > 0 /\ m \in Nat /\ Len(s) \in Nat /\ start <= Len(s)
  <2>1. acc \in ListStates
    BY DEF ListRegular
  <2> QED BY <2>1, LenProperties, TextOf DEF ListStates, Places
<1>2. ListMoved(type, more, new)
  OBVIOUS
<1>3. (list = <<>> /\ start = 1)
      \/ /\ list # <<>>
         /\ start > 1 /\ (start = Len(s) + 2 \/ (start <= Len(s) + 1 /\ s[start - 1] = Comma))
         /\ \A l : ListMoved(type, list, l) => Shown(type, s, 0, ListText(l)) /\ Len(ListText(l)) = start - 2
  BY DEF ListRegular
<1>4. /\ r.at \in Nat
      /\ \A u : TransportMoved(type, v, u) =>
           Shown(type, s, start - 1, toString(u)) /\ (start - 1) + Len(toString(u)) = r.at - 2
  BY DEF TransportShown
<1> HIDE DEF v, start
<1>5. Len(more) = m + 1 /\ (\A i \in 1..m : more[i] = list[i]) /\ more[m + 1] = v
  BY <1>1, AppendProperties DEF v
<1> HIDE DEF more, list
<1>6. new \in Seq(Transports) /\ Len(new) = m + 1 /\ \A i \in 1..(m + 1) : TransportMoved(type, more[i], new[i])
  BY <1>2, <1>5 DEF ListMoved
<1> HIDE DEF m
<1>7. PICK front \in Seq(Transports) :
        /\ new = Append(front, new[m + 1]) /\ Len(front) = m /\ new[m + 1] \in Transports
        /\ \A i \in 1..m : front[i] = new[i]
  <2>1. new \in Seq(Transports) /\ Len(new) = m + 1 /\ m \in Nat
    BY <1>1, <1>6
  <2> QED BY ONLY <2>1, LastApart
<1>8. (\A i \in 1..m : i \in 1..(m + 1)) /\ m + 1 \in 1..(m + 1)
  BY <1>1, SMT
<1>9. ListMoved(type, list, front)
  BY <1>5, <1>6, <1>7, <1>8 DEF ListMoved, m
<1> DEFINE t == new[m + 1]
           u == ListText(front)
           w == toString(t)
<1>10. Shown(type, s, start - 1, w) /\ (start - 1) + Len(w) = r.at - 2
  BY <1>4, <1>5, <1>6, <1>8
<1>11. ListText(new) = u \o ItemText(m + 1, t) /\ u \in TokenSeqs /\ w \in TokenSeqs
  BY <1>7, ListTextMore, ListWritten, TransportWritten
<1>12. ItemText(m + 1, t) = (IF m + 1 > 1 THEN <<Comma>> ELSE <<>>) \o w
  BY DEF ItemText
<1> HIDE DEF u, w, t
<1>13. Len(u) \in Nat /\ Len(w) \in Nat
  BY <1>11, TextOf
<1> DEFINE at == r.at
<1>14. at \in Nat /\ (start - 1) + Len(w) = at - 2
  BY <1>4, <1>10
<1> HIDE DEF at
<1>15. CASE list = <<>>
  <2>1. m = 0 /\ start = 1 /\ Len(front) = 0
    <3>1. m = 0
      BY <1>15, EmptyIsSeq DEF m
    <3> QED BY <1>3, <1>7, <1>15, <3>1
  <2>2. u = <<>>
    <3>1. front = <<>>
      BY <1>7, <2>1, EmptySeq
    <3> QED BY <3>1, ListTextMore DEF u
  <2>3. ListText(new) = w
    <3>1. ~(m + 1 > 1)
      BY <2>1, SMT
    <3>2. <<>> \o w = w /\ <<>> \o (<<>> \o w) = w
      BY <1>11, ConcatEmptySeq DEF TokenSeqs
    <3> QED BY <1>11, <1>12, <2>2, <3>1, <3>2
  <2>4. start - 1 = 0 /\ Len(w) = at - 2
    BY ONLY <1>1, <1>13, <1>14, <2>1, SMT
  <2> QED BY <1>10, <2>3, <2>4 DEF at
<1>16. CASE list # <<>>
  <2>1. start > 1 /\ s[start - 1] = Comma /\ Shown(type, s, 0, u) /\ Len(u) = start - 2
    <3>1. start # Len(s) + 2
      BY <1>1, SMT
    <3> QED BY <1>3, <1>9, <1>16, <3>1 DEF u
  <2>2. m + 1 > 1
    <3>1. m # 0
      BY <1>1, <1>16, EmptySeq DEF m
    <3> QED BY <1>1, <3>1, SMT
  <2> DEFINE comma == <<Comma>>
             item == comma \o w
  <2>3. ItemText(m + 1, t) = item /\ ListText(new) = u \o item
    BY <1>11, <1>12, <2>2
  <2>4. comma \in TokenSeqs /\ Len(comma) = 1 /\ Shown(type, s, start - 2, comma) /\ start - 2 \in Nat
    <3> DEFINE k == start - 2
    <3>1. k \in Nat /\ k + 1 <= Len(s) /\ k + 1 = start - 1
      BY <1>1, <2>1, SMT
    <3>2. Comma \in Tokens
      BY RtspTransportAssumption DEF Tokens, Comma, Word
    <3> HIDE DEF k
    <3>3. IsBut(type, s, k + 1, Comma)
      BY <2>1, <3>1 DEF IsBut
    <3>4. comma \in TokenSeqs /\ Len(comma) = 1 /\ Shown(type, s, k, comma)
      BY <3>1, <3>2, <3>3, TokenShown
    <3> QED BY <3>1, <3>4 DEF k
  <2> HIDE DEF comma
  <2>5. item \in TokenSeqs /\ Len(item) = 1 + Len(w) /\ Shown(type, s, start - 2, item)
    <3> DEFINE k == start - 2
    <3>1. k \in Nat /\ k + Len(comma) = start - 1
      BY <1>1, <2>4, SMT
    <3>2. Shown(type, s, k, comma) /\ Shown(type, s, k + Len(comma), w)
      BY <1>10, <2>4, <3>1
    <3> HIDE DEF k
    <3>3. Shown(type, s, k, comma \o w)
      BY ONLY <1>11, <2>4, <3>1, <3>2, s \in TokenSeqs, ShownTogether
    <3> QED
      <4>1. item \in TokenSeqs
        BY <1>11, <2>4, TextsJoined
      <4>2. Len(item) = Len(comma) + Len(w)
        BY <1>11, <2>4, TextsAre
      <4> QED BY <2>4, <3>3, <4>1, <4>2 DEF k
  <2> HIDE DEF item
  <2>6. Shown(type, s, 0, u \o item) /\ Len(u \o item) = Len(u) + Len(item)
    <3>1. 0 \in Nat /\ 0 + Len(u) = start - 2
      BY <1>13, <2>1, SMT
    <3> QED BY <1>11, <2>1, <2>5, <3>1, ShownTogether, TextsAre
  <2>7. Len(u \o item) = at - 2
    BY ONLY <1>1, <1>13, <1>14, <2>1, <2>5, <2>6, SMT
  <2> QED BY <2>3, <2>6, <2>7 DEF at
<1> QED BY <1>15, <1>16

\* A turn of the loop over the transports.
LEMMA ListTurnRegular ==
  ASSUME NEW type \in {"client_port", "server_port"}, NEW s \in TokenSeqs, Regular(s), Counted(s),
         NEW j \in Nat, NEW acc, ListRegular(type, s, j, acc)
  PROVE  ListRegular(type, s, j + 1, ListTurn(s, acc))
<1>1. acc \in ListStates /\ (acc.at > Len(s) \/ j < acc.at)
  BY DEF ListRegular
<1>2. acc.at \in Nat /\ acc.at > 0 /\ acc.list \in Seq(Transports) /\ Len(s) \in Nat /\ acc.at \in Places
  BY <1>1, TextOf DEF ListStates, Places
<1>3. CASE acc.at > Len(s)
  <2>1. ListTurn(s, acc) = acc
    BY <1>3 DEF ListTurn
  <2> QED BY <1>3, <2>1 DEF ListRegular
<1>4. CASE ~(acc.at > Len(s))
  <2> DEFINE r == readFromString(s, acc.at)
             x == [list |-> Append(acc.list, r.transport), at |-> r.at]
  <2>1. acc.at \in 1..Len(s) /\ acc.at <= Len(s)
    BY <1>2, <1>4, SMT
  <2>2. s[acc.at] \notin {Comma, Semi, Equal}
    <3>1. CASE acc.at = 1
      <4>1. 1 - 1 \notin 1..Len(s)
        BY SMT
      <4> QED BY <2>1, <3>1, <4>1, RegularSides
    <3>2. CASE acc.at # 1
      <4>1. acc.at > 1 /\ (acc.at = Len(s) + 2 \/ (acc.at <= Len(s) + 1 /\ s[acc.at - 1] = Comma))
        BY <3>2 DEF ListRegular
      <4>2. acc.at - 1 \in 1..Len(s) /\ (acc.at - 1) + 1 = acc.at /\ acc.at # Len(s) + 2
        BY <1>2, <2>1, <4>1, SMT
      <4> QED BY <4>1, <4>2, RegularSides
    <3> QED BY <3>1, <3>2
  <2>3. TransportShown(type, s, acc.at, r)
    BY <2>1, <2>2, ReadTransportRegular
  <2>4. r.transport \in Transports /\ r.at \in Places
    BY <1>2, TransportRead
  <2> HIDE DEF r
  <2>5. r.ok /\ acc.at < r.at /\ (r.at = Len(s) + 2 \/ (r.at <= Len(s) + 1 /\ s[r.at - 1] = Comma))
    BY <2>3 DEF TransportShown
  <2>6. ListTurn(s, acc) = x
    BY <1>4, <2>5 DEF ListTurn, TakeTransport, r
  <2>7. x.list = Append(acc.list, r.transport) /\ x.at = r.at
    OBVIOUS
  <2>8. x \in ListStates
    BY <1>2, <2>4, AppendProperties DEF ListStates
  <2> HIDE DEF x
  <2>9. x.list # <<>>
    <3>1. Len(x.list) = Len(acc.list) + 1 /\ Len(acc.list) \in Nat
      BY <1>2, <2>4, <2>7, AppendProperties, LenProperties
    <3>2. Len(acc.list) + 1 # 0
      BY <3>1, SMT
    <3>3. Len(<<>>) = 0
      BY EmptyIsSeq
    <3> QED BY <3>1, <3>2, <3>3, Zenon
  <2>10. x.at > 1 /\ j + 1 < x.at
    <3>1. j < acc.at /\ r.at \in Nat
      BY <1>1, <1>4, <2>4 DEF Places
    <3> QED BY <1>2, <2>5, <2>7, <3>1, SMT
  <2>11. ASSUME NEW new, ListMoved(type, x.list, new)
         PROVE  Shown(type, s, 0, ListText(new)) /\ Len(ListText(new)) = x.at - 2
    <3>1. ListMoved(type, Append(acc.list, r.transport), new)
      BY <2>7, <2>11
    <3>2. Shown(type, s, 0, ListText(new)) /\ Len(ListText(new)) = r.at - 2
      BY ONLY <2>1, <2>3, <2>4, <3>1, s \in TokenSeqs, ListRegular(type, s, j, acc), ListGrows
    <3> QED BY <2>7, <3>2
  <2>12. ListRegular(type, s, j + 1, x)
    BY <2>5, <2>7, <2>8, <2>9, <2>10, <2>11 DEF ListRegular
  <2> QED BY <2>6, <2>12
<1> QED BY <1>3, <1>4

\* A regular text is read in full, and written as it was but for the ports.
LEMMA ListShown ==
  ASSUME NEW type \in {"client_port", "server_port"}, NEW s \in TokenSeqs, Regular(s), Counted(s),
         NEW new, ListMoved(type, transports(s), new)
  PROVE  Shown(type, s, 0, ListText(new)) /\ Len(ListText(new)) = Len(s)
<1>1. PICK g : ListLoop(s, g) /\ transports(s) = g[Len(s)].list
  BY TransportTurns
<1>2. /\ g \in [Nat -> ListStates] /\ g[0] = ListStart
      /\ \A k \in Nat : k < Len(s) => g[k + 1] = ListTurn(s, g[k])
  BY <1>1 DEF ListLoop
<1>3. Len(s) \in Nat /\ 0 \in Nat
  BY TextOf
<1> DEFINE T == {j \in Nat : j <= Len(s) => ListRegular(type, s, j, g[j])}
<1>4. ListRegular(type, s, 0, g[0])
  <2>1. g[0].list = <<>> /\ g[0].at = 1 /\ g[0] \in ListStates /\ 0 < 1
    BY <1>2, <1>3, SMT DEF ListStart
  <2> QED BY <2>1 DEF ListRegular
<1>5. \A j \in Nat : j \in T => j + 1 \in T
  <2> SUFFICES ASSUME NEW j \in Nat, j <= Len(s) => ListRegular(type, s, j, g[j]), j + 1 <= Len(s)
               PROVE  ListRegular(type, s, j + 1, g[j + 1])
    OBVIOUS
  <2>1. j <= Len(s) /\ j < Len(s)
    BY <1>3, SMT
  <2>2. g[j + 1] = ListTurn(s, g[j])
    BY <1>2, <2>1
  <2> QED BY <2>1, <2>2, ListTurnRegular
<1>6. T \in SUBSET Nat /\ 0 \in T
  BY <1>4
<1> HIDE DEF T
<1>7. Len(s) \in T
  BY <1>3, <1>5, <1>6, InductionOnSet
<1> DEFINE acc == g[Len(s)]
           at == acc.at
           text == ListText(new)
<1>8. ListRegular(type, s, Len(s), acc)
  <2>1. Len(s) <= Len(s)
    BY <1>3, SMT
  <2> QED BY <1>7, <2>1 DEF T
<1>9. ListMoved(type, acc.list, new)
  BY <1>1
<1> HIDE DEF acc
<1>10. at \in Nat /\ (at > Len(s) \/ Len(s) < at)
       /\ \/ acc.list = <<>> /\ at = 1
          \/ /\ at = Len(s) + 2 \/ (at <= Len(s) + 1 /\ s[at - 1] = Comma)
             /\ Shown(type, s, 0, text) /\ Len(text) = at - 2
  BY <1>8, <1>9 DEF ListRegular, ListStates, Places
<1>11. CASE acc.list = <<>> /\ at = 1
  <2>1. Len(s) = 0
    <3> HIDE DEF at
    <3> QED BY <1>3, <1>10, <1>11, SMT
  <2>2. new = <<>>
    <3>1. new \in Seq(Transports) /\ Len(new) = 0
      BY <1>9, <1>11, EmptyIsSeq DEF ListMoved
    <3> QED BY <3>1, EmptySeq
  <2>3. text = <<>>
    BY <2>2, ListTextMore
  <2>4. 0 <= Len(s) /\ 0 \in Nat
    BY <2>1, SMT
  <2> QED BY <2>1, <2>3, <2>4, NothingShown
<1>12. CASE /\ at = Len(s) + 2 \/ (at <= Len(s) + 1 /\ s[at - 1] = Comma)
            /\ Shown(type, s, 0, text) /\ Len(text) = at - 2
  <2> HIDE DEF at
  <2>1. at = Len(s) + 2
    <3> SUFFICES ASSUME at <= Len(s) + 1, s[at - 1] = Comma PROVE FALSE
      BY <1>12
    <3>1. CASE Len(s) = 0
      <4>1. Len(text) = -1
        BY <1>3, <1>10, <1>12, <3>1, SMT
      <4>2. Len(text) \in Nat
        BY <1>9, ListWritten, TextOf DEF ListMoved
      <4> HIDE DEF text
      <4> QED BY <4>1, <4>2, SMT
    <3>2. CASE Len(s) # 0
      <4>1. at - 1 \in 1..Len(s) /\ (at - 1) + 1 = Len(s) + 1 /\ Len(s) + 1 \notin 1..Len(s)
        BY <1>3, <1>10, <3>2, SMT
      <4>2. (at - 1) + 1 \in 1..Len(s)
        BY <4>1, RegularSides
      <4> QED BY <4>1, <4>2
    <3> QED BY <3>1, <3>2
  <2>2. at - 2 = Len(s)
    BY <1>3, <2>1, SMT
  <2> QED BY <1>12, <2>2
<1> QED BY <1>10, <1>11, <1>12

\* transport_set_ports() changes the ports only.
LEMMA PortsMoved ==
  ASSUME NEW type, NEW list \in Seq(Transports), NEW new \in Seq(Ranges)
  PROVE  ListMoved(type, list, SetPorts(list, type, new))
<1> DEFINE old == GetPorts(list, type)
           Range0(t) == FromText(argument(t, type))
           SetPort(t) ==
             LET r == Range0(t)
             IN  IF r = None THEN t
                 ELSE setArgument(t, type, ToText([r EXCEPT !.base = At(new, FindByBase(old, r.base)).base]))
           out == SetPorts(list, type, new)
<1>1. old \in Seq(Ranges) /\ out \in Seq(Transports)
  BY PortsGot, PortsSet
<1>2. /\ DOMAIN list = 1..Len(list) /\ Len(list) \in Nat
      /\ \A i \in 1..Len(list) : list[i] \in Transports
  BY LenProperties, ElementOfSeq
<1>3. out = [i \in DOMAIN list |-> SetPort(list[i])]
  BY Zenon DEF SetPorts
<1> HIDE DEF old
<1>4. ASSUME NEW t \in Transports PROVE TransportMoved(type, t, SetPort(t))
  <2> DEFINE P == {i \in DOMAIN t.args : t.args[i].name = <<Word(type)>>}
             k == Min(P)
             r == Range0(t)
  <2>1. t.name \in TokenSeqs /\ t.args \in Seq(Arguments) /\ DOMAIN t.args = 1..Len(t.args)
        /\ \A i \in 1..Len(t.args) : t.args[i] \in Arguments
    BY LenProperties, ElementOfSeq DEF Transports
  <2>2. TransportMoved(type, t, t)
    BY <2>1 DEF TransportMoved, AllMoved, Moved
  <2>3. CASE r = None
    <3>1. SetPort(t) = t
      BY <2>3
    <3> HIDE DEF SetPort
    <3> QED BY <2>2, <3>1
  <2>4. CASE r # None
    <3>1. r \in Ranges
      BY <2>4, ArgumentRead, RangeRead
    <3>2. argument(t, type) = IF P = {} THEN None ELSE t.args[k].value
      BY Zenon DEF argument
    <3>3. P # {}
      <4>1. FromText(None) = None
        BY DEF FromText
      <4> HIDE DEF P, k
      <4> QED BY <2>4, <3>2, <4>1
    <3> DEFINE base == At(new, FindByBase(old, r.base)).base
               value == ToText([base |-> base, count |-> r.count])
    <3>4. base \in Nat
      <4>1. FindByBase(old, r.base) \in Int
        BY <1>1, BaseFound
      <4>2. At(new, FindByBase(old, r.base)) \in Ranges
        BY <4>1, ElementAt
      <4> QED BY <4>2 DEF Ranges
    <3>5. [r EXCEPT !.base = base] = [base |-> base, count |-> r.count]
      <4> HIDE DEF r, base
      <4> QED BY <3>1 DEF Ranges
    <3>6. SetPort(t) = setArgument(t, type, value)
      <4>1. SetPort(t) = setArgument(t, type, ToText([r EXCEPT !.base = base]))
        BY <2>4
      <4> QED BY <3>5, <4>1
    <3>7. setArgument(t, type, value) = IF P = {} THEN t ELSE [t EXCEPT !.args[k].value = value]
      BY Zenon DEF setArgument
    <3>8. P \in SUBSET DOMAIN t.args
      OBVIOUS
    <3>9. r = FromText(argument(t, type))
      OBVIOUS
    <3>10. \A i \in P : t.args[i].name = <<Word(type)>>
      OBVIOUS
    <3> HIDE DEF SetPort, P, r, base, value
    <3>11. k \in P /\ k \in 1..Len(t.args) /\ t.args[k] \in Arguments
      BY <2>1, <3>3, <3>8, IndexFound
    <3> HIDE DEF k
    <3> DEFINE a == t.args[k]
               b == [a EXCEPT !.value = value]
               args == [t.args EXCEPT ![k] = b]
               u == [t EXCEPT !.args = args]
    <3>12. a.name = <<Word(type)>> /\ FromText(a.value) = r
      BY <3>2, <3>3, <3>9, <3>10, <3>11
    <3>13. value \in Values
      <4>1. [base |-> base, count |-> r.count] \in Ranges
        BY <3>1, <3>4 DEF Ranges
      <4> QED BY <4>1, RangeWritten DEF value
    <3>14. Moved(type, a, b) /\ b \in Arguments
      <4>1. b \in Arguments
        BY <3>11, <3>13 DEF Arguments
      <4>2. b = [a EXCEPT !.value = ToText([base |-> base, count |-> FromText(a.value).count])]
        BY <3>12 DEF value
      <4> HIDE DEF b, a
      <4>3. MovedTo(base, a, b)
        BY <4>2 DEF MovedTo
      <4> QED BY <2>4, <3>4, <3>12, <4>1, <4>3 DEF Moved
    <3>15. SetPort(t) = u
      <4>1. [t EXCEPT !.args[k].value = value] = [t EXCEPT !.args = [t.args EXCEPT ![k] = [t.args[k] EXCEPT !.value = value]]]
        BY <3>11 DEF Transports
      <4> QED BY <3>3, <3>6, <3>7, <4>1
    <3> HIDE DEF b
    <3>16. args \in Seq(Arguments) /\ Len(args) = Len(t.args)
           /\ \A i \in 1..Len(t.args) : args[i] = IF i = k THEN b ELSE t.args[i]
      <4>1. args \in Seq(Arguments) /\ Len(args) = Len(t.args)
        BY <2>1, <3>11, <3>14, ExceptSeq
      <4> QED BY <2>1, <3>11, <4>1
    <3> HIDE DEF args
    <3>17. AllMoved(type, t.args, args)
      <4>1. \A i \in 1..Len(t.args) : Moved(type, t.args[i], args[i])
        <5> TAKE i \in 1..Len(t.args)
        <5>1. CASE i = k
          BY <3>14, <3>16, <5>1
        <5>2. CASE i # k
          BY <3>16, <5>2 DEF Moved
        <5> QED BY <5>1, <5>2
      <4> QED BY <3>16, <4>1 DEF AllMoved
    <3>18. u.name = t.name /\ u.args = args /\ u \in Transports
      BY <2>1, <3>16 DEF Transports
    <3> HIDE DEF u
    <3> QED BY <3>15, <3>17, <3>18 DEF TransportMoved
  <2> QED BY <2>3, <2>4
<1> HIDE DEF SetPort, out
<1>5. DOMAIN out = 1..Len(list) /\ \A i \in 1..Len(list) : out[i] = SetPort(list[i])
  BY <1>2, <1>3
<1>6. Len(out) = Len(list)
  BY <1>1, <1>2, <1>5, LenProperties, SMT
<1>7. \A i \in 1..Len(list) : TransportMoved(type, list[i], out[i])
  BY <1>2, <1>4, <1>5
<1> QED BY <1>1, <1>6, <1>7 DEF ListMoved, out

\* What is forwarded.
LEMMA TextForwarded ==
  ASSUME NEW type \in {"client_port", "server_port"}, NEW s \in TokenSeqs, Regular(s), Counted(s),
         NEW new \in Seq(Ranges)
  PROVE  OnlyPortsDiffer(s, ListText(SetPorts(transports(s), type, new)), type)
<1> DEFINE text == ListText(SetPorts(transports(s), type, new))
<1>1. ListMoved(type, transports(s), SetPorts(transports(s), type, new))
  BY TransportsRead, PortsMoved
<1>2. Shown(type, s, 0, text) /\ Len(text) = Len(s)
  BY <1>1, ListShown
<1> HIDE DEF text
<1>3. DOMAIN s = 1..Len(s) /\ \A i \in 1..Len(s) : 0 + i = i
  BY TextOf, SMT
<1>4. \A i \in 1..Len(s) : IsBut(type, s, i, text[i])
  BY <1>2, <1>3 DEF Shown
<1>5. OnlyPortsDiffer(s, text, type)
  BY <1>2, <1>3, <1>4 DEF OnlyPortsDiffer, IsBut
<1> QED BY <1>5 DEF text
-----------------------------------------------------------------------------
(* The tokens of what is read and written.                                 *)

\* Tokens with which a range has a port at least.
Alphabet(X) == Writable(X) /\ \A t \in X : t[1] = "range" => t[3] > 0

\* A range that is read has a port at least.
LEMMA RangeOfText ==
  ASSUME NEW X, Alphabet(X), NEW value \in ValuesOf(X), FromText(value) # None
  PROVE  FromText(value) \in Ranges /\ FromText(value).count > 0
<1>1. value \in Values
  BY AreTexts DEF Alphabet, Writable
<1>2. FromText(value) \in Ranges
  BY <1>1, RangeRead
<1>3. value \notin {None, <<>>}
  BY DEF FromText
<1>4. value[1] \in X
  <2>1. value \in Seq(X) /\ value # <<>>
    BY <1>3 DEF ValuesOf
  <2>2. Len(value) \in Nat /\ Len(value) # 0
    BY <2>1, LenProperties, EmptySeq
  <2>3. 1 \in 1..Len(value)
    BY <2>2, SMT
  <2> QED BY <2>1, <2>3, ElementOfSeq
<1>5. FromText(value) \in {[base |-> value[1][2], count |-> value[1][3]], [base |-> 0, count |-> 1]}
      /\ (FromText(value) # [base |-> 0, count |-> 1] => value[1][1] = "range")
  BY <1>3, Zenon DEF FromText
<1>6. value[1][1] = "range" => value[1][3] > 0
  BY <1>4 DEF Alphabet
<1> QED BY <1>2, <1>5, <1>6

\* The tokens of what a client offers and a server answers.
CountedTokens == {t \in Tokens : t[1] = "range" => t[3] > 0}

\* Texts of tokens that the code counts ports in.
LEMMA CountedAlphabet ==
  /\ Alphabet(CountedTokens) /\ Word("server_port") \in CountedTokens
  /\ \A s \in Seq(CountedTokens) : s \in TokenSeqs /\ Counted(s)
  /\ Offers \subseteq Seq(CountedTokens)
<1>1. Semi \in Tokens /\ Equal \in Tokens /\ Comma \in Tokens /\ Word("server_port") \in Tokens
  BY RtspTransportAssumption DEF Tokens, Semi, Equal, Comma, Word
<1>2. Semi[1] # "range" /\ Equal[1] # "range" /\ Comma[1] # "range" /\ Word("server_port")[1] # "range"
  BY DEF Semi, Equal, Comma, Word
<1>3. \A r \in Ranges : r.count > 0 => PortText(r) \in CountedTokens
  <2>1. \A r \in Ranges : r.base \in Nat /\ r.count \in Nat
    BY DEF Ranges
  <2> QED BY <2>1, RtspTransportAssumption DEF PortText, Tokens, CountedTokens
<1>4. CountedTokens \subseteq Tokens /\ \A t \in CountedTokens : t[1] = "range" => t[3] > 0
  BY DEF CountedTokens
<1>5. Alphabet(CountedTokens) /\ Word("server_port") \in CountedTokens
  BY <1>1, <1>2, <1>3, <1>4 DEF Alphabet, Writable, CountedTokens
<1>6. \A s \in Seq(CountedTokens) : Counted(s)
  BY <1>4, ElementOfSeq DEF Counted
<1>7. \A s \in Seq(CountedTokens) : s \in TokenSeqs
  BY <1>4, AreTexts
<1>8. ASSUME NEW o \in Offers PROVE o \in Seq(CountedTokens)
  <2>1. o \in Seq(Tokens)
    BY RtspSessionAssumption
  <2>2. Len(o) \in Nat /\ DOMAIN o = 1..Len(o) /\ \A i \in 1..Len(o) : o[i] \in Tokens
    BY <2>1, LenProperties, ElementOfSeq
  <2>3. \A i \in 1..Len(o) : o[i] \in CountedTokens
    BY <2>2, RtspSessionAssumption DEF CountedTokens
  <2>4. o \in [1..Len(o) -> CountedTokens]
    BY <2>1, <2>2, <2>3, LenProperties
  <2> QED BY <2>2, <2>4, SeqDef
<1> QED BY <1>5, <1>6, <1>7, <1>8
-----------------------------------------------------------------------------
(* The packets and the answers.                                            *)

In(e, s) == \E i \in DOMAIN s : s[i] = e

\* What is appended or joined is from one or the other.
LEMMA FromAppend ==
  ASSUME NEW s, IsSeq(s), NEW x, NEW e, In(e, Append(s, x))
  PROVE  In(e, s) \/ e = x
<1>1. PICK i \in DOMAIN Append(s, x) : Append(s, x)[i] = e
  BY DEF In
<1>2. /\ DOMAIN s = 1..Len(s) /\ Len(s) \in Nat /\ i \in 1..(Len(s) + 1)
      /\ \A j \in 1..Len(s) : Append(s, x)[j] = s[j]
      /\ Append(s, x)[Len(s) + 1] = x
  BY <1>1, Appended
<1>3. i = Len(s) + 1 \/ i \in 1..Len(s)
  BY <1>2, SMT
<1> QED BY <1>1, <1>2, <1>3 DEF In

\* Two sequences.
LEMMA FromJoin ==
  ASSUME NEW s, IsSeq(s), NEW t, IsSeq(t), NEW e, In(e, s \o t)
  PROVE  In(e, s) \/ In(e, t)
<1>1. /\ DOMAIN (s \o t) = 1..(Len(s) + Len(t)) /\ DOMAIN s = 1..Len(s) /\ DOMAIN t = 1..Len(t)
      /\ Len(s) \in Nat /\ Len(t) \in Nat
      /\ \A i \in 1..(Len(s) + Len(t)) : (s \o t)[i] = IF i <= Len(s) THEN s[i] ELSE t[i - Len(s)]
  BY JoinedIs
<1>2. \A i \in 1..(Len(s) + Len(t)) : IF i <= Len(s) THEN i \in 1..Len(s) ELSE i - Len(s) \in 1..Len(t)
  BY <1>1, SMT
<1> QED BY <1>1, <1>2 DEF In

\* The packets that are kept or have been sent.
Packets == {sent[i] : i \in DOMAIN sent} \cup {cpackets[i] : i \in DOMAIN cpackets}

\* A packet is sent or kept.
LEMMA PacketIn == \A e : e \in Packets <=> In(e, sent) \/ In(e, cpackets)
BY DEF Packets, In

\* A step that hands one on adds no other.
LEMMA PacketsForwarded ==
  ASSUME Requested, NEW packet, Forward(packet)
  PROVE  \A e \in Packets' : e \in Packets \/ e = packet
<1> SUFFICES ASSUME NEW e, In(e, sent') \/ In(e, cpackets') PROVE In(e, sent) \/ In(e, cpackets) \/ e = packet
  BY PacketIn DEF Packets, In
<1>1. IsSeq(cpackets) /\ IsSeq(sent) /\ IsSeq(Append(cpackets, packet)) /\ ~In(e, <<>>)
  BY Appended, EmptyIsSeq DEF Requested, In
<1>2. In(e, Append(cpackets, packet)) => In(e, cpackets) \/ e = packet
  BY <1>1, FromAppend
<1>3. CASE server = "none"
  <2>1. cpackets' = Append(cpackets, packet) /\ sent' = sent
    BY <1>3 DEF Forward
  <2> QED BY <1>2, <2>1
<1>4. CASE server # "none"
  <2>1. cpackets' = <<>> /\ (sent' = sent \o Append(cpackets, packet) \/ sent' = sent)
    BY <1>4 DEF Forward, SendPackets
  <2>2. In(e, sent')
    BY <1>1, <2>1
  <2>3. sent' = sent \o Append(cpackets, packet) => In(e, sent) \/ In(e, Append(cpackets, packet))
    BY <1>1, <2>2, FromJoin
  <2> QED BY <1>2, <2>1, <2>2, <2>3
<1> QED BY <1>3, <1>4

\* When the server is connected the packets that were kept are sent.
LEMMA PacketsSent ==
  ASSUME Requested, ServerConnected
  PROVE  \A e \in Packets' : e \in Packets
<1> SUFFICES ASSUME NEW e, In(e, sent') \/ In(e, cpackets') PROVE In(e, sent) \/ In(e, cpackets)
  BY PacketIn DEF Packets, In
<1>1. IsSeq(cpackets) /\ IsSeq(sent) /\ ~In(e, <<>>)
  BY EmptyIsSeq DEF Requested, In
<1>2. cpackets' = <<>> /\ sent' = sent \o cpackets
  BY DEF ServerConnected, SendPackets
<1> QED BY <1>1, <1>2, FromJoin

-----------------------------------------------------------------------------
(* What becomes of a text.                                                 *)

Counteds == Seq(CountedTokens)

\* A packet is of a request, and of its text only the ports differ.
PacketOk(e, asked) ==
  /\ e.number \in 1..Len(asked)
  /\ e.list \in Seq(TransportsOf(CountedTokens))
  /\ e.setup /\ Regular(asked[e.number].text) =>
       OnlyPortsDiffer(asked[e.number].text, e.text, "client_port")

TextsInv ==
  /\ \A e \in Packets : PacketOk(e, requests)
  /\ \A t \in told : Regular(t.reply) => OnlyPortsDiffer(t.reply, t.text, "server_port")

\* A text is itself.
LEMMA SameText ==
  ASSUME NEW s, NEW type
  PROVE  OnlyPortsDiffer(s, s, type)
BY DEF OnlyPortsDiffer

\* A packet stays one of its request when there are more.
LEMMA PacketStays ==
  ASSUME Requested, NEW e, PacketOk(e, requests), NEW x, requests' = Append(requests, x)
  PROVE  PacketOk(e, requests')
<1>1. /\ Len(requests) \in Nat /\ Len(requests') = Len(requests) + 1
      /\ \A i \in 1..Len(requests) : requests'[i] = requests[i]
  BY Appended DEF Requested
<1>2. e.number \in 1..Len(requests') /\ requests'[e.number] = requests[e.number]
  <2>1. e.number \in 1..Len(requests)
    BY DEF PacketOk
  <2>2. \A n \in 1..Len(requests) : n \in 1..(Len(requests) + 1)
    BY <1>1, SMT
  <2> QED BY <1>1, <2>1, <2>2
<1> QED BY <1>2 DEF PacketOk

\* The text of a SETUP.
LEMMA SetupStep ==
  ASSUME Requested, PortsInv, TextsInv, NEW offer \in Offers, ClientSetup(offer)
  PROVE  TextsInv'
<1>1. PICK list \in {transports(offer)} : \E pl \in {GetPorts(list, "client_port")} :
        /\ requests' = Append(requests, [text |-> offer, ports |-> pl])
        /\ ReserveDirectClient(pl)
        /\ \E text \in {ListText(SetPorts(list, "client_port", cAlt'))} :
           \E read \in {transports(text)} :
             Forward([number |-> Len(requests'), setup |-> TRUE, text |-> text, list |-> read])
  BY Zenon DEF ClientSetup
<1>2. PICK pl \in {GetPorts(list, "client_port")} :
        /\ requests' = Append(requests, [text |-> offer, ports |-> pl])
        /\ ReserveDirectClient(pl)
        /\ \E text \in {ListText(SetPorts(list, "client_port", cAlt'))} :
           \E read \in {transports(text)} :
             Forward([number |-> Len(requests'), setup |-> TRUE, text |-> text, list |-> read])
  BY <1>1, Zenon
<1>3. PICK text \in {ListText(SetPorts(list, "client_port", cAlt'))} : \E read \in {transports(text)} :
             Forward([number |-> Len(requests'), setup |-> TRUE, text |-> text, list |-> read])
  BY <1>2, Zenon
<1>4. PICK read \in {transports(text)} :
             Forward([number |-> Len(requests'), setup |-> TRUE, text |-> text, list |-> read])
  BY <1>3, Zenon
<1>5. told' = told
  BY DEF ClientSetup
<1> DEFINE X == CountedTokens
<1>6. Alphabet(X) /\ Writable(X) /\ X \subseteq Tokens /\ offer \in Seq(X) /\ offer \in TokenSeqs /\ Counted(offer)
  BY CountedAlphabet DEF Alphabet, Writable
<1>7. list = transports(offer) /\ list \in Seq(TransportsOf(X)) /\ list \in Seq(Transports)
  BY <1>6, TransportsReadOf, TransportsRead
<1>8. pl \in Seq(Ranges)
  BY <1>7, PortsGot
<1>9. cAlt' \in Seq(Ranges)
  BY <1>2, <1>8, ReserveStep DEF PortsInv, MapperInv
<1>10. text \in Seq(X)
  BY <1>6, <1>7, <1>9, PortsSetOf, ListTextOf
<1>11. read \in Seq(TransportsOf(X))
  BY <1>6, <1>10, TransportsReadOf
<1>12. Regular(offer) => OnlyPortsDiffer(offer, text, "client_port")
  <2> SUFFICES ASSUME Regular(offer) PROVE OnlyPortsDiffer(offer, text, "client_port")
    OBVIOUS
  <2>1. "client_port" \in {"client_port", "server_port"}
    OBVIOUS
  <2>2. text = ListText(SetPorts(transports(offer), "client_port", cAlt'))
    BY <1>7
  <2> QED BY ONLY <1>6, <1>9, <2>1, <2>2, Regular(offer), TextForwarded
<1> DEFINE packet == [number |-> Len(requests'), setup |-> TRUE, text |-> text, list |-> read]
<1>13. Forward(packet)
  BY <1>4
<1>14. PacketOk(packet, requests')
  <2>1. Len(requests') \in 1..Len(requests') /\ requests'[Len(requests')] = [text |-> offer, ports |-> pl]
    <3>1. Len(requests) \in Nat /\ Len(requests') = Len(requests) + 1
          /\ requests'[Len(requests) + 1] = [text |-> offer, ports |-> pl]
      BY <1>2, Appended DEF Requested
    <3> QED BY <3>1, SMT
  <2>2. packet.number = Len(requests') /\ packet.list = read /\ packet.text = text
    OBVIOUS
  <2>3. requests'[packet.number].text = offer
    BY <2>1, <2>2
  <2> HIDE DEF packet
  <2> QED BY <1>11, <1>12, <2>1, <2>2, <2>3 DEF PacketOk
<1> HIDE DEF packet
<1>15. \A e \in Packets' : e \in Packets \/ e = packet
  BY <1>13, PacketsForwarded
<1>16. \A e \in Packets : PacketOk(e, requests')
  BY <1>2, PacketStays DEF TextsInv
<1> QED BY <1>5, <1>14, <1>15, <1>16 DEF TextsInv

\* The server's range is reserved and kept at once, and nothing of it before.
ServerInv ==
  /\ ~ready => sPorts = Empty /\ sAlt = <<>>
  /\ ready => /\ sPorts.ports \in Ranges /\ sAlt = <<sPorts.ports>>
              /\ sReal \in Ranges /\ sPorts.ports.count = sReal.count

\* keep() of the only range that was reserved.
LEMMA OnlyKept ==
  ASSUME NEW r \in Ranges, NEW used, OtherPorts \subseteq used, CanReserve(Empty, <<r>>, used)
  PROVE  LET new == Keep(Reserve(Empty, <<r>>, used), r)
         IN  new.ports \in Ranges /\ new.ports.count = r.count
<1> DEFINE held == Reserve(Empty, <<r>>, used)
           n == FindByBase(<<r>>, r.base)
           new == Keep(held, r)
<1>1. AltOk(Empty)
  BY EmptyIsOk
<1>2. <<r>> \in Seq(Ranges) /\ Len(<<r>>) = 1 /\ DOMAIN <<r>> = 1..1 /\ <<r>>[1] = r /\ 1 \in 1..1
  OBVIOUS
<1>3. held.list \in Seq(Ranges) /\ Len(held.list) = 1 /\ held.orig = <<r>> /\ held.ports = None
      /\ held.list[1].count = r.count
  <2> DEFINE real == <<r>>
  <2>1. real \in Seq(Ranges) /\ Len(real) = 1 /\ real[1] = r /\ CanReserve(Empty, real, used)
    OBVIOUS
  <2> HIDE DEF real
  <2>2. held = Reserve(Empty, real, used)
    BY DEF real
  <2> HIDE DEF held
  <2>3. /\ held.list \in Seq(Ranges) /\ Len(held.list) = Len(real) /\ held.orig = real /\ held.ports = None
        /\ \A i \in 1..Len(real) : held.list[i].count = real[i].count
    BY ONLY <1>1, <2>1, <2>2, OtherPorts \subseteq used, HeldReserved
  <2> QED BY <1>2, <2>1, <2>3 DEF real
<1>4. n = 0
  <2>1. {i \in DOMAIN <<r>> : <<r>>[i].base = r.base} = {1} /\ \E i \in DOMAIN <<r>> : <<r>>[i].base = r.base
    BY <1>2
  <2>2. Min({1}) = 1
    BY MinIs, SMT
  <2> QED BY <2>1, <2>2 DEF FindByBase
<1>5. held.list[1] \in Ranges
  BY <1>3, ElementOfSeq
<1> HIDE DEF held, n
<1>6. new = [held EXCEPT !.ports = Resize(held.list[1], r.count), !.list = <<>>]
  <2>1. FindByBase(held.orig, r.base) = 0 /\ 0 + 1 = 1 /\ 0 # -1
    BY <1>3, <1>4, SMT DEF n
  <2> QED BY <1>3, <2>1 DEF Keep
<1>7. Resize(held.list[1], r.count) \in Ranges /\ Resize(held.list[1], r.count).count = r.count
  BY <1>3, <1>5 DEF Resize, Ranges
<1>8. new.ports = Resize(held.list[1], r.count)
  BY <1>1, <1>6 DEF held, Reserve, Empty
<1> QED BY <1>7, <1>8 DEF held

\* finalize() keeps what is known of the range of the server.
LEMMA ServerPortsStep ==
  ASSUME ServerInv, NEW clientPorts \in Ranges, NEW serverPorts \in Ranges,
         Finalize(clientPorts, serverPorts)
  PROVE  ServerInv'
<1> DEFINE n == FindByBase(cAlt, clientPorts.base)
           list == <<serverPorts>>
           used == OtherPorts \cup Held(cPorts') \cup Held(sPorts)
           kept == Keep(Reserve(sPorts, list, used), serverPorts)
<1>1. CASE ready \/ n = -1
  BY <1>1 DEF Finalize, ServerInv
<1>2. CASE ~(ready \/ n = -1)
  <2>1. /\ sReal' = serverPorts
        /\ IF CanReserve(sPorts, list, used) THEN sPorts' = kept /\ sAlt' = <<sPorts'.ports>> /\ ready' = TRUE
           ELSE sPorts' = sPorts /\ sAlt' = sAlt /\ ready' = ready
    BY <1>2 DEF Finalize
  <2>2. sPorts = Empty /\ sAlt = <<>> /\ ~ready
    BY <1>2 DEF ServerInv
  <2> HIDE DEF n
  <2>3. CASE CanReserve(sPorts, list, used)
    <3>1. OtherPorts \subseteq used
      OBVIOUS
    <3> HIDE DEF used
    <3>2. kept.ports \in Ranges /\ kept.ports.count = serverPorts.count
      BY <2>2, <2>3, <3>1, OnlyKept
    <3> HIDE DEF kept
    <3> QED BY <2>1, <2>3, <3>2 DEF ServerInv
  <2>4. CASE ~CanReserve(sPorts, list, used)
    <3> HIDE DEF used
    <3> QED BY <2>1, <2>2, <2>4 DEF ServerInv
  <2> QED BY <2>3, <2>4
<1> QED BY <1>1, <1>2

\* An answer to the SETUP r, to its transport k: what the server takes, what it
\* answers, what is read of that, and what is written to the client.
AnswerTo(r, k, ports, used, reply, list, new) ==
  /\ answered + 1 \in DOMAIN sent /\ r = sent[answered + 1] /\ answered' = answered + 1
  /\ r.setup /\ k \in DOMAIN r.list /\ r.list \in Seq(TransportsOf(CountedTokens))
  /\ r.list[k] \in TransportsOf(CountedTokens)
  /\ ports = FromText(argument(r.list[k], "client_port")) /\ ports \in Ranges /\ ports.base # 0
  /\ used \in Ranges /\ used.base = ServerBase /\ used.count > 0 /\ used.count <= ports.count
  /\ reply = ReplyText(r.list[k], ports, used) /\ reply \in Counteds
  /\ list = transports(reply) /\ list \in Seq(Transports)
  /\ IF client = "open" /\ lastWasSetup
       THEN Finalize(At(GetPorts(list, "client_port"), 0), At(GetPorts(list, "server_port"), 0))
       ELSE UNCHANGED mapperVars
  /\ new = IF lastWasSetup THEN SetPorts(list, "server_port", sAlt') ELSE list

\* What the histories keep of it.
Kept(r, k, ports, used, reply, new) ==
  /\ told' = IF client # "open" THEN told
             ELSE told \cup { [number |-> r.number, latest |-> Len(requests), reply |-> reply,
                               text |-> IF lastWasSetup THEN ListText(new) ELSE reply,
                               ports |-> GetPorts(new, "server_port")] }
  /\ final' = IF ready' # ready
                THEN [number |-> r.number, offered |-> ports, taken |-> used,
                      asked |-> FromText(argument(transports(requests[r.number].text)[k], "client_port")),
                      again |-> cPorts.ports # None]
                ELSE final
  /\ UNCHANGED <<sessionVars, requests, sent, rushed>>

\* What an answer to a SETUP does with the mapper and with the texts.
LEMMA AnswerTaken ==
  ASSUME Requested, PortsInv, TextsInv,
         NEW k \in 1..3, NEW count \in 1..PORT_ALLOC_MAX, ServerSetupAnswer(k, count)
  PROVE  \E r, ports, used, reply, list, new :
           AnswerTo(r, k, ports, used, reply, list, new) /\ Kept(r, k, ports, used, reply, new)
<1> DEFINE r     == sent[answered + 1]
           ports == FromText(argument(r.list[k], "client_port"))
           used  == [base |-> ServerBase, count |-> count]
           Finalized(list) ==
             IF client = "open" /\ lastWasSetup
               THEN Finalize(At(GetPorts(list, "client_port"), 0), At(GetPorts(list, "server_port"), 0))
               ELSE UNCHANGED mapperVars
<1>1. /\ answered < Len(sent) /\ answered' = answered + 1 /\ r.setup /\ k \in DOMAIN r.list
      /\ ports # None /\ ports.base # 0 /\ count <= ports.count
      /\ \E reply \in {ReplyText(r.list[k], ports, used)} : \E list \in {transports(reply)} :
           /\ Finalized(list)
           /\ \E new \in {IF lastWasSetup THEN SetPorts(list, "server_port", sAlt') ELSE list} :
                told' = IF client # "open" THEN told
                        ELSE told \cup { [number |-> r.number, latest |-> Len(requests), reply |-> reply,
                                          text |-> IF lastWasSetup THEN ListText(new) ELSE reply,
                                          ports |-> GetPorts(new, "server_port")] }
           /\ final' = IF ready' # ready
                         THEN [number |-> r.number, offered |-> ports, taken |-> used,
                               asked |-> FromText(argument(transports(requests[r.number].text)[k], "client_port")),
                               again |-> cPorts.ports # None]
                         ELSE final
      /\ UNCHANGED <<sessionVars, requests, sent, rushed>>
  BY Zenon DEF ServerSetupAnswer
<1>2. PICK reply, list, new :
        /\ reply = ReplyText(r.list[k], ports, used) /\ list = transports(reply) /\ Finalized(list)
        /\ new = IF lastWasSetup THEN SetPorts(list, "server_port", sAlt') ELSE list
        /\ Kept(r, k, ports, used, reply, new)
  <2>1. PICK reply \in {ReplyText(r.list[k], ports, used)} : \E list \in {transports(reply)} :
           /\ Finalized(list)
           /\ \E new \in {IF lastWasSetup THEN SetPorts(list, "server_port", sAlt') ELSE list} :
                told' = IF client # "open" THEN told
                        ELSE told \cup { [number |-> r.number, latest |-> Len(requests), reply |-> reply,
                                          text |-> IF lastWasSetup THEN ListText(new) ELSE reply,
                                          ports |-> GetPorts(new, "server_port")] }
           /\ final' = IF ready' # ready
                         THEN [number |-> r.number, offered |-> ports, taken |-> used,
                               asked |-> FromText(argument(transports(requests[r.number].text)[k], "client_port")),
                               again |-> cPorts.ports # None]
                         ELSE final
    BY <1>1, Zenon
  <2>2. PICK list \in {transports(reply)} :
           /\ Finalized(list)
           /\ \E new \in {IF lastWasSetup THEN SetPorts(list, "server_port", sAlt') ELSE list} :
                told' = IF client # "open" THEN told
                        ELSE told \cup { [number |-> r.number, latest |-> Len(requests), reply |-> reply,
                                          text |-> IF lastWasSetup THEN ListText(new) ELSE reply,
                                          ports |-> GetPorts(new, "server_port")] }
    BY <2>1, Zenon
  <2>3. PICK new \in {IF lastWasSetup THEN SetPorts(list, "server_port", sAlt') ELSE list} :
                told' = IF client # "open" THEN told
                        ELSE told \cup { [number |-> r.number, latest |-> Len(requests), reply |-> reply,
                                          text |-> IF lastWasSetup THEN ListText(new) ELSE reply,
                                          ports |-> GetPorts(new, "server_port")] }
    BY <2>2, Zenon
  <2>4. Kept(r, k, ports, used, reply, new)
    BY <1>1, <2>1, <2>3, Zenon DEF Kept
  <2>5. reply = ReplyText(r.list[k], ports, used) /\ list = transports(reply) /\ Finalized(list)
    BY <2>2, Zenon
  <2>6. new = IF lastWasSetup THEN SetPorts(list, "server_port", sAlt') ELSE list
    BY <2>3, Zenon
  <2> QED BY <2>4, <2>5, <2>6, Zenon
<1> DEFINE X == CountedTokens
<1>5. Alphabet(X) /\ Writable(X) /\ X \subseteq Tokens /\ Word("server_port") \in X
  BY CountedAlphabet DEF Alphabet, Writable
<1>6. answered + 1 \in DOMAIN sent
  <2>1. Len(sent) \in Nat /\ DOMAIN sent = 1..Len(sent)
    BY Appended DEF Requested
  <2>2. answered \in Nat
    BY DEF PortsInv
  <2> QED BY <1>1, <2>1, <2>2, SMT
<1>7. r.list \in Seq(TransportsOf(X))
  <2>1. In(r, sent)
    BY <1>6 DEF In
  <2> HIDE DEF r
  <2> QED BY <2>1, PacketIn DEF TextsInv, PacketOk
<1>8. r.list[k] \in TransportsOf(X)
  <2> HIDE DEF r, X
  <2> QED BY <1>1, <1>7, LenProperties, ElementOfSeq
<1>9. ports \in Ranges
  <2> HIDE DEF r, X
  <2> QED BY <1>1, <1>5, <1>8, AreTexts, ArgumentRead, RangeRead
<1>10. used \in Ranges /\ used.base = ServerBase /\ used.count > 0 /\ used.count <= ports.count
  <2>1. count \in Nat /\ count > 0
    BY AltPortsAssumption, SMT
  <2> QED BY <1>1, <2>1, RtspSessionAssumption DEF Ranges
<1> HIDE DEF used
<1>11. reply \in Seq(X)
  <2> HIDE DEF r, ports, X
  <2> QED BY <1>2, <1>5, <1>8, <1>9, <1>10, ReplyOf
<1>12. list \in Seq(Transports)
  <2>1. reply \in TokenSeqs
    BY <1>11, CountedAlphabet
  <2> HIDE DEF r, ports, X
  <2> QED BY <1>2, <2>1, TransportsRead
<1>13. AnswerTo(r, k, ports, used, reply, list, new)
  <2>1. ports.base # 0 /\ r.setup /\ k \in DOMAIN r.list /\ answered' = answered + 1
    BY <1>1
  <2>2. /\ ports = FromText(argument(r.list[k], "client_port")) /\ r = sent[answered + 1]
        /\ reply = ReplyText(r.list[k], ports, used) /\ list = transports(reply)
        /\ new = IF lastWasSetup THEN SetPorts(list, "server_port", sAlt') ELSE list
    BY <1>2
  <2>3. IF client = "open" /\ lastWasSetup
          THEN Finalize(At(GetPorts(list, "client_port"), 0), At(GetPorts(list, "server_port"), 0))
          ELSE UNCHANGED mapperVars
    BY <1>2
  <2> HIDE DEF r, ports
  <2> QED
    BY <1>6, <1>7, <1>8, <1>9, <1>10, <1>11, <1>12, <2>1, <2>2, <2>3, Zenon DEF AnswerTo, Counteds
<1>14. AnswerTo(r, k, ports, used, reply, list, new) /\ Kept(r, k, ports, used, reply, new)
  BY <1>2, <1>13
<1> HIDE DEF r, ports
<1> QED BY <1>14, Zenon

\* The server's range after it.
LEMMA ServerPortsAnswered ==
  ASSUME ServerInv, NEW r, NEW k, NEW ports, NEW used, NEW reply, NEW list, NEW new,
         AnswerTo(r, k, ports, used, reply, list, new)
  PROVE  ServerInv'
<1>1. list \in Seq(Transports)
  BY DEF AnswerTo
<1>2. \A type : At(GetPorts(list, type), 0) \in Ranges
  BY <1>1, PortsGot, ElementAt
<1>3. CASE client = "open" /\ lastWasSetup
  <2>1. Finalize(At(GetPorts(list, "client_port"), 0), At(GetPorts(list, "server_port"), 0))
    BY <1>3, Zenon DEF AnswerTo
  <2> QED BY ONLY ServerInv, <1>2, <2>1, ServerPortsStep
<1>4. CASE ~(client = "open" /\ lastWasSetup)
  <2>1. UNCHANGED mapperVars
    BY <1>4, Zenon DEF AnswerTo
  <2> QED BY <2>1 DEF mapperVars, ServerInv
<1> QED BY <1>3, <1>4

\* The text of it.
LEMMA AnswerStep ==
  ASSUME TextsInv, ServerInv, NEW r, NEW k, NEW ports, NEW used, NEW reply, NEW list, NEW new,
         AnswerTo(r, k, ports, used, reply, list, new), Kept(r, k, ports, used, reply, new)
  PROVE  TextsInv'
<1>1. reply \in Counteds /\ new = IF lastWasSetup THEN SetPorts(transports(reply), "server_port", sAlt')
                                   ELSE transports(reply)
  BY Zenon DEF AnswerTo
<1>2. reply \in TokenSeqs /\ Counted(reply)
  BY <1>1, CountedAlphabet DEF Counteds
<1>3. sAlt' \in Seq(Ranges)
  <2>1. ServerInv'
    BY ServerPortsAnswered
  <2> QED
    <3>1. CASE ready'
      <4>1. sPorts'.ports \in Ranges /\ sAlt' = <<sPorts'.ports>>
        BY <2>1, <3>1 DEF ServerInv
      <4>2. \A x \in Ranges : <<x>> \in Seq(Ranges)
        OBVIOUS
      <4> QED BY <4>1, <4>2
    <3>2. CASE ~ready'
      BY <2>1, <3>2, EmptySeq DEF ServerInv
    <3> QED BY <3>1, <3>2
<1>4. ASSUME Regular(reply)
      PROVE  OnlyPortsDiffer(reply, IF lastWasSetup THEN ListText(new) ELSE reply, "server_port")
  <2>1. CASE lastWasSetup
    <3>1. "server_port" \in {"client_port", "server_port"}
      OBVIOUS
    <3>2. new = SetPorts(transports(reply), "server_port", sAlt')
      BY <1>1, <2>1
    <3>3. OnlyPortsDiffer(reply, ListText(new), "server_port")
      BY ONLY <1>2, <1>3, <1>4, <3>1, <3>2, TextForwarded
    <3> QED BY <2>1, <3>3
  <2>2. CASE ~lastWasSetup
    BY <2>2, SameText
  <2> QED BY <2>1, <2>2
<1>5. \A t \in told' : Regular(t.reply) => OnlyPortsDiffer(t.reply, t.text, "server_port")
  <2> DEFINE text == IF lastWasSetup THEN ListText(new) ELSE reply
             told1 == [number |-> r.number, latest |-> Len(requests), reply |-> reply,
                       text |-> text, ports |-> GetPorts(new, "server_port")]
  <2>1. told' \subseteq told \cup {told1}
    BY DEF Kept
  <2>2. told1.reply = reply /\ told1.text = text
    OBVIOUS
  <2>3. Regular(reply) => OnlyPortsDiffer(reply, text, "server_port")
    BY <1>4
  <2> HIDE DEF told1, text
  <2> QED BY <2>1, <2>2, <2>3 DEF TextsInv
<1>6. Packets' = Packets /\ requests' = requests
  BY DEF Kept, Packets, sessionVars
<1> QED BY <1>5, <1>6 DEF TextsInv, PacketOk

\* Every step.
LEMMA TextsStep ==
  ASSUME Requested, PortsInv, TextsInv, ServerInv, [Next]_vars
  PROVE  TextsInv' /\ ServerInv'
<1>1. CASE UNCHANGED <<sent, cpackets, requests, told, sPorts, sAlt, sReal, ready>>
  BY <1>1 DEF TextsInv, PacketOk, Packets, ServerInv
<1>2. ASSUME NEW offer \in Offers, ClientSetup(offer) PROVE TextsInv' /\ ServerInv'
  <2>1. TextsInv'
    BY <1>2, SetupStep
  <2>2. UNCHANGED <<sPorts, sAlt, sReal, ready>>
    <3>1. \E pl : ReserveDirectClient(pl)
      BY <1>2, Zenon DEF ClientSetup
    <3> QED BY <3>1 DEF ReserveDirectClient, mapperVars
  <2> QED BY <2>1, <2>2 DEF ServerInv
<1>3. CASE ClientRequest
  <2> DEFINE packet == [number |-> Len(requests'), setup |-> FALSE, text |-> <<>>, list |-> <<>>]
             x == [text |-> <<>>, ports |-> <<>>]
  <2>1. Forward(packet) /\ requests' = Append(requests, x) /\ told' = told
    BY <1>3 DEF ClientRequest
  <2>2. packet.number = Len(requests') /\ packet.list = <<>> /\ ~packet.setup
    OBVIOUS
  <2> HIDE DEF packet, x
  <2>3. PacketOk(packet, requests')
    <3>1. Len(requests') \in 1..Len(requests')
      <4>1. Len(requests) \in Nat /\ Len(requests') = Len(requests) + 1
        BY <2>1, Appended DEF Requested
      <4> QED BY <4>1, SMT
    <3> QED BY <2>2, <3>1, EmptySeq DEF PacketOk
  <2>4. \A e \in Packets' : e \in Packets \/ e = packet
    BY <2>1, PacketsForwarded
  <2>5. \A e \in Packets : PacketOk(e, requests')
    BY <2>1, PacketStays DEF TextsInv
  <2>6. UNCHANGED mapperVars
    BY <1>3 DEF ClientRequest
  <2> QED BY <2>1, <2>3, <2>4, <2>5, <2>6 DEF TextsInv, ServerInv, mapperVars
<1>4. CASE ServerConnected
  <2>1. requests' = requests /\ told' = told /\ UNCHANGED mapperVars
    BY <1>4 DEF ServerConnected
  <2>2. \A e \in Packets' : e \in Packets
    BY <1>4, PacketsSent
  <2> QED BY <2>1, <2>2 DEF TextsInv, PacketOk, ServerInv, mapperVars
<1>5. ASSUME NEW k \in 1..3, NEW count \in 1..PORT_ALLOC_MAX, ServerSetupAnswer(k, count)
      PROVE  TextsInv' /\ ServerInv'
  <2>1. PICK r, ports, used, reply, list, new :
          AnswerTo(r, k, ports, used, reply, list, new) /\ Kept(r, k, ports, used, reply, new)
    BY <1>5, AnswerTaken
  <2> QED BY <2>1, AnswerStep, ServerPortsAnswered
<1>6. CASE LocalIncomingReady \/ ClientGone \/ ServerGone \/ ServerAnswer \/ UNCHANGED vars
  BY <1>1, <1>6 DEF LocalIncomingReady, ClientGone, ServerGone, ServerAnswer, vars, sessionVars, histVars, mapperVars
<1> QED BY <1>2, <1>3, <1>4, <1>5, <1>6 DEF Next
-----------------------------------------------------------------------------
(* Reading back the arguments of a transport.                              *)

\* The first m elements.
Leading(s, m) == SubSeq(s, 1, m)

\* The beginning of a text.
LEMMA LeadingOf ==
  ASSUME NEW X, NEW s \in Seq(X)
  PROVE  /\ \A m \in 0..Len(s) : /\ Leading(s, m) \in Seq(X) /\ Len(Leading(s, m)) = m
                                 /\ \A i \in 1..m : Leading(s, m)[i] = s[i]
         /\ Leading(s, 0) = <<>> /\ Leading(s, Len(s)) = s
         /\ \A m \in Nat : m < Len(s) => Leading(s, m + 1) = Append(Leading(s, m), s[m + 1]) /\ s[m + 1] \in X
<1>1. Len(s) \in Nat /\ \A i \in 1..Len(s) : s[i] \in X
  BY LenProperties, ElementOfSeq
<1>2. ASSUME NEW m \in 0..Len(s)
      PROVE  /\ Leading(s, m) \in Seq(X) /\ Len(Leading(s, m)) = m
             /\ \A i \in 1..m : Leading(s, m)[i] = s[i]
  <2>1. /\ 1 \in Int /\ m \in Int /\ m \in Nat /\ (\A i \in 1..m : i \in 1..Len(s))
        /\ (1 <= m => m - 1 + 1 = m) /\ (~(1 <= m) => m = 0) /\ \A i \in 1..m : 1 + i - 1 = i
    BY <1>1, SMT
  <2> DEFINE f == SubSeq(s, 1, m)
  <2>2. f \in Seq(X) /\ (Len(f) = IF 1 <= m THEN m - 1 + 1 ELSE 0) /\ \A i \in 1..Len(f) : f[i] = s[1 + i - 1]
    BY <1>1, <2>1, SubSeqProperties
  <2> HIDE DEF f
  <2>3. Len(f) = m
    BY <2>1, <2>2
  <2> QED BY <2>1, <2>2, <2>3 DEF f, Leading
<1>3. 0 \in 0..Len(s) /\ Len(s) \in 0..Len(s)
  BY <1>1, SMT
<1>4. Leading(s, 0) = <<>>
  BY <1>2, <1>3, EmptySeq
<1>5. Leading(s, Len(s)) = s
  <2> DEFINE f == Leading(s, Len(s))
  <2>1. f \in Seq(X) /\ Len(f) = Len(s) /\ \A i \in 1..Len(s) : f[i] = s[i]
    BY <1>2, <1>3
  <2> HIDE DEF f
  <2>2. f = s
    BY <2>1, SeqEqual
  <2> QED BY <2>2 DEF f
<1>6. ASSUME NEW m \in Nat, m < Len(s)
      PROVE  Leading(s, m + 1) = Append(Leading(s, m), s[m + 1]) /\ s[m + 1] \in X
  <2>1. /\ m \in 0..Len(s) /\ m + 1 \in 0..Len(s) /\ m + 1 \in 1..Len(s)
        /\ \A i \in 1..(m + 1) : i \in 1..m \/ i = m + 1
    BY <1>1, <1>6, SMT
  <2> DEFINE f == Leading(s, m)
             h == Leading(s, m + 1)
             w == Append(f, s[m + 1])
  <2>2. f \in Seq(X) /\ Len(f) = m /\ (\A i \in 1..m : f[i] = s[i])
    BY <1>2, <2>1
  <2>3. h \in Seq(X) /\ Len(h) = m + 1 /\ (\A i \in 1..(m + 1) : h[i] = s[i])
    BY <1>2, <2>1
  <2>4. s[m + 1] \in X
    BY <1>1, <2>1
  <2> HIDE DEF f, h
  <2>5. w \in Seq(X) /\ Len(w) = m + 1 /\ (\A i \in 1..m : w[i] = f[i]) /\ w[m + 1] = s[m + 1]
    BY <2>2, <2>4, AppendProperties
  <2> HIDE DEF w
  <2>6. ASSUME NEW i \in 1..(m + 1) PROVE h[i] = w[i]
    <3>1. i \in 1..m \/ i = m + 1
      BY <2>1
    <3> QED BY <2>2, <2>3, <2>5, <3>1
  <2>7. h = w
    BY <2>3, <2>5, <2>6, SeqEqual
  <2> QED BY <2>4, <2>7 DEF f, h, w
<1> QED BY <1>2, <1>4, <1>5, <1>6

\* The place in a text behind the first m arguments, when they stand behind place k.
ArgPlace(k, args, m) == k + Len(ArgsText(Leading(args, m)))

\* Where each argument stands.
LEMMA ArgsStand ==
  ASSUME NEW s \in TokenSeqs, NEW k \in Nat, NEW args \in Seq(Arguments), Stands(s, k, ArgsText(args))
  PROVE  /\ ArgPlace(k, args, 0) = k /\ ArgPlace(k, args, Len(args)) = k + Len(ArgsText(args))
         /\ \A m \in 0..Len(args) : ArgPlace(k, args, m) \in Nat /\ ArgPlace(k, args, m) <= Len(s)
         /\ \A m \in Nat : m < Len(args) =>
              /\ args[m + 1] \in Arguments
              /\ Stands(s, ArgPlace(k, args, m), ArgText(args[m + 1]))
              /\ ArgPlace(k, args, m + 1) = ArgPlace(k, args, m) + Len(ArgText(args[m + 1]))
<1> DEFINE n == Len(args)
           u(m) == ArgsText(Leading(args, m))
<1>1. n \in Nat /\ Len(s) \in Nat
  BY LenProperties DEF TokenSeqs
<1>2. ASSUME NEW m \in 0..n PROVE u(m) \in TokenSeqs /\ Len(u(m)) \in Nat
  <2>1. u(m) \in TokenSeqs
    BY <1>2, LeadingOf, ArgsTextMore
  <2> QED BY <2>1, TextOf
<1>3. ASSUME NEW m \in Nat, m < n
      PROVE  /\ args[m + 1] \in Arguments /\ u(m + 1) = u(m) \o ArgText(args[m + 1])
             /\ m \in 0..n /\ m + 1 \in 0..n
  <2>1. m \in 0..n /\ m + 1 \in 0..n
    BY <1>1, <1>3, SMT
  <2>2. Leading(args, m) \in Seq(Arguments) /\ Leading(args, m + 1) = Append(Leading(args, m), args[m + 1])
        /\ args[m + 1] \in Arguments
    BY <1>3, <2>1, LeadingOf
  <2> QED BY <2>1, <2>2, ArgsTextMore
<1>4. ASSUME NEW m \in Nat, m < n, Stands(s, k, u(m + 1))
      PROVE  /\ Stands(s, k, u(m)) /\ Stands(s, k + Len(u(m)), ArgText(args[m + 1]))
             /\ Len(u(m + 1)) = Len(u(m)) + Len(ArgText(args[m + 1]))
  <2> DEFINE v == ArgText(args[m + 1])
             w == u(m)
  <2>1. w \in TokenSeqs /\ v \in TokenSeqs /\ u(m + 1) = w \o v
    BY <1>2, <1>3, <1>4, ArgumentWritten
  <2>2. Stands(s, k, w \o v)
    BY <1>4, <2>1
  <2> HIDE DEF w, v
  <2>3. Stands(s, k, w) /\ Stands(s, k + Len(w), v) /\ Len(w \o v) = Len(w) + Len(v)
    BY <2>1, <2>2, StandsApart, TextsAre
  <2> QED BY <2>1, <2>3 DEF w, v
<1>5. u(n) = ArgsText(args) /\ u(0) = <<>>
  BY LeadingOf, ArgsTextMore
<1> DEFINE T == {d \in Nat : d <= n => Stands(s, k, u(n - d))}
<1>6. 0 \in T
  <2>1. n - 0 = n
    BY <1>1, SMT
  <2>2. Stands(s, k, u(n - 0))
    BY <1>5, <2>1
  <2> QED BY <2>2
<1> HIDE DEF u
<1>7. ASSUME NEW d \in Nat, d \in T PROVE d + 1 \in T
  <2> SUFFICES ASSUME d + 1 <= n PROVE Stands(s, k, u(n - (d + 1)))
    OBVIOUS
  <2>1. n - (d + 1) \in Nat /\ n - (d + 1) < n /\ (n - (d + 1)) + 1 = n - d /\ d <= n
    BY <1>1, SMT
  <2>2. Stands(s, k, u(n - d))
    BY <1>7, <2>1
  <2> DEFINE m == n - (d + 1)
  <2>3. m \in Nat /\ m < n /\ Stands(s, k, u(m + 1))
    BY <2>1, <2>2
  <2> HIDE DEF m
  <2>4. Stands(s, k, u(m))
    BY <1>4, <2>3
  <2> QED BY <2>4 DEF m
<1>8. \A d \in Nat : d \in T
  <2>1. T \in SUBSET Nat
    OBVIOUS
  <2> HIDE DEF T
  <2> QED BY <1>6, <1>7, <2>1, InductionOnSet
<1>9. ASSUME NEW m \in 0..n PROVE Stands(s, k, u(m))
  <2>1. n - m \in Nat /\ n - m <= n /\ n - (n - m) = m
    BY <1>1, SMT
  <2>2. Stands(s, k, u(n - (n - m)))
    BY <1>8, <2>1
  <2> QED BY <2>1, <2>2
<1>10. ASSUME NEW m \in 0..n PROVE ArgPlace(k, args, m) \in Nat /\ ArgPlace(k, args, m) <= Len(s)
  <2> DEFINE p == Len(u(m))
  <2>1. p \in Nat /\ k + p <= Len(s)
    BY <1>2, <1>9 DEF Stands, u
  <2> HIDE DEF p
  <2>2. k + p \in Nat
    BY <2>1, SMT
  <2> QED BY <2>1, <2>2 DEF p, u, ArgPlace
<1>11. ArgPlace(k, args, 0) = k /\ ArgPlace(k, args, n) = k + Len(ArgsText(args))
  <2>1. k + Len(<<>>) = k
    BY EmptyIsSeq, SMT
  <2> QED BY <1>5, <2>1 DEF ArgPlace, u
<1>12. ASSUME NEW m \in Nat, m < n
       PROVE  /\ args[m + 1] \in Arguments
              /\ Stands(s, ArgPlace(k, args, m), ArgText(args[m + 1]))
              /\ ArgPlace(k, args, m + 1) = ArgPlace(k, args, m) + Len(ArgText(args[m + 1]))
  <2>1. args[m + 1] \in Arguments /\ m \in 0..n /\ m + 1 \in 0..n
    BY <1>3, <1>12
  <2>2. Stands(s, k, u(m + 1))
    BY <1>9, <2>1
  <2>3. /\ Stands(s, k + Len(u(m)), ArgText(args[m + 1]))
        /\ Len(u(m + 1)) = Len(u(m)) + Len(ArgText(args[m + 1]))
    BY <1>4, <1>12, <2>2
  <2> DEFINE p == Len(u(m))
             q == Len(u(m + 1))
             l == Len(ArgText(args[m + 1]))
  <2>4. p \in Nat /\ l \in Nat /\ q = p + l
    BY <1>2, <2>1, <2>3, ArgumentWritten, TextOf DEF u
  <2> HIDE DEF p, q, l
  <2>5. k + q = (k + p) + l
    BY <2>4, SMT
  <2> QED BY <2>1, <2>3, <2>5 DEF p, q, l, u, ArgPlace
<1> QED BY <1>10, <1>11, <1>12

\* The value of the last argument read, or null.
LastValue(back) == IF Len(back) = 0 THEN None ELSE back[Len(back)].value

\* What is read back of the first m arguments: their names and their values, but that
\* an empty one may have become null, and one without a value has that before it.
Backs(args, back, m) ==
  /\ back \in Seq(Arguments) /\ Len(back) = m
  /\ \A i \in 1..m :
       /\ back[i].name = args[i].name
       /\ args[i].value # None => back[i].value = args[i].value \/ (args[i].value = <<>> /\ back[i].value = None)
       /\ args[i].value = None => back[i].value = IF i = 1 THEN None ELSE back[i - 1].value

\* One more.
LEMMA BackMore ==
  ASSUME NEW args, NEW m \in Nat, NEW back, Backs(args, back, m), NEW a \in Arguments, NEW last,
         a.name = args[m + 1].name, a.value = ValueBack(args[m + 1].value, LastValue(back), last),
         args[m + 1].value # None => args[m + 1].value \in TokenSeqs
  PROVE  Backs(args, Append(back, a), m + 1) /\ LastValue(Append(back, a)) = a.value
<1> DEFINE more == Append(back, a)
<1>1. back \in Seq(Arguments) /\ Len(back) = m
  BY DEF Backs
<1>2. more \in Seq(Arguments) /\ Len(more) = m + 1 /\ (\A i \in 1..m : more[i] = back[i]) /\ more[m + 1] = a
  BY <1>1, AppendProperties
<1> HIDE DEF more
<1>3. m + 1 # 0 /\ \A i \in 1..(m + 1) : /\ i = m + 1 \/ i \in 1..m
                                        /\ i # 1 => i - 1 \in 1..m
                                        /\ m + 1 = 1 <=> m = 0
                                        /\ (m + 1) - 1 = m
  BY SMT
<1>4. LastValue(more) = a.value
  BY <1>2, <1>3 DEF LastValue
<1>5. LastValue(back) = IF m = 0 THEN None ELSE back[m].value
  BY <1>1 DEF LastValue
<1>6. ASSUME NEW i \in 1..(m + 1)
      PROVE  /\ more[i].name = args[i].name
             /\ args[i].value # None => more[i].value = args[i].value \/ (args[i].value = <<>> /\ more[i].value = None)
             /\ args[i].value = None => more[i].value = IF i = 1 THEN None ELSE more[i - 1].value
  <2>1. CASE i \in 1..m
    <3>1. i # 1 => more[i - 1] = back[i - 1]
      BY <1>2, <1>3
    <3>2. more[i] = back[i]
      BY <1>2, <2>1
    <3> QED BY <2>1, <3>1, <3>2 DEF Backs
  <2>2. CASE i = m + 1
    <3>1. m # 0 => more[m] = back[m]
      <4>1. m # 0 => m \in 1..m
        BY SMT
      <4> QED BY <1>2, <4>1
    <3>2. more[m + 1] = a
      BY <1>2
    <3>3. args[m + 1].value # None => a.value = args[m + 1].value \/ (args[m + 1].value = <<>> /\ a.value = None)
      <4> DEFINE v == args[m + 1].value
      <4>1. v \in TokenSeqs /\ Len(v) = 0 => v = <<>>
        BY EmptySeq DEF TokenSeqs
      <4>2. v # None => v \in TokenSeqs /\ a.value = IF Len(v) = 0 /\ last THEN None ELSE v
        BY DEF ValueBack
      <4> HIDE DEF v
      <4>3. v # None => a.value = v \/ (v = <<>> /\ a.value = None)
        BY <4>1, <4>2
      <4> QED BY <4>3 DEF v
    <3>4. args[m + 1].value = None => a.value = LastValue(back)
      BY DEF ValueBack
    <3>5. m + 1 = 1 <=> m = 0
      BY SMT
    <3>6. args[m + 1].value = None => a.value = IF m + 1 = 1 THEN None ELSE more[(m + 1) - 1].value
      BY <1>3, <1>5, <3>1, <3>4, <3>5
    <3> QED BY <2>2, <3>2, <3>3, <3>6
  <2> QED BY <1>3, <2>1, <2>2
<1> QED BY <1>2, <1>4, <1>6 DEF Backs, more

\* What the loop over the arguments has read after j turns, when those that stand
\* behind place k go to place e: one with each turn, and the last one ends it.
ArgsBack(s, k, args, e, j, r) ==
  /\ r \in ArgStates /\ r.ok
  /\ ~r.last => /\ j < Len(args) /\ j < r.at /\ r.at <= Len(s) /\ r.at = ArgPlace(k, args, j) + 2
                /\ Backs(args, r.args, j) /\ r.tval = LastValue(r.args)
  /\ r.last => r.at = e + 2 /\ Backs(args, r.args, Len(args))

\* The arguments that stand behind place k up to place e, and all that the code can have read.
ArgsHere(s, k, args, e) ==
  /\ args \in Seq(Arguments) /\ Len(args) > 0 /\ \A i \in 1..Len(args) : ProperArg(args[i])
  /\ Stands(s, k, ArgsText(args)) /\ e = k + Len(ArgsText(args))
  /\ e = Len(s) \/ s[e + 1] = Comma

\* An argument has a token before its name, and one of its name at least.
LEMMA ArgIsLong ==
  ASSUME NEW s \in TokenSeqs, NEW k \in Nat, NEW v, ProperArg(v), Stands(s, k, ArgText(v))
  PROVE  /\ k + Len(ArgText(v)) \in Nat /\ k + 2 <= k + Len(ArgText(v)) /\ k + Len(ArgText(v)) <= Len(s)
         /\ s[k + 1] = Semi
<1>1. v \in Arguments /\ v.name \in TokenSeqs /\ NameLen(v) > 0 /\ v.value \in Values
  BY DEF ProperArg, Arguments, NameLen
<1> DEFINE n == k + 1 + NameLen(v)
           e == k + Len(ArgText(v))
<1>2. /\ e <= Len(s) /\ s[k + 1] = Semi
      /\ v.value = None => e = n
      /\ v.value # None => e = n + 1 + ValueLen(v)
  BY <1>1, ArgStands
<1> DEFINE l == NameLen(v)
           m == ValueLen(v)
           z == Len(s)
<1>3. l \in Nat /\ l > 0 /\ z \in Nat /\ (v.value # None => m \in Nat)
  BY <1>1, TextOf DEF NameLen, ValueLen, Values
<1> DEFINE t == Len(ArgText(v))
<1>4. t \in Nat
  BY <1>1, ArgumentWritten, TextOf
<1>5. k + t = k + 1 + l \/ (m \in Nat /\ k + t = k + 1 + l + 1 + m)
  BY <1>2, <1>3
<1>6. k + t <= z
  BY <1>2
<1> HIDE DEF l, m, z, n, e, t
<1>7. k + t \in Nat /\ k + 2 <= k + t
  BY ONLY k \in Nat, <1>3, <1>4, <1>5, SMT
<1> QED BY <1>2, <1>6, <1>7 DEF t, z

\* A turn of it.
LEMMA ArgTurnBack ==
  ASSUME NEW s \in TokenSeqs, NEW k \in Nat, NEW args, NEW e, ArgsHere(s, k, args, e),
         NEW j \in Nat, NEW r, ArgsBack(s, k, args, e, j, r)
  PROVE  ArgsBack(s, k, args, e, j + 1, ArgTurn(s, r))
<1>1. /\ args \in Seq(Arguments) /\ (\A i \in 1..Len(args) : ProperArg(args[i]))
      /\ Stands(s, k, ArgsText(args)) /\ e = k + Len(ArgsText(args)) /\ (e = Len(s) \/ s[e + 1] = Comma)
  BY DEF ArgsHere
<1>2. CASE r.last
  BY <1>2 DEF ArgTurn, ArgsBack
<1>3. CASE ~r.last
  <2>1. /\ r \in ArgStates /\ r.ok /\ j < Len(args) /\ j < r.at /\ r.at <= Len(s) /\ r.at = ArgPlace(k, args, j) + 2
        /\ Backs(args, r.args, j) /\ r.tval = LastValue(r.args)
    BY <1>3 DEF ArgsBack
  <2> DEFINE p == ArgPlace(k, args, j)
             q == ArgPlace(k, args, j + 1)
             v == args[j + 1]
             z == Len(s)
             n == Len(args)
  <2>2. n \in Nat /\ z \in Nat
    BY <1>1, LenProperties, TextOf
  <2>3. j \in 0..n /\ j + 1 \in 0..n /\ j + 1 \in 1..n /\ j + 1 \in Nat
    BY <2>1, <2>2, SMT
  <2>4. /\ p \in Nat /\ q \in Nat /\ Stands(s, p, ArgText(v)) /\ q = p + Len(ArgText(v))
        /\ ArgPlace(k, args, n) = e
    BY <1>1, <2>1, <2>3, ArgsStand
  <2>5. ProperArg(v) /\ v.name # <<>> /\ (v.value # None => v.value \in TokenSeqs)
    <3>1. ProperArg(v)
      BY <1>1, <2>3
    <3>2. v.name # <<>>
      <4>1. Len(v.name) > 0
        BY <3>1 DEF ProperArg
      <4>2. Len(<<>>) = 0 /\ ~(0 > 0)
        BY EmptyIsSeq, SMT
      <4> QED BY <4>1, <4>2
    <3>3. v.value \in Values
      BY <3>1 DEF ProperArg, Arguments
    <3> QED BY <3>1, <3>2, <3>3 DEF Values
  <2>6. p + 2 <= q /\ q <= z
    BY <2>4, <2>5, ArgIsLong
  <2>7. /\ j + 1 < n => q + 1 <= z /\ s[q + 1] = Semi /\ q + 2 <= z
        /\ ~(j + 1 < n) => j + 1 = n /\ q = e
    <3>1. CASE j + 1 < n
      <4>1. (j + 1) + 1 \in 1..n
        BY <2>2, <2>3, <3>1, SMT
      <4>2. ProperArg(args[(j + 1) + 1]) /\ Stands(s, q, ArgText(args[(j + 1) + 1]))
        BY <1>1, <2>3, <3>1, <4>1, ArgsStand
      <4> DEFINE t == q + Len(ArgText(args[(j + 1) + 1]))
      <4>3. t \in Nat /\ q + 2 <= t /\ t <= z /\ s[q + 1] = Semi
        BY <2>4, <4>2, ArgIsLong
      <4> HIDE DEF t, q, z
      <4>4. q + 1 <= z /\ q + 2 <= z
        BY <2>2, <2>4, <4>3, SMT
      <4> QED BY <3>1, <4>3, <4>4
    <3>2. CASE ~(j + 1 < n)
      <4>1. j + 1 = n
        BY <2>1, <2>2, <3>2, SMT
      <4> QED BY <2>4, <3>2, <4>1
    <3> QED BY <3>1, <3>2
  <2>8. q = z \/ s[q + 1] \in {Comma, Semi}
    BY <1>1, <2>7
  <2> DEFINE a == ReadArg(s, r.at, r.tval)
  <2>9. a = [name |-> v.name, value |-> ValueBack(v.value, r.tval, q = z), end |-> q + 1]
    <3>1. ArgHere(s, p, v, q)
      BY <2>4, <2>8 DEF ArgHere
    <3> HIDE DEF v
    <3> QED BY <2>1, <2>4, <2>5, <3>1, ArgReadBack
  <2> HIDE DEF a
  <2>10. a.name = v.name /\ a.value = ValueBack(v.value, r.tval, q = z) /\ a.end = q + 1
    BY <2>9
  <2> HIDE DEF p, q, z, n, v
  <2>11. q + 1 <= z + 1 /\ (q + 1 > z <=> q = z) /\ ~(q + 1 > z + 1) /\ (q + 1) + 1 = q + 2
         /\ ~(p + 2 > z) /\ (q + 1 <= z => q # z)
    BY <2>2, <2>4, <2>6, SMT
  <2>12. ~(a.name = <<>> \/ a.end > z + 1 \/ (a.end <= z /\ s[a.end] \notin {Comma, Semi}))
    BY <2>5, <2>8, <2>10, <2>11
  <2> DEFINE w == [name |-> a.name, value |-> a.value]
             l == (a.end > z \/ s[a.end] = Comma)
             x == ArgTurn(s, r)
  <2>13. ~r.last /\ ~(r.at > z)
    BY <1>3, <2>1, <2>11 DEF p, z
  <2>14. x = [ok |-> TRUE, args |-> Append(r.args, w), tval |-> a.value, at |-> a.end + 1, last |-> l]
    BY <2>12, <2>13 DEF ArgTurn, TakeArg, a, z
  <2>15. x \in ArgStates
    BY <2>1, <2>13, ArgumentTaken DEF ArgTurn, z
  <2> HIDE DEF l
  <2>16. x.ok /\ x.args = Append(r.args, w) /\ x.tval = a.value /\ x.at = q + 2 /\ x.last = l
    BY <2>10, <2>11, <2>14
  <2>17. l <=> ~(j + 1 < n)
    <3>1. CASE j + 1 < n
      <4>1. q + 1 <= z /\ s[q + 1] = Semi
        BY <2>7, <3>1
      <4>2. ~(q + 1 > z)
        BY <2>11, <4>1
      <4> QED BY <2>10, <3>1, <4>1, <4>2, Separators DEF l
    <3>2. CASE ~(j + 1 < n)
      <4>1. q = e
        BY <2>7, <3>2
      <4>2. q = z \/ s[q + 1] = Comma
        BY <1>1, <4>1 DEF z
      <4> QED BY <2>10, <2>11, <3>2, <4>2 DEF l
    <3> QED BY <3>1, <3>2
  <2>18. w \in Arguments
    <3>1. x.args \in Seq(Arguments) /\ r.args \in Seq(Arguments)
      BY <2>1, <2>15 DEF ArgStates
    <3>2. Len(Append(r.args, w)) \in Nat /\ Append(r.args, w)[Len(r.args) + 1] = w /\ Len(Append(r.args, w)) = Len(r.args) + 1
      <4>1. Append(r.args, w) \in Seq(Arguments \cup {w})
        BY <3>1, <2>16, ElementOfSeq
      <4>2. r.args \in Seq(Arguments \cup {w})
        BY <3>1
      <4> HIDE DEF w
      <4> QED BY <4>2, AppendProperties, LenProperties
    <3>3. Len(r.args) + 1 \in 1..Len(Append(r.args, w))
      <4>1. Len(r.args) \in Nat
        BY <3>1, LenProperties
      <4> QED BY <3>2, <4>1, SMT
    <3> HIDE DEF w
    <3> QED BY <2>16, <3>1, <3>2, <3>3, ElementOfSeq
  <2> HIDE DEF x
  <2>19. Backs(args, x.args, j + 1) /\ LastValue(x.args) = x.tval
    <3>1. w.name = args[j + 1].name /\ w.value = ValueBack(args[j + 1].value, LastValue(r.args), q = z) /\ w.value = a.value
      BY <2>1, <2>10 DEF v
    <3>2. args[j + 1].value # None => args[j + 1].value \in TokenSeqs
      BY <2>5 DEF v
    <3> DEFINE last == (q = z)
    <3>3. w.value = ValueBack(args[j + 1].value, LastValue(r.args), last) /\ Backs(args, r.args, j)
      BY <2>1, <3>1
    <3> HIDE DEF w, last
    <3>4. Backs(args, Append(r.args, w), j + 1) /\ LastValue(Append(r.args, w)) = w.value
      BY <2>18, <3>1, <3>2, <3>3, BackMore
    <3> QED BY <2>16, <3>1, <3>4
  <2> HIDE DEF w
  <2>20. CASE l
    <3>1. j + 1 = n /\ q = e
      BY <2>7, <2>17, <2>20
    <3>2. x.last
      BY <2>16, <2>20
    <3>3. x.at = e + 2 /\ Backs(args, x.args, Len(args))
      BY <2>16, <2>19, <3>1 DEF n
    <3>4. ArgsBack(s, k, args, e, j + 1, x)
      BY <2>15, <2>16, <3>2, <3>3 DEF ArgsBack
    <3> QED BY <3>4 DEF x
  <2>21. CASE ~l
    <3>1. j + 1 < n /\ q + 2 <= z
      BY <2>7, <2>17, <2>21
    <3>2. j + 1 < q + 2
      <4>1. j < p + 2
        BY <2>1 DEF p
      <4> QED BY <2>4, <2>6, <4>1, SMT
    <3>3. ~x.last
      BY <2>16, <2>21
    <3>4. /\ j + 1 < Len(args) /\ j + 1 < x.at /\ x.at <= Len(s) /\ x.at = ArgPlace(k, args, j + 1) + 2
          /\ Backs(args, x.args, j + 1) /\ x.tval = LastValue(x.args)
      BY <2>16, <2>19, <3>1, <3>2 DEF n, q, z
    <3>5. ArgsBack(s, k, args, e, j + 1, x)
      BY <2>15, <2>16, <3>3, <3>4 DEF ArgsBack
    <3> QED BY <3>5 DEF x
  <2> QED BY <2>20, <2>21
<1> QED BY <1>2, <1>3

\* The loop over the arguments reads those that stand there.
LEMMA ArgsReadBack ==
  ASSUME NEW s \in TokenSeqs, NEW k \in Nat, NEW args, NEW e, ArgsHere(s, k, args, e)
  PROVE  LET r == ReadArgs(s, k + 2)
         IN  r \in ArgStates /\ r.ok /\ r.at = e + 2 /\ Backs(args, r.args, Len(args)) /\ s[k + 1] = Semi
             /\ k + 1 <= Len(s)
<1> DEFINE z == Len(s)
<1>1. /\ args \in Seq(Arguments) /\ Len(args) > 0 /\ (\A i \in 1..Len(args) : ProperArg(args[i]))
      /\ Stands(s, k, ArgsText(args)) /\ e = k + Len(ArgsText(args)) /\ (e = Len(s) \/ s[e + 1] = Comma)
  BY DEF ArgsHere
<1>2. z \in Nat /\ k + 2 \in Places
  BY TextOf, SMT DEF Places
<1>3. PICK g : ArgLoop(s, k + 2, g) /\ ReadArgs(s, k + 2) = g[z]
  BY <1>2, ArgumentTurns
<1>4. g \in [Nat -> ArgStates] /\ g[0] = ArgStart(k + 2)
      /\ \A j \in Nat : j < z => g[j + 1] = ArgTurn(s, g[j])
  BY <1>3 DEF ArgLoop
<1>5. ArgPlace(k, args, 0) = k /\ s[k + 1] = Semi /\ k + 2 <= z
  <2>1. 0 \in Nat /\ 0 < Len(args) /\ 0 + 1 = 1 /\ 1 \in 1..Len(args)
    BY <1>1, LenProperties, SMT
  <2>2. ArgPlace(k, args, 0) = k /\ Stands(s, k, ArgText(args[1])) /\ ProperArg(args[1])
    BY <1>1, <2>1, ArgsStand
  <2> DEFINE t == k + Len(ArgText(args[1]))
  <2>3. t \in Nat /\ k + 2 <= t /\ t <= z /\ s[k + 1] = Semi
    BY <2>2, ArgIsLong
  <2> HIDE DEF t, z
  <2>4. k + 2 <= z
    BY <1>2, <2>3, SMT
  <2> QED BY <2>2, <2>3, <2>4
<1>6. ArgsBack(s, k, args, e, 0, g[0])
  <2> DEFINE r == ArgStart(k + 2)
  <2>1. r.ok /\ r.args = <<>> /\ r.tval = None /\ r.at = k + 2 /\ r.last = FALSE
    BY DEF ArgStart
  <2>2. r \in ArgStates
    <3>1. 0 \in Nat
      BY SMT
    <3> QED BY <1>4, <3>1
  <2> HIDE DEF r
  <2>3. <<>> \in Seq(Arguments) /\ Len(<<>>) = 0 /\ \A i \in 1..0 : FALSE
    BY EmptyIsSeq, EmptySeq, SMT
  <2>4. Backs(args, <<>>, 0) /\ LastValue(<<>>) = None
    BY <2>3 DEF Backs, LastValue
  <2>5. 0 < k + 2 /\ 0 < Len(args)
    BY <1>1, LenProperties, SMT
  <2>6. ArgsBack(s, k, args, e, 0, r)
    BY <1>5, <2>1, <2>2, <2>4, <2>5 DEF ArgsBack, z
  <2> QED BY <1>4, <2>6 DEF r
<1> DEFINE T == {j \in Nat : j <= z => ArgsBack(s, k, args, e, j, g[j])}
<1> HIDE DEF z
<1>7. \A j \in Nat : j \in T => j + 1 \in T
  <2> SUFFICES ASSUME NEW j \in Nat, j <= z => ArgsBack(s, k, args, e, j, g[j]), j + 1 <= z
               PROVE  ArgsBack(s, k, args, e, j + 1, g[j + 1])
    OBVIOUS
  <2>1. j <= z /\ j < z
    BY <1>2, SMT
  <2>2. g[j + 1] = ArgTurn(s, g[j])
    BY <1>4, <2>1
  <2> QED BY <2>1, <2>2, ArgTurnBack
<1>8. T \in SUBSET Nat /\ 0 \in T
  BY <1>6
<1> HIDE DEF T
<1>9. z \in T
  BY <1>2, <1>7, <1>8, InductionOnSet
<1> DEFINE r == ReadArgs(s, k + 2)
<1>10. ArgsBack(s, k, args, e, z, r)
  <2>1. z <= z
    BY <1>2, SMT
  <2> QED BY <1>3, <1>9, <2>1 DEF T
<1> HIDE DEF r
<1>11. /\ r \in ArgStates /\ r.ok
       /\ ~r.last => z < r.at /\ r.at <= z
       /\ r.last => r.at = e + 2 /\ Backs(args, r.args, Len(args))
  BY <1>10 DEF ArgsBack, z
<1>12. r.at \in Nat
  BY <1>11 DEF ArgStates, Places
<1>13. r.last
  BY <1>2, <1>11, <1>12, SMT
<1>14. k + 1 <= z
  BY <1>2, <1>5, SMT
<1> QED BY <1>5, <1>11, <1>13, <1>14 DEF r, z

\* A transport that the code can have read.
ProperTransport(t) ==
  /\ t \in Transports /\ Len(t.name) > 0 /\ Without(t.name, {Comma, Semi})
  /\ \A i \in 1..Len(t.args) : ProperArg(t.args[i])

\* One is read back of another: the same name, and the arguments as above.
ReadBack(t, back) ==
  back \in Transports /\ back.name = t.name /\ Backs(t.args, back.args, Len(t.args))

\* readFromString() of a transport that stands there.
LEMMA TransportReadBack ==
  ASSUME NEW s \in TokenSeqs, NEW k \in Nat, NEW t, ProperTransport(t), Stands(s, k, toString(t)),
         NEW e, e = k + Len(toString(t)), e = Len(s) \/ s[e + 1] = Comma
  PROVE  LET r == readFromString(s, k + 1)
         IN  r.ok /\ r.at = e + 2 /\ ReadBack(t, r.transport) /\ e \in Nat /\ k < e /\ e <= Len(s)
<1> DEFINE u == t.name
           v == ArgsText(t.args)
           l == Len(u)
           m == Len(v)
           z == Len(s)
<1>1. /\ t \in Transports /\ Len(t.name) > 0 /\ Without(t.name, {Comma, Semi})
      /\ \A i \in 1..Len(t.args) : ProperArg(t.args[i])
  BY DEF ProperTransport
<1>2. u \in TokenSeqs /\ t.args \in Seq(Arguments)
  BY <1>1 DEF Transports
<1>3. v \in TokenSeqs
  BY <1>2, ArgsTextMore
<1>4. toString(t) = u \o v
  BY DEF toString, ArgsText
<1>5. l \in Nat /\ m \in Nat /\ z \in Nat /\ l > 0
  BY <1>1, <1>2, <1>3, TextOf
<1>6. /\ Stands(s, k, u) /\ Stands(s, k + l, v) /\ e = k + (l + m)
  <2>1. Stands(s, k, u \o v) /\ Len(u \o v) = l + m
    BY <1>2, <1>3, <1>4, TextsAre
  <2> HIDE DEF u, v
  <2> QED BY <1>2, <1>3, <1>4, <2>1, StandsApart
<1>7. /\ k + l <= z /\ (\A i \in 1..l : s[k + i] = u[i]) /\ (k + l) + m <= z
      /\ \A i \in 1..l : u[i] \notin {Comma, Semi}
  BY <1>1, <1>6 DEF Stands, Without
<1> DEFINE n == (k + l) + 1
<1> HIDE DEF u, v, l, m, z
<1>8. /\ k + l \in Nat /\ n \in Nat /\ n \in Places /\ k + 1 \in Places /\ k + 1 <= n /\ n <= z + 1 /\ k + 1 < n
      /\ n - 1 = k + l /\ n + 1 = (k + l) + 2 /\ e = (k + l) + m /\ e \in Nat /\ k < e /\ e <= z
      /\ (n <= z <=> k + l # z)
  BY <1>5, <1>6, <1>7, SMT DEF Places
<1>9. \A i \in (k + 1)..(n - 1) : s[i] \notin {Comma, Semi}
  <2> TAKE i \in (k + 1)..(n - 1)
  <2>1. i - k \in 1..l /\ k + (i - k) = i
    BY <1>5, SMT
  <2> QED BY <1>7, <2>1
<1>10. SubSeq(s, k + 1, n - 1) = u
  BY <1>2, <1>6, <1>8, PartStands DEF l
<1> HIDE DEF n
<1> DEFINE r == readFromString(s, k + 1)
<1>11. ASSUME NEW a, a = IF n <= z /\ s[n] = Semi THEN ReadArgs(s, n + 1) ELSE [ok |-> TRUE, args |-> <<>>, at |-> n + 1],
             findOneOf(s, {Comma, Semi}, k + 1) = n,
             a.ok, a.at = e + 2, a.args \in Seq(Arguments), Backs(t.args, a.args, Len(t.args))
       PROVE  r.ok /\ r.at = e + 2 /\ ReadBack(t, r.transport)
  <2>1. r = [ok |-> n > k + 1 /\ a.ok, at |-> a.at, transport |-> [name |-> SubSeq(s, k + 1, n - 1), args |-> a.args]]
    BY <1>11, Zenon DEF readFromString, ReadTransport, TransportNamed, z
  <2>2. n > k + 1
    BY <1>8, SMT
  <2> HIDE DEF r
  <2>3. r.ok /\ r.at = e + 2 /\ r.transport = [name |-> u, args |-> a.args]
    BY <1>10, <1>11, <2>1, <2>2
  <2> DEFINE b == [name |-> u, args |-> a.args]
  <2>4. b \in Transports /\ b.name = t.name /\ b.args = a.args
    BY <1>2, <1>11 DEF Transports, u
  <2> HIDE DEF b
  <2>5. ReadBack(t, b)
    BY <1>11, <2>4 DEF ReadBack
  <2> QED BY <2>3, <2>5 DEF b
<1>12. CASE Len(t.args) = 0
  <2>1. t.args = <<>> /\ v = <<>> /\ m = 0
    <3>1. t.args = <<>>
      BY <1>2, <1>12, EmptySeq
    <3> QED BY <3>1, ArgsTextMore, EmptyIsSeq DEF v, m
  <2>2. e = k + l
    BY <1>8, <2>1, SMT
  <2>3. n <= z => s[n] = Comma
    BY <1>8, <2>2 DEF z, n
  <2>4. findOneOf(s, {Comma, Semi}, k + 1) = n
    BY <1>8, <1>9, <2>3, FindIs DEF z
  <2>5. Backs(t.args, <<>>, Len(t.args)) /\ <<>> \in Seq(Arguments)
    <3>1. <<>> \in Seq(Arguments) /\ Len(<<>>) = 0 /\ \A i \in 1..0 : FALSE
      BY EmptyIsSeq, EmptySeq, SMT
    <3> QED BY <1>12, <3>1 DEF Backs
  <2> DEFINE a == [ok |-> TRUE, args |-> <<>>, at |-> n + 1]
  <2>6. ~(n <= z /\ s[n] = Semi)
    BY <2>3, Separators
  <2>7. a.ok /\ a.at = e + 2 /\ a.args = <<>>
    BY <1>8, <2>2
  <2>8. a = IF n <= z /\ s[n] = Semi THEN ReadArgs(s, n + 1) ELSE [ok |-> TRUE, args |-> <<>>, at |-> n + 1]
    BY <2>6
  <2> HIDE DEF a
  <2> QED BY <1>8, <1>11, <2>4, <2>5, <2>7, <2>8 DEF z
<1>13. CASE Len(t.args) # 0
  <2>1. Len(t.args) > 0
    <3>1. Len(t.args) \in Nat
      BY <1>2, LenProperties
    <3> QED BY <1>13, <3>1, SMT
  <2>2. ArgsHere(s, k + l, t.args, e)
    BY <1>1, <1>2, <1>6, <1>8, <2>1 DEF ArgsHere, v, m
  <2> DEFINE a == ReadArgs(s, n + 1)
  <2>3. a \in ArgStates /\ a.ok /\ a.at = e + 2 /\ Backs(t.args, a.args, Len(t.args)) /\ s[n] = Semi /\ n <= z
    <3>1. LET q == ReadArgs(s, (k + l) + 2)
          IN  q \in ArgStates /\ q.ok /\ q.at = e + 2 /\ Backs(t.args, q.args, Len(t.args)) /\ s[(k + l) + 1] = Semi
              /\ (k + l) + 1 <= Len(s)
      BY <1>8, <2>2, ArgsReadBack
    <3> QED BY <1>8, <3>1 DEF z, n
  <2>4. findOneOf(s, {Comma, Semi}, k + 1) = n
    BY <1>8, <1>9, <2>3, FindIs DEF z
  <2>5. a = IF n <= z /\ s[n] = Semi THEN ReadArgs(s, n + 1) ELSE [ok |-> TRUE, args |-> <<>>, at |-> n + 1]
    BY <2>3
  <2>6. a.args \in Seq(Arguments)
    BY <2>3 DEF ArgStates
  <2> HIDE DEF a
  <2> QED BY <1>8, <1>11, <2>3, <2>4, <2>5, <2>6 DEF z
<1> QED BY <1>12, <1>13

-----------------------------------------------------------------------------
(* The transports of a list.                                               *)

\* The place in the text of a list behind its first m transports.
ItemPlace(list, m) == Len(ListText(Leading(list, m)))

\* Where each transport stands, with the comma before it.
LEMMA ItemsStand ==
  ASSUME NEW list \in Seq(Transports), NEW s, s = ListText(list)
  PROVE  /\ s \in TokenSeqs /\ ItemPlace(list, 0) = 0 /\ ItemPlace(list, Len(list)) = Len(s)
         /\ \A m \in 0..Len(list) : ItemPlace(list, m) \in Nat /\ ItemPlace(list, m) <= Len(s)
         /\ \A m \in Nat : m < Len(list) =>
              /\ list[m + 1] \in Transports
              /\ Stands(s, ItemPlace(list, m), ItemText(m + 1, list[m + 1]))
              /\ ItemPlace(list, m + 1) = ItemPlace(list, m) + Len(ItemText(m + 1, list[m + 1]))
<1> DEFINE n == Len(list)
           u(m) == ListText(Leading(list, m))
           x(m) == ItemText(m + 1, list[m + 1])
<1>1. n \in Nat /\ s \in TokenSeqs /\ Len(s) \in Nat
  BY LenProperties, ListWritten DEF TokenSeqs
<1>2. ASSUME NEW m \in 0..n PROVE u(m) \in TokenSeqs /\ Len(u(m)) \in Nat
  <2>1. u(m) \in TokenSeqs
    BY <1>2, LeadingOf, ListWritten
  <2> QED BY <2>1, TextOf
<1>3. ASSUME NEW m \in Nat, m < n
      PROVE  /\ list[m + 1] \in Transports /\ u(m + 1) = u(m) \o x(m) /\ x(m) \in TokenSeqs
             /\ m \in 0..n /\ m + 1 \in 0..n
  <2>1. m \in 0..n /\ m + 1 \in 0..n
    BY <1>1, <1>3, SMT
  <2>2. Leading(list, m) \in Seq(Transports) /\ Leading(list, m + 1) = Append(Leading(list, m), list[m + 1])
        /\ list[m + 1] \in Transports /\ Len(Leading(list, m)) = m
    BY <1>3, <2>1, LeadingOf
  <2>3. u(m + 1) = u(m) \o x(m)
    BY <2>2, ListTextMore
  <2>4. x(m) \in TokenSeqs
    <3>1. toString(list[m + 1]) \in TokenSeqs
      BY <2>2, TransportWritten
    <3> QED BY <3>1, ShortTexts, TextsJoined DEF ItemText
  <2> QED BY <2>1, <2>2, <2>3, <2>4
<1> HIDE DEF x
<1>4. ASSUME NEW m \in Nat, m < n, Stands(s, 0, u(m + 1))
      PROVE  /\ Stands(s, 0, u(m)) /\ Stands(s, Len(u(m)), x(m))
             /\ Len(u(m + 1)) = Len(u(m)) + Len(x(m))
  <2> DEFINE v == x(m)
             w == u(m)
  <2>1. w \in TokenSeqs /\ v \in TokenSeqs /\ u(m + 1) = w \o v /\ 0 \in Nat
    BY <1>2, <1>3, <1>4, SMT
  <2>2. Stands(s, 0, w \o v) /\ Len(w) \in Nat
    BY <1>4, <2>1, TextOf
  <2> HIDE DEF w, v
  <2>3. Stands(s, 0, w) /\ Stands(s, 0 + Len(w), v) /\ Len(w \o v) = Len(w) + Len(v)
    BY <1>1, <2>1, <2>2, StandsApart, TextsAre
  <2>4. 0 + Len(w) = Len(w)
    BY <2>2, SMT
  <2> QED BY <2>1, <2>3, <2>4 DEF w, v
<1>5. u(n) = s /\ u(0) = <<>>
  BY LeadingOf, ListTextMore
<1> DEFINE T == {d \in Nat : d <= n => Stands(s, 0, u(n - d))}
<1>6. 0 \in T
  <2>1. n - 0 = n /\ 0 + Len(s) <= Len(s) /\ \A i \in 1..Len(s) : 0 + i = i
    BY <1>1, SMT
  <2>2. Stands(s, 0, s)
    BY <2>1 DEF Stands
  <2>3. Stands(s, 0, u(n - 0))
    BY <1>5, <2>1, <2>2
  <2> QED BY <2>3
<1> HIDE DEF u
<1>7. ASSUME NEW d \in Nat, d \in T PROVE d + 1 \in T
  <2> SUFFICES ASSUME d + 1 <= n PROVE Stands(s, 0, u(n - (d + 1)))
    OBVIOUS
  <2>1. n - (d + 1) \in Nat /\ n - (d + 1) < n /\ (n - (d + 1)) + 1 = n - d /\ d <= n
    BY <1>1, SMT
  <2>2. Stands(s, 0, u(n - d))
    BY <1>7, <2>1
  <2> DEFINE m == n - (d + 1)
  <2>3. m \in Nat /\ m < n /\ Stands(s, 0, u(m + 1))
    BY <2>1, <2>2
  <2> HIDE DEF m
  <2>4. Stands(s, 0, u(m))
    BY <1>4, <2>3
  <2> QED BY <2>4 DEF m
<1>8. \A d \in Nat : d \in T
  <2>1. T \in SUBSET Nat
    OBVIOUS
  <2> HIDE DEF T
  <2> QED BY <1>6, <1>7, <2>1, InductionOnSet
<1>9. ASSUME NEW m \in 0..n PROVE Stands(s, 0, u(m))
  <2>1. n - m \in Nat /\ n - m <= n /\ n - (n - m) = m
    BY <1>1, SMT
  <2>2. Stands(s, 0, u(n - (n - m)))
    BY <1>8, <2>1
  <2> QED BY <2>1, <2>2
<1>10. ASSUME NEW m \in 0..n PROVE ItemPlace(list, m) \in Nat /\ ItemPlace(list, m) <= Len(s)
  <2> DEFINE p == Len(u(m))
  <2>1. p \in Nat /\ 0 + p <= Len(s)
    BY <1>2, <1>9 DEF Stands, u
  <2> HIDE DEF p
  <2>2. p <= Len(s)
    BY <1>1, <2>1, SMT
  <2> QED BY <2>1, <2>2 DEF p, u, ItemPlace
<1>11. ItemPlace(list, 0) = 0 /\ ItemPlace(list, n) = Len(s)
  BY <1>5, EmptyIsSeq DEF ItemPlace, u
<1>12. ASSUME NEW m \in Nat, m < n
       PROVE  /\ list[m + 1] \in Transports
              /\ Stands(s, ItemPlace(list, m), ItemText(m + 1, list[m + 1]))
              /\ ItemPlace(list, m + 1) = ItemPlace(list, m) + Len(ItemText(m + 1, list[m + 1]))
  <2>1. list[m + 1] \in Transports /\ m \in 0..n /\ m + 1 \in 0..n
    BY <1>3, <1>12
  <2>2. Stands(s, 0, u(m + 1))
    BY <1>9, <2>1
  <2>3. /\ Stands(s, Len(u(m)), x(m))
        /\ Len(u(m + 1)) = Len(u(m)) + Len(x(m))
    BY <1>4, <1>12, <2>2
  <2> QED BY <2>1, <2>3 DEF u, x, ItemPlace
<1> QED BY <1>1, <1>10, <1>11, <1>12

\* The same for a transport itself: one begins at place Begin(list, m) + 1.
Begin(list, m) == IF m = 0 THEN 0 ELSE ItemPlace(list, m) + 1

\* They stand one behind the other.
LEMMA TransportsStand ==
  ASSUME NEW list \in Seq(Transports), NEW s, s = ListText(list), NEW m \in Nat, m < Len(list)
  PROVE  /\ Begin(list, m) \in Nat /\ Stands(s, Begin(list, m), toString(list[m + 1]))
         /\ ItemPlace(list, m + 1) = Begin(list, m) + Len(toString(list[m + 1]))
         /\ m > 0 => s[ItemPlace(list, m) + 1] = Comma
<1> DEFINE v == toString(list[m + 1])
           p == ItemPlace(list, m)
           q == ItemPlace(list, m + 1)
<1>1. s \in TokenSeqs /\ list[m + 1] \in Transports /\ Stands(s, p, ItemText(m + 1, list[m + 1]))
      /\ q = p + Len(ItemText(m + 1, list[m + 1])) /\ ItemPlace(list, 0) = 0
  BY ItemsStand
<1>2. p \in Nat
  <2>1. m \in 0..Len(list)
    BY LenProperties, SMT
  <2> QED BY <2>1, ItemsStand
<1>3. v \in TokenSeqs /\ Len(v) \in Nat /\ <<Comma>> \in TokenSeqs /\ <<>> \in TokenSeqs
  BY <1>1, TransportWritten, ShortTexts, TextOf
<1>4. CASE m = 0
  <2>1. ~(m + 1 > 1)
    BY <1>4, SMT
  <2>2. ItemText(m + 1, list[m + 1]) = <<>> \o v
    BY <2>1 DEF ItemText
  <2>3. <<>> \o v = v
    BY <1>3, EmptyJoined DEF TokenSeqs
  <2>4. p = 0 /\ 0 \in Nat /\ ~(m > 0)
    BY <1>1, <1>4, SMT
  <2> QED BY <1>1, <1>4, <2>2, <2>3, <2>4 DEF Begin
<1>5. CASE m # 0
  <2>1. m + 1 > 1
    BY <1>5, SMT
  <2>2. ItemText(m + 1, list[m + 1]) = <<Comma>> \o v
    BY <2>1 DEF ItemText
  <2>3. Len(<<Comma>>) = 1 /\ <<Comma>>[1] = Comma /\ 1 \in 1..1
    BY EmptyIsSeq, SMT
  <2> DEFINE c == <<Comma>>
  <2>8. c \in TokenSeqs /\ Len(c) = 1 /\ c[1] = Comma /\ Stands(s, p, c \o v)
        /\ ItemText(m + 1, list[m + 1]) = c \o v
    BY <1>1, <1>3, <2>2, <2>3
  <2> HIDE DEF v, p, q, c
  <2>9. Stands(s, p, c) /\ Stands(s, p + Len(c), v)
    BY <1>1, <1>2, <1>3, <2>8, StandsApart DEF v, p
  <2>10. Len(c \o v) = Len(c) + Len(v)
    BY <1>3, <2>8, TextsAre DEF v
  <2>4. Stands(s, p, c) /\ Stands(s, p + 1, v) /\ Len(c \o v) = 1 + Len(v)
    BY <2>8, <2>9, <2>10
  <2>5. s[p + 1] = Comma
    BY <2>3, <2>4, <2>8 DEF Stands
  <2> DEFINE l == Len(v)
  <2>6. q = p + (1 + l) /\ l \in Nat
    BY <1>1, <1>3, <2>8, <2>4 DEF q, p
  <2> HIDE DEF l
  <2>7. p + 1 \in Nat /\ q = (p + 1) + l
    BY <1>2, <2>6, SMT
  <2> QED BY <1>5, <2>4, <2>5, <2>7 DEF Begin, p, q, l, v
<1> QED BY <1>4, <1>5

\* The transports of a list that the code can have read.
ProperList(list) == list \in Seq(Transports) /\ \A i \in 1..Len(list) : ProperTransport(list[i])

\* What is read where one of them stands.
LEMMA ItemReadBack ==
  ASSUME NEW list, ProperList(list), NEW s, s = ListText(list), NEW m \in Nat, m < Len(list)
  PROVE  LET k == Begin(list, m)
             e == ItemPlace(list, m + 1)
             r == readFromString(s, k + 1)
         IN  /\ r.ok /\ r.at = e + 2 /\ ReadBack(list[m + 1], r.transport)
             /\ k \in Nat /\ e \in Nat /\ k < e /\ e <= Len(s)
             /\ m + 1 < Len(list) => Begin(list, m + 1) = e + 1
             /\ ~(m + 1 < Len(list)) => m + 1 = Len(list) /\ e = Len(s)
<1> DEFINE n == Len(list)
           k == Begin(list, m)
           e == ItemPlace(list, m + 1)
           t == list[m + 1]
<1>1. list \in Seq(Transports) /\ \A i \in 1..n : ProperTransport(list[i])
  BY DEF ProperList
<1>2. n \in Nat
  BY <1>1, LenProperties
<1>3. m + 1 \in 1..n /\ m + 1 \in Nat /\ (~(m + 1 < n) => m + 1 = n) /\ m + 1 > 0 /\ m + 1 # 0
  BY <1>2, SMT
<1>4. s \in TokenSeqs /\ ItemPlace(list, n) = Len(s)
  BY <1>1, ItemsStand
<1>5. k \in Nat /\ Stands(s, k, toString(t)) /\ e = k + Len(toString(t))
  BY <1>1, TransportsStand
<1>6. m + 1 < n => s[e + 1] = Comma
  BY <1>1, <1>3, TransportsStand
<1>7. ~(m + 1 < n) => e = Len(s)
  BY <1>3, <1>4
<1>8. e = Len(s) \/ s[e + 1] = Comma
  BY <1>6, <1>7
<1>9. ProperTransport(t)
  BY <1>1, <1>3
<1>10. Begin(list, m + 1) = e + 1
  BY <1>3 DEF Begin
<1> HIDE DEF k, e, t
<1>11. LET r == readFromString(s, k + 1)
       IN  r.ok /\ r.at = e + 2 /\ ReadBack(t, r.transport) /\ e \in Nat /\ k < e /\ e <= Len(s)
  BY <1>4, <1>5, <1>8, <1>9, TransportReadBack
<1> QED BY <1>3, <1>5, <1>7, <1>10, <1>11 DEF k, e, t

\* What is read back of the first m transports.
ReadBacks(list, back, m) ==
  back \in Seq(Transports) /\ Len(back) = m /\ \A i \in 1..m : ReadBack(list[i], back[i])

\* One more.
LEMMA ReadBackMore ==
  ASSUME NEW list, NEW m \in Nat, NEW back, ReadBacks(list, back, m), NEW b, ReadBack(list[m + 1], b)
  PROVE  ReadBacks(list, Append(back, b), m + 1)
<1>1. back \in Seq(Transports) /\ Len(back) = m /\ \A i \in 1..m : ReadBack(list[i], back[i])
  BY DEF ReadBacks
<1>2. b \in Transports
  BY DEF ReadBack
<1> DEFINE x == Append(back, b)
<1>3. x \in Seq(Transports) /\ Len(x) = m + 1 /\ (\A i \in 1..m : x[i] = back[i]) /\ x[m + 1] = b
  <2>1. Append(back, b) \in Seq(Transports) /\ Len(Append(back, b)) = Len(back) + 1
    BY <1>1, <1>2, AppendProperties
  <2>2. (\A i \in 1..Len(back) : Append(back, b)[i] = back[i]) /\ Append(back, b)[Len(back) + 1] = b
    BY <1>1, <1>2, AppendProperties
  <2> QED BY <1>1, <2>1, <2>2
<1> HIDE DEF x
<1>4. ASSUME NEW i \in 1..(m + 1) PROVE ReadBack(list[i], x[i])
  <2>1. i \in 1..m \/ i = m + 1
    BY <1>4, SMT
  <2> QED BY <1>1, <1>3, <2>1
<1> QED BY <1>3, <1>4 DEF ReadBacks, x

\* What the loop over the transports has read after j turns: one with each.
ListBack(s, list, j, acc) ==
  /\ acc \in ListStates
  /\ acc.at <= Len(s) => /\ j < Len(list) /\ j < acc.at /\ acc.at = Begin(list, j) + 1
                         /\ ReadBacks(list, acc.list, j)
  /\ acc.at > Len(s) => ReadBacks(list, acc.list, Len(list))

\* A turn of the loop over the transports.
LEMMA ListTurnBack ==
  ASSUME NEW list, ProperList(list), NEW s, s = ListText(list), NEW j \in Nat,
         NEW acc, ListBack(s, list, j, acc)
  PROVE  ListBack(s, list, j + 1, ListTurn(s, acc))
<1> DEFINE z == Len(s)
           n == Len(list)
<1>1. acc \in ListStates /\ acc.at \in Nat /\ acc.list \in Seq(Transports)
  BY DEF ListBack, ListStates, Places
<1>2. s \in TokenSeqs /\ z \in Nat /\ n \in Nat
  <2>1. list \in Seq(Transports)
    BY DEF ProperList
  <2>2. s \in TokenSeqs
    BY <2>1, ListWritten
  <2> QED BY <2>1, <2>2, TextOf, LenProperties
<1>3. CASE acc.at > z
  <2>1. ListTurn(s, acc) = acc /\ ReadBacks(list, acc.list, n)
    BY <1>3 DEF ListTurn, ListBack
  <2>2. ~(acc.at <= z)
    BY <1>1, <1>2, <1>3, SMT
  <2> QED BY <1>1, <2>1, <2>2 DEF ListBack
<1>4. CASE ~(acc.at > z)
  <2>1. acc.at <= z
    BY <1>1, <1>2, <1>4, SMT
  <2>2. j < n /\ j < acc.at /\ acc.at = Begin(list, j) + 1 /\ ReadBacks(list, acc.list, j)
    BY <2>1 DEF ListBack
  <2> DEFINE k == Begin(list, j)
             e == ItemPlace(list, j + 1)
             r == readFromString(s, k + 1)
             x == ListTurn(s, acc)
  <2>3. /\ r.ok /\ r.at = e + 2 /\ ReadBack(list[j + 1], r.transport)
        /\ k \in Nat /\ e \in Nat /\ k < e /\ e <= z
        /\ j + 1 < n => Begin(list, j + 1) = e + 1
        /\ ~(j + 1 < n) => j + 1 = n /\ e = z
    <3>1. j < Len(list)
      BY <2>2
    <3> QED BY ONLY <3>1, ProperList(list), s = ListText(list), j \in Nat, ItemReadBack
  <2>4. x = [list |-> Append(acc.list, r.transport), at |-> e + 2]
    BY <1>4, <2>2, <2>3 DEF ListTurn, TakeTransport
  <2>5. ReadBacks(list, Append(acc.list, r.transport), j + 1)
    BY <2>2, <2>3, ReadBackMore
  <2>6. j + 1 < n => e + 2 <= z
    <3> SUFFICES ASSUME j + 1 < n PROVE e + 2 <= z
      OBVIOUS
    <3> DEFINE f == Begin(list, j + 1)
               d == ItemPlace(list, (j + 1) + 1)
    <3>1. f \in Nat /\ d \in Nat /\ f < d /\ d <= z /\ j + 1 \in Nat
      <4>1. j + 1 \in Nat
        BY SMT
      <4> QED BY <4>1, ItemReadBack
    <3>2. f = e + 1
      BY <2>3
    <3> HIDE DEF d, f, e, z
    <3> QED BY <1>2, <2>3, <3>1, <3>2, SMT
  <2>7. ~(j + 1 < n) => e + 2 > z
    <3> HIDE DEF e, z, k
    <3> QED BY <1>2, <2>3, SMT
  <2>8. j + 1 < e + 2
    <3> HIDE DEF e, z, k
    <3>1. j < k + 1
      BY <2>2 DEF k
    <3> QED BY <1>2, <2>3, <3>1, SMT
  <2>9. (e + 1) + 1 = e + 2 /\ e + 2 \in Places /\ (e + 2 <= z => ~(e + 2 > z)) /\ (e + 2 > z => ~(e + 2 <= z))
    <3> HIDE DEF e, z, k
    <3> QED BY <1>2, <2>3, SMT DEF Places
  <2>10. x.list = Append(acc.list, r.transport) /\ x.at = e + 2
    BY <2>4
  <2>11. x \in ListStates
    <3>1. Append(acc.list, r.transport) \in Seq(Transports)
      BY <2>5 DEF ReadBacks
    <3> QED BY <2>4, <2>9, <3>1 DEF ListStates
  <2> HIDE DEF x, r, e, k, z, n
  <2>12. x.at <= z => j + 1 < n /\ j + 1 < x.at /\ x.at = Begin(list, j + 1) + 1
    BY <2>3, <2>7, <2>8, <2>9, <2>10
  <2>13. x.at > z => j + 1 = n
    BY <2>3, <2>6, <2>9, <2>10
  <2>14. ReadBacks(list, x.list, j + 1)
    BY <2>5, <2>10
  <2>15. ListBack(s, list, j + 1, x)
    BY <2>11, <2>12, <2>13, <2>14 DEF ListBack, z, n
  <2> QED BY <2>15 DEF x
<1> QED BY <1>3, <1>4

\* What is written of a list is read back, transport by transport.
THEOREM ListReadBack ==
  ASSUME NEW list, ProperList(list)
  PROVE  ReadBacks(list, transports(ListText(list)), Len(list))
<1> DEFINE s == ListText(list)
           z == Len(s)
<1>1. list \in Seq(Transports) /\ s \in TokenSeqs /\ z \in Nat /\ Len(list) \in Nat
  <2>1. list \in Seq(Transports)
    BY DEF ProperList
  <2>2. s \in TokenSeqs
    BY <2>1, ListWritten
  <2> QED BY <2>1, <2>2, TextOf, LenProperties
<1>2. PICK g : ListLoop(s, g) /\ transports(s) = g[z].list
  BY <1>1, TransportTurns
<1>3. g \in [Nat -> ListStates] /\ g[0] = ListStart
      /\ \A j \in Nat : j < z => g[j + 1] = ListTurn(s, g[j])
  BY <1>2 DEF ListLoop
<1>4. ListBack(s, list, 0, g[0])
  <2> DEFINE r == ListStart
  <2>1. r.list = <<>> /\ r.at = 1
    BY DEF ListStart
  <2>2. r \in ListStates
    <3>1. 0 \in Nat
      BY SMT
    <3> QED BY <1>3, <3>1
  <2> HIDE DEF r
  <2>3. ReadBacks(list, <<>>, 0)
    <3>1. <<>> \in Seq(Transports) /\ Len(<<>>) = 0 /\ \A i \in 1..0 : FALSE
      BY EmptyIsSeq, EmptySeq, SMT
    <3> QED BY <3>1 DEF ReadBacks
  <2>4. CASE Len(list) = 0
    <3>1. list = <<>>
      BY <1>1, <2>4, EmptySeq
    <3>2. z = 0
      BY <3>1, ListTextMore, EmptyIsSeq
    <3>3. ~(1 <= z)
      BY <3>2, SMT
    <3>4. ListBack(s, list, 0, r)
      BY <2>1, <2>2, <2>3, <2>4, <3>3 DEF ListBack
    <3> QED BY <1>3, <3>4 DEF r
  <2>5. CASE Len(list) # 0
    <3>1. 0 < Len(list) /\ 0 \in Nat /\ 0 + 1 = 1 /\ 0 < 1
      BY <1>1, <2>5, SMT
    <3> DEFINE e == ItemPlace(list, 1)
    <3>2. Begin(list, 0) = 0
      BY DEF Begin
    <3>3. e \in Nat /\ 0 < e /\ e <= z
      BY <3>1, <3>2, ItemReadBack
    <3>4. ~(1 > z)
      <4> HIDE DEF e, z
      <4> QED BY <1>1, <3>3, SMT
    <3>5. ListBack(s, list, 0, r)
      BY <2>1, <2>2, <2>3, <3>1, <3>2, <3>4 DEF ListBack
    <3> QED BY <1>3, <3>5 DEF r
  <2> QED BY <2>4, <2>5
<1> DEFINE T == {j \in Nat : j <= z => ListBack(s, list, j, g[j])}
<1>5. \A j \in Nat : j \in T => j + 1 \in T
  <2> SUFFICES ASSUME NEW j \in Nat, j <= z => ListBack(s, list, j, g[j]), j + 1 <= z
               PROVE  ListBack(s, list, j + 1, g[j + 1])
    OBVIOUS
  <2>1. j <= z /\ j < z
    <3> HIDE DEF z
    <3> QED BY <1>1, SMT
  <2>2. g[j + 1] = ListTurn(s, g[j]) /\ ListBack(s, list, j, g[j])
    BY <1>3, <2>1
  <2> QED BY <2>2, ListTurnBack
<1>6. T \in SUBSET Nat /\ 0 \in T
  BY <1>4
<1> HIDE DEF T
<1>7. z \in T
  BY <1>1, <1>5, <1>6, InductionOnSet
<1>8. ListBack(s, list, z, g[z])
  <2>1. z <= z
    <3> HIDE DEF z
    <3> QED BY <1>1, SMT
  <2> QED BY <1>7, <2>1 DEF T
<1>9. g[z].at \in Nat /\ (g[z].at <= z => z < g[z].at) /\ (g[z].at > z => ReadBacks(list, g[z].list, Len(list)))
  BY <1>8 DEF ListBack, ListStates, Places
<1>10. g[z].at > z
  <2> DEFINE a == g[z].at
  <2>1. a \in Nat /\ (a <= z => z < a)
    BY <1>9
  <2> HIDE DEF a, z
  <2>2. a > z
    BY <1>1, <2>1, SMT
  <2> QED BY <2>2 DEF a
<1> QED BY <1>2, <1>9, <1>10

-----------------------------------------------------------------------------
(* What is read could have been written.                                   *)

\* The elements of a part of a text.
LEMMA PartIs ==
  ASSUME NEW s \in TokenSeqs, NEW i \in Places, NEW j \in Int, i <= j + 1, j <= Len(s)
  PROVE  LET v == SubSeq(s, i, j)
         IN  v \in TokenSeqs /\ Len(v) = (j + 1) - i /\ \A m \in 1..Len(v) : v[m] = s[(i + m) - 1] /\ (i + m) - 1 \in i..j
<1>1. Len(s) \in Nat /\ \A k \in 1..Len(s) : s[k] \in Tokens
  BY TextOf
<1>2. i \in Int /\ \A k \in i..j : k \in 1..Len(s)
  BY <1>1, SMT DEF Places
<1> DEFINE v == SubSeq(s, i, j)
<1>3. /\ v \in Seq(Tokens)
      /\ Len(v) = IF i <= j THEN j - i + 1 ELSE 0
      /\ \A m \in 1..Len(v) : v[m] = s[i + m - 1]
  BY <1>1, <1>2, SubSeqProperties DEF TokenSeqs
<1> HIDE DEF v
<1>4. Len(v) = (j + 1) - i
  BY <1>2, <1>3, SMT
<1>5. \A m \in 1..Len(v) : (i + m) - 1 \in i..j
  BY <1>2, <1>4, SMT
<1> QED BY <1>3, <1>4, <1>5 DEF TokenSeqs, v

Read(v) == v = None \/ PlainValue(v) \/ QuotedValue(v)

\* A value in quotes.
LEMMA QuotedRead ==
  ASSUME NEW s \in TokenSeqs, NEW n \in Places, n < Len(s), s[n + 1] = Quote,
         NEW end, end = findOneOf(s, {Quote}, n + 2) + 1, end <= Len(s) + 1
  PROVE  n < end /\ QuotedValue(mid(s, n + 1, end)) /\ mid(s, n + 1, end) # None
<1> DEFINE q == findOneOf(s, {Quote}, n + 2)
           v == SubSeq(s, n + 1, q)
           z == Len(s)
<1>1. z \in Nat /\ n + 2 \in Places /\ n + 1 \in Places /\ n + 2 <= z + 1
  <2>1. z \in Nat
    BY TextOf
  <2> QED BY <2>1, SMT DEF Places
<1>2. /\ q \in Places /\ q <= z + 1 /\ n + 2 <= q
      /\ q <= z => s[q] \in {Quote}
      /\ \A k \in (n + 2)..(q - 1) : s[k] \notin {Quote}
  BY <1>1, FindGives
<1> HIDE DEF q, z
<1>3. q <= z /\ ~(n + 1 > z) /\ (IF end > z THEN z ELSE end - 1) = q /\ q \in Int /\ n + 1 <= q + 1 /\ n < end
  <2>1. end = q + 1 /\ end <= z + 1 /\ n < z
    BY DEF q, z
  <2> QED BY <1>1, <1>2, <2>1, SMT DEF Places
<1>4. mid(s, n + 1, end) = v
  BY <1>3 DEF mid, z
<1>5. v \in TokenSeqs /\ Len(v) = (q + 1) - (n + 1) /\ \A m \in 1..Len(v) : v[m] = s[((n + 1) + m) - 1]
  <2> DEFINE i == n + 1
  <2>1. i \in Places /\ q \in Int /\ i <= q + 1 /\ q <= Len(s) /\ v = SubSeq(s, i, q)
    BY <1>1, <1>3 DEF z
  <2> HIDE DEF i, v
  <2>2. v \in TokenSeqs /\ Len(v) = (q + 1) - i /\ \A m \in 1..Len(v) : v[m] = s[(i + m) - 1]
    BY <2>1, PartIs
  <2> QED BY <2>2 DEF i
<1> HIDE DEF v
<1>6. /\ Len(v) > 1 /\ 1 \in 1..Len(v) /\ Len(v) \in 1..Len(v)
      /\ ((n + 1) + 1) - 1 = n + 1 /\ ((n + 1) + Len(v)) - 1 = q
  <2> DEFINE l == Len(v)
  <2>1. l = (q + 1) - (n + 1)
    BY <1>5
  <2> HIDE DEF l
  <2>2. l > 1 /\ 1 \in 1..l /\ l \in 1..l /\ ((n + 1) + 1) - 1 = n + 1 /\ ((n + 1) + l) - 1 = q
    BY <1>1, <1>2, <2>1, SMT DEF Places
  <2> QED BY <2>2 DEF l
<1>7. v[1] = Quote /\ v[Len(v)] = Quote
  BY <1>2, <1>3, <1>5, <1>6
<1>8. ASSUME NEW m \in 2..(Len(v) - 1) PROVE v[m] # Quote
  <2> DEFINE l == Len(v)
  <2>1. l = (q + 1) - (n + 1) /\ m \in 2..(l - 1)
    BY <1>5
  <2> HIDE DEF l
  <2>2. m \in 1..l /\ ((n + 1) + m) - 1 \in (n + 2)..(q - 1)
    BY <1>1, <1>2, <2>1, SMT DEF Places
  <2> QED BY <1>2, <1>5, <2>2 DEF l
<1> QED BY <1>3, <1>4, <1>5, <1>6, <1>7, <1>8, NoneIsNoText DEF QuotedValue

\* One without, or none behind a `=' at the end.
LEMMA PlainRead ==
  ASSUME NEW s \in TokenSeqs, NEW n \in Places, n <= Len(s), s[n] = Equal, ~(n < Len(s) /\ s[n + 1] = Quote),
         NEW end, end = findOneOf(s, {Comma, Semi}, n + 1)
  PROVE  n < end /\ Read(mid(s, n + 1, end)) /\ (~EndsInEqual(s) => mid(s, n + 1, end) # None)
<1> DEFINE z == Len(s)
<1>1. z \in Nat /\ n + 1 \in Places /\ n + 1 <= z + 1
  <2>1. z \in Nat
    BY TextOf
  <2> QED BY <2>1, SMT DEF Places
<1>2. /\ end \in Places /\ end <= z + 1 /\ n + 1 <= end
      /\ \A k \in (n + 1)..(end - 1) : s[k] \notin {Comma, Semi}
  BY <1>1, FindGives
<1>3. n < end
  BY <1>2, SMT DEF Places
<1>4. CASE n + 1 > z
  <2>1. mid(s, n + 1, end) = None
    BY <1>4 DEF mid
  <2>2. n = z /\ z # 0
    BY <1>1, <1>4, SMT DEF Places
  <2>3. s # <<>>
    BY <2>2, EmptyIsSeq
  <2>4. EndsInEqual(s)
    BY <2>2, <2>3 DEF EndsInEqual
  <2> QED BY <1>3, <2>1, <2>4 DEF Read
<1>5. CASE ~(n + 1 > z)
  <2> DEFINE v == SubSeq(s, n + 1, end - 1)
  <2> HIDE DEF z
  <2>1. (IF end > z THEN z ELSE end - 1) = end - 1 /\ end - 1 \in Int /\ n + 1 <= (end - 1) + 1 /\ end - 1 <= z /\ n < z
    BY <1>1, <1>2, <1>5, SMT DEF Places
  <2>2. mid(s, n + 1, end) = v
    BY <1>5, <2>1 DEF mid, z
  <2>3. v \in TokenSeqs /\ \A m \in 1..Len(v) : v[m] = s[((n + 1) + m) - 1] /\ ((n + 1) + m) - 1 \in (n + 1)..(end - 1)
    BY <1>1, <2>1, PartIs DEF z
  <2> HIDE DEF v
  <2>4. Without(v, {Comma, Semi})
    BY <1>2, <2>3 DEF Without
  <2>5. Len(v) > 0 => v[1] # Quote
    <3>1. ((n + 1) + 1) - 1 = n + 1
      BY <1>1, SMT DEF Places
    <3>2. Len(v) > 0 => 1 \in 1..Len(v)
      BY <2>3, TextOf, SMT
    <3> QED BY <2>1, <2>3, <3>1, <3>2 DEF z
  <2> QED BY <1>3, <2>2, <2>3, <2>4, <2>5, NoneIsNoText DEF Read, PlainValue
<1> QED BY <1>4, <1>5

\* An argument that is read is one that the code can have read; with a value, if
\* there was one before it.
LEMMA ReadProper ==
  ASSUME NEW s \in TokenSeqs, NEW i \in Places, i <= Len(s), NEW tval, Read(tval), tval \in Values,
         NEW a, a = ReadArg(s, i, tval), a.name # <<>>, a.end <= Len(s) + 1
  PROVE  /\ ProperArg([name |-> a.name, value |-> a.value]) /\ Read(a.value)
         /\ ~EndsInEqual(s) /\ tval # None => a.value # None
<1> DEFINE n == findOneOf(s, {Comma, Semi, Equal}, i)
           end == IF n <= Len(s) /\ s[n] = Equal THEN ValueEnd(s, n) ELSE n
           z == Len(s)
<1>1. z \in Nat /\ i <= z + 1
  <2>1. z \in Nat
    BY TextOf
  <2> QED BY <2>1, SMT DEF Places
<1>2. /\ n \in Places /\ n <= z + 1 /\ i <= n
      /\ \A k \in i..(n - 1) : s[k] \notin {Comma, Semi, Equal}
  BY <1>1, FindGives
<1>3. a = [name |-> SubSeq(s, i, n - 1), value |-> IF n < end THEN mid(s, n + 1, end) ELSE tval, end |-> end]
  BY Zenon DEF ReadArg, ArgNamed, Arg
<1> HIDE DEF n, end
<1>4. a.name = SubSeq(s, i, n - 1) /\ a.end = end /\ a.value = IF n < end THEN mid(s, n + 1, end) ELSE tval
  BY ONLY <1>3
<1>5. /\ a.name \in TokenSeqs /\ Len(a.name) \in Nat
      /\ \A m \in 1..Len(a.name) : a.name[m] \notin {Comma, Semi, Equal}
  <2>1. n - 1 \in Int /\ i <= (n - 1) + 1 /\ n - 1 <= z
    <3> HIDE DEF z
    <3> QED BY <1>1, <1>2, SMT DEF Places
  <2> DEFINE v == SubSeq(s, i, n - 1)
  <2>2. v \in TokenSeqs /\ \A m \in 1..Len(v) : v[m] = s[(i + m) - 1] /\ (i + m) - 1 \in i..(n - 1)
    BY <2>1, PartIs
  <2> HIDE DEF v
  <2>3. Len(v) \in Nat /\ \A m \in 1..Len(v) : v[m] \notin {Comma, Semi, Equal}
    BY <1>2, <2>2, TextOf
  <2> QED BY <1>4, <2>2, <2>3 DEF v
<1>6. Len(a.name) > 0 /\ Without(a.name, {Comma, Semi, Equal})
  <2>1. Len(a.name) # 0
    BY <1>5, EmptySeq DEF TokenSeqs
  <2> QED BY <1>5, <2>1, SMT DEF Without
<1>7. Read(a.value) /\ (~EndsInEqual(s) /\ tval # None => a.value # None)
  <2>1. CASE n <= z /\ s[n] = Equal
    <3>1. end = ValueEnd(s, n) /\ end <= z + 1
      BY <1>4, <2>1 DEF end
    <3>2. CASE n < z /\ s[n + 1] = Quote
      <4>1. end = findOneOf(s, {Quote}, n + 2) + 1
        BY <3>1, <3>2 DEF ValueEnd
      <4>2. n < end /\ QuotedValue(mid(s, n + 1, end)) /\ mid(s, n + 1, end) # None
        BY <1>2, <3>1, <3>2, <4>1, QuotedRead
      <4> QED BY <1>4, <4>2 DEF Read
    <3>3. CASE ~(n < z /\ s[n + 1] = Quote)
      <4>1. end = findOneOf(s, {Comma, Semi}, n + 1)
        BY <3>1, <3>3 DEF ValueEnd
      <4>2. n < end /\ Read(mid(s, n + 1, end)) /\ (~EndsInEqual(s) => mid(s, n + 1, end) # None)
        BY <1>2, <2>1, <3>3, <4>1, PlainRead
      <4> QED BY <1>4, <4>2
    <3> QED BY <3>2, <3>3
  <2>2. CASE ~(n <= z /\ s[n] = Equal)
    <3>1. ~(n < end)
      <4>1. end = n
        BY <2>2 DEF end
      <4> QED BY <1>2, <4>1, SMT DEF Places
    <3> QED BY <1>4, <3>1
  <2> QED BY <2>1, <2>2
<1> DEFINE w == [name |-> a.name, value |-> a.value]
<1>8. w \in Arguments
  <2>1. a.value \in Values
    BY <1>7 DEF Read, PlainValue, QuotedValue, Values
  <2> QED BY <1>5, <2>1 DEF Arguments
<1>9. w.name = a.name /\ w.value = a.value
  OBVIOUS
<1> HIDE DEF w
<1>10. ProperArg(w)
  BY <1>6, <1>7, <1>8, <1>9 DEF ProperArg, Read
<1> QED BY <1>7, <1>10 DEF w

\* Behind an argument with a value there is none without.
NoneFirst(args) == \A i, j \in 1..Len(args) : i < j /\ args[i].value # None => args[j].value # None

\* The arguments that the loop has read, and the last value.
ProperSoFar(s, r) ==
  /\ r \in ArgStates /\ Read(r.tval) /\ \A i \in 1..Len(r.args) : ProperArg(r.args[i])
  /\ ~EndsInEqual(s) => NoneFirst(r.args) /\ \A i \in 1..Len(r.args) : r.args[i].value # None => r.tval # None

\* One more.
LEMMA NoneFirstMore ==
  ASSUME NEW args \in Seq(Arguments), NEW w \in Arguments, NEW b \in BOOLEAN,
         NoneFirst(args), \A i \in 1..Len(args) : args[i].value # None => b, b => w.value # None
  PROVE  /\ NoneFirst(Append(args, w))
         /\ \A i \in 1..Len(Append(args, w)) : Append(args, w)[i].value # None => w.value # None
<1> DEFINE x == Append(args, w)
           n == Len(args)
<1>1. Len(x) = n + 1 /\ (\A i \in 1..n : x[i] = args[i]) /\ x[n + 1] = w /\ n \in Nat
  BY AppendProperties, LenProperties
<1> HIDE DEF x, n
<1>2. \A i \in 1..(n + 1) : i \in 1..n \/ i = n + 1
  BY <1>1, SMT
<1>3. ASSUME NEW i \in 1..(n + 1), x[i].value # None PROVE w.value # None
  BY <1>1, <1>2, <1>3 DEF n
<1>4. ASSUME NEW i \in 1..(n + 1), NEW j \in 1..(n + 1), i < j, x[i].value # None PROVE x[j].value # None
  <2>1. CASE j = n + 1
    BY <1>1, <1>3, <1>4, <2>1
  <2>2. CASE j # n + 1
    <3>1. i \in 1..n /\ j \in 1..n
      BY <1>1, <1>4, <2>2, SMT
    <3> QED BY <1>1, <1>4, <3>1 DEF NoneFirst, n
  <2> QED BY <2>1, <2>2
<1> QED BY <1>1, <1>3, <1>4 DEF NoneFirst, x

\* A turn of the loop over the arguments.
LEMMA TakenProper ==
  ASSUME NEW s \in TokenSeqs, NEW r, ProperSoFar(s, r)
  PROVE  ProperSoFar(s, ArgTurn(s, r))
<1> DEFINE i == r.at
           a == ReadArg(s, r.at, r.tval)
           x == TakeArg(s, r, a)
           z == Len(s)
<1>1. r \in ArgStates /\ i \in Places /\ r.args \in Seq(Arguments) /\ r.tval \in Values /\ Read(r.tval)
      /\ \A m \in 1..Len(r.args) : ProperArg(r.args[m])
  BY DEF ProperSoFar, ArgStates
<1>2. z \in Nat
  BY TextOf
<1>3. x \in ArgStates
  BY <1>1, ArgumentTaken
<1>4. CASE r.last \/ r.at > z
  BY <1>4 DEF ArgTurn
<1>5. CASE ~(r.last \/ r.at > z)
  <2>1. ArgTurn(s, r) = x /\ i <= z
    <3>1. i <= z
      BY <1>1, <1>2, <1>5, SMT DEF Places
    <3> QED BY <1>5, <3>1 DEF ArgTurn
  <2> HIDE DEF a, i
  <2>2. CASE a.name = <<>> \/ a.end > z + 1 \/ (a.end <= z /\ s[a.end] \notin {Comma, Semi})
    <3>1. x = [r EXCEPT !.ok = FALSE, !.last = TRUE]
      BY <2>2 DEF TakeArg
    <3>2. x.args = r.args /\ x.tval = r.tval
      BY <1>1, <3>1 DEF ArgStates
    <3> HIDE DEF x
    <3> QED BY <1>3, <2>1, <3>2 DEF ProperSoFar
  <2>3. CASE ~(a.name = <<>> \/ a.end > z + 1 \/ (a.end <= z /\ s[a.end] \notin {Comma, Semi}))
    <3> DEFINE w == [name |-> a.name, value |-> a.value]
               l == (a.end > z \/ s[a.end] = Comma)
    <3>1. x = [ok |-> TRUE, args |-> Append(r.args, w), tval |-> a.value, at |-> a.end + 1, last |-> l]
      BY <2>3 DEF TakeArg
    <3>2. a.name # <<>> /\ a.end <= z + 1
      <4>1. a.end \in Places
        <5> DEFINE n == findOneOf(s, {Comma, Semi, Equal}, i)
                   end == IF n <= Len(s) /\ s[n] = Equal THEN ValueEnd(s, n) ELSE n
        <5>1. n \in Places
          BY <1>1, PlaceFound
        <5>2. ValueEnd(s, n) \in Places
          <6>1. n + 2 \in Places /\ n + 1 \in Places
            <7> HIDE DEF n
            <7> QED BY <5>1, SMT DEF Places
          <6>2. findOneOf(s, {Quote}, n + 2) \in Places /\ findOneOf(s, {Comma, Semi}, n + 1) \in Places
            BY <6>1, PlaceFound
          <6> QED BY <6>2, SMT DEF ValueEnd, Places
        <5>3. end \in Places
          BY <5>1, <5>2
        <5>4. a.end = end
          BY Zenon DEF ReadArg, ArgNamed, Arg, a, i
        <5> QED BY <5>3, <5>4
      <4> DEFINE e == a.end
      <4>2. ~(e > z + 1) /\ e \in Places
        BY <2>3, <4>1
      <4> HIDE DEF e, z
      <4>3. e <= z + 1
        BY <1>2, <4>2, SMT DEF Places
      <4> QED BY <2>3, <4>3 DEF e
    <3>3. /\ ProperArg(w) /\ Read(a.value)
          /\ ~EndsInEqual(s) /\ r.tval # None => a.value # None
      <4> DEFINE t == r.tval
      <4>1. i \in Places /\ i <= Len(s) /\ t \in Values /\ Read(t) /\ a = ReadArg(s, i, t)
        BY <1>1, <2>1 DEF a, i
      <4> HIDE DEF t
      <4>2. a.name # <<>> /\ a.end <= Len(s) + 1
        BY <3>2
      <4>3. /\ ProperArg([name |-> a.name, value |-> a.value]) /\ Read(a.value)
            /\ ~EndsInEqual(s) /\ t # None => a.value # None
        BY <4>1, <4>2, ReadProper
      <4> QED BY <4>3 DEF t
    <3>4. w \in Arguments /\ w.value = a.value
      BY <3>3 DEF ProperArg
    <3> HIDE DEF l
    <3>5. x.args = Append(r.args, w) /\ x.tval = a.value
      BY <3>1
    <3> HIDE DEF x, w
    <3>6. \A m \in 1..Len(x.args) : ProperArg(x.args[m])
      <4> DEFINE n == Len(r.args)
                 y == Append(r.args, w)
      <4>1. Len(y) = n + 1 /\ (\A m \in 1..n : y[m] = r.args[m]) /\ y[n + 1] = w /\ n \in Nat
        BY <1>1, <3>4, AppendProperties, LenProperties
      <4>2. \A m \in 1..(n + 1) : m \in 1..n \/ m = n + 1
        <5> HIDE DEF n
        <5> QED BY <4>1, SMT
      <4> HIDE DEF y
      <4>3. \A m \in 1..(n + 1) : ProperArg(y[m])
        BY <1>1, <3>3, <4>1, <4>2
      <4> QED BY <3>5, <4>1, <4>3 DEF y
    <3>7. ~EndsInEqual(s) => NoneFirst(x.args) /\ \A m \in 1..Len(x.args) : x.args[m].value # None => x.tval # None
      <4> SUFFICES ASSUME ~EndsInEqual(s)
                   PROVE  NoneFirst(x.args) /\ \A m \in 1..Len(x.args) : x.args[m].value # None => x.tval # None
        OBVIOUS
      <4> DEFINE b == (r.tval # None)
                 args == r.args
      <4>1. /\ args \in Seq(Arguments) /\ b \in BOOLEAN /\ NoneFirst(args)
            /\ \A m \in 1..Len(args) : args[m].value # None => b
            /\ b => w.value # None
        BY <1>1, <3>3, <3>4 DEF ProperSoFar
      <4> HIDE DEF b, args
      <4>2. NoneFirst(Append(args, w))
            /\ \A m \in 1..Len(Append(args, w)) : Append(args, w)[m].value # None => w.value # None
        BY <3>4, <4>1, NoneFirstMore
      <4> QED BY <3>4, <3>5, <4>2 DEF args
    <3> QED BY <1>3, <2>1, <3>3, <3>5, <3>6, <3>7 DEF ProperSoFar
  <2> QED BY <2>2, <2>3
<1> QED BY <1>4, <1>5

\* That loop.
LEMMA ReadArgsProper ==
  ASSUME NEW s \in TokenSeqs, NEW start \in Places
  PROVE  ProperSoFar(s, ReadArgs(s, start))
<1>1. Len(s) \in Nat /\ 0 \in Nat
  BY TextOf
<1>2. PICK g : ArgLoop(s, start, g) /\ ReadArgs(s, start) = g[Len(s)]
  BY ArgumentTurns
<1>3. g \in [Nat -> ArgStates] /\ g[0] = ArgStart(start)
      /\ \A j \in Nat : j < Len(s) => g[j + 1] = ArgTurn(s, g[j])
  BY <1>2 DEF ArgLoop
<1> DEFINE T == {j \in Nat : j <= Len(s) => ProperSoFar(s, g[j])}
<1>4. ProperSoFar(s, g[0])
  <2>1. g[0] \in ArgStates
    BY <1>1, <1>3
  <2>2. g[0].args = <<>> /\ g[0].tval = None
    <3> DEFINE r == ArgStart(start)
    <3>1. r.args = <<>> /\ r.tval = None
      BY DEF ArgStart
    <3>2. g[0] = r
      BY <1>3
    <3> HIDE DEF r
    <3> QED BY <3>1, <3>2
  <2>3. Len(<<>>) = 0 /\ \A i \in 1..0 : FALSE
    BY EmptyIsSeq, SMT
  <2> QED BY <2>1, <2>2, <2>3 DEF ProperSoFar, Read, NoneFirst
<1>5. \A j \in Nat : j \in T => j + 1 \in T
  <2> SUFFICES ASSUME NEW j \in Nat, j <= Len(s) => ProperSoFar(s, g[j]), j + 1 <= Len(s) PROVE ProperSoFar(s, g[j + 1])
    OBVIOUS
  <2>1. j <= Len(s) /\ j < Len(s)
    BY <1>1, SMT
  <2>2. g[j + 1] = ArgTurn(s, g[j])
    BY <1>3, <2>1
  <2> QED BY <2>1, <2>2, TakenProper
<1>6. T \in SUBSET Nat /\ 0 \in T
  BY <1>4
<1> HIDE DEF T
<1>7. Len(s) \in T
  BY <1>1, <1>5, <1>6, InductionOnSet
<1>8. Len(s) <= Len(s)
  BY <1>1, SMT
<1> QED BY <1>2, <1>7, <1>8 DEF T

\* A transport that is read of a text.
Tidy(s, t) == ProperTransport(t) /\ (~EndsInEqual(s) => NoneFirst(t.args))

\* readFromString() of any text.
LEMMA TransportReadProper ==
  ASSUME NEW s \in TokenSeqs, NEW start \in Places, start <= Len(s),
         NEW r, r = readFromString(s, start), r.ok
  PROVE  Tidy(s, r.transport)
<1> DEFINE n == findOneOf(s, {Comma, Semi}, start)
           args == IF n <= Len(s) /\ s[n] = Semi THEN ReadArgs(s, n + 1)
                   ELSE [ok |-> TRUE, args |-> <<>>, at |-> n + 1]
           z == Len(s)
           v == SubSeq(s, start, n - 1)
<1>1. z \in Nat /\ start <= z + 1
  <2>1. z \in Nat
    BY TextOf
  <2> QED BY <2>1, SMT DEF Places
<1>2. n \in Places /\ n <= z + 1 /\ start <= n /\ \A k \in start..(n - 1) : s[k] \notin {Comma, Semi}
  BY <1>1, FindGives
<1>3. r = [ok |-> n > start /\ args.ok, at |-> args.at, transport |-> [name |-> v, args |-> args.args]]
  BY Zenon DEF readFromString, ReadTransport, TransportNamed
<1> HIDE DEF n, z
<1>4. n + 1 \in Places /\ n - 1 \in Int /\ start <= (n - 1) + 1 /\ n - 1 <= z
  BY <1>1, <1>2, SMT DEF Places
<1>5. /\ args.args \in Seq(Arguments) /\ (\A i \in 1..Len(args.args) : ProperArg(args.args[i]))
      /\ ~EndsInEqual(s) => NoneFirst(args.args)
  <2> DEFINE x == ReadArgs(s, n + 1)
  <2>1. ProperSoFar(s, x)
    BY <1>4, ReadArgsProper
  <2> HIDE DEF x
  <2>2. /\ x.args \in Seq(Arguments) /\ (\A i \in 1..Len(x.args) : ProperArg(x.args[i]))
        /\ ~EndsInEqual(s) => NoneFirst(x.args)
    BY <2>1 DEF ProperSoFar, ArgStates
  <2>3. <<>> \in Seq(Arguments) /\ Len(<<>>) = 0 /\ \A i \in 1..0 : FALSE
    BY EmptyIsSeq, EmptySeq, SMT
  <2>4. NoneFirst(<<>>) /\ \A i \in 1..Len(<<>>) : FALSE
    BY <2>3 DEF NoneFirst
  <2>5. args.args = x.args \/ args.args = <<>>
    BY DEF x
  <2> HIDE DEF args
  <2> QED BY <2>2, <2>3, <2>4, <2>5
<1>6. v \in TokenSeqs /\ Len(v) = ((n - 1) + 1) - start /\ \A m \in 1..Len(v) : v[m] = s[(start + m) - 1] /\ (start + m) - 1 \in start..(n - 1)
  BY <1>4, PartIs DEF z
<1> HIDE DEF v
<1>7. Without(v, {Comma, Semi})
  BY <1>2, <1>6 DEF Without
<1> DEFINE ok == (n > start /\ args.ok)
           t == [name |-> v, args |-> args.args]
<1>8. r.ok = ok
  BY ONLY <1>3
<1>9. r.transport = t
  BY ONLY <1>3
<1>10. n > start
  BY <1>8
<1>11. Len(v) > 0
  <2> DEFINE l == Len(v)
  <2>1. l = ((n - 1) + 1) - start
    BY <1>6
  <2> HIDE DEF l
  <2>2. l > 0
    BY <1>2, <1>10, <2>1, SMT DEF Places
  <2> QED BY <2>2 DEF l
<1> HIDE DEF args, ok
<1>12. t \in Transports /\ t.name = v /\ t.args = args.args
  BY <1>5, <1>6 DEF Transports
<1> HIDE DEF t
<1>13. Tidy(s, t)
  BY <1>5, <1>7, <1>11, <1>12 DEF Tidy, ProperTransport
<1> QED BY <1>9, <1>13

\* Packet::transports().
LEMMA TransportsProper ==
  ASSUME NEW s \in TokenSeqs
  PROVE  transports(s) \in Seq(Transports) /\ \A i \in 1..Len(transports(s)) : Tidy(s, transports(s)[i])
<1>1. Len(s) \in Nat /\ 0 \in Nat
  BY TextOf
<1>2. PICK g : ListLoop(s, g) /\ transports(s) = g[Len(s)].list
  BY TransportTurns
<1>3. /\ g \in [Nat -> ListStates] /\ g[0] = ListStart
      /\ \A k \in Nat : k < Len(s) => g[k + 1] = ListTurn(s, g[k])
  BY <1>2 DEF ListLoop
<1> DEFINE AllTidy(list) == list \in Seq(Transports) /\ \A i \in 1..Len(list) : Tidy(s, list[i])
           T == {j \in Nat : j <= Len(s) => AllTidy(g[j].list)}
<1>4. AllTidy(g[0].list)
  <2>1. g[0].list = <<>>
    BY <1>3 DEF ListStart
  <2>2. <<>> \in Seq(Transports) /\ Len(<<>>) = 0 /\ \A i \in 1..0 : FALSE
    BY EmptyIsSeq, EmptySeq, SMT
  <2> QED BY <2>1, <2>2
<1>5. \A j \in Nat : j \in T => j + 1 \in T
  <2> SUFFICES ASSUME NEW j \in Nat, j <= Len(s) => AllTidy(g[j].list), j + 1 <= Len(s)
               PROVE  AllTidy(g[j + 1].list)
    OBVIOUS
  <2>1. j <= Len(s) /\ j < Len(s)
    BY <1>1, SMT
  <2> DEFINE acc == g[j]
             r == readFromString(s, acc.at)
             x == ListTurn(s, acc)
  <2>2. g[j + 1] = x /\ acc \in ListStates /\ AllTidy(acc.list)
    BY <1>3, <2>1
  <2>3. acc.at \in Places /\ acc.list \in Seq(Transports)
    BY <2>2 DEF ListStates
  <2> HIDE DEF acc
  <2>4. CASE acc.at > Len(s)
    <3>1. x = acc
      BY <2>4 DEF ListTurn
    <3> QED BY <2>2, <3>1
  <2>5. CASE ~(acc.at > Len(s)) /\ ~r.ok
    <3>1. x = [acc EXCEPT !.at = Len(s) + 1]
      BY <2>5 DEF ListTurn, TakeTransport
    <3>2. x.list = acc.list
      BY <2>2, <3>1 DEF ListStates
    <3> QED BY <2>2, <3>2
  <2>6. CASE ~(acc.at > Len(s)) /\ r.ok
    <3> DEFINE b == r.transport
               y == Append(acc.list, b)
               n == Len(acc.list)
    <3>1. acc.at <= Len(s)
      BY <1>1, <2>3, <2>6, SMT DEF Places
    <3>2. Tidy(s, b)
      BY <2>3, <2>6, <3>1, TransportReadProper
    <3>3. x = [list |-> y, at |-> r.at]
      BY <2>6 DEF ListTurn, TakeTransport
    <3>4. x.list = y
      BY <3>3
    <3>5. b \in Transports
      BY <3>2 DEF Tidy, ProperTransport
    <3> HIDE DEF b, x, r
    <3>6. y \in Seq(Transports) /\ Len(y) = n + 1 /\ (\A m \in 1..n : y[m] = acc.list[m]) /\ y[n + 1] = b /\ n \in Nat
      BY <2>3, <3>5, AppendProperties, LenProperties
    <3>7. \A m \in 1..(n + 1) : m \in 1..n \/ m = n + 1
      <4> HIDE DEF n
      <4> QED BY <3>6, SMT
    <3> HIDE DEF y
    <3>8. \A m \in 1..(n + 1) : Tidy(s, y[m])
      BY <2>2, <3>2, <3>6, <3>7
    <3>9. AllTidy(y)
      BY <3>6, <3>8
    <3> QED BY <2>2, <3>4, <3>9
  <2> QED BY <2>4, <2>5, <2>6
<1>6. T \in SUBSET Nat /\ 0 \in T
  BY <1>4
<1> HIDE DEF T
<1>7. Len(s) \in T
  BY <1>1, <1>5, <1>6, InductionOnSet
<1>8. Len(s) <= Len(s)
  BY <1>1, SMT
<1> QED BY <1>2, <1>7, <1>8 DEF T

-----------------------------------------------------------------------------
(* The first argument with a name.                                         *)

\* The first argument of a transport with a name has index k.
FirstNamed(t, name, k) ==
  /\ k \in 1..Len(t.args) /\ t.args[k].name = <<Word(name)>>
  /\ \A i \in 1..Len(t.args) : t.args[i].name = <<Word(name)>> => k <= i

NoneNamed(t, name) == \A i \in 1..Len(t.args) : t.args[i].name # <<Word(name)>>

\* A transport with another value of the argument with index k.
SetAt(t, k, value, u) ==
  /\ u \in Transports /\ u.name = t.name /\ Len(u.args) = Len(t.args)
  /\ u.args[k].name = t.args[k].name /\ u.args[k].value = value
  /\ \A i \in 1..Len(t.args) : i # k => u.args[i] = t.args[i]

\* There is one, or none.
LEMMA ArgumentNamed ==
  ASSUME NEW t \in Transports, NEW name
  PROVE  \/ NoneNamed(t, name) /\ argument(t, name) = None
         \/ \E k \in 1..Len(t.args) : FirstNamed(t, name, k)
<1> DEFINE P == {i \in DOMAIN t.args : t.args[i].name = <<Word(name)>>}
<1>1. t.args \in Seq(Arguments) /\ P \in SUBSET DOMAIN t.args /\ DOMAIN t.args = 1..Len(t.args) /\ Len(t.args) \in Nat
  BY LenProperties DEF Transports
<1>2. argument(t, name) = IF P = {} THEN None ELSE t.args[Min(P)].value
  BY Zenon DEF argument
<1>3. CASE P = {}
  BY <1>1, <1>2, <1>3 DEF NoneNamed
<1>4. CASE P # {}
  <2>1. P \in SUBSET Nat
    BY <1>1, SMT
  <2>2. Min(P) \in P /\ \A i \in P : Min(P) <= i
    BY <1>4, <2>1, MinIsLeast
  <2>3. FirstNamed(t, name, Min(P))
    <3> DEFINE k == Min(P)
    <3> HIDE DEF k
    <3>1. k \in P /\ \A i \in P : k <= i
      BY <2>2 DEF k
    <3>2. FirstNamed(t, name, k)
      BY <1>1, <3>1 DEF FirstNamed
    <3> QED BY <3>2 DEF k
  <2> QED BY <2>3 DEF FirstNamed
<1> QED BY <1>3, <1>4

\* argument() and setArgument() are about the first.
LEMMA FirstArgument ==
  ASSUME NEW t \in Transports, NEW name, NEW k, FirstNamed(t, name, k)
  PROVE  /\ argument(t, name) = t.args[k].value /\ t.args[k] \in Arguments
         /\ \A value \in Values : SetAt(t, k, value, setArgument(t, name, value))
<1> DEFINE P == {i \in DOMAIN t.args : t.args[i].name = <<Word(name)>>}
<1>1. /\ t.args \in Seq(Arguments) /\ DOMAIN t.args = 1..Len(t.args) /\ Len(t.args) \in Nat /\ t.name \in TokenSeqs
      /\ \A i \in 1..Len(t.args) : t.args[i] \in Arguments
  BY LenProperties, ElementOfSeq DEF Transports
<1>2. argument(t, name) = IF P = {} THEN None ELSE t.args[Min(P)].value
  BY Zenon DEF argument
<1>3. \A value : setArgument(t, name, value) = IF P = {} THEN t ELSE [t EXCEPT !.args[Min(P)].value = value]
  BY Zenon DEF setArgument
<1>4. k \in P /\ \A i \in P : k <= i
  BY <1>1 DEF FirstNamed
<1>5. P \in SUBSET Nat
  BY <1>1, SMT
<1> HIDE DEF P
<1>6. Min(P) = k /\ P # {}
  BY <1>4, <1>5, MinIs
<1>7. k \in 1..Len(t.args) /\ t.args[k] \in Arguments
  BY <1>1 DEF FirstNamed
<1>8. ASSUME NEW value \in Values PROVE SetAt(t, k, value, setArgument(t, name, value))
  <2> DEFINE u == [t EXCEPT !.args = [t.args EXCEPT ![k] = [t.args[k] EXCEPT !.value = value]]]
             x == [t.args[k] EXCEPT !.value = value]
             new == [t.args EXCEPT ![k] = x]
  <2>1. setArgument(t, name, value) = [t EXCEPT !.args[k].value = value]
    BY <1>3, <1>6
  <2>2. [t EXCEPT !.args[k].value = value] = u
    BY <1>7 DEF Transports
  <2>3. x \in Arguments /\ x.name = t.args[k].name /\ x.value = value
    BY <1>7 DEF Arguments
  <2> HIDE DEF x
  <2>4. new \in Seq(Arguments) /\ Len(new) = Len(t.args) /\ new[k] = x /\ \A i \in 1..Len(t.args) : i # k => new[i] = t.args[i]
    BY <1>1, <1>7, <2>3, ExceptSeq
  <2>5. u = [t EXCEPT !.args = new]
    BY DEF x
  <2> HIDE DEF u, new
  <2>6. u \in Transports /\ u.name = t.name /\ u.args = new
    BY <1>1, <2>4, <2>5 DEF Transports
  <2> QED BY <2>1, <2>2, <2>3, <2>4, <2>6 DEF SetAt
<1> QED BY <1>2, <1>6, <1>7, <1>8

\* A range is written as a plain value.
LEMMA RangeIsPlain ==
  ASSUME NEW r \in Ranges, r.count > 0
  PROVE  LET v == ToText(r) IN PlainValue(v) /\ v \in TokenSeqs /\ v # None /\ v # <<>>
<1> DEFINE v == ToText(r)
<1>1. v = <<PortText(r)>>
  BY DEF ToText
<1>2. v \in TokenSeqs /\ v # None
  BY <1>1, ShortTexts, NoneIsNoText
<1>3. Len(v) = 1 /\ v[1] = PortText(r)
  BY <1>1
<1>4. PortText(r) # Comma /\ PortText(r) # Semi /\ PortText(r) # Quote
  BY DEF PortText, Comma, Semi, Quote, Word
<1> HIDE DEF v
<1>5. Without(v, {Comma, Semi})
  <2>1. \A i \in 1..1 : i = 1
    BY SMT
  <2> QED BY <1>3, <1>4, <2>1 DEF Without
<1>6. v # <<>>
  BY <1>3, EmptyIsSeq
<1> QED BY <1>2, <1>3, <1>4, <1>5, <1>6 DEF PlainValue, v

\* A transport with other ports is one that the code can have read.
LEMMA SetIsProper ==
  ASSUME NEW t, ProperTransport(t), NEW k \in 1..Len(t.args), NEW r \in Ranges, r.count > 0,
         NEW u, SetAt(t, k, ToText(r), u)
  PROVE  ProperTransport(u) /\ (NoneFirst(t.args) /\ t.args[k].value # None => NoneFirst(u.args))
<1> DEFINE v == ToText(r)
<1>2. v \in TokenSeqs /\ v # None
  BY RangeIsPlain
<1>3. PlainValue(v)
  BY RangeIsPlain
<1> HIDE DEF v
<1>4. /\ u \in Transports /\ u.name = t.name /\ Len(u.args) = Len(t.args)
      /\ u.args[k].name = t.args[k].name /\ u.args[k].value = v
      /\ \A i \in 1..Len(t.args) : i # k => u.args[i] = t.args[i]
  BY DEF SetAt, v
<1>5. /\ Len(t.name) > 0 /\ Without(t.name, {Comma, Semi})
      /\ \A i \in 1..Len(t.args) : ProperArg(t.args[i])
  BY DEF ProperTransport
<1>6. u.args[k] \in Arguments
  BY <1>4, ElementOfSeq DEF Transports
<1>7. ProperArg(u.args[k])
  BY <1>3, <1>4, <1>5, <1>6 DEF ProperArg
<1>8. \A i \in 1..Len(u.args) : ProperArg(u.args[i])
  BY <1>4, <1>5, <1>7
<1>9. ASSUME NoneFirst(t.args), t.args[k].value # None PROVE NoneFirst(u.args)
  <2>1. \A i \in 1..Len(t.args) : u.args[i].value # None => t.args[i].value # None
    BY <1>4, <1>9
  <2>2. \A i \in 1..Len(t.args) : t.args[i].value # None => u.args[i].value # None
    BY <1>2, <1>4
  <2> QED BY <1>4, <1>9, <2>1, <2>2 DEF NoneFirst
<1> QED BY <1>4, <1>5, <1>8, <1>9 DEF ProperTransport

\* What is read back of a transport has the same names.
LEMMA NamedBack ==
  ASSUME NEW t \in Transports, NEW b, ReadBack(t, b), NEW name
  PROVE  /\ NoneNamed(t, name) => NoneNamed(b, name)
         /\ \A k : FirstNamed(t, name, k) => FirstNamed(b, name, k)
<1>1. b \in Transports /\ Len(b.args) = Len(t.args) /\ \A i \in 1..Len(t.args) : b.args[i].name = t.args[i].name
  BY DEF ReadBack, Backs
<1> QED BY <1>1 DEF NoneNamed, FirstNamed

\* And the same value for one with a value that is not empty.
LEMMA ArgumentBack ==
  ASSUME NEW t \in Transports, NEW b, ReadBack(t, b), NEW name, argument(t, name) \notin {None, <<>>}
  PROVE  argument(b, name) = argument(t, name)
<1>1. PICK k \in 1..Len(t.args) : FirstNamed(t, name, k)
  BY ArgumentNamed
<1>2. argument(t, name) = t.args[k].value
  BY <1>1, FirstArgument
<1>3. FirstNamed(b, name, k) /\ b \in Transports
  BY <1>1, NamedBack DEF ReadBack
<1>4. argument(b, name) = b.args[k].value
  BY <1>3, FirstArgument
<1>5. b.args[k].value = t.args[k].value
  BY <1>2 DEF ReadBack, Backs
<1> QED BY <1>2, <1>4, <1>5

\* And the same ports, unless a value comes before one without.
LEMMA PortsBack ==
  ASSUME NEW t \in Transports, NEW b, ReadBack(t, b), NEW name, NoneFirst(t.args)
  PROVE  FromText(argument(b, name)) = FromText(argument(t, name))
<1>1. FromText(None) = None /\ FromText(<<>>) = None
  BY DEF FromText
<1>2. b \in Transports /\ Len(t.args) \in Nat
  BY LenProperties DEF ReadBack, Transports
<1>3. CASE NoneNamed(t, name)
  <2>1. NoneNamed(b, name)
    BY <1>3, NamedBack
  <2>2. \A u, k : NoneNamed(u, name) => ~FirstNamed(u, name, k)
    BY DEF NoneNamed, FirstNamed
  <2>3. argument(t, name) = None /\ argument(b, name) = None
    BY <1>2, <1>3, <2>1, <2>2, ArgumentNamed
  <2> QED BY <2>3
<1>4. CASE ~NoneNamed(t, name)
  <2>1. PICK k \in 1..Len(t.args) : FirstNamed(t, name, k)
    BY <1>4, ArgumentNamed
  <2>2. FirstNamed(b, name, k)
    BY <2>1, NamedBack
  <2>3. argument(t, name) = t.args[k].value /\ argument(b, name) = b.args[k].value
    BY <1>2, <2>1, <2>2, FirstArgument
  <2>4. \A i \in 1..Len(t.args) :
          /\ t.args[i].value # None => b.args[i].value = t.args[i].value \/ (t.args[i].value = <<>> /\ b.args[i].value = None)
          /\ t.args[i].value = None => b.args[i].value = IF i = 1 THEN None ELSE b.args[i - 1].value
    BY DEF ReadBack, Backs
  <2>5. CASE t.args[k].value # None
    BY <1>1, <2>1, <2>3, <2>4, <2>5
  <2>6. CASE t.args[k].value = None
    <3>1. \A i \in 1..Len(t.args) : i <= k => t.args[i].value = None
      <4>1. \A i \in 1..Len(t.args) : i <= k => i = k \/ i < k
        BY <2>1, SMT
      <4> QED BY <2>1, <2>6, <4>1 DEF NoneFirst
    <3> DEFINE T == {d \in Nat : d + 1 <= k => b.args[d + 1].value = None}
    <3>2. 0 \in T
      <4>1. 1 \in 1..Len(t.args) /\ 0 + 1 = 1 /\ 1 <= k
        BY <1>2, <2>1, SMT
      <4> QED BY <2>4, <3>1, <4>1
    <3>3. ASSUME NEW d \in Nat, d \in T PROVE d + 1 \in T
      <4> SUFFICES ASSUME (d + 1) + 1 <= k PROVE b.args[(d + 1) + 1].value = None
        OBVIOUS
      <4> DEFINE i == (d + 1) + 1
      <4>1. i \in 1..Len(t.args) /\ d + 1 <= k /\ i - 1 = d + 1 /\ i # 1
        BY <1>2, <2>1, SMT
      <4>2. b.args[d + 1].value = None /\ i <= k
        BY <3>3, <4>1
      <4> HIDE DEF i
      <4>3. b.args[i].value = None
        BY <2>4, <3>1, <4>1, <4>2
      <4> QED BY <4>3 DEF i
    <3>4. T \in SUBSET Nat
      OBVIOUS
    <3> HIDE DEF T
    <3>5. \A d \in Nat : d \in T
      BY <3>2, <3>3, <3>4, InductionOnSet
    <3>6. k - 1 \in Nat /\ (k - 1) + 1 = k /\ k <= k
      BY <1>2, <2>1, SMT
    <3>7. b.args[k].value = None
      <4>1. k - 1 \in T
        BY <3>5, <3>6
      <4>2. (k - 1) + 1 <= k => b.args[(k - 1) + 1].value = None
        BY <4>1 DEF T
      <4> QED BY <3>6, <4>2
    <3> QED BY <2>3, <2>6, <3>7
  <2> QED BY <2>5, <2>6
<1> QED BY <1>3, <1>4

\* A range is read as it is written.
LEMMA RangeBack ==
  ASSUME NEW r \in Ranges, r.count > 0
  PROVE  LET x == FromText(ToText(r))
         IN  /\ r.base > 0 => x = r
             /\ x = None \/ (x \in Ranges /\ x.base \in {0, r.base})
<1> DEFINE v == ToText(r)
           t == PortText(r)
           x == FromText(v)
<1>1. v = <<t>>
  BY DEF ToText
<1>2. t[1] = "range" /\ t[2] = r.base /\ t[3] = r.count /\ r.base \in Nat /\ r.count \in Nat
      /\ r = [base |-> r.base, count |-> r.count]
  BY DEF PortText, Ranges
<1>3. v \in TokenSeqs /\ Len(v) = 1 /\ v[1] = t
  BY <1>1, ShortTexts
<1>4. v \notin {None, <<>>}
  BY <1>3, NoneIsNoText, EmptyIsSeq
<1> HIDE DEF v, t
<1>5. x = IF Len(v) = 1 /\ t[1] = "range" /\ (t[3] > 1 => t[2] > 0) THEN [base |-> t[2], count |-> t[3]]
          ELSE IF {i \in DOMAIN v : v[i][1] = "range" /\ v[i][3] > 1} = {} THEN [base |-> 0, count |-> 1]
          ELSE None
  BY <1>3, <1>4, Zenon DEF FromText
<1>6. x \in {[base |-> r.base, count |-> r.count], [base |-> 0, count |-> 1], None}
  BY <1>2, <1>5
<1>7. [base |-> 0, count |-> 1] \in Ranges /\ [base |-> 0, count |-> 1].base = 0
  BY SMT DEF Ranges
<1>8. r.base > 0 => x = r
  BY <1>2, <1>3, <1>5
<1>9. x = r \/ x = [base |-> 0, count |-> 1] \/ x = None
  BY <1>2, <1>6
<1> HIDE DEF x
<1>10. x = None \/ (x \in Ranges /\ x.base \in {0, r.base})
  BY <1>7, <1>9
<1> QED BY <1>8, <1>10 DEF x, v

\* No two ranges have the same base.
Distinct(list) == \A i, j \in 1..Len(list) : i # j => list[i].base # list[j].base

\* findByBase() of the base of an element, when no other has it.
LEMMA BaseIs ==
  ASSUME NEW list \in Seq(Ranges), Distinct(list), NEW k \in 1..Len(list)
  PROVE  FindByBase(list, list[k].base) = k - 1
<1> DEFINE base == list[k].base
           P == {i \in DOMAIN list : list[i].base = base}
<1>1. Len(list) \in Nat /\ DOMAIN list = 1..Len(list)
  BY LenProperties
<1>2. k \in P /\ \A i \in P : i = k
  BY <1>1 DEF Distinct
<1>3. P # {} <=> \E i \in DOMAIN list : list[i].base = base
  OBVIOUS
<1>4. FindByBase(list, base) = IF \E i \in DOMAIN list : list[i].base = base THEN Min(P) - 1 ELSE -1
  BY Zenon DEF FindByBase
<1>5. P \in SUBSET Nat /\ \A i \in P : k <= i
  BY <1>1, <1>2, SMT
<1> HIDE DEF P
<1>6. Min(P) = k
  BY <1>2, <1>5, MinIs
<1> QED BY <1>2, <1>3, <1>4, <1>6

-----------------------------------------------------------------------------
(* Lists of ranges.                                                        *)

\* The element with an index, counted from 0.
LEMMA AtIndex ==
  ASSUME NEW list \in Seq(Ranges), NEW k \in 1..Len(list)
  PROVE  At(list, k - 1) = list[k]
<1> DEFINE n == Len(list)
<1>1. n \in Nat /\ k \in 1..n
  BY LenProperties
<1> HIDE DEF n
<1>2. (k - 1) % (n + 1) = k - 1 /\ k - 1 # n /\ (k - 1) + 1 = k
  BY <1>1, SMT
<1> QED BY <1>2 DEF At, n

\* The first one.
LEMMA AtFirst ==
  /\ At(<<>>, 0) = NoRange
  /\ \A r \in Ranges : At(<<r>>, 0) = r
<1>1. At(<<>>, 0) = NoRange
  <2>1. 0 % (0 + 1) = 0
    BY SMT
  <2> QED BY <2>1, EmptyIsSeq DEF At
<1>2. ASSUME NEW r \in Ranges PROVE At(<<r>>, 0) = r
  <2>1. Len(<<r>>) = 1 /\ <<r>>[1] = r
    OBVIOUS
  <2>2. 0 % (1 + 1) = 0 /\ 0 # 1 /\ 0 + 1 = 1
    BY SMT
  <2> QED BY <2>1, <2>2 DEF At
<1> QED BY <1>1, <1>2

LEMMA MaxOfTwo ==
  ASSUME NEW a \in Nat, NEW c \in Nat
  PROVE  Max({a, c}) \in Nat /\ Max({a, c}) >= a /\ Max({a, c}) >= c
<1>1. \E m \in {a, c} : \A i \in {a, c} : m >= i
  <2>1. a >= c \/ c >= a
    BY SMT
  <2>2. a >= a /\ c >= c
    BY SMT
  <2> QED BY <2>1, <2>2
<1>2. Max({a, c}) \in {a, c} /\ \A i \in {a, c} : Max({a, c}) >= i
  BY <1>1, Zenon DEF Max
<1> QED BY <1>2

\* What merge() makes of a list: no range is lost, the new one is covered.
Covers(list, r) == \E i \in 1..Len(list) : list[i].base = r.base /\ list[i].count >= r.count

\* merge() loses no range: each base is there once, and no count gets smaller.
LEMMA MergeCovers ==
  ASSUME NEW list \in Seq(Ranges), Distinct(list), NEW r \in Ranges
  PROVE  LET m == Merge(list, r)
         IN  /\ m \in Seq(Ranges) /\ Distinct(m) /\ Covers(m, r)
             /\ \A x \in Ranges : Covers(list, x) => Covers(m, x)
             /\ \A i \in 1..Len(m) : m[i].count >= r.count \/ \E j \in 1..Len(list) : m[i].count = list[j].count
<1> DEFINE P == {i \in DOMAIN list : list[i].base = r.base}
           k == Min(P)
           m == Merge(list, r)
           n == Len(list)
<1>1. /\ P \in SUBSET DOMAIN list /\ DOMAIN list = 1..n /\ n \in Nat /\ m \in Seq(Ranges)
      /\ \A i \in 1..n : list[i] \in Ranges
  BY LenProperties, ElementOfSeq, Merged
<1>2. m = IF P # {} THEN [list EXCEPT ![k].count = Max({list[k].count, r.count})] ELSE Append(list, r)
  <2>1. P # {} <=> \E i \in DOMAIN list : list[i].base = r.base
    OBVIOUS
  <2>2. m = IF \E i \in DOMAIN list : list[i].base = r.base
              THEN [list EXCEPT ![k].count = Max({list[k].count, r.count})] ELSE Append(list, r)
    BY Zenon DEF Merge
  <2> HIDE DEF P, k, m
  <2> QED BY <2>1, <2>2, Zenon
<1>3. \A i \in P : list[i].base = r.base
  OBVIOUS
<1>4. \A i \in 1..n : list[i].base = r.base => P # {}
  BY <1>1
<1>5. r.base \in Nat /\ r.count \in Nat /\ \A i \in 1..n : list[i].base \in Nat /\ list[i].count \in Nat
  BY <1>1 DEF Ranges
<1> HIDE DEF P, m
<1>6. CASE P # {}
  <2>1. k \in P /\ k \in 1..n /\ list[k] \in Ranges /\ list[k].base = r.base
    BY <1>1, <1>3, <1>6, IndexFound
  <2> HIDE DEF k
  <2> DEFINE c == Max({list[k].count, r.count})
             x == [list[k] EXCEPT !.count = c]
  <2>2. c \in Nat /\ c >= list[k].count /\ c >= r.count
    BY <1>5, <2>1, MaxOfTwo
  <2> HIDE DEF c
  <2>3. x.base = r.base /\ x.count = c /\ x \in Ranges
    BY <2>1, <2>2 DEF Ranges
  <2>4. m = [list EXCEPT ![k] = x]
    <3>1. m = [list EXCEPT ![k].count = c]
      BY <1>2, <1>6 DEF c
    <3> QED BY <3>1
  <2> HIDE DEF x
  <2>5. Len(m) = n /\ m[k] = x /\ \A i \in 1..n : i # k => m[i] = list[i]
    BY <1>1, <2>1, <2>3, <2>4, ExceptSeq
  <2>6. \A i \in 1..n : m[i].base = list[i].base
    BY <2>1, <2>3, <2>5
  <2>7. Distinct(m)
    BY <2>5, <2>6 DEF Distinct
  <2>8. Covers(m, r)
    BY <2>1, <2>2, <2>3, <2>5 DEF Covers
  <2>9. ASSUME NEW y \in Ranges, Covers(list, y) PROVE Covers(m, y)
    <3>1. PICK i \in 1..n : list[i].base = y.base /\ list[i].count >= y.count
      BY <2>9 DEF Covers
    <3>2. y.count \in Nat
      BY DEF Ranges
    <3>3. m[i].count >= list[i].count
      <4>1. CASE i = k
        BY <2>2, <2>3, <2>5, <4>1
      <4>2. CASE i # k
        <5>1. list[i].count >= list[i].count
          BY <1>5, SMT
        <5> QED BY <2>5, <4>2, <5>1
      <4> QED BY <4>1, <4>2
    <3>4. m[i].count \in Nat
      <4>1. m[i] \in Ranges
        BY <1>1, <2>5, ElementOfSeq
      <4> QED BY <4>1 DEF Ranges
    <3> DEFINE a == m[i].count
               b == list[i].count
               d == y.count
    <3>5. a \in Nat /\ b \in Nat /\ d \in Nat /\ a >= b /\ b >= d
      BY <1>5, <3>1, <3>2, <3>3, <3>4
    <3> HIDE DEF a, b, d
    <3>6. a >= d
      BY <3>5, SMT
    <3>7. m[i].count >= y.count
      BY <3>6 DEF a, d
    <3> QED BY <2>5, <2>6, <3>1, <3>7 DEF Covers
  <2>10. \A i \in 1..n : m[i].count >= r.count \/ \E j \in 1..n : m[i].count = list[j].count
    BY <2>1, <2>2, <2>3, <2>5
  <2> QED BY <1>1, <2>5, <2>7, <2>8, <2>9, <2>10 DEF m
<1>7. CASE P = {}
  <2>1. m = Append(list, r)
    BY <1>2, <1>7
  <2>2. Len(m) = n + 1 /\ (\A i \in 1..n : m[i] = list[i]) /\ m[n + 1] = r
    BY <2>1, AppendProperties
  <2> HIDE DEF n
  <2>3. /\ \A i \in 1..(n + 1) : i \in 1..n \/ i = n + 1
        /\ n + 1 \in 1..(n + 1) /\ \A i \in 1..n : i \in 1..(n + 1)
    BY <1>1, SMT
  <2>4. \A i \in 1..n : list[i].base # r.base
    BY <1>4, <1>7
  <2>5. Distinct(m)
    <3> SUFFICES ASSUME NEW i \in 1..(n + 1), NEW j \in 1..(n + 1), i # j PROVE m[i].base # m[j].base
      BY <2>2 DEF Distinct
    <3>1. CASE i \in 1..n /\ j \in 1..n
      BY <2>2, <3>1 DEF Distinct, n
    <3>2. CASE i \in 1..n /\ j = n + 1
      BY <2>2, <2>4, <3>2
    <3>3. CASE j \in 1..n /\ i = n + 1
      BY <2>2, <2>4, <3>3
    <3> QED BY <2>3, <3>1, <3>2, <3>3
  <2>6. Covers(m, r)
    <3>1. r.count >= r.count
      BY <1>5, SMT
    <3> QED BY <2>2, <2>3, <3>1 DEF Covers
  <2>7. ASSUME NEW y \in Ranges, Covers(list, y) PROVE Covers(m, y)
    BY <2>2, <2>3, <2>7 DEF Covers, n
  <2>8. ASSUME NEW i \in 1..(n + 1) PROVE m[i].count >= r.count \/ \E j \in 1..n : m[i].count = list[j].count
    <3>1. r.count >= r.count
      BY <1>5, SMT
    <3>2. CASE i = n + 1
      BY <2>2, <3>1, <3>2
    <3>3. CASE i \in 1..n
      BY <2>2, <3>3
    <3> QED BY <2>3, <2>8, <3>2, <3>3
  <2> QED BY <1>1, <2>2, <2>5, <2>6, <2>7, <2>8 DEF m, n
<1> QED BY <1>6, <1>7

PortsOf(t, type) == FromText(argument(t, type))

\* The ports of a transport.
LEMMA PortsOfIs ==
  ASSUME NEW t \in Transports, NEW type
  PROVE  PortsOf(t, type) \in Ranges \cup {None}
BY ArgumentRead, RangeRead DEF PortsOf

\* transport_get_ports() gives no base twice, and covers the ports of each transport.
LEMMA PortsCover ==
  ASSUME NEW list \in Seq(Transports), NEW type
  PROVE  LET ports == GetPorts(list, type)
         IN  /\ ports \in Seq(Ranges) /\ Distinct(ports)
             /\ \A j \in 1..Len(list) : PortsOf(list[j], type) # None => Covers(ports, PortsOf(list[j], type))
             /\ (\A j \in 1..Len(list) : PortsOf(list[j], type) # None => PortsOf(list[j], type).count > 0) =>
                  \A i \in 1..Len(ports) : ports[i].count > 0
<1> DEFINE n == Len(list)
           R(j) == PortsOf(list[j], type)
<1>1. n \in Nat /\ \A j \in 1..n : list[j] \in Transports
  BY LenProperties, ElementOfSeq
<1>2. \A j \in 1..n : R(j) \in Ranges \cup {None}
  BY <1>1, PortsOfIs
<1>3. PICK g : PortsLoop(list, type, g) /\ GetPorts(list, type) = g[n]
  BY PortsTurns
<1>4. /\ g \in [Nat -> Seq(Ranges)] /\ g[0] = <<>>
      /\ \A k \in Nat : k < n => g[k + 1] = PortsTurn(g[k], list[k + 1], type)
  BY <1>3 DEF PortsLoop
<1> HIDE DEF n
<1>5. \A k \in Nat : k < n => g[k + 1] = IF R(k + 1) = None THEN g[k] ELSE Merge(g[k], R(k + 1))
  BY <1>4 DEF PortsTurn, PortsOf
<1> HIDE DEF R
<1> DEFINE Counts == \A j \in 1..n : R(j) # None => R(j).count > 0
           Good(k) == /\ Distinct(g[k]) /\ \A j \in 1..k : R(j) # None => Covers(g[k], R(j))
                      /\ Counts => \A i \in 1..Len(g[k]) : g[k][i].count > 0
           T == {k \in Nat : k <= n => Good(k)}
<1>6. 0 \in T
  <2>1. Len(<<>>) = 0 /\ \A i \in 1..0 : FALSE
    BY EmptyIsSeq, SMT
  <2>2. Distinct(<<>>) /\ \A i \in 1..Len(<<>>) : FALSE
    BY <2>1 DEF Distinct
  <2> QED BY <1>4, <2>1, <2>2
<1>7. ASSUME NEW k \in Nat, k \in T PROVE k + 1 \in T
  <2> SUFFICES ASSUME k + 1 <= n PROVE Good(k + 1)
    OBVIOUS
  <2>1. k < n /\ k <= n /\ k + 1 \in 1..n /\ \A j \in 1..(k + 1) : j \in 1..k \/ j = k + 1
    BY <1>1, SMT
  <2>2. \A j \in 1..k : j \in 1..n
    BY <1>1, <2>1, SMT
  <2>3. Good(k) /\ g[k] \in Seq(Ranges)
    BY <1>4, <1>7, <2>1
  <2>4. CASE R(k + 1) = None
    <3>1. g[k + 1] = g[k]
      BY <1>5, <2>1, <2>4
    <3> QED BY <2>1, <2>3, <2>4, <3>1
  <2>5. CASE R(k + 1) # None
    <3> DEFINE r == R(k + 1)
               m == Merge(g[k], r)
    <3>1. r \in Ranges /\ g[k + 1] = m
      BY <1>2, <1>5, <2>1, <2>5
    <3>2. /\ Distinct(m) /\ Covers(m, r) /\ \A x \in Ranges : Covers(g[k], x) => Covers(m, x)
          /\ \A i \in 1..Len(m) : m[i].count >= r.count \/ \E j \in 1..Len(g[k]) : m[i].count = g[k][j].count
          /\ m \in Seq(Ranges)
      <4> DEFINE p == g[k]
      <4>1. p \in Seq(Ranges) /\ Distinct(p)
        BY <2>3
      <4> HIDE DEF p, r, m
      <4>2. r \in Ranges
        BY <3>1
      <4>3. /\ Distinct(Merge(p, r)) /\ Covers(Merge(p, r), r) /\ \A x \in Ranges : Covers(p, x) => Covers(Merge(p, r), x)
            /\ \A i \in 1..Len(Merge(p, r)) : Merge(p, r)[i].count >= r.count \/ \E j \in 1..Len(p) : Merge(p, r)[i].count = p[j].count
            /\ Merge(p, r) \in Seq(Ranges)
        BY <4>1, <4>2, MergeCovers
      <4> QED BY <4>3 DEF m, p
    <3> HIDE DEF m
    <3>3. \A j \in 1..k : R(j) # None => Covers(m, R(j))
      BY <1>2, <2>2, <2>3, <3>2
    <3>4. ASSUME Counts, NEW i \in 1..Len(m) PROVE m[i].count > 0
      <4>1. m[i].count \in Nat
        <5>1. m \in Seq(Ranges)
          BY <3>2
        <5>2. m[i] \in Ranges
          BY ONLY <5>1, i \in 1..Len(m), ElementOfSeq
        <5> QED BY <5>2 DEF Ranges
      <4>2. CASE m[i].count >= r.count
        <5>1. r.count \in Nat /\ r.count > 0
          BY <2>1, <2>5, <3>1, <3>4 DEF Ranges
        <5> DEFINE a == m[i].count
                   b == r.count
        <5>2. a \in Nat /\ b \in Nat /\ b > 0 /\ a >= b
          BY <4>1, <4>2, <5>1
        <5> HIDE DEF a, b
        <5>3. a > 0
          BY <5>2, SMT
        <5> QED BY <5>3 DEF a
      <4>3. CASE \E j \in 1..Len(g[k]) : m[i].count = g[k][j].count
        BY <2>3, <3>4, <4>3
      <4> QED BY <3>2, <4>2, <4>3
    <3> QED BY <2>1, <3>1, <3>2, <3>3, <3>4
  <2> QED BY <2>4, <2>5
<1>8. T \in SUBSET Nat
  OBVIOUS
<1> HIDE DEF T, Counts
<1>9. \A k \in Nat : k \in T
  BY <1>6, <1>7, <1>8, InductionOnSet
<1>10. Good(n)
  <2>1. n <= n
    BY <1>1, SMT
  <2> QED BY <1>1, <1>9, <2>1 DEF T
<1> QED BY <1>1, <1>3, <1>4, <1>10 DEF R, n, Counts

\* Of one transport, its ports.
LEMMA PortsOfOne ==
  ASSUME NEW t \in Transports, NEW type
  PROVE  GetPorts(<<t>>, type) = IF PortsOf(t, type) = None THEN <<>> ELSE <<PortsOf(t, type)>>
<1> DEFINE list == <<t>>
           r == PortsOf(t, type)
<1>1. list \in Seq(Transports) /\ Len(list) = 1 /\ list[1] = t
  OBVIOUS
<1> HIDE DEF list
<1>2. PICK g : PortsLoop(list, type, g) /\ GetPorts(list, type) = g[Len(list)]
  BY <1>1, PortsTurns
<1>3. 0 \in Nat /\ 0 < 1 /\ 0 + 1 = 1
  BY SMT
<1>4. g[1] = PortsTurn(<<>>, t, type) /\ GetPorts(list, type) = g[1]
  BY <1>1, <1>2, <1>3 DEF PortsLoop
<1>5. PortsTurn(<<>>, t, type) = IF r = None THEN <<>> ELSE Merge(<<>>, r)
  BY DEF PortsTurn, PortsOf
<1>6. Merge(<<>>, r) = Append(<<>>, r)
  <2>1. ~ \E i \in DOMAIN <<>> : <<>>[i].base = r.base
    BY EmptyIsSeq
  <2> HIDE DEF r
  <2> QED BY <2>1, Zenon DEF Merge
<1>7. Append(<<>>, r) = <<r>>
  OBVIOUS
<1> QED BY <1>4, <1>5, <1>6, <1>7 DEF list

-----------------------------------------------------------------------------
(* The SETUP that is forwarded, as the server reads it.                    *)

\* What transport_set_ports() does with a transport.
NewRange(list, type, new, r) ==
  [base |-> At(new, FindByBase(GetPorts(list, type), r.base)).base, count |-> r.count]

\* The range that transport_set_ports() writes.
LEMMA NewRangeIs ==
  ASSUME NEW list \in Seq(Transports), NEW type, NEW new \in Seq(Ranges), NEW r \in Ranges
  PROVE  LET x == NewRange(list, type, new, r)
         IN  x \in Ranges /\ x.count = r.count /\ x.base = At(new, FindByBase(GetPorts(list, type), r.base)).base
<1> DEFINE old == GetPorts(list, type)
           a == At(new, FindByBase(old, r.base))
<1>1. old \in Seq(Ranges)
  BY PortsGot
<1> HIDE DEF old
<1>2. FindByBase(old, r.base) \in Int
  BY <1>1, BaseFound
<1>3. a \in Ranges
  BY <1>2, ElementAt
<1> HIDE DEF a
<1>4. NewRange(list, type, new, r) = [base |-> a.base, count |-> r.count]
  BY DEF NewRange, a, old
<1> QED BY <1>3, <1>4 DEF Ranges, a, old

\* What it gives, transport by transport.
LEMMA SetPortsGives ==
  ASSUME NEW list \in Seq(TransportsOf(CountedTokens)), NEW type, NEW new \in Seq(Ranges), NEW j \in 1..Len(list)
  PROVE  LET t == list[j]
             u == SetPorts(list, type, new)[j]
             r == PortsOf(t, type)
             x == NewRange(list, type, new, r)
         IN  /\ t \in Transports /\ u \in Transports
             /\ r = None => u = t
             /\ r # None => /\ r \in Ranges /\ r.count > 0
                            /\ PortsOf(u, type) = FromText(ToText(x))
                            /\ \E k \in 1..Len(t.args) : t.args[k].value # None /\ SetAt(t, k, ToText(x), u)
<1> DEFINE t == list[j]
           r == PortsOf(t, type)
           u == SetPorts(list, type, new)[j]
           old == GetPorts(list, type)
           x == NewRange(list, type, new, r)
<1>1. /\ list \in Seq(Transports) /\ t \in TransportsOf(CountedTokens) /\ t \in Transports
      /\ DOMAIN list = 1..Len(list) /\ Alphabet(CountedTokens)
  BY AreTexts, CountedAlphabet, ElementOfSeq, LenProperties DEF Alphabet, Writable
<1>2. u = IF r = None THEN t
          ELSE setArgument(t, type, ToText([r EXCEPT !.base = At(new, FindByBase(old, r.base)).base]))
  BY <1>1, Zenon DEF SetPorts, PortsOf
<1> HIDE DEF t, u, r
<1>3. CASE r = None
  BY <1>1, <1>2, <1>3 DEF t, u, r
<1>4. CASE r # None
  <2>1. r \in Ranges /\ r.count > 0
    <3>1. argument(t, type) \in ValuesOf(CountedTokens)
      BY <1>1, ArgumentOf
    <3> QED BY <1>1, <1>4, <3>1, RangeOfText DEF PortsOf, r
  <2>2. x \in Ranges /\ x.count > 0 /\ x.base = At(new, FindByBase(old, r.base)).base /\ x.count = r.count
    BY <1>1, <2>1, NewRangeIs
  <2>3. u = setArgument(t, type, ToText(x))
    <3>1. [r EXCEPT !.base = At(new, FindByBase(old, r.base)).base] = x
      BY <2>1 DEF Ranges, NewRange
    <3> HIDE DEF x
    <3> QED BY <1>2, <1>4, <3>1
  <2> HIDE DEF x
  <2>4. FromText(None) = None
    BY DEF FromText
  <2>5. argument(t, type) # None
    BY <1>4, <2>4 DEF PortsOf, r
  <2>6. PICK k \in 1..Len(t.args) : FirstNamed(t, type, k)
    BY <1>1, <2>5, ArgumentNamed
  <2> DEFINE value == ToText(x)
  <2>7. value \in Values
    BY <2>2, RangeWritten
  <2>8. SetAt(t, k, value, u) /\ argument(t, type) = t.args[k].value
    BY <1>1, <2>3, <2>6, <2>7, FirstArgument
  <2> HIDE DEF value
  <2>9. u \in Transports /\ FirstNamed(u, type, k) /\ u.args[k].value = value
    <3>1. /\ u \in Transports /\ Len(u.args) = Len(t.args)
          /\ u.args[k].name = t.args[k].name /\ u.args[k].value = value
          /\ \A i \in 1..Len(t.args) : i # k => u.args[i] = t.args[i]
      BY <2>8 DEF SetAt
    <3>2. FirstNamed(u, type, k)
      BY <2>6, <3>1 DEF FirstNamed
    <3> QED BY <3>1, <3>2
  <2>10. PortsOf(u, type) = FromText(value)
    BY <2>9, FirstArgument DEF PortsOf
  <2> QED BY <1>1, <1>4, <2>1, <2>5, <2>8, <2>9, <2>10 DEF t, u, r, x, value
<1> QED BY <1>3, <1>4

\* Then each transport still is one that the code can have read.
LEMMA SetPortsTidy ==
  ASSUME NEW text \in Seq(CountedTokens), NEW type, NEW new \in Seq(Ranges)
  PROVE  LET list == transports(text)
             out == SetPorts(list, type, new)
         IN  /\ list \in Seq(TransportsOf(CountedTokens)) /\ Len(out) = Len(list)
             /\ ProperList(out)
             /\ ~EndsInEqual(text) => \A j \in 1..Len(list) : NoneFirst(out[j].args)
<1> DEFINE list == transports(text)
           out == SetPorts(list, type, new)
<1>1. text \in TokenSeqs /\ CountedTokens \subseteq Tokens
  BY CountedAlphabet DEF CountedTokens
<1>2. list \in Seq(TransportsOf(CountedTokens)) /\ list \in Seq(Transports) /\ \A j \in 1..Len(list) : Tidy(text, list[j])
  BY <1>1, TransportsReadOf, TransportsProper
<1> HIDE DEF list
<1>3. out \in Seq(Transports) /\ Len(out) = Len(list)
  BY <1>2, PortsMoved DEF ListMoved
<1> HIDE DEF out
<1>4. ASSUME NEW j \in 1..Len(list) PROVE ProperTransport(out[j]) /\ (~EndsInEqual(text) => NoneFirst(out[j].args))
  <2> DEFINE t == list[j]
             u == out[j]
             r == PortsOf(t, type)
             x == NewRange(list, type, new, r)
  <2>1. /\ r = None => u = t
        /\ r # None => /\ r \in Ranges /\ r.count > 0
                       /\ \E k \in 1..Len(t.args) : t.args[k].value # None /\ SetAt(t, k, ToText(x), u)
    BY <1>2, SetPortsGives DEF out
  <2>2. Tidy(text, t)
    BY <1>2
  <2>3. CASE r = None
    BY <2>1, <2>2, <2>3 DEF Tidy
  <2>4. CASE r # None
    <3>1. r \in Ranges /\ r.count > 0
      BY <2>1, <2>4
    <3>2. x \in Ranges /\ x.count = r.count
      BY <1>2, <3>1, NewRangeIs
    <3>3. x.count > 0
      BY <3>1, <3>2
    <3> HIDE DEF x, r, t, u
    <3>4. PICK k \in 1..Len(t.args) : t.args[k].value # None /\ SetAt(t, k, ToText(x), u)
      BY <2>1, <2>4
    <3>5. ProperTransport(t) /\ (~EndsInEqual(text) => NoneFirst(t.args))
      BY <2>2 DEF Tidy
    <3>6. ProperTransport(u) /\ (NoneFirst(t.args) /\ t.args[k].value # None => NoneFirst(u.args))
      BY <3>2, <3>3, <3>4, <3>5, SetIsProper
    <3> QED BY <3>4, <3>5, <3>6 DEF u
  <2> QED BY <2>3, <2>4
<1>5. ProperList(out)
  BY <1>3, <1>4 DEF ProperList
<1> QED BY <1>2, <1>3, <1>4, <1>5 DEF list, out

\* The ranges that stand in for others: of the same sizes, and apart.
StandIn(old, new) ==
  /\ new \in Seq(Ranges) /\ Len(new) = Len(old) /\ Apart(new)
  /\ \A i \in 1..Len(old) : new[i].count = old[i].count /\ Ports(new[i]) \subseteq Allowed

\* Then no two of them have the same base, and none is 0.
LEMMA StandInBases ==
  ASSUME NEW old \in Seq(Ranges), NEW new, StandIn(old, new), \A i \in 1..Len(old) : old[i].count > 0
  PROVE  Distinct(new) /\ \A i \in 1..Len(old) : new[i].base > 0
<1>1. /\ new \in Seq(Ranges) /\ Len(new) = Len(old) /\ Apart(new)
      /\ \A i \in 1..Len(old) : new[i].count = old[i].count /\ Ports(new[i]) \subseteq Allowed
  BY DEF StandIn
<1>2. ASSUME NEW i \in 1..Len(old) PROVE new[i].base \in Ports(new[i]) /\ new[i].base \in Nat
  <2> DEFINE b == new[i].base
             c == new[i].count
  <2>1. new[i] \in Ranges
    BY <1>1, ElementOfSeq
  <2>2. b \in Nat /\ c \in Nat /\ c > 0
    BY <1>1, <2>1 DEF Ranges
  <2> HIDE DEF b, c
  <2>3. b \in b..(b + c - 1)
    BY <2>2, SMT
  <2> QED BY <2>2, <2>3 DEF Ports, b, c
<1>3. ASSUME NEW i \in 1..Len(old) PROVE new[i].base > 0
  <2> DEFINE b == new[i].base
  <2>1. b \in Allowed /\ b \in Nat
    BY <1>1, <1>2
  <2> HIDE DEF b
  <2>2. b > 0
    BY <2>1, AltPortsAssumption, SMT DEF Allowed
  <2> QED BY <2>2 DEF b
<1>4. ASSUME NEW i \in 1..Len(new), NEW j \in 1..Len(new), i # j PROVE new[i].base # new[j].base
  <2>1. Ports(new[i]) \cap Ports(new[j]) = {}
    BY <1>1, <1>4 DEF Apart
  <2> QED BY <1>1, <1>2, <2>1
<1> QED BY <1>3, <1>4 DEF Distinct

\* The SETUP that is forwarded, as the server reads it: each port argument names the
\* range that stands in for the one with its base, with the number of its ports.
Renamed(old, new, r, x) ==
  \E m \in 1..Len(old) :
    /\ r \in Ranges /\ r.count > 0 /\ old[m].base = r.base /\ r.count <= old[m].count
    /\ x \in Ranges /\ x.base = new[m].base /\ x.count = r.count

\* What is forwarded of an offer is read by the server as the same transports, each
\* with a stand-in for the range that it had.
THEOREM OfferRenamed ==
  ASSUME NEW text \in Seq(CountedTokens), ~EndsInEqual(text), NEW type,
         NEW new, StandIn(GetPorts(transports(text), type), new)
  PROVE  LET list == transports(text)
             old  == GetPorts(list, type)
             back == transports(ListText(SetPorts(list, type, new)))
         IN  /\ old \in Seq(Ranges) /\ Distinct(old) /\ Distinct(new) /\ new \in Seq(Ranges)
             /\ back \in Seq(Transports) /\ Len(back) = Len(list)
             /\ \A j \in 1..Len(list) : PortsOf(back[j], type) # None =>
                  Renamed(old, new, PortsOf(list[j], type), PortsOf(back[j], type))
<1> DEFINE list == transports(text)
           old == GetPorts(list, type)
           out == SetPorts(list, type, new)
           back == transports(ListText(out))
           R(j) == PortsOf(list[j], type)
<1>1. new \in Seq(Ranges)
  BY DEF StandIn
<1>2. /\ list \in Seq(TransportsOf(CountedTokens)) /\ Len(out) = Len(list) /\ ProperList(out)
      /\ \A j \in 1..Len(list) : NoneFirst(out[j].args)
  BY <1>1, SetPortsTidy
<1>3. back \in Seq(Transports) /\ Len(back) = Len(list) /\ \A j \in 1..Len(list) : ReadBack(out[j], back[j])
  <2>1. ReadBacks(out, back, Len(out))
    BY <1>2, ListReadBack
  <2> QED BY <1>2, <2>1 DEF ReadBacks
<1> HIDE DEF list, out, back
<1>4. list \in Seq(Transports)
  BY <1>2, AreTexts, CountedAlphabet DEF Alphabet, Writable
<1>5. ASSUME NEW j \in 1..Len(list)
      PROVE  /\ out[j] \in Transports /\ PortsOf(back[j], type) = PortsOf(out[j], type)
             /\ R(j) = None => out[j] = list[j]
             /\ R(j) # None => /\ R(j) \in Ranges /\ R(j).count > 0
                               /\ PortsOf(out[j], type) = FromText(ToText(NewRange(list, type, new, R(j))))
  <2>1. /\ out[j] \in Transports
        /\ R(j) = None => out[j] = list[j]
        /\ R(j) # None => /\ R(j) \in Ranges /\ R(j).count > 0
                          /\ PortsOf(out[j], type) = FromText(ToText(NewRange(list, type, new, R(j))))
    BY <1>1, <1>2, SetPortsGives DEF out
  <2> DEFINE t == out[j]
             b == back[j]
  <2>2. t \in Transports /\ ReadBack(t, b) /\ NoneFirst(t.args)
    BY <1>2, <1>3, <2>1
  <2> HIDE DEF t, b
  <2>3. FromText(argument(b, type)) = FromText(argument(t, type))
    BY <2>2, PortsBack
  <2> QED BY <2>1, <2>3 DEF PortsOf, t, b
<1>6. /\ old \in Seq(Ranges) /\ Distinct(old)
      /\ \A j \in 1..Len(list) : R(j) # None => Covers(old, R(j))
      /\ \A i \in 1..Len(old) : old[i].count > 0
  <2>1. \A j \in 1..Len(list) : R(j) # None => R(j).count > 0
    BY <1>5
  <2> QED BY <1>4, <2>1, PortsCover
<1>7. StandIn(old, new)
  BY DEF list
<1> HIDE DEF old
<1>8. Distinct(new) /\ \A i \in 1..Len(old) : new[i].base > 0
  BY <1>6, <1>7, StandInBases
<1>9. ASSUME NEW j \in 1..Len(list), PortsOf(back[j], type) # None
      PROVE  Renamed(old, new, R(j), PortsOf(back[j], type))
  <2> DEFINE r == R(j)
             x == NewRange(list, type, new, r)
             b == PortsOf(back[j], type)
  <2>1. r # None
    BY <1>5, <1>9
  <2>2. r \in Ranges /\ r.count > 0 /\ b = FromText(ToText(x))
    BY <1>5, <2>1
  <2>3. PICK m \in 1..Len(old) : old[m].base = r.base /\ old[m].count >= r.count
    BY <1>6, <2>1 DEF Covers
  <2>4. x \in Ranges /\ x.count = r.count /\ x.base = At(new, FindByBase(old, r.base)).base
    BY <1>1, <1>4, <2>2, NewRangeIs DEF old
  <2> HIDE DEF x, r, b
  <2>5. FindByBase(old, r.base) = m - 1
    BY <1>6, <2>3, BaseIs
  <2>6. At(new, m - 1) = new[m]
    <3>1. m \in 1..Len(new)
      BY <1>7 DEF StandIn
    <3> QED BY <1>1, <3>1, AtIndex
  <2>7. x.base = new[m].base /\ x.base > 0 /\ x.count > 0
    BY <1>8, <2>2, <2>4, <2>5, <2>6
  <2>8. b = x
    BY <2>2, <2>4, <2>7, RangeBack
  <2>9. r.count <= old[m].count
    BY <2>3
  <2>10. Renamed(old, new, r, b)
    BY <2>2, <2>3, <2>4, <2>7, <2>8, <2>9 DEF Renamed
  <2> QED BY <2>10 DEF r, b
<1> QED BY <1>1, <1>3, <1>6, <1>8, <1>9 DEF list, old, out, back

-----------------------------------------------------------------------------
(* The answer, as the client reads it.                                     *)

\* The tokens of what a client offers.
OfferTokens == CountedTokens \ {Word("server_port")}

LEMMA OfferAlphabet ==
  /\ Alphabet(OfferTokens) /\ Offers \subseteq Seq(OfferTokens)
  /\ \A s \in Seq(OfferTokens) : s \in Seq(CountedTokens) /\ s \in TokenSeqs
<1>1. Word("server_port") # Comma /\ Word("server_port") # Semi /\ Word("server_port") # Equal
      /\ \A r \in Ranges : Word("server_port") # PortText(r)
  BY DEF Word, Comma, Semi, Equal, PortText
<1>2. Alphabet(OfferTokens)
  BY <1>1, CountedAlphabet DEF Alphabet, Writable, OfferTokens
<1>3. \A s \in Seq(OfferTokens) : s \in Seq(CountedTokens)
  <2>1. OfferTokens \subseteq CountedTokens
    BY DEF OfferTokens
  <2> QED BY <2>1
<1>4. ASSUME NEW o \in Offers PROVE o \in Seq(OfferTokens)
  <2>1. o \in Seq(CountedTokens) /\ DOMAIN o = 1..Len(o) /\ Len(o) \in Nat
    BY CountedAlphabet, LenProperties
  <2>2. \A i \in 1..Len(o) : o[i] \in OfferTokens
    <3>1. \A i \in 1..Len(o) : o[i] \in CountedTokens
      BY <2>1, ElementOfSeq
    <3> QED BY <2>1, <3>1, RtspSessionAssumption DEF OfferTokens
  <2> HIDE DEF OfferTokens
  <2>3. o = [i \in 1..Len(o) |-> o[i]]
    BY <2>1
  <2> QED BY <2>1, <2>2, <2>3, IsASeq
<1> QED BY <1>2, <1>3, <1>4, CountedAlphabet

\* No argument of an offer is one for the server's ports.
LEMMA NoServerPorts ==
  ASSUME NEW t \in TransportsOf(OfferTokens)
  PROVE  NoneNamed(t, "server_port")
<1>1. t.args \in Seq(ArgumentsOf(OfferTokens))
  BY DEF TransportsOf
<1> SUFFICES ASSUME NEW i \in 1..Len(t.args), t.args[i].name = <<Word("server_port")>> PROVE FALSE
  BY DEF NoneNamed
<1>2. t.args[i] \in ArgumentsOf(OfferTokens)
  BY <1>1, ElementOfSeq
<1>3. <<Word("server_port")>> \in Seq(OfferTokens)
  BY <1>2 DEF ArgumentsOf
<1>4. Len(<<Word("server_port")>>) = 1 /\ <<Word("server_port")>>[1] = Word("server_port") /\ 1 \in 1..1
  BY SMT
<1> DEFINE v == <<Word("server_port")>>
<1>5. v \in Seq(OfferTokens) /\ 1 \in 1..Len(v) /\ v[1] = Word("server_port")
  BY <1>3, <1>4
<1> HIDE DEF v
<1>6. v[1] \in OfferTokens
  BY <1>5, ElementOfSeq
<1> QED BY <1>5, <1>6 DEF OfferTokens

\* One argument more.
WithArg(t, w) == [t EXCEPT !.args = Append(t.args, w)]

\* One argument more, which no other has the name of.
LEMMA WithArgIs ==
  ASSUME NEW t, ProperTransport(t), NEW w, ProperArg(w)
  PROVE  LET u == WithArg(t, w)
             n == Len(t.args)
         IN  /\ ProperTransport(u) /\ u \in Transports /\ n \in Nat /\ Len(u.args) = n + 1
             /\ u.args[n + 1] = w /\ \A i \in 1..n : u.args[i] = t.args[i]
             /\ ListText(<<u>>) = toString(t) \o ArgText(w)
<1> DEFINE n == Len(t.args)
           x == Append(t.args, w)
           u == WithArg(t, w)
<1>1. /\ t \in Transports /\ Len(t.name) > 0 /\ Without(t.name, {Comma, Semi}) /\ w \in Arguments
      /\ \A i \in 1..n : ProperArg(t.args[i])
  BY DEF ProperTransport, ProperArg
<1>2. t.name \in TokenSeqs /\ t.args \in Seq(Arguments) /\ n \in Nat
  BY <1>1, LenProperties DEF Transports
<1>3. x \in Seq(Arguments) /\ Len(x) = n + 1 /\ (\A i \in 1..n : x[i] = t.args[i]) /\ x[n + 1] = w
  BY <1>1, <1>2, AppendProperties
<1>4. ArgsText(x) = ArgsText(t.args) \o ArgText(w) /\ ArgsText(t.args) \in TokenSeqs /\ ArgText(w) \in TokenSeqs
  BY <1>1, <1>2, ArgsTextMore, ArgumentWritten
<1> HIDE DEF x
<1>5. u \in Transports /\ u.name = t.name /\ u.args = x
  BY <1>1, <1>2, <1>3 DEF WithArg, Transports, x
<1> HIDE DEF u
<1>6. \A i \in 1..(n + 1) : i \in 1..n \/ i = n + 1
  <2> HIDE DEF n
  <2> QED BY <1>2, SMT
<1>7. \A i \in 1..(n + 1) : ProperArg(x[i])
  BY <1>1, <1>3, <1>6
<1>8. ProperTransport(u)
  BY <1>1, <1>3, <1>5, <1>7 DEF ProperTransport
<1>9. toString(t) = t.name \o ArgsText(t.args) /\ toString(u) = t.name \o ArgsText(x)
  BY <1>5, Zenon DEF toString, ArgsText
<1>10. toString(u) = toString(t) \o ArgText(w)
  <2> DEFINE a == t.name
             b == ArgsText(t.args)
             c == ArgText(w)
  <2>1. a \in Seq(Tokens) /\ b \in Seq(Tokens) /\ c \in Seq(Tokens)
    BY <1>2, <1>4 DEF TokenSeqs
  <2> HIDE DEF a, b, c
  <2>2. a \o (b \o c) = (a \o b) \o c
    BY <2>1, ConcatAssociative
  <2> QED BY <1>4, <1>9, <2>2 DEF a, b, c
<1>11. ListText(<<u>>) = toString(u)
  <2>1. <<>> \in Seq(Transports) /\ Append(<<>>, u) = <<u>> /\ Len(<<>>) = 0
    BY <1>5, EmptySeq, EmptyIsSeq
  <2>2. ListText(Append(<<>>, u)) = ListText(<<>>) \o ItemText(Len(<<>>) + 1, u) /\ ListText(<<>>) = <<>>
    BY <1>5, <2>1, ListTextMore
  <2>3. ItemText(0 + 1, u) = <<>> \o toString(u)
    <3>1. ~(0 + 1 > 1)
      BY SMT
    <3> QED BY <3>1 DEF ItemText
  <2>4. <<>> \o toString(u) = toString(u)
    <3>1. toString(u) \in TokenSeqs
      BY <1>5, TransportWritten
    <3> QED BY <3>1, EmptyJoined DEF TokenSeqs
  <2> QED BY <2>1, <2>2, <2>3, <2>4
<1> QED BY <1>2, <1>3, <1>5, <1>8, <1>10, <1>11 DEF u

\* The answer to a SETUP is read back as one transport, with the first ports that
\* it took of the client's and its own.
THEOREM ReplyReadBack ==
  ASSUME NEW t, ProperTransport(t), NoneNamed(t, "server_port"),
         NEW ports \in Ranges, ports = PortsOf(t, "client_port"), ports.base # 0,
         NEW used \in Ranges, used.base > 0, used.count > 0
  PROVE  LET list == transports(ReplyText(t, ports, used))
         IN  /\ list[1] \in Transports /\ list = <<list[1]>>
             /\ PortsOf(list[1], "client_port") = [base |-> ports.base, count |-> used.count]
             /\ PortsOf(list[1], "server_port") = used
<1> DEFINE c == [base |-> ports.base, count |-> used.count]
           w == [name |-> <<Word("server_port")>>, value |-> ToText(used)]
           s == setArgument(t, "client_port", ToText(c))
           u == WithArg(s, w)
           back == transports(ListText(<<u>>))
           n == Len(s.args)
<1>1. c \in Ranges /\ c.base = ports.base /\ c.count = used.count /\ c.base > 0 /\ c.count > 0
      /\ [ports EXCEPT !.count = used.count] = c
  <2>1. ports.base \in Nat /\ used.count \in Nat
    BY DEF Ranges
  <2>2. ports.base > 0
    <3> DEFINE b == ports.base
    <3>1. b \in Nat /\ b # 0
      BY <2>1
    <3> HIDE DEF b
    <3>2. b > 0
      BY <3>1, SMT
    <3> QED BY <3>2 DEF b
  <2> QED BY <2>1, <2>2 DEF Ranges
<1>2. t \in Transports
  BY DEF ProperTransport
<1> HIDE DEF c
<1>3. ToText(c) \notin {None, <<>>} /\ ToText(c) \in Values /\ FromText(ToText(c)) = c
  BY <1>1, RangeIsPlain, RangeBack DEF Values
<1>4. ToText(used) \notin {None, <<>>} /\ ToText(used) \in Values /\ PlainValue(ToText(used)) /\ FromText(ToText(used)) = used
  BY RangeIsPlain, RangeBack DEF Values
<1>5. argument(t, "client_port") # None
  <2>1. FromText(None) = None
    BY DEF FromText
  <2>2. ports # None
    BY AltPortsAssumption DEF Ranges
  <2> QED BY <2>1, <2>2 DEF PortsOf
<1>6. PICK k \in 1..Len(t.args) : FirstNamed(t, "client_port", k)
  BY <1>2, <1>5, ArgumentNamed
<1>7. SetAt(t, k, ToText(c), s)
  BY <1>2, <1>3, <1>6, FirstArgument
<1>8. ProperTransport(s)
  BY <1>1, <1>7, SetIsProper
<1> HIDE DEF s
<1>9. /\ s \in Transports /\ Len(s.args) = Len(t.args)
      /\ s.args[k].name = t.args[k].name /\ s.args[k].value = ToText(c)
      /\ \A i \in 1..Len(t.args) : s.args[i].name = t.args[i].name
  BY <1>7 DEF SetAt
<1>10. ProperArg(w) /\ w.name = <<Word("server_port")>> /\ w.value = ToText(used)
  <2>1. w.name = <<Word("server_port")>> /\ w.value = ToText(used)
    OBVIOUS
  <2>2. <<Word("server_port")>> \in TokenSeqs /\ Len(<<Word("server_port")>>) = 1
        /\ <<Word("server_port")>>[1] = Word("server_port")
    BY ShortTexts
  <2>3. Word("server_port") # Comma /\ Word("server_port") # Semi /\ Word("server_port") # Equal
    BY DEF Word, Comma, Semi, Equal
  <2>4. w \in Arguments
    BY <1>4, <2>2 DEF Arguments
  <2>5. \A i \in 1..1 : i = 1
    BY SMT
  <2>6. 1 > 0
    BY SMT
  <2> DEFINE v == <<Word("server_port")>>
  <2>7. Len(v) > 0 /\ Without(v, {Comma, Semi, Equal})
    <3>1. Len(v) = 1 /\ v[1] = Word("server_port")
      BY <2>2
    <3> HIDE DEF v
    <3> QED BY <2>3, <2>5, <2>6, <3>1 DEF Without
  <2> HIDE DEF w
  <2> QED BY <1>4, <2>1, <2>4, <2>7 DEF ProperArg
<1> HIDE DEF w
<1>11. /\ ProperTransport(u) /\ u \in Transports /\ n \in Nat /\ Len(u.args) = n + 1
       /\ u.args[n + 1] = w /\ \A i \in 1..n : u.args[i] = s.args[i]
       /\ ListText(<<u>>) = toString(s) \o ArgText(w)
  BY <1>8, <1>10, WithArgIs
<1>12. ReplyText(t, ports, used) = ListText(<<u>>)
  <2>1. ReplyText(t, ports, used) = toString(setArgument(t, "client_port", ToText([ports EXCEPT !.count = used.count])))
                                    \o ArgText([name |-> <<Word("server_port")>>, value |-> ToText(used)])
    BY Zenon DEF ReplyText
  <2> QED BY <1>1, <1>11, <2>1 DEF s, w
<1> HIDE DEF u
<1>13. ReadBacks(<<u>>, back, 1)
  <2>1. <<u>> \in Seq(Transports) /\ Len(<<u>>) = 1 /\ <<u>>[1] = u
    BY <1>11
  <2>2. \A i \in 1..1 : i = 1
    BY SMT
  <2> DEFINE l == <<u>>
  <2>3. l \in Seq(Transports) /\ Len(l) = 1 /\ l[1] = u
    BY <2>1
  <2> HIDE DEF l
  <2>4. ProperList(l)
    BY <1>11, <2>2, <2>3 DEF ProperList
  <2>5. ReadBacks(l, transports(ListText(l)), Len(l))
    BY <2>4, ListReadBack
  <2> QED BY <2>3, <2>5 DEF l
<1> HIDE DEF back
<1>14. back \in Seq(Transports) /\ Len(back) = 1 /\ ReadBack(u, back[1]) /\ back[1] \in Transports
  <2>1. 1 \in 1..1 /\ <<u>>[1] = u
    BY SMT
  <2>2. back \in Seq(Transports) /\ Len(back) = 1 /\ ReadBack(<<u>>[1], back[1])
    BY <1>13, <2>1 DEF ReadBacks
  <2> QED BY <2>1, <2>2 DEF ReadBack
<1>15. back = <<back[1]>>
  <2>1. DOMAIN back = 1..1 /\ back = [i \in 1..1 |-> back[i]]
    BY <1>14, LenProperties
  <2>2. Len(<<back[1]>>) = 1 /\ <<back[1]>>[1] = back[1] /\ <<back[1]>> \in Seq(Transports)
    BY <1>14
  <2>3. \A i \in 1..1 : back[i] = <<back[1]>>[i]
    <3>1. \A i \in 1..1 : i = 1
      BY SMT
    <3> QED BY <2>2, <3>1
  <2> QED BY <1>14, <2>2, <2>3, SeqEqual
<1>16. \A i \in 1..(n + 1) : i \in 1..n \/ i = n + 1
  BY <1>11, SMT
<1>17. n = Len(t.args) /\ n + 1 \in 1..(n + 1) /\ \A i \in 1..n : i \in 1..(n + 1) /\ i <= n + 1
  BY <1>9, <1>11, SMT
<1> HIDE DEF n
<1>18. FirstNamed(u, "client_port", k)
  <2>1. <<Word("server_port")>> # <<Word("client_port")>>
    BY DEF Word
  <2>2. /\ k \in 1..n /\ t.args[k].name = <<Word("client_port")>>
        /\ \A i \in 1..n : t.args[i].name = <<Word("client_port")>> => k <= i
    BY <1>6, <1>17 DEF FirstNamed
  <2>3. \A i \in 1..n : u.args[i].name = t.args[i].name
    BY <1>9, <1>11, <1>17
  <2> QED BY <1>10, <1>11, <1>16, <1>17, <2>1, <2>2, <2>3 DEF FirstNamed
<1>19. FirstNamed(u, "server_port", n + 1)
  <2>1. \A i \in 1..n : u.args[i].name # <<Word("server_port")>>
    BY <1>9, <1>11, <1>17 DEF NoneNamed
  <2>2. n + 1 <= n + 1
    BY <1>17, <1>11, SMT
  <2> QED BY <1>10, <1>11, <1>16, <1>17, <2>1, <2>2 DEF FirstNamed
<1>20. argument(u, "client_port") = ToText(c)
  <2>1. argument(u, "client_port") = u.args[k].value
    BY <1>11, <1>18, FirstArgument
  <2>2. u.args[k] = s.args[k]
    BY <1>11, <1>17
  <2> QED BY <1>9, <2>1, <2>2
<1>21. argument(u, "server_port") = ToText(used)
  <2>1. argument(u, "server_port") = u.args[n + 1].value
    BY <1>11, <1>19, FirstArgument
  <2> QED BY <1>10, <1>11, <2>1
<1>22. PortsOf(back[1], "client_port") = c /\ PortsOf(back[1], "server_port") = used
  <2>1. argument(back[1], "client_port") = ToText(c) /\ argument(back[1], "server_port") = ToText(used)
    BY <1>3, <1>4, <1>11, <1>14, <1>20, <1>21, ArgumentBack
  <2> QED BY <1>3, <1>4, <2>1 DEF PortsOf
<1> QED BY <1>12, <1>14, <1>15, <1>22 DEF back, c
-----------------------------------------------------------------------------
(* The ports that the client is told, and the ranges that are found.       *)

\* A list of one transport.
LEMMA OnlyOne ==
  ASSUME NEW X, NEW list \in Seq(X), NEW x, list = <<x>>
  PROVE  Len(list) = 1 /\ DOMAIN list = 1..1 /\ 1 \in 1..Len(list) /\ list[1] = x /\ x \in X
<1>1. Len(<<x>>) = 1 /\ <<x>>[1] = x
  OBVIOUS
<1>2. Len(list) = 1 /\ list[1] = x /\ DOMAIN list = 1..1
  BY <1>1, LenProperties
<1>3. 1 \in 1..1
  BY SMT
<1> QED BY <1>2, <1>3, ElementOfSeq

\* The answer that is written names the base of the first range of `alt', or 0, with
\* the number of ports that the server has taken.
LEMMA AnswerNames ==
  ASSUME NEW list \in Seq(TransportsOf(CountedTokens)), NEW t, list = <<t>>,
         NEW used \in Ranges, PortsOf(t, "server_port") = used, NEW alt \in Seq(Ranges)
  PROVE  LET a == At(alt, 0).base
             r == At(GetPorts(SetPorts(list, "server_port", alt), "server_port"), 0)
         IN  /\ r \in Ranges /\ r.base \in {0, a}
             /\ a > 0 => r.base = a /\ r.count = used.count
<1> DEFINE a   == At(alt, 0).base
           out == SetPorts(list, "server_port", alt)
           u   == out[1]
           x   == NewRange(list, "server_port", alt, used)
           got == GetPorts(out, "server_port")
<1>1. Len(list) = 1 /\ DOMAIN list = 1..1 /\ 1 \in 1..Len(list) /\ list[1] = t /\ t \in TransportsOf(CountedTokens)
  BY OnlyOne
<1>2. list \in Seq(Transports) /\ t \in Transports
  <2>1. CountedTokens \subseteq Tokens
    BY CountedAlphabet DEF Alphabet, Writable
  <2> QED BY <1>1, <2>1, AreTexts
<1>3. used # None
  BY AltPortsAssumption DEF Ranges
<1>4. GetPorts(list, "server_port") = <<used>>
  BY <1>2, <1>3, PortsOfOne
<1>5. FindByBase(<<used>>, used.base) = 0
  <2> DEFINE l == <<used>>
  <2>1. l \in Seq(Ranges) /\ Len(l) = 1 /\ l[1] = used /\ 1 \in 1..1 /\ \A i \in 1..1 : i = 1
    BY SMT
  <2> HIDE DEF l
  <2>2. Distinct(l)
    BY <2>1 DEF Distinct
  <2>3. FindByBase(l, l[1].base) = 1 - 1 /\ 1 - 1 = 0
    BY <2>1, <2>2, BaseIs, SMT
  <2> QED BY <2>1, <2>3 DEF l
<1>6. x \in Ranges /\ x.count = used.count /\ x.base = a
  <2>1. LET y == NewRange(list, "server_port", alt, used)
        IN  y \in Ranges /\ y.count = used.count /\ y.base = At(alt, FindByBase(GetPorts(list, "server_port"), used.base)).base
    BY ONLY <1>2, used \in Ranges, alt \in Seq(Ranges), NewRangeIs
  <2> QED BY <1>4, <1>5, <2>1
<1>7. u \in Transports /\ PortsOf(u, "server_port") = FromText(ToText(x)) /\ used.count > 0
  <2>1. LET v == SetPorts(list, "server_port", alt)[1]
            r == PortsOf(list[1], "server_port")
        IN  /\ v \in Transports
            /\ r # None => /\ r \in Ranges /\ r.count > 0
                           /\ PortsOf(v, "server_port") = FromText(ToText(NewRange(list, "server_port", alt, r)))
    <3>1. 1 \in 1..Len(list)
      BY <1>1
    <3> QED
      BY ONLY <3>1, list \in Seq(TransportsOf(CountedTokens)), alt \in Seq(Ranges), SetPortsGives
  <2>2. PortsOf(list[1], "server_port") = used
    BY <1>1
  <2> QED BY <1>3, <2>1, <2>2
<1>8. got = GetPorts(<<u>>, "server_port")
  <2>1. out = <<u>>
    <3>1. DOMAIN out = 1..1
      BY <1>1 DEF SetPorts
    <3>2. out = [i \in 1..1 |-> out[i]]
      BY <1>1 DEF SetPorts
    <3> HIDE DEF out
    <3>3. \A i \in 1..1 : i = 1
      BY SMT
    <3> QED BY <3>1, <3>2, <3>3
  <2> QED BY <2>1
<1> HIDE DEF out, x, u, a
<1>9. got = IF FromText(ToText(x)) = None THEN <<>> ELSE <<FromText(ToText(x))>>
  BY <1>7, <1>8, PortsOfOne
<1> HIDE DEF got
<1>10. /\ x.base > 0 => FromText(ToText(x)) = x
       /\ FromText(ToText(x)) = None \/ (FromText(ToText(x)) \in Ranges /\ FromText(ToText(x)).base \in {0, x.base})
  BY <1>6, <1>7, RangeBack
<1>11. x # None /\ NoRange \in Ranges /\ NoRange.base = 0
  BY <1>6, AltPortsAssumption DEF Ranges, NoRange
<1>12. At(got, 0) \in Ranges /\ At(got, 0).base \in {0, a}
  <2>1. CASE FromText(ToText(x)) = None
    <3>1. At(got, 0) = NoRange
      BY <1>9, <2>1, AtFirst
    <3> QED BY <1>11, <3>1
  <2>2. CASE FromText(ToText(x)) # None
    <3>1. FromText(ToText(x)) \in Ranges /\ FromText(ToText(x)).base \in {0, x.base}
      BY <1>10, <2>2
    <3>2. At(got, 0) = FromText(ToText(x))
      BY <1>9, <2>2, <3>1, AtFirst
    <3> QED BY <1>6, <3>1, <3>2
  <2> QED BY <2>1, <2>2
<1>13. a > 0 => At(got, 0).base = a /\ At(got, 0).count = used.count
  <2> SUFFICES ASSUME a > 0 PROVE At(got, 0).base = a /\ At(got, 0).count = used.count
    OBVIOUS
  <2>1. FromText(ToText(x)) = x
    BY <1>6, <1>10
  <2>2. At(got, 0) = x
    BY <1>6, <1>9, <1>11, <2>1, AtFirst
  <2> QED BY <1>6, <2>2
<1> QED BY <1>12, <1>13 DEF got, out, a

\* The base of an element is found.
LEMMA BaseThere ==
  ASSUME NEW list \in Seq(Ranges), NEW k \in 1..Len(list)
  PROVE  FindByBase(list, list[k].base) # -1
<1> DEFINE P == {i \in DOMAIN list : list[i].base = list[k].base}
<1>1. DOMAIN list = 1..Len(list) /\ Len(list) \in Nat
  BY LenProperties
<1>2. k \in P /\ P \in SUBSET Nat
  BY <1>1, SMT
<1> HIDE DEF P
<1>3. Min(P) \in Nat
  BY <1>2, MinIsLeast
<1>4. Min(P) \in P
  BY <1>2, MinIsLeast
<1>5. Min(P) # 0
  BY <1>1, <1>4, SMT DEF P
<1>6. FindByBase(list, list[k].base) = Min(P) - 1
  BY <1>1 DEF FindByBase, P
<1> DEFINE m == Min(P)
<1>7. m \in Nat /\ m # 0
  BY <1>3, <1>5
<1> HIDE DEF m
<1>8. m - 1 # -1
  BY <1>7, SMT
<1> QED BY <1>6, <1>8 DEF m
-----------------------------------------------------------------------------
(* The numbers of the requests.                                            *)

\* The first of them is a prefix.
Extends(s, t) == \A i \in DOMAIN s : i \in DOMAIN t /\ t[i] = s[i]

\* A sequence is the beginning of what it is joined to.
LEMMA JoinExtends ==
  ASSUME NEW s, IsSeq(s), NEW t, IsSeq(t)
  PROVE  Extends(s, s \o t)
<1> DEFINE m == Len(s)
           n == Len(t)
<1>1. /\ DOMAIN (s \o t) = 1..(m + n) /\ DOMAIN s = 1..m /\ m \in Nat /\ n \in Nat
      /\ \A i \in 1..(m + n) : (s \o t)[i] = IF i <= m THEN s[i] ELSE t[i - m]
  BY JoinedIs
<1> HIDE DEF m, n
<1>2. \A i \in 1..m : i \in 1..(m + n) /\ i <= m
  BY <1>1, SMT
<1> QED BY <1>1, <1>2 DEF Extends

\* No two packets of a sequence have the same number, none of two sequences.
OneEach(s)  == \A i, j \in DOMAIN s : s[i].number = s[j].number => i = j
Others(s, t) == \A i \in DOMAIN s, j \in DOMAIN t : s[i].number # t[j].number

\* One number each, of two sequences.
LEMMA OneEachJoined ==
  ASSUME NEW s, IsSeq(s), NEW t, IsSeq(t), OneEach(s), OneEach(t), Others(s, t)
  PROVE  OneEach(s \o t)
<1> DEFINE m == Len(s)
           n == Len(t)
<1>1. /\ DOMAIN (s \o t) = 1..(m + n) /\ DOMAIN s = 1..m /\ DOMAIN t = 1..n /\ m \in Nat /\ n \in Nat
      /\ \A i \in 1..(m + n) : (s \o t)[i] = IF i <= m THEN s[i] ELSE t[i - m]
  BY JoinedIs
<1> HIDE DEF m, n
<1>2. \A i \in 1..(m + n) : IF i <= m THEN i \in 1..m ELSE i - m \in 1..n
  BY <1>1, SMT
<1>3. SUFFICES ASSUME NEW i \in 1..(m + n), NEW j \in 1..(m + n), (s \o t)[i].number = (s \o t)[j].number
              PROVE  i = j
  BY <1>1 DEF OneEach
<1>4. CASE i <= m /\ j <= m
  BY <1>1, <1>2, <1>3, <1>4 DEF OneEach
<1>5. CASE ~(i <= m) /\ ~(j <= m)
  <2>1. i - m = j - m
    BY <1>1, <1>2, <1>3, <1>5 DEF OneEach
  <2> QED BY <1>1, <2>1, SMT
<1>6. CASE i <= m /\ ~(j <= m)
  BY <1>1, <1>2, <1>3, <1>6 DEF Others
<1>7. CASE ~(i <= m) /\ j <= m
  BY <1>1, <1>2, <1>3, <1>7 DEF Others
<1> QED BY <1>4, <1>5, <1>6, <1>7

\* And of one element more.
LEMMA OneEachAppended ==
  ASSUME NEW s, IsSeq(s), OneEach(s), NEW x, \A i \in DOMAIN s : s[i].number # x.number
  PROVE  OneEach(Append(s, x)) /\ \A t : Others(t, s) /\ (\A i \in DOMAIN t : t[i].number # x.number) => Others(t, Append(s, x))
<1> DEFINE n == Len(s)
           a == Append(s, x)
<1>1. DOMAIN a = 1..(n + 1) /\ DOMAIN s = 1..n /\ n \in Nat /\ a[n + 1] = x /\ \A i \in 1..n : a[i] = s[i]
  BY Appended
<1> HIDE DEF n, a
<1>2. \A i \in 1..(n + 1) : i \in 1..n \/ i = n + 1
  BY <1>1, SMT
<1>3. OneEach(a)
  BY <1>1, <1>2 DEF OneEach
<1>4. ASSUME NEW t, Others(t, s), \A i \in DOMAIN t : t[i].number # x.number PROVE Others(t, a)
  BY <1>1, <1>2, <1>4 DEF Others
<1> QED BY <1>3, <1>4 DEF a

\* Each request has one packet.
OrderInv == OneEach(sent) /\ OneEach(cpackets) /\ Others(sent, cpackets)

\* No packets.
LEMMA NothingToOrder == OneEach(<<>>) /\ \A s : Others(s, <<>>)
BY EmptyIsSeq DEF OneEach, Others

\* A new packet keeps it, and what has been sent stays.
LEMMA OrderForwarded ==
  ASSUME Requested, OrderInv, NEW packet, Forward(packet), \A e \in Packets : e.number # packet.number
  PROVE  OrderInv' /\ Extends(sent, sent')
<1> DEFINE more == Append(cpackets, packet)
<1>1. IsSeq(cpackets) /\ IsSeq(sent) /\ IsSeq(more)
  BY Appended DEF Requested
<1>2. (\A i \in DOMAIN sent : sent[i].number # packet.number) /\ \A i \in DOMAIN cpackets : cpackets[i].number # packet.number
  BY DEF Packets
<1>3. OneEach(more) /\ Others(sent, more)
  BY <1>1, <1>2, OneEachAppended DEF OrderInv
<1>4. OneEach(sent \o more) /\ Extends(sent, sent \o more)
  BY <1>1, <1>3, OneEachJoined, JoinExtends DEF OrderInv
<1>5. CASE server = "none"
  <2>1. cpackets' = more /\ sent' = sent
    BY <1>5 DEF Forward
  <2> QED BY <1>3, <2>1 DEF OrderInv, Extends
<1>6. CASE server # "none"
  <2>1. cpackets' = <<>> /\ (sent' = sent \o more \/ sent' = sent)
    BY <1>6 DEF Forward, SendPackets
  <2> HIDE DEF more
  <2>2. OneEach(sent') /\ Extends(sent, sent')
    BY <1>4, <2>1 DEF OrderInv, Extends
  <2> QED BY <2>1, <2>2, NothingToOrder DEF OrderInv
<1> QED BY <1>5, <1>6

\* So does the connection to the server.
LEMMA OrderSent ==
  ASSUME Requested, OrderInv, ServerConnected
  PROVE  OrderInv' /\ Extends(sent, sent')
<1>1. IsSeq(cpackets) /\ IsSeq(sent)
  BY DEF Requested
<1>2. cpackets' = <<>> /\ sent' = sent \o cpackets
  BY DEF ServerConnected, SendPackets
<1>3. OneEach(sent \o cpackets) /\ Extends(sent, sent \o cpackets)
  BY <1>1, OneEachJoined, JoinExtends DEF OrderInv
<1> QED BY <1>2, <1>3, NothingToOrder DEF OrderInv
-----------------------------------------------------------------------------
(* What the mapper has reserved.                                           *)

\* keep() of a range that has been reserved for: one stays.
LEMMA SomeKept ==
  ASSUME NEW alt, AltOk(alt), NEW r \in Ranges, NEW k \in 1..Len(alt.orig), r.base = alt.orig[k].base,
         NEW new, new = Keep(alt, r)
  PROVE  /\ new.ports \in Ranges /\ new.ports # None /\ new.orig = alt.orig
         /\ alt.ports = None => \E n \in Nat : /\ n = FindByBase(alt.orig, r.base) /\ n + 1 \in 1..Len(alt.list)
                                                /\ new.ports = Resize(alt.list[n + 1], r.count)
<1> DEFINE n == FindByBase(alt.orig, r.base)
           s == alt.list[n + 1]
<1>1. /\ alt \in AltPortsStates /\ alt.list \in Seq(Ranges) /\ alt.orig \in Seq(Ranges)
      /\ alt.ports \in Ranges \cup {None} /\ None \notin Ranges
  BY AltPortsAssumption DEF AltOk, AltPortsStates, Ranges
<1>2. n \in Nat /\ n + 1 \in 1..Len(alt.orig) /\ n # -1
  <2>1. n # -1
    BY <1>1, BaseThere
  <2>2. n = -1 \/ (n \in Nat /\ n + 1 \in 1..Len(alt.orig))
    BY <1>1, BaseFound
  <2> HIDE DEF n
  <2> QED BY <2>1, <2>2
<1>3. new = IF alt.ports # None \/ n = -1 THEN alt
            ELSE [alt EXCEPT !.ports = Resize(s, r.count), !.list = <<>>]
  BY DEF Keep
<1> HIDE DEF n
<1>4. CASE alt.ports # None
  BY <1>1, <1>3, <1>4
<1>5. CASE alt.ports = None
  <2>1. n + 1 \in 1..Len(alt.list) /\ s \in Ranges
    BY <1>1, <1>2, <1>5, ElementOfSeq DEF AltOk
  <2> HIDE DEF s
  <2>2. Resize(s, r.count) \in Ranges
    BY <2>1 DEF Resize, Ranges
  <2>3. new = [alt EXCEPT !.ports = Resize(s, r.count), !.list = <<>>]
    BY <1>2, <1>3, <1>5
  <2>4. new.ports = Resize(s, r.count) /\ new.orig = alt.orig
    BY <1>1, <2>3 DEF AltPortsStates
  <2> QED BY <1>1, <1>2, <2>1, <2>2, <2>4 DEF n, s
<1> QED BY <1>4, <1>5

\* Without a reservation there is nothing; with one, the list of the client's ranges
\* and that of those that stand in for them, until one is kept.
MappedInv ==
  /\ ~reserved => cPorts = Empty /\ ~ready
  /\ reserved => cPorts.orig = cReal
  /\ reserved /\ cPorts.ports = None => cAlt = cPorts.list /\ StandIn(cReal, cAlt)

\* reserve() of what the client offers.
LEMMA MappedReserve ==
  ASSUME MapperInv, MappedInv, NEW ranges \in Seq(Ranges), ReserveDirectClient(ranges)
  PROVE  MappedInv'
<1>1. CASE reserved
  BY <1>1 DEF ReserveDirectClient, MappedInv, mapperVars
<1>2. CASE ~reserved
  <2>1. cReal' = ranges /\ ready' = ready
    BY <1>2 DEF ReserveDirectClient
  <2>2. CASE CanReserve(cPorts, ranges, Bound)
    <3>1. /\ cPorts' = Reserve(cPorts, ranges, Bound) /\ cAlt' = cPorts'.list /\ reserved' = TRUE
      BY <1>2, <2>2 DEF ReserveDirectClient
    <3>2. OtherPorts \subseteq Bound
      BY DEF Bound
    <3>3. AltOk(cPorts)
      BY DEF MapperInv
    <3> DEFINE new == cPorts'
    <3>4. /\ AltOk(new) /\ new.list \in Seq(Ranges) /\ Len(new.list) = Len(ranges)
          /\ new.orig = ranges /\ new.ports = None
          /\ \A i \in 1..Len(ranges) : new.list[i].count = ranges[i].count
      BY <2>2, <3>1, <3>2, <3>3, HeldReserved
    <3>5. \A i \in 1..Len(ranges) : Ports(new.list[i]) \subseteq Allowed
      <4>1. DOMAIN new.list = 1..Len(ranges)
        BY <3>4, LenProperties
      <4>2. Held(new) \subseteq Allowed
        BY <3>4 DEF AltOk
      <4> HIDE DEF new
      <4>3. \A i \in DOMAIN new.list : Ports(new.list[i]) \subseteq Held(new)
        BY DEF Held
      <4> QED BY <4>1, <4>2, <4>3
    <3>6. Apart(new.list)
      BY <3>4 DEF AltOk
    <3>7. StandIn(ranges, new.list)
      BY <3>4, <3>5, <3>6 DEF StandIn
    <3> QED BY <2>1, <3>1, <3>4, <3>7 DEF MappedInv
  <2>3. CASE ~CanReserve(cPorts, ranges, Bound)
    BY <1>2, <2>1, <2>3 DEF ReserveDirectClient, MappedInv
  <2> QED BY <2>2, <2>3
<1> QED BY <1>1, <1>2

\* finalize() does nothing, or keeps a range: the one with the index that it finds.
LEMMA ClientFinalized ==
  ASSUME MapperInv, MappedInv, NEW clientPorts \in Ranges, NEW serverPorts \in Ranges,
         Finalize(clientPorts, serverPorts)
  PROVE  \/ UNCHANGED <<cReal, cKept, cPorts, cAlt, sReal, sAlt, sPorts, ready, reserved>>
         \/ \E n \in Nat : /\ n = FindByBase(cAlt, clientPorts.base) /\ n + 1 \in 1..Len(cAlt) /\ n + 1 \in 1..Len(cReal)
                          /\ ~ready /\ reserved /\ reserved' /\ cReal' = cReal
                          /\ cKept' \in Ranges /\ cKept'.base = cReal[n + 1].base /\ cKept'.count = clientPorts.count
                          /\ cPorts' = Keep(cPorts, cKept') /\ sReal' = serverPorts
<1> DEFINE n == FindByBase(cAlt, clientPorts.base)
           real == [cReal[n + 1] EXCEPT !.count = clientPorts.count]
<1>1. reserved' = reserved
  BY DEF Finalize
<1>2. CASE ready \/ n = -1
  BY <1>1, <1>2 DEF Finalize
<1>3. CASE ~(ready \/ n = -1)
  <2>1. FinalizeClient(n, clientPorts.count) /\ sReal' = serverPorts
    BY <1>3 DEF Finalize
  <2>2. cReal' = cReal /\ cKept' = real /\ cPorts' = Keep(cPorts, cKept')
    BY <2>1 DEF FinalizeClient
  <2>3. n = -1 \/ (n \in Nat /\ n + 1 \in 1..Len(cAlt))
    BY BaseFound DEF MapperInv
  <2>4. n \in Nat /\ n + 1 \in 1..Len(cAlt)
    <3> HIDE DEF n
    <3> QED BY <1>3, <2>3
  <2>5. reserved /\ n + 1 \in 1..Len(cReal)
    <3>1. Len(<<>>) = 0 /\ \A i \in 1..0 : FALSE
      BY EmptyIsSeq, SMT
    <3> HIDE DEF n
    <3>2. reserved
      BY <2>4, <3>1 DEF MapperInv
    <3>3. Len(cAlt) \in Nat /\ Len(cReal) \in Nat /\ Len(cAlt) <= Len(cReal)
      BY <3>2, LenProperties DEF MapperInv
    <3> QED BY <2>4, <3>2, <3>3, SMT
  <2> HIDE DEF n
  <2>6. real \in Ranges /\ real.base = cReal[n + 1].base /\ real.count = clientPorts.count
    <3>1. cReal[n + 1] \in Ranges
      BY <2>5, ElementOfSeq DEF MapperInv
    <3> QED BY <3>1 DEF Ranges
  <2> HIDE DEF real
  <2> QED BY <1>1, <1>3, <2>1, <2>2, <2>4, <2>5, <2>6 DEF n
<1> QED BY <1>2, <1>3

\* finalize(), with both sides.
LEMMA MappedFinalize ==
  ASSUME MapperInv, MappedInv, NEW clientPorts \in Ranges, NEW serverPorts \in Ranges,
         Finalize(clientPorts, serverPorts)
  PROVE  MappedInv' /\ (reserved' = reserved) /\ (cPorts'.ports = None => cPorts' = cPorts)
<1>1. CASE UNCHANGED <<cReal, cKept, cPorts, cAlt, sReal, sAlt, sPorts, ready, reserved>>
  BY <1>1 DEF MappedInv
<1>2. ASSUME NEW n \in Nat, n + 1 \in 1..Len(cReal), reserved, reserved', cReal' = cReal,
             cKept' \in Ranges, cKept'.base = cReal[n + 1].base, cPorts' = Keep(cPorts, cKept')
      PROVE  MappedInv' /\ (reserved' = reserved) /\ (cPorts'.ports = None => cPorts' = cPorts)
  <2>1. AltOk(cPorts) /\ cPorts.orig = cReal
    BY <1>2 DEF MapperInv, MappedInv
  <2> DEFINE r == cKept'
             new == cPorts'
  <2>2. r \in Ranges /\ n + 1 \in 1..Len(cPorts.orig) /\ r.base = cPorts.orig[n + 1].base /\ new = Keep(cPorts, r)
    BY <1>2, <2>1
  <2> HIDE DEF r, new
  <2>3. new.ports # None /\ new.orig = cPorts.orig
    BY <2>1, <2>2, SomeKept
  <2>4. reserved' = reserved
    BY <1>2 DEF MappedInv, Finalize
  <2> QED BY <1>2, <2>1, <2>3, <2>4 DEF MappedInv, new
<1> QED BY <1>1, <1>2, ClientFinalized
-----------------------------------------------------------------------------
(* The SETUPs that are forwarded.                                          *)

\* A packet is of the request `asked', and holds transports that the code has read.
Offered(e, asked) ==
  /\ asked.text \in Offers /\ asked.ports = GetPorts(transports(asked.text), "client_port")
  /\ e.list \in Seq(TransportsOf(OfferTokens)) /\ \A k \in 1..Len(e.list) : ProperTransport(e.list[k])

\* As long as nothing is reserved its ranges could not be; from then until one range is
\* kept it names those that are held, if it is about the ranges that were reserved.
Reserving(e, asked, held, alt) ==
  /\ ~held => ~CanReserve(Empty, asked.ports, OtherPorts)
  /\ held /\ alt.ports = None /\ asked.ports = alt.orig =>
       e.list = transports(ListText(SetPorts(transports(asked.text), "client_port", alt.list)))

SetupsInv ==
  \A e \in Packets : e.setup =>
    /\ Offered(e, requests[e.number]) /\ Reserving(e, requests[e.number], reserved, cPorts)
    /\ e.number = Len(requests) => lastWasSetup

\* Before the reservation the proxy has no ports.
LEMMA NothingBound ==
  ASSUME MappedInv, ServerInv, ~reserved
  PROVE  cPorts = Empty /\ Bound = OtherPorts
<1>1. cPorts = Empty /\ sPorts = Empty
  BY DEF MappedInv, ServerInv
<1>2. Held(Empty) = {}
  BY EmptyIsOk
<1> QED BY <1>1, <1>2 DEF Bound

\* reserveDirectClient() for a request: those before it, and its own packet.
LEMMA StillReserving ==
  ASSUME MapperInv, MappedInv, ServerInv, NEW ranges \in Seq(Ranges), ReserveDirectClient(ranges),
         NEW e, NEW asked, Reserving(e, asked, reserved, cPorts)
  PROVE  Reserving(e, asked, reserved', cPorts')
<1>1. CASE reserved
  BY <1>1 DEF ReserveDirectClient, mapperVars
<1>2. CASE ~reserved
  <2>1. cPorts = Empty /\ Bound = OtherPorts
    BY <1>2, NothingBound
  <2>2. CASE CanReserve(cPorts, ranges, Bound)
    <3>1. cPorts' = Reserve(cPorts, ranges, Bound) /\ reserved' = TRUE
      BY <1>2, <2>2 DEF ReserveDirectClient
    <3>2. cPorts'.orig = ranges
      <4>1. AltOk(cPorts) /\ OtherPorts \subseteq Bound
        BY <2>1 DEF MapperInv
      <4> QED BY <2>2, <3>1, <4>1, HeldReserved
    <3>3. asked.ports # ranges
      BY <1>2, <2>1, <2>2 DEF Reserving
    <3> QED BY <3>1, <3>2, <3>3 DEF Reserving
  <2>3. CASE ~CanReserve(cPorts, ranges, Bound)
    BY <1>2, <2>3 DEF ReserveDirectClient
  <2> QED BY <2>2, <2>3
<1> QED BY <1>1, <1>2

\* It reserves for the first one.
LEMMA NowReserving ==
  ASSUME MapperInv, MappedInv, ServerInv, NEW asked, asked.ports \in Seq(Ranges), ReserveDirectClient(asked.ports),
         NEW e, e.list = transports(ListText(SetPorts(transports(asked.text), "client_port", cAlt')))
  PROVE  Reserving(e, asked, reserved', cPorts')
<1>1. ASSUME reserved', cPorts'.ports = None PROVE cAlt' = cPorts'.list
  <2>1. MappedInv'
    BY MappedReserve
  <2> QED BY <1>1, <2>1 DEF MappedInv
<1>2. ASSUME ~reserved' PROVE ~CanReserve(Empty, asked.ports, OtherPorts)
  <2>1. ~reserved
    BY <1>2 DEF ReserveDirectClient, mapperVars
  <2>2. cPorts = Empty /\ Bound = OtherPorts
    BY <2>1, NothingBound
  <2> QED BY <1>2, <2>1, <2>2 DEF ReserveDirectClient
<1> QED BY <1>1, <1>2 DEF Reserving

\* A SETUP of the client: what is kept of it, and what is forwarded.
SetupTaken(offer, asked, packet) ==
  /\ asked.text = offer /\ asked.ports = GetPorts(transports(offer), "client_port")
  /\ requests' = Append(requests, asked) /\ ReserveDirectClient(asked.ports)
  /\ packet.number = Len(requests') /\ packet.setup
  /\ packet.list = transports(ListText(SetPorts(transports(offer), "client_port", cAlt')))
  /\ Forward(packet)
  /\ lastWasSetup' = TRUE /\ UNCHANGED <<client, told, final, answered>>

\* A SETUP of the client.
LEMMA SetupIsTaken ==
  ASSUME NEW offer, ClientSetup(offer)
  PROVE  \E asked, packet : SetupTaken(offer, asked, packet)
<1>1. PICK list \in {transports(offer)} : \E pl \in {GetPorts(list, "client_port")} :
        /\ requests' = Append(requests, [text |-> offer, ports |-> pl])
        /\ ReserveDirectClient(pl)
        /\ \E text \in {ListText(SetPorts(list, "client_port", cAlt'))} :
           \E read \in {transports(text)} :
             Forward([number |-> Len(requests'), setup |-> TRUE, text |-> text, list |-> read])
  BY Zenon DEF ClientSetup
<1>2. PICK pl \in {GetPorts(list, "client_port")} :
        /\ requests' = Append(requests, [text |-> offer, ports |-> pl])
        /\ ReserveDirectClient(pl)
        /\ \E text \in {ListText(SetPorts(list, "client_port", cAlt'))} :
           \E read \in {transports(text)} :
             Forward([number |-> Len(requests'), setup |-> TRUE, text |-> text, list |-> read])
  BY <1>1, Zenon
<1>3. PICK text \in {ListText(SetPorts(list, "client_port", cAlt'))} : \E read \in {transports(text)} :
             Forward([number |-> Len(requests'), setup |-> TRUE, text |-> text, list |-> read])
  BY <1>2, Zenon
<1>4. PICK read \in {transports(text)} :
             Forward([number |-> Len(requests'), setup |-> TRUE, text |-> text, list |-> read])
  BY <1>3, Zenon
<1>5. lastWasSetup' = TRUE /\ UNCHANGED <<client, told, final, answered>>
  BY DEF ClientSetup
<1> DEFINE asked  == [text |-> offer, ports |-> pl]
           packet == [number |-> Len(requests'), setup |-> TRUE, text |-> text, list |-> read]
<1>6. /\ asked.text = offer /\ asked.ports = pl
      /\ packet.number = Len(requests') /\ packet.setup /\ packet.list = read
  OBVIOUS
<1>7. requests' = Append(requests, asked) /\ ReserveDirectClient(pl) /\ Forward(packet)
  BY <1>2, <1>4
<1> HIDE DEF asked, packet
<1>8. pl = GetPorts(transports(offer), "client_port")
  BY <1>1, <1>2
<1>9. read = transports(ListText(SetPorts(transports(offer), "client_port", cAlt')))
  BY <1>1, <1>3, <1>4
<1>10. SetupTaken(offer, asked, packet)
  BY <1>5, <1>6, <1>7, <1>8, <1>9 DEF SetupTaken
<1> QED BY <1>10

\* The packets before a request, and the one for it.
LEMMA RequestKeeps ==
  ASSUME Requested, TextsInv, NEW asked, requests' = Append(requests, asked), NEW packet, packet.number = Len(requests')
  PROVE  /\ \A e \in Packets : e.number \in 1..Len(requests) /\ requests'[e.number] = requests[e.number]
                               /\ e.number # packet.number
         /\ requests'[packet.number] = asked /\ packet.number = Len(requests) + 1 /\ packet.number \in 1..Len(requests')
         /\ Len(requests) \in Nat /\ \A i \in 1..Len(requests) : requests'[i] = requests[i] /\ i \in 1..Len(requests')
<1> DEFINE n == Len(requests)
<1>1. /\ n \in Nat /\ Len(requests') = n + 1 /\ requests'[n + 1] = asked
      /\ \A i \in 1..n : requests'[i] = requests[i]
  BY Appended DEF Requested
<1>2. \A e \in Packets : e.number \in 1..n
  BY DEF TextsInv, PacketOk
<1> HIDE DEF n
<1>3. n + 1 \in 1..(n + 1) /\ \A i \in 1..n : i \in 1..(n + 1) /\ i # n + 1
  BY <1>1, SMT
<1>4. packet.number = n + 1
  BY <1>1
<1> QED BY <1>1, <1>2, <1>3, <1>4 DEF n

\* Such a step keeps what is known of the SETUPs.
LEMMA SetupsSetup ==
  ASSUME Requested, PortsInv, TextsInv, ServerInv, MappedInv, SetupsInv,
         NEW offer \in Offers, NEW asked, NEW packet, SetupTaken(offer, asked, packet)
  PROVE  SetupsInv' /\ MappedInv'
<1> DEFINE X == OfferTokens
           list == transports(offer)
<1>1. Alphabet(X) /\ Writable(X) /\ X \subseteq Tokens /\ offer \in Seq(X) /\ \A s \in Seq(X) : s \in TokenSeqs
  BY OfferAlphabet DEF Alphabet, Writable
<1>2. list \in Seq(TransportsOf(X)) /\ list \in Seq(Transports)
  BY <1>1, TransportsReadOf, TransportsRead
<1>3. asked.ports \in Seq(Ranges)
  BY <1>2, PortsGot DEF SetupTaken
<1>4. MapperInv /\ ReserveDirectClient(asked.ports) /\ requests' = Append(requests, asked)
      /\ packet.number = Len(requests') /\ Forward(packet) /\ lastWasSetup' = TRUE /\ packet.setup
      /\ asked.text = offer /\ asked.ports = GetPorts(list, "client_port")
  BY DEF SetupTaken, PortsInv
<1>5. cAlt' \in Seq(Ranges)
  BY <1>3, <1>4, ReserveStep DEF MapperInv
<1> DEFINE text == ListText(SetPorts(list, "client_port", cAlt'))
<1>6. text \in Seq(X)
  BY <1>1, <1>2, <1>5, PortsSetOf, ListTextOf
<1>7. packet.list = transports(text)
  BY DEF SetupTaken
<1> HIDE DEF text
<1>8. Offered(packet, asked)
  <2>1. packet.list \in Seq(TransportsOf(X))
    BY <1>1, <1>6, <1>7, TransportsReadOf
  <2>2. \A k \in 1..Len(packet.list) : ProperTransport(packet.list[k])
    BY <1>1, <1>6, <1>7, TransportsProper DEF Tidy
  <2> QED BY <1>4, <2>1, <2>2 DEF Offered
<1>9. Reserving(packet, asked, reserved', cPorts')
  BY <1>3, <1>4, <1>7, NowReserving DEF text
<1>10. \A e \in Packets' : e \in Packets \/ e = packet
  BY <1>4, PacketsForwarded
<1>11. requests'[packet.number] = asked /\ \A e \in Packets : requests'[e.number] = requests[e.number]
  BY <1>4, RequestKeeps
<1>12. ASSUME NEW e \in Packets, e.setup
       PROVE  Offered(e, requests'[e.number]) /\ Reserving(e, requests'[e.number], reserved', cPorts')
  BY <1>3, <1>4, <1>11, <1>12, StillReserving DEF SetupsInv
<1>13. MappedInv'
  BY <1>3, <1>4, MappedReserve
<1> HIDE DEF X
<1> QED BY <1>4, <1>8, <1>9, <1>10, <1>11, <1>12, <1>13 DEF SetupsInv

\* So does any other request.
LEMMA SetupsRequest ==
  ASSUME Requested, TextsInv, MappedInv, SetupsInv, ClientRequest
  PROVE  SetupsInv' /\ MappedInv' /\ (OrderInv => OrderInv' /\ Extends(sent, sent'))
<1> DEFINE packet == [number |-> Len(requests'), setup |-> FALSE, text |-> <<>>, list |-> <<>>]
           x == [text |-> <<>>, ports |-> <<>>]
<1>1. Forward(packet) /\ requests' = Append(requests, x) /\ UNCHANGED mapperVars
  BY DEF ClientRequest
<1>2. packet.number = Len(requests') /\ ~packet.setup
  OBVIOUS
<1> HIDE DEF packet, x
<1>3. \A e \in Packets' : e \in Packets \/ e = packet
  BY <1>1, PacketsForwarded
<1>4. \A e \in Packets : requests'[e.number] = requests[e.number] /\ e.number # packet.number
  BY <1>1, <1>2, RequestKeeps
<1>5. SetupsInv' /\ MappedInv'
  BY <1>1, <1>2, <1>3, <1>4 DEF SetupsInv, MappedInv, mapperVars
<1>6. OrderInv => OrderInv' /\ Extends(sent, sent')
  BY <1>1, <1>4, OrderForwarded
<1> QED BY <1>5, <1>6
-----------------------------------------------------------------------------
(* The answer that makes the mapper ready.                                 *)

\* A sequence that is made smaller.
LEMMA Smaller ==
  ASSUME NEW r \in Ranges, NEW count \in Nat, count <= r.count
  PROVE  Resize(r, count) \in Ranges /\ Resize(r, count).base = r.base /\ Resize(r, count).count = count
<1> DEFINE b == r.base
           c == r.count
<1>1. r = [base |-> b, count |-> c] /\ b \in Nat /\ c \in Nat /\ count <= c
  BY DEF Ranges
<1> HIDE DEF b, c
<1>2. Resize(r, count) = [base |-> b, count |-> count]
  <2>1. CASE count = c
    BY <1>1, <2>1 DEF Resize
  <2>2. CASE count # c
    <3>1. ~(c < count)
      BY <1>1, SMT
    <3>2. ~(count > c)
      BY <3>1, <1>1, SMT
    <3> QED BY <1>1, <3>2 DEF Resize
  <2> QED BY <2>1, <2>2
<1> QED BY <1>1, <1>2 DEF Ranges

\* Of the ranges that stand in for those of the request, the one that the server
\* answers is kept for the one with the same place.
LEMMA FinalPaired ==
  ASSUME MapperInv, MappedInv, NEW c \in Ranges, NEW used \in Ranges, Finalize(c, used), ready' # ready,
         cPorts.ports = None,
         NEW asked, asked.text \in Offers, asked.ports = GetPorts(transports(asked.text), "client_port"),
         ~EndsInEqual(asked.text), asked.ports = cPorts'.orig,
         NEW e, Reserving(e, asked, reserved, cPorts), NEW k \in 1..Len(e.list),
         NEW ports \in Ranges, ports = PortsOf(e.list[k], "client_port"),
         c.base = ports.base, c.count = used.count, used.count <= ports.count
  PROVE  /\ cKept'.base = PortsOf(transports(asked.text)[k], "client_port").base
         /\ cPorts'.ports \in Ranges /\ cPorts'.ports.base = ports.base /\ cPorts'.ports.count = used.count
         /\ sReal' = used
<1> DEFINE old  == cPorts.orig
           new  == cPorts.list
           list == transports(asked.text)
           x    == PortsOf(list[k], "client_port")
           kept == cKept'
<1>1. PICK n \in Nat : /\ n = FindByBase(cAlt, c.base) /\ n + 1 \in 1..Len(cReal)
                       /\ reserved /\ kept \in Ranges /\ kept.base = cReal[n + 1].base /\ kept.count = c.count
                       /\ cPorts' = Keep(cPorts, kept) /\ sReal' = used
  BY ClientFinalized
<1>2. AltOk(cPorts) /\ old = cReal /\ new = cAlt /\ StandIn(old, new) /\ old \in Seq(Ranges) /\ new \in Seq(Ranges)
  BY <1>1 DEF MapperInv, MappedInv
<1> DEFINE alt == cPorts'
<1>3. /\ alt.ports \in Ranges /\ alt.orig = old
      /\ \E p \in Nat : p = FindByBase(old, kept.base) /\ p + 1 \in 1..Len(new) /\ alt.ports = Resize(new[p + 1], kept.count)
  <2>1. n + 1 \in 1..Len(old) /\ kept.base = old[n + 1].base
    BY <1>1, <1>2
  <2>2. kept \in Ranges /\ alt = Keep(cPorts, kept)
    BY <1>1
  <2> HIDE DEF kept, alt
  <2> QED BY ONLY <1>2, <2>1, <2>2, cPorts.ports = None, SomeKept
<1>4. asked.ports = old
  BY <1>3
<1>5. e.list = transports(ListText(SetPorts(list, "client_port", new)))
  BY <1>1, <1>4 DEF Reserving
<1>6. asked.text \in Seq(CountedTokens)
  BY CountedAlphabet
<1>7. /\ Distinct(old) /\ Distinct(new) /\ Len(e.list) = Len(list)
      /\ \A j \in 1..Len(list) : PortsOf(e.list[j], "client_port") # None =>
           Renamed(old, new, PortsOf(list[j], "client_port"), PortsOf(e.list[j], "client_port"))
  <2>1. StandIn(GetPorts(list, "client_port"), new) /\ old = GetPorts(list, "client_port")
    BY <1>2, <1>4
  <2> HIDE DEF new, old
  <2> QED BY ONLY <1>5, <1>6, <2>1, ~EndsInEqual(asked.text), OfferRenamed
<1>8. ports # None
  BY AltPortsAssumption DEF Ranges
<1>9. Renamed(old, new, x, ports)
  BY <1>7, <1>8
<1> HIDE DEF old, new, list, kept, alt, x
<1>10. PICK m \in 1..Len(old) : /\ x \in Ranges /\ old[m].base = x.base /\ x.count <= old[m].count
                                /\ ports.base = new[m].base /\ ports.count = x.count
  BY <1>9 DEF Renamed
<1>11. Len(new) = Len(old) /\ new[m].count = old[m].count /\ new[m] \in Ranges /\ old[m] \in Ranges /\ m \in 1..Len(new)
  BY <1>2, <1>10, ElementOfSeq DEF StandIn
<1>12. m \in Nat /\ \A p \in Nat : p = m - 1 => p + 1 = m
  <2>1. Len(old) \in Nat
    BY <1>2, LenProperties
  <2> QED BY <2>1, <1>10, SMT
<1>13. n + 1 = m
  <2>1. FindByBase(new, new[m].base) = m - 1
    BY <1>2, <1>7, <1>11, BaseIs
  <2>2. n = FindByBase(new, new[m].base)
    BY <1>1, <1>2, <1>10
  <2> QED BY <1>12, <2>1, <2>2
<1>14. kept.base = x.base
  BY <1>1, <1>2, <1>10, <1>13
<1>15. alt.ports = Resize(new[m], used.count)
  <2>1. PICK p \in Nat : p = FindByBase(old, kept.base) /\ alt.ports = Resize(new[p + 1], kept.count)
    BY <1>3
  <2>2. FindByBase(old, old[m].base) = m - 1
    BY <1>2, <1>7, BaseIs
  <2>3. p + 1 = m
    BY <1>10, <1>12, <1>14, <2>1, <2>2
  <2> QED BY <1>1, <2>1, <2>3
<1>16. used.count \in Nat /\ used.count <= new[m].count
  <2> DEFINE a == used.count
             b == ports.count
             d == new[m].count
  <2>1. a \in Nat /\ b \in Nat /\ d \in Nat /\ a <= b /\ b <= d
    BY <1>10, <1>11 DEF Ranges
  <2> HIDE DEF a, b, d
  <2>2. a <= d
    BY <2>1, SMT
  <2> QED BY <2>1, <2>2 DEF a, d
<1>17. alt.ports \in Ranges /\ alt.ports.base = new[m].base /\ alt.ports.count = used.count
  BY <1>11, <1>15, <1>16, Smaller
<1> QED BY <1>1, <1>10, <1>14, <1>17 DEF kept, x, list, alt
-----------------------------------------------------------------------------
(* The answers.                                                            *)

\* What is read of an answer to a SETUP: the ports c of one that was offered, and those
\* that the server has taken.
ReplyRead(r, k, c, used, list) ==
  /\ r \in Packets /\ r.setup /\ k \in 1..Len(r.list) /\ c \in Ranges /\ used \in Ranges /\ used.count > 0
  /\ list \in Seq(TransportsOf(CountedTokens)) /\ list = <<list[1]>>
  /\ PortsOf(list[1], "server_port") = used
  /\ At(GetPorts(list, "client_port"), 0) = c /\ At(GetPorts(list, "server_port"), 0) = used

\* The answer, as the client reads it.
LEMMA ReplyIs ==
  ASSUME SetupsInv, NEW r, NEW k, NEW ports, NEW used, NEW reply, NEW list, NEW new,
         AnswerTo(r, k, ports, used, reply, list, new)
  PROVE  ReplyRead(r, k, [base |-> ports.base, count |-> used.count], used, list)
<1> DEFINE c == [base |-> ports.base, count |-> used.count]
           t == r.list[k]
<1>1. /\ answered + 1 \in DOMAIN sent /\ r = sent[answered + 1] /\ r.setup /\ k \in DOMAIN r.list
      /\ ports = PortsOf(t, "client_port") /\ ports \in Ranges /\ ports.base # 0
      /\ used \in Ranges /\ used.base = ServerBase /\ used.count > 0
      /\ reply = ReplyText(t, ports, used) /\ reply \in Counteds /\ list = transports(reply)
  BY Zenon DEF AnswerTo, PortsOf
<1>2. r \in Packets
  BY <1>1 DEF Packets
<1>3. /\ r.list \in Seq(TransportsOf(OfferTokens)) /\ \A i \in 1..Len(r.list) : ProperTransport(r.list[i])
  BY <1>1, <1>2 DEF SetupsInv, Offered
<1>4. k \in 1..Len(r.list)
  BY <1>1, <1>3, LenProperties
<1>5. ProperTransport(t) /\ NoneNamed(t, "server_port")
  BY <1>3, <1>4, ElementOfSeq, NoServerPorts
<1>6. c \in Ranges
  BY <1>1 DEF Ranges
<1>7. used.base > 0
  BY <1>1, RtspSessionAssumption
<1> HIDE DEF t, c
<1>8. /\ list[1] \in Transports /\ list = <<list[1]>>
      /\ PortsOf(list[1], "client_port") = c /\ PortsOf(list[1], "server_port") = used
  <2>1. LET l == transports(ReplyText(t, ports, used))
        IN  /\ l[1] \in Transports /\ l = <<l[1]>>
            /\ PortsOf(l[1], "client_port") = [base |-> ports.base, count |-> used.count]
            /\ PortsOf(l[1], "server_port") = used
    BY ONLY <1>1, <1>5, <1>7, ReplyReadBack
  <2> QED BY <1>1, <2>1 DEF c
<1>9. list \in Seq(TransportsOf(CountedTokens))
  BY <1>1, CountedAlphabet, TransportsReadOf DEF Counteds, Alphabet, Writable
<1> DEFINE l1 == list[1]
<1>10. l1 \in Transports /\ list = <<l1>> /\ PortsOf(l1, "client_port") = c /\ PortsOf(l1, "server_port") = used
  BY <1>8
<1> HIDE DEF l1
<1>11. c # None /\ used # None
  BY <1>1, <1>6, AltPortsAssumption DEF Ranges
<1>12. GetPorts(list, "client_port") = <<c>> /\ GetPorts(list, "server_port") = <<used>>
  BY <1>10, <1>11, PortsOfOne
<1>13. At(<<c>>, 0) = c /\ At(<<used>>, 0) = used
  BY <1>1, <1>6, AtFirst
<1> QED BY <1>1, <1>2, <1>4, <1>6, <1>8, <1>9, <1>12, <1>13 DEF c, ReplyRead

\* The server's range, and the list that answers are rewritten with.
LEMMA ServerNames ==
  ASSUME NEW alt, NEW list,
         (alt = Empty /\ list = <<>>) \/ (alt.ports \in Ranges /\ list = <<alt.ports>>)
  PROVE  list \in Seq(Ranges) /\ At(list, 0).base = RangeOf(alt).base
<1>1. CASE alt = Empty /\ list = <<>>
  <2>1. alt.ports = None
    BY <1>1 DEF Empty
  <2> QED BY <1>1, <2>1, AtFirst, EmptySeq DEF RangeOf
<1>2. CASE alt.ports \in Ranges /\ list = <<alt.ports>>
  <2> DEFINE p == alt.ports
  <2>1. p \in Ranges /\ p # None /\ list = <<p>> /\ RangeOf(alt) = IF p = None THEN NoRange ELSE p
    BY <1>2, AltPortsAssumption DEF Ranges, RangeOf
  <2> HIDE DEF p
  <2>2. <<p>> \in Seq(Ranges)
    BY <2>1
  <2> QED BY <2>1, <2>2, AtFirst
<1> QED BY <1>1, <1>2

\* finalize() makes the mapper ready once, and then leaves it.
LEMMA FinalizedOnce ==
  ASSUME NEW c, NEW used, Finalize(c, used)
  PROVE  /\ ready => UNCHANGED <<cKept, cPorts, sReal, sAlt, sPorts, ready>>
         /\ ready' # ready => ready' /\ ~ready
         /\ ready' = ready => sPorts' = sPorts
<1> DEFINE n == FindByBase(cAlt, c.base)
           Can == CanReserve(sPorts, <<used>>, OtherPorts \cup Held(cPorts') \cup Held(sPorts))
<1>1. IF ready \/ n = -1 THEN UNCHANGED <<cReal, cKept, cPorts, cAlt, sReal, sAlt, sPorts, ready>>
      ELSE IF Can THEN ready' = TRUE ELSE sPorts' = sPorts /\ ready' = ready
  BY Zenon DEF Finalize
<1> HIDE DEF n, Can
<1> QED BY <1>1

-----------------------------------------------------------------------------
\* The requests that the server has answered.
Numbers == {sent[i].number : i \in DOMAIN sent \cap (1..answered)}

\* The ports that an answer names to the client.
NamesHeld(t, alt, last) ==
  LET r == At(t.ports, 0)
  IN  /\ r.base \in {0, RangeOf(alt).base}
      /\ last # None /\ last.number = t.number => Ports(r) \subseteq Held(alt)

\* The ranges that are kept are those that client and server were asked and offered.
Paired(f, kept, ports, real) ==
  /\ kept.base = f.asked.base
  /\ ports \in Ranges /\ ports.base = f.offered.base /\ ports.count = f.taken.count
  /\ real = f.taken /\ real \in Ranges

\* The final answer f is one of those, and about the ranges that were reserved.
FinalOk(f, asked, alt) ==
  ~f.again /\ asked[f.number].ports = alt.orig /\ ~EndsInEqual(asked[f.number].text)

AnswersInv ==
  /\ \A t \in told : t.number \in Numbers /\ (t.latest = t.number => NamesHeld(t, sPorts, final))
  /\ final # None => /\ ready /\ final.number \in Numbers /\ final.number \in 1..Len(requests)
                     /\ FinalOk(final, requests, cPorts) => Paired(final, cKept, cPorts.ports, sReal)

\* More requests and packets leave it.
LEMMA AnswersKept ==
  ASSUME AnswersInv, MappedInv, UNCHANGED <<told, final, answered, sPorts, ready>>, Extends(sent, sent'),
         reserved => UNCHANGED mapperVars,
         \A i \in 1..Len(requests) : requests'[i] = requests[i] /\ i \in 1..Len(requests')
  PROVE  AnswersInv'
<1>1. Numbers \subseteq Numbers'
  BY DEF Numbers, Extends
<1>2. ready => UNCHANGED <<cKept, cPorts, sReal>>
  BY DEF MappedInv, mapperVars
<1>3. ASSUME final # None PROVE FinalOk(final', requests', cPorts') = FinalOk(final, requests, cPorts)
  BY <1>2, <1>3 DEF AnswersInv, FinalOk
<1>4. \A t \in told' : t.number \in Numbers' /\ (t.latest = t.number => NamesHeld(t, sPorts', final'))
  BY <1>1 DEF AnswersInv
<1>5. ASSUME final' # None
      PROVE  /\ ready' /\ final'.number \in Numbers' /\ final'.number \in 1..Len(requests')
             /\ FinalOk(final', requests', cPorts') => Paired(final', cKept', cPorts'.ports, sReal')
  BY <1>1, <1>2, <1>3, <1>5 DEF AnswersInv
<1> QED BY <1>4, <1>5 DEF AnswersInv

\* What an answer does to the mapper.
LEMMA AnswerMapper ==
  ASSUME SetupsInv, NEW r, NEW k, NEW ports, NEW used, NEW reply, NEW list, NEW new,
         AnswerTo(r, k, ports, used, reply, list, new)
  PROVE  /\ UNCHANGED mapperVars \/ Finalize([base |-> ports.base, count |-> used.count], used)
         /\ ready => UNCHANGED <<cKept, cPorts, sReal, sAlt, sPorts, ready>>
         /\ ready' # ready => ready' /\ ~ready /\ Finalize([base |-> ports.base, count |-> used.count], used)
         /\ ready' = ready => sPorts' = sPorts
<1> DEFINE c == [base |-> ports.base, count |-> used.count]
<1>1. At(GetPorts(list, "client_port"), 0) = c /\ At(GetPorts(list, "server_port"), 0) = used
  <2>1. ReplyRead(r, k, [base |-> ports.base, count |-> used.count], used, list)
    BY ReplyIs
  <2> QED BY <2>1 DEF ReplyRead
<1> HIDE DEF c
<1>2. UNCHANGED mapperVars \/ Finalize(c, used)
  <2>1. \/ Finalize(At(GetPorts(list, "client_port"), 0), At(GetPorts(list, "server_port"), 0))
        \/ UNCHANGED mapperVars
    BY Zenon DEF AnswerTo
  <2> QED BY <1>1, <2>1
<1>3. CASE UNCHANGED mapperVars
  BY <1>2, <1>3 DEF mapperVars, c
<1>4. CASE Finalize(c, used)
  BY <1>2, <1>4, FinalizedOnce DEF c
<1> QED BY <1>2, <1>3, <1>4

\* The answered request is none of those before.
LEMMA AnswerNumbers ==
  ASSUME Requested, PortsInv, OrderInv, NEW r, answered + 1 \in DOMAIN sent, r = sent[answered + 1],
         answered' = answered + 1, sent' = sent
  PROVE  r.number \notin Numbers /\ r.number \in Numbers' /\ Numbers \subseteq Numbers'
<1>1. answered \in Nat /\ DOMAIN sent = 1..Len(sent)
  BY Appended DEF PortsInv, Requested
<1>2. answered + 1 \in 1..(answered + 1) /\ \A i \in 1..answered : i \in 1..(answered + 1) /\ i # answered + 1
  BY <1>1, SMT
<1>3. r.number \notin Numbers
  <2> SUFFICES ASSUME NEW i \in DOMAIN sent \cap (1..answered), sent[i].number = r.number PROVE FALSE
    BY DEF Numbers
  <2>1. i = answered + 1
    BY DEF OrderInv, OneEach
  <2> QED BY <1>2, <2>1
<1>4. r.number \in Numbers' /\ Numbers \subseteq Numbers'
  BY <1>2 DEF Numbers
<1> QED BY <1>3, <1>4

\* The range that is kept for the server, when it has ports.
LEMMA RangeHeld ==
  ASSUME NEW alt, AltOk(alt), alt.ports \in Ranges, alt.ports.count > 0
  PROVE  /\ RangeOf(alt) = alt.ports /\ Ports(alt.ports) \subseteq Held(alt) /\ alt.ports.base > 0
         /\ \A r : r.base = alt.ports.base /\ r.count = alt.ports.count => Ports(r) \subseteq Held(alt)
<1> DEFINE p == alt.ports
           b == p.base
           n == p.count
<1>1. p # None /\ b \in Nat /\ n \in Nat /\ n > 0
  BY AltPortsAssumption DEF Ranges
<1>2. RangeOf(alt) = p /\ Ports(p) \subseteq Held(alt) /\ Held(alt) \subseteq Allowed
  BY <1>1 DEF RangeOf, Held, AltOk
<1>3. \A r : r.base = b /\ r.count = n => Ports(r) = Ports(p)
  BY DEF Ports
<1>4. Ports(p) = b..(b + n - 1)
  <2> HIDE DEF p
  <2> QED BY DEF Ports
<1> HIDE DEF b, n, p
<1>5. b \in Ports(p)
  BY <1>1, <1>4, SMT
<1>6. b \in PORT_ALLOC_BASE..PORT_ALLOC_MAX
  BY <1>2, <1>5 DEF Allowed
<1>7. b > 0
  BY <1>6, AltPortsAssumption, SMT
<1> QED BY <1>2, <1>3, <1>7 DEF p, b, n

\* What is told of the answer.
LEMMA NewlyTold ==
  ASSUME SetupsInv, ServerInv', MapperInv', NEW r, NEW k, NEW ports, NEW used, NEW reply, NEW list, NEW new,
         AnswerTo(r, k, ports, used, reply, list, new), lastWasSetup,
         NEW t, t.number = r.number, t.ports = GetPorts(new, "server_port"),
         NEW last, last # None /\ last.number = r.number => ready' /\ sReal' = used
  PROVE  NamesHeld(t, sPorts', last)
<1> DEFINE alt == sPorts'
           ranges == sAlt'
           a == At(ranges, 0).base
           x == At(GetPorts(SetPorts(list, "server_port", ranges), "server_port"), 0)
<1>1. (alt = Empty /\ ranges = <<>>) \/ (alt.ports \in Ranges /\ ranges = <<alt.ports>>)
  BY DEF ServerInv
<1>2. ranges \in Seq(Ranges) /\ a = RangeOf(alt).base
  <2> HIDE DEF alt, ranges
  <2> QED BY <1>1, ServerNames
<1>3. list \in Seq(TransportsOf(CountedTokens)) /\ list = <<list[1]>> /\ PortsOf(list[1], "server_port") = used
      /\ used \in Ranges /\ used.count > 0
  <2>1. ReplyRead(r, k, [base |-> ports.base, count |-> used.count], used, list)
    BY ReplyIs
  <2> QED BY <2>1 DEF ReplyRead
<1>4. x \in Ranges /\ x.base \in {0, a} /\ (a > 0 => x.base = a /\ x.count = used.count)
  <2> DEFINE l1 == list[1]
  <2>1. list = <<l1>> /\ PortsOf(l1, "server_port") = used
    BY <1>3
  <2> HIDE DEF l1, ranges
  <2> QED
    <3>1. used \in Ranges /\ list \in Seq(TransportsOf(CountedTokens))
      BY <1>3
    <3>2. LET y == At(GetPorts(SetPorts(list, "server_port", ranges), "server_port"), 0)
              b == At(ranges, 0).base
          IN  y \in Ranges /\ y.base \in {0, b} /\ (b > 0 => y.base = b /\ y.count = used.count)
      BY ONLY <1>2, <2>1, <3>1, AnswerNames
    <3> QED BY <3>2
<1>5. At(t.ports, 0) = x
  <2>1. new = SetPorts(list, "server_port", ranges)
    BY Zenon DEF AnswerTo
  <2> QED BY <2>1
<1>6. ASSUME last # None, last.number = t.number PROVE Ports(x) \subseteq Held(alt)
  <2>1. alt.ports \in Ranges /\ alt.ports.count = used.count
    BY <1>6 DEF ServerInv
  <2>2. AltOk(alt)
    BY DEF MapperInv
  <2> HIDE DEF alt, x, a, ranges
  <2>3. RangeOf(alt) = alt.ports /\ alt.ports.base > 0
        /\ \A y : y.base = alt.ports.base /\ y.count = alt.ports.count => Ports(y) \subseteq Held(alt)
    BY <1>3, <2>1, <2>2, RangeHeld
  <2> QED BY <1>2, <1>4, <2>1, <2>3
<1> HIDE DEF x, a, alt
<1>7. NamesHeld(t, alt, last)
  BY <1>2, <1>4, <1>5, <1>6 DEF NamesHeld
<1> QED BY <1>7 DEF alt

\* What an answer does to the histories and to what has been sent.
LEMMA AnswerKeeps ==
  ASSUME NEW r, NEW k, NEW ports, NEW used, NEW reply, NEW list, NEW new,
         AnswerTo(r, k, ports, used, reply, list, new), Kept(r, k, ports, used, reply, new)
  PROVE  /\ answered + 1 \in DOMAIN sent /\ r = sent[answered + 1] /\ answered' = answered + 1
         /\ UNCHANGED <<sent, cpackets, requests, lastWasSetup>> /\ Packets' = Packets
         /\ \E t : /\ told' \subseteq told \cup {t}
                   /\ t.number = r.number /\ t.latest = Len(requests) /\ t.ports = GetPorts(new, "server_port")
         /\ ready' = ready => final' = final
<1>1. answered + 1 \in DOMAIN sent /\ r = sent[answered + 1] /\ answered' = answered + 1
  BY Zenon DEF AnswerTo
<1>2. UNCHANGED <<sent, cpackets, requests, lastWasSetup>>
  BY DEF Kept, sessionVars
<1>3. ready' = ready => final' = final
  BY Zenon DEF Kept
<1>4. \E t : /\ told' \subseteq told \cup {t}
             /\ t.number = r.number /\ t.latest = Len(requests) /\ t.ports = GetPorts(new, "server_port")
  <2> DEFINE text == IF lastWasSetup THEN ListText(new) ELSE reply
             t == [number |-> r.number, latest |-> Len(requests), reply |-> reply,
                   text |-> text, ports |-> GetPorts(new, "server_port")]
  <2>1. told' \subseteq told \cup {t}
    BY DEF Kept
  <2>2. t.number = r.number /\ t.latest = Len(requests) /\ t.ports = GetPorts(new, "server_port")
    OBVIOUS
  <2> HIDE DEF t
  <2> QED BY <2>1, <2>2
<1> QED BY <1>1, <1>2, <1>3, <1>4 DEF Packets

\* The answer that makes the mapper ready.
LEMMA AnswerFinal ==
  ASSUME TextsInv, SetupsInv, MapperInv, MappedInv,
         NEW r, NEW k, NEW ports, NEW used, NEW reply, NEW list, NEW new,
         AnswerTo(r, k, ports, used, reply, list, new), Kept(r, k, ports, used, reply, new), ready' # ready
  PROVE  /\ final'.number = r.number /\ final'.number \in 1..Len(requests)
         /\ FinalOk(final', requests, cPorts') => Paired(final', cKept', cPorts'.ports, sReal')
<1> DEFINE c == [base |-> ports.base, count |-> used.count]
           asked == requests[r.number]
           b == cPorts.ports # None
           f == final'
           x == PortsOf(transports(asked.text)[k], "client_port")
<1>1. f = [number |-> r.number, offered |-> ports, taken |-> used, asked |-> x, again |-> b]
  BY Zenon DEF Kept, PortsOf
<1> HIDE DEF b, x
<1>2. f.number = r.number /\ f.offered = ports /\ f.taken = used /\ f.asked = x /\ f.again = b
  BY <1>1
<1> HIDE DEF f
<1>3. ReplyRead(r, k, c, used, list)
  BY ReplyIs
<1>4. c.base = ports.base /\ c.count = used.count
  OBVIOUS
<1>5. Finalize(c, used)
  <2>1. ready' # ready => ready' /\ ~ready /\ Finalize([base |-> ports.base, count |-> used.count], used)
    BY AnswerMapper
  <2> QED BY <2>1
<1> HIDE DEF c
<1>6. /\ r \in Packets /\ r.setup /\ k \in 1..Len(r.list) /\ c \in Ranges /\ used \in Ranges
  BY <1>3 DEF ReplyRead
<1>7. r.number \in 1..Len(requests)
  BY <1>6 DEF TextsInv, PacketOk
<1>8. ports \in Ranges /\ ports = PortsOf(r.list[k], "client_port") /\ used.count <= ports.count
  BY Zenon DEF AnswerTo, PortsOf
<1>9. Offered(r, asked) /\ Reserving(r, asked, reserved, cPorts)
  BY <1>6 DEF SetupsInv
<1>10. ASSUME FinalOk(f, requests, cPorts') PROVE Paired(f, cKept', cPorts'.ports, sReal')
  <2>1. ~b /\ asked.ports = cPorts'.orig /\ ~EndsInEqual(asked.text)
    BY <1>2, <1>10 DEF FinalOk
  <2>2. cPorts.ports = None
    BY <2>1 DEF b
  <2>3. asked.text \in Offers /\ asked.ports = GetPorts(transports(asked.text), "client_port")
    BY <1>9 DEF Offered
  <2> HIDE DEF asked
  <2>4. /\ cKept'.base = PortsOf(transports(asked.text)[k], "client_port").base
        /\ cPorts'.ports \in Ranges /\ cPorts'.ports.base = ports.base /\ cPorts'.ports.count = used.count
        /\ sReal' = used
    BY ONLY MapperInv, MappedInv, ready' # ready, <1>4, <1>5, <1>6, <1>8, <1>9, <2>1, <2>2, <2>3, FinalPaired
  <2> QED BY <1>2, <1>6, <2>4 DEF Paired, x, asked
<1> QED BY <1>2, <1>7, <1>10 DEF f

\* An answer keeps what has been told, and the final one.
LEMMA AnswersAnswer ==
  ASSUME Requested, PortsInv, MapperInv', TextsInv, ServerInv, ServerInv', MappedInv, SetupsInv, OrderInv, AnswersInv,
         NEW r, NEW k, NEW ports, NEW used, NEW reply, NEW list, NEW new,
         AnswerTo(r, k, ports, used, reply, list, new), Kept(r, k, ports, used, reply, new)
  PROVE  AnswersInv'
<1>1. /\ answered + 1 \in DOMAIN sent /\ r = sent[answered + 1] /\ answered' = answered + 1
      /\ sent' = sent /\ requests' = requests /\ lastWasSetup' = lastWasSetup
      /\ ready' = ready => final' = final
  BY AnswerKeeps
<1>2. PICK u : /\ told' \subseteq told \cup {u}
               /\ u.number = r.number /\ u.latest = Len(requests) /\ u.ports = GetPorts(new, "server_port")
  BY AnswerKeeps
<1>3. r.number \notin Numbers /\ r.number \in Numbers' /\ Numbers \subseteq Numbers'
  BY <1>1, AnswerNumbers
<1>4. /\ ready => UNCHANGED <<cKept, cPorts, sReal, sAlt, sPorts, ready>>
      /\ ready' # ready => ready' /\ ~ready /\ Finalize([base |-> ports.base, count |-> used.count], used)
      /\ ready' = ready => sPorts' = sPorts
  BY AnswerMapper
<1>5. ready' # ready => /\ final'.number = r.number /\ final'.number \in 1..Len(requests)
                        /\ FinalOk(final', requests, cPorts') => Paired(final', cKept', cPorts'.ports, sReal')
  BY AnswerFinal DEF PortsInv
<1>6. r \in Packets /\ r.setup
  <2>1. ReplyRead(r, k, [base |-> ports.base, count |-> used.count], used, list)
    BY ReplyIs
  <2> QED BY <2>1 DEF ReplyRead
<1>7. final' # None /\ final'.number = r.number => ready' # ready
  BY <1>1, <1>3 DEF AnswersInv
<1>8. ready' # ready => sReal' = used
  <2>1. ASSUME ready' # ready PROVE sReal' = used
    <3>1. Finalize([base |-> ports.base, count |-> used.count], used)
      BY <1>4, <2>1
    <3> DEFINE c == [base |-> ports.base, count |-> used.count]
               n == FindByBase(cAlt, c.base)
    <3>2. ready' = ready \/ sReal' = used
      <4>1. IF ready \/ n = -1 THEN UNCHANGED <<cReal, cKept, cPorts, cAlt, sReal, sAlt, sPorts, ready>>
            ELSE sReal' = used
        BY <3>1, Zenon DEF Finalize
      <4> QED BY <4>1
    <3> QED BY <2>1, <3>2
  <2> QED BY <2>1
<1>9. ASSUME u.latest = u.number PROVE NamesHeld(u, sPorts', final')
  <2>1. lastWasSetup
    BY <1>2, <1>6, <1>9 DEF SetupsInv
  <2>2. final' # None /\ final'.number = r.number => ready' /\ sReal' = used
    BY <1>4, <1>7, <1>8
  <2> DEFINE last == final'
  <2>3. last # None /\ last.number = r.number => ready' /\ sReal' = used
    BY <2>2
  <2> HIDE DEF last
  <2>4. NamesHeld(u, sPorts', last)
    BY ONLY SetupsInv, ServerInv', MapperInv', AnswerTo(r, k, ports, used, reply, list, new), <1>2, <2>1, <2>3, NewlyTold
  <2> QED BY <2>4 DEF last
<1>10. ASSUME NEW t \in told, t.latest = t.number PROVE NamesHeld(t, sPorts', final')
  <2>1. t.number \in Numbers /\ NamesHeld(t, sPorts, final)
    BY <1>10 DEF AnswersInv
  <2>2. CASE ready' = ready
    BY <1>1, <1>4, <2>1, <2>2
  <2>3. CASE ready' # ready
    <3>1. final'.number # t.number
      BY <1>3, <1>5, <2>1, <2>3
    <3>2. sPorts = Empty
      BY <1>4, <2>3 DEF ServerInv
    <3>3. RangeOf(sPorts).base = 0
      BY <3>2 DEF RangeOf, Empty, NoRange
    <3>4. At(t.ports, 0).base = 0
      BY <2>1, <3>3 DEF NamesHeld
    <3> QED BY <3>1, <3>4 DEF NamesHeld
  <2> QED BY <2>2, <2>3
<1>11. \A t \in told' : t.number \in Numbers' /\ (t.latest = t.number => NamesHeld(t, sPorts', final'))
  BY <1>2, <1>3, <1>9, <1>10 DEF AnswersInv
<1>12. ASSUME final' # None
       PROVE  /\ ready' /\ final'.number \in Numbers' /\ final'.number \in 1..Len(requests')
              /\ FinalOk(final', requests', cPorts') => Paired(final', cKept', cPorts'.ports, sReal')
  <2>1. CASE ready' = ready
    <3>1. final' = final /\ final # None
      BY <1>1, <1>12, <2>1
    <3>2. ready /\ final.number \in Numbers /\ final.number \in 1..Len(requests)
          /\ (FinalOk(final, requests, cPorts) => Paired(final, cKept, cPorts.ports, sReal))
      BY <3>1 DEF AnswersInv
    <3>3. UNCHANGED <<cKept, cPorts, sReal, ready>>
      BY <1>4, <3>2
    <3> QED BY <1>1, <1>3, <3>1, <3>2, <3>3
  <2>2. CASE ready' # ready
    BY <1>1, <1>3, <1>4, <1>5, <2>2
  <2> QED BY <2>1, <2>2
<1> QED BY <1>11, <1>12 DEF AnswersInv
-----------------------------------------------------------------------------
(* The session.                                                            *)

SessionInv == MappedInv /\ OrderInv /\ SetupsInv /\ AnswersInv

\* A SETUP of the client.
LEMMA SessionSetup ==
  ASSUME Requested, PortsInv, TextsInv, ServerInv, SessionInv, NEW offer \in Offers, ClientSetup(offer)
  PROVE  SessionInv'
<1>1. PICK asked, packet : SetupTaken(offer, asked, packet)
  BY SetupIsTaken
<1>2. SetupsInv' /\ MappedInv'
  BY <1>1, SetupsSetup DEF SessionInv
<1>3. /\ requests' = Append(requests, asked) /\ packet.number = Len(requests') /\ Forward(packet)
      /\ ReserveDirectClient(asked.ports) /\ UNCHANGED <<told, final, answered>>
  BY <1>1 DEF SetupTaken
<1>4. /\ \A e \in Packets : e.number # packet.number
      /\ \A i \in 1..Len(requests) : requests'[i] = requests[i] /\ i \in 1..Len(requests')
  BY <1>3, RequestKeeps
<1>5. OrderInv' /\ Extends(sent, sent')
  BY <1>3, <1>4, OrderForwarded DEF SessionInv
<1>6. UNCHANGED <<sPorts, ready>> /\ (reserved => UNCHANGED mapperVars)
  BY <1>3 DEF ReserveDirectClient, mapperVars
<1>7. AnswersInv'
  BY <1>3, <1>4, <1>5, <1>6, AnswersKept DEF SessionInv
<1> QED BY <1>2, <1>5, <1>7 DEF SessionInv

\* Any other request.
LEMMA SessionRequest ==
  ASSUME Requested, TextsInv, SessionInv, ClientRequest
  PROVE  SessionInv'
<1>1. SetupsInv' /\ MappedInv' /\ OrderInv' /\ Extends(sent, sent')
  BY SetupsRequest DEF SessionInv
<1> DEFINE packet == [number |-> Len(requests'), setup |-> FALSE, text |-> <<>>, list |-> <<>>]
           x == [text |-> <<>>, ports |-> <<>>]
<1>2. requests' = Append(requests, x) /\ UNCHANGED <<mapperVars, told, final, answered>> /\ packet.number = Len(requests')
  BY DEF ClientRequest
<1> HIDE DEF packet, x
<1>3. \A i \in 1..Len(requests) : requests'[i] = requests[i] /\ i \in 1..Len(requests')
  BY <1>2, RequestKeeps
<1>4. UNCHANGED <<sPorts, ready>> /\ UNCHANGED mapperVars
  BY <1>2 DEF mapperVars
<1>5. AnswersInv'
  BY <1>1, <1>2, <1>3, <1>4, AnswersKept DEF SessionInv
<1> QED BY <1>1, <1>5 DEF SessionInv

\* The connection to the server.
LEMMA SessionConnected ==
  ASSUME Requested, SessionInv, ServerConnected
  PROVE  SessionInv'
<1>1. UNCHANGED <<mapperVars, told, final, answered, requests, lastWasSetup>>
  BY DEF ServerConnected
<1>2. \A e \in Packets' : e \in Packets
  BY PacketsSent
<1>3. OrderInv' /\ Extends(sent, sent')
  BY OrderSent DEF SessionInv
<1>4. SetupsInv' /\ MappedInv'
  BY <1>1, <1>2 DEF SessionInv, SetupsInv, MappedInv, mapperVars
<1>5. UNCHANGED <<sPorts, ready>>
  BY <1>1 DEF mapperVars
<1>6. AnswersInv'
  BY <1>1, <1>3, <1>5, AnswersKept DEF SessionInv
<1> QED BY <1>3, <1>4, <1>6 DEF SessionInv

\* An answer to a SETUP.
LEMMA SessionAnswer ==
  ASSUME Requested, PortsInv, PortsInv', TextsInv, ServerInv, SessionInv,
         NEW k \in 1..3, NEW count \in 1..PORT_ALLOC_MAX, ServerSetupAnswer(k, count)
  PROVE  SessionInv'
<1>1. PICK r, ports, used, reply, list, new :
        AnswerTo(r, k, ports, used, reply, list, new) /\ Kept(r, k, ports, used, reply, new)
  BY AnswerTaken
<1>2. ServerInv'
  BY <1>1, ServerPortsAnswered
<1>3. MapperInv /\ MapperInv'
  BY DEF PortsInv
<1>4. AnswersInv'
  BY <1>1, <1>2, <1>3, AnswersAnswer DEF SessionInv
<1>5. UNCHANGED <<sent, cpackets, requests, lastWasSetup>> /\ Packets' = Packets
  BY <1>1, AnswerKeeps
<1>6. MappedInv' /\ (reserved' = reserved) /\ (cPorts'.ports = None => cPorts' = cPorts)
  <2> DEFINE c == [base |-> ports.base, count |-> used.count]
  <2>1. UNCHANGED mapperVars \/ Finalize(c, used)
    BY <1>1, AnswerMapper DEF SessionInv
  <2>2. c \in Ranges /\ used \in Ranges
    <3>1. ReplyRead(r, k, c, used, list)
      BY <1>1, ReplyIs DEF SessionInv
    <3> QED BY <3>1 DEF ReplyRead
  <2> HIDE DEF c
  <2>3. CASE UNCHANGED mapperVars
    BY <2>3 DEF SessionInv, MappedInv, mapperVars
  <2>4. CASE Finalize(c, used)
    BY <1>3, <2>2, <2>4, MappedFinalize DEF SessionInv
  <2> QED BY <2>1, <2>3, <2>4
<1>7. SetupsInv'
  <2>1. ASSUME NEW e, NEW asked, Reserving(e, asked, reserved, cPorts) PROVE Reserving(e, asked, reserved', cPorts')
    BY <1>6, <2>1 DEF Reserving
  <2> QED BY <1>5, <2>1 DEF SessionInv, SetupsInv
<1>8. OrderInv'
  BY <1>5 DEF SessionInv, OrderInv
<1> QED BY <1>4, <1>6, <1>7, <1>8 DEF SessionInv

\* Every step.
LEMMA SessionStep ==
  ASSUME Requested, PortsInv, PortsInv', TextsInv, ServerInv, SessionInv, [Next]_vars
  PROVE  SessionInv'
<1>1. ASSUME UNCHANGED <<sent, cpackets, requests, lastWasSetup, told, final, mapperVars>>,
             answered \in Nat, answered' = answered \/ answered' = answered + 1
      PROVE  SessionInv'
  <2>1. Numbers \subseteq Numbers'
    <3>1. \A i \in 1..answered : i \in 1..answered'
      BY <1>1, SMT
    <3> QED BY <1>1, <3>1 DEF Numbers
  <2>2. AnswersInv'
    BY <1>1, <2>1 DEF SessionInv, AnswersInv, mapperVars
  <2> QED BY <1>1, <2>2 DEF SessionInv, MappedInv, OrderInv, SetupsInv, Packets, mapperVars
<1>2. answered \in Nat
  BY DEF PortsInv
<1>3. CASE LocalIncomingReady \/ ClientGone \/ ServerGone \/ ServerAnswer \/ UNCHANGED vars
  <2>1. /\ UNCHANGED <<sent, cpackets, requests, lastWasSetup, told, final, mapperVars>>
        /\ answered' = answered \/ answered' = answered + 1
    BY <1>3 DEF LocalIncomingReady, ClientGone, ServerGone, ServerAnswer, vars, sessionVars, histVars
  <2> QED BY <1>1, <1>2, <2>1
<1> QED BY <1>3, SessionSetup, SessionRequest, SessionConnected, SessionAnswer DEF Next

-----------------------------------------------------------------------------
\* The ports that a SETUP names to either side are those that the proxy holds.
LEMMA NamesProxyPorts ==
  ASSUME Requested, PortsInv, TextsInv, ServerInv, SessionInv
  PROVE  SetupNamesProxyPorts
<1>1. ASSUME NEW i \in DOMAIN sent, sent[i].setup, cPorts.list # <<>>,
             requests[sent[i].number].ports = cPorts.orig, ~EndsInEqual(requests[sent[i].number].text),
             NEW j \in DOMAIN sent[i].list, FromText(argument(sent[i].list[j], "client_port")) # None
      PROVE  Ports(FromText(argument(sent[i].list[j], "client_port"))) \subseteq Held(cPorts)
  <2> DEFINE e     == sent[i]
             asked == requests[e.number]
             list  == transports(asked.text)
             old   == cPorts.orig
             new   == cPorts.list
             r     == PortsOf(e.list[j], "client_port")
  <2>1. e \in Packets /\ e.setup
    BY <1>1 DEF Packets
  <2>2. Offered(e, asked) /\ Reserving(e, asked, reserved, cPorts)
    BY <2>1 DEF SessionInv, SetupsInv
  <2>3. AltOk(cPorts) /\ cPorts.ports = None /\ reserved
    BY <1>1 DEF PortsInv, MapperInv, AltOk, SessionInv, MappedInv, Empty
  <2>4. asked.ports = old /\ ~EndsInEqual(asked.text) /\ r # None
    BY <1>1 DEF PortsOf
  <2>5. StandIn(old, new)
    BY <2>3 DEF SessionInv, MappedInv
  <2> HIDE DEF e
  <2>6. j \in 1..Len(e.list)
    <3>1. e.list \in Seq(TransportsOf(OfferTokens))
      BY <2>2 DEF Offered
    <3>2. j \in DOMAIN e.list
      BY DEF e
    <3> QED BY <3>1, <3>2, LenProperties
  <2> HIDE DEF asked, r
  <2>7. /\ asked.text \in Seq(CountedTokens) /\ asked.ports = GetPorts(list, "client_port")
        /\ e.list = transports(ListText(SetPorts(list, "client_port", new)))
    BY <2>2, <2>3, <2>4, CountedAlphabet DEF Offered, Reserving
  <2>8. /\ old \in Seq(Ranges) /\ new \in Seq(Ranges) /\ Len(e.list) = Len(list)
        /\ \A m \in 1..Len(list) : PortsOf(e.list[m], "client_port") # None =>
             Renamed(old, new, PortsOf(list[m], "client_port"), PortsOf(e.list[m], "client_port"))
    <3>1. StandIn(GetPorts(list, "client_port"), new) /\ old = GetPorts(list, "client_port")
      BY <2>4, <2>5, <2>7
    <3> HIDE DEF new, old
    <3> QED BY ONLY <2>4, <2>7, <3>1, OfferRenamed
  <2>9. PICK m \in 1..Len(old), x \in Ranges :
          r \in Ranges /\ r.base = new[m].base /\ r.count = x.count /\ x.count <= old[m].count
    <3>1. Renamed(old, new, PortsOf(list[j], "client_port"), r)
      BY <2>4, <2>6, <2>8 DEF r
    <3> QED BY <3>1 DEF Renamed
  <2> HIDE DEF list, old, new
  <2>10. m \in DOMAIN new /\ new[m] \in Ranges /\ new[m].count = old[m].count
    BY <2>5, <2>8, <2>9, ElementOfSeq, LenProperties DEF StandIn
  <2>11. Ports(r) \subseteq Ports(new[m])
    <3> DEFINE b == r.base
               c == r.count
               d == new[m].count
    <3>1. b \in Nat /\ c \in Nat /\ d \in Nat /\ c <= d /\ new[m].base = b
      BY <2>9, <2>10 DEF Ranges
    <3>2. Ports(r) = b..(b + c - 1) /\ Ports(new[m]) = b..(b + d - 1)
      BY <3>1 DEF Ports
    <3> HIDE DEF b, c, d
    <3>3. \A p \in b..(b + c - 1) : p \in b..(b + d - 1)
      BY <3>1, SMT
    <3> QED BY <3>2, <3>3
  <2>12. Ports(new[m]) \subseteq Held(cPorts)
    BY <2>10 DEF Held, new
  <2> QED BY <2>11, <2>12 DEF r, e, PortsOf
<1>2. ASSUME NEW t \in told, t.latest = t.number PROVE NamesHeld(t, sPorts, final)
  BY <1>2 DEF SessionInv, AnswersInv
<1> QED BY <1>1, <1>2 DEF SetupNamesProxyPorts, NamesHeld

\* A port of a range that is kept is bound, and by no other program.
LEMMA PortKept ==
  ASSUME NEW alt, AltOk(alt), alt.ports \in Ranges, NEW i \in 0..(alt.ports.count - 1)
  PROVE  RangeOf(alt).base + i \in Held(alt) \ OtherPorts
<1> DEFINE p == alt.ports
           b == p.base
           c == p.count
<1>1. RangeOf(alt) = p /\ Ports(p) \subseteq Held(alt) /\ Held(alt) \cap OtherPorts = {}
  BY AltPortsAssumption DEF Ranges, RangeOf, Held, AltOk
<1>2. b \in Nat /\ c \in Nat /\ i \in 0..(c - 1)
  BY DEF Ranges
<1>3. Ports(p) = b..(b + c - 1)
  <2> HIDE DEF p
  <2> QED BY DEF Ports
<1> HIDE DEF b, c
<1>4. b + i \in b..(b + c - 1)
  BY <1>2, SMT
<1> HIDE DEF p
<1> QED BY <1>1, <1>3, <1>4 DEF b

\* The media of the stream goes both ways.
LEMMA MediaPaired ==
  ASSUME PortsInv, ServerInv, SessionInv
  PROVE  RelayPaired
<1>1. SUFFICES ASSUME final # None, FinalOk(final, requests, cPorts), NEW i \in 0..(final.taken.count - 1)
               PROVE  /\ RelayToClient(i) = << RangeOf(sPorts).base + i, final.asked.base + i >>
                      /\ RelayToServer(i) = << final.offered.base + i, final.taken.base + i >>
                      /\ {RelayToClient(i)[1], RelayToServer(i)[1]} \subseteq Bound \ OtherPorts
  BY Zenon DEF RelayPaired, FinalOk
<1>2. ready /\ Paired(final, cKept, cPorts.ports, sReal)
  BY <1>1 DEF SessionInv, AnswersInv
<1>3. /\ cKept.base = final.asked.base
      /\ cPorts.ports \in Ranges /\ cPorts.ports.base = final.offered.base /\ cPorts.ports.count = final.taken.count
      /\ sReal = final.taken
  BY <1>2 DEF Paired
<1>4. sPorts.ports \in Ranges /\ sAlt = <<sPorts.ports>> /\ sPorts.ports.count = final.taken.count
  BY <1>2, <1>3 DEF ServerInv
<1>5. AltOk(cPorts) /\ AltOk(sPorts)
  BY DEF PortsInv, MapperInv
<1>6. At(sAlt, 0).base = RangeOf(sPorts).base
  BY <1>4, ServerNames
<1>7. RangeOf(cPorts).base = final.offered.base
  BY <1>3, AltPortsAssumption DEF RangeOf, Ranges
<1>8. RelayToClient(i) = << RangeOf(sPorts).base + i, final.asked.base + i >>
  BY <1>3, <1>6 DEF RelayToClient
<1>9. RelayToServer(i) = << final.offered.base + i, final.taken.base + i >>
  BY <1>3, <1>7 DEF RelayToServer
<1>10. RangeOf(sPorts).base + i \in Held(sPorts) \ OtherPorts
  BY <1>4, <1>5, PortKept
<1>11. RangeOf(cPorts).base + i \in Held(cPorts) \ OtherPorts
  BY <1>3, <1>5, PortKept
<1>12. RelayToClient(i)[1] \in Bound \ OtherPorts /\ RelayToServer(i)[1] \in Bound \ OtherPorts
  BY <1>7, <1>8, <1>9, <1>10, <1>11 DEF Bound
<1> QED BY <1>8, <1>9, <1>12

\* The whole inductive invariant, for any offers, ports and number of requests.
THEOREM SessionInvariant == Spec => [](Requested /\ PortsInv /\ TextsInv /\ ServerInv /\ SessionInv)
<1>1. Init => TextsInv /\ ServerInv /\ SessionInv
  <2> SUFFICES ASSUME Init PROVE TextsInv /\ ServerInv /\ SessionInv
    OBVIOUS
  <2>1. Packets = {} /\ told = {} /\ final = None
    BY EmptyIsSeq DEF Init, Packets
  <2>2. TextsInv /\ ServerInv
    BY <2>1 DEF TextsInv, ServerInv, Init
  <2>3. MappedInv
    BY DEF MappedInv, Init
  <2>4. OrderInv
    BY NothingToOrder DEF OrderInv, Init
  <2>5. SetupsInv /\ AnswersInv
    BY <2>1 DEF SetupsInv, AnswersInv
  <2> QED BY <2>2, <2>3, <2>4, <2>5 DEF SessionInv
<1>2. Requested /\ PortsInv /\ TextsInv /\ ServerInv /\ [Next]_vars => TextsInv' /\ ServerInv'
  BY TextsStep
<1>3. Requested /\ PortsInv /\ PortsInv' /\ TextsInv /\ ServerInv /\ SessionInv /\ [Next]_vars => SessionInv'
  BY SessionStep
<1> QED BY <1>1, <1>2, <1>3, InductiveInvariant, PTL DEF Spec

\* Of a SETUP and of its answer only the ports are changed, whatever the proxy has
\* reserved: for any offers that the code reads in full.
THEOREM TransportsAreForwarded == Spec => []TransportsForwarded
<1>1. TextsInv => TransportsForwarded
  <2> SUFFICES ASSUME TextsInv PROVE TransportsForwarded
    OBVIOUS
  <2>1. ASSUME NEW i \in DOMAIN sent PROVE PacketOk(sent[i], requests)
    BY PacketIn DEF TextsInv, In
  <2> QED BY <2>1 DEF TextsInv, TransportsForwarded, PacketOk
<1> QED BY <1>1, SessionInvariant, PTL

\* The ports that a SETUP and its answer name are those that the proxy holds: for any
\* offers, however the server answers, and whatever comes between.
THEOREM SetupsNameProxyPorts == Spec => []SetupNamesProxyPorts
<1>1. Requested /\ PortsInv /\ TextsInv /\ ServerInv /\ SessionInv => SetupNamesProxyPorts
  BY NamesProxyPorts
<1> QED BY <1>1, SessionInvariant, PTL

\* The media of the stream that is set up goes both ways between the ports that client
\* and server named.
THEOREM RelayIsPaired == Spec => []RelayPaired
<1>1. PortsInv /\ ServerInv /\ SessionInv => RelayPaired
  BY MediaPaired
<1> QED BY <1>1, SessionInvariant, PTL
=============================================================================
