------------------------------- MODULE HttpPoll -------------------------------
(***************************************************************************)
(* HttpPoll of src/network/httppoll.cpp: a ByteStream made of HTTP POSTs,  *)
(* one at a time, each with what is to be written and answered with what   *)
(* is to be read, and each with the next key of a hash chain.              *)
(*                                                                         *)
(* One thread, but a handler emits signals half-way and goes on with what  *)
(* it finds after the slot.  `stack' holds the handlers whose slot has not *)
(* returned, innermost last; events wait until it is empty.  The program   *)
(* calls write() and close() from the event loop and from the slots of     *)
(* WriteIn and CloseIn, and connectToHost() from the event loop.           *)
(*                                                                         *)
(* The HttpProxyPost under it is the module of that name, whose variables  *)
(* are all used; its result() and error() are the slots http_result() and  *)
(* http_error().  The polling server is external: it takes a packet if its *)
(* key hashes to the last one it was given.  A key is <<seed, n>>, n times *)
(* hashed.                                                                 *)
(***************************************************************************)
EXTENDS Integers, Sequences, SequencesExt

CONSTANTS
  Statuses,   \* see HttpProxyPost
  Keys,       \* POLL_KEYS
  WriteIn,    \* slots in which the program may call write()
  CloseIn,    \* slots in which the program may call close()
  MaxData,    \* bound: bytes each way in one session
  MaxCalls,   \* bound: calls of connectToHost()
  None

Slots == {"syncStarted", "syncFinished", "connected", "bytesWritten", "readyRead"}

\* Where a handler can be: in a slot, in connectToHost() emitting syncStarted(),
\* or past the acknowledgement of http_result() with nothing to emit.
Places == Slots \cup {"connecting", "sent"}

\* The texts of status lines are told from all others, and None from all values.
ASSUME HttpPollAssumption ==
  /\ "200" \in Statuses
  /\ Statuses \cap {"none", "CR", "LF", "ok", "over"} = {}
  /\ Keys \in Nat /\ Keys > 1
  /\ WriteIn \subseteq Slots /\ CloseIn \subseteq Slots
  /\ MaxData \in Nat /\ MaxCalls \in Nat
  /\ None # "ok" /\ None \notin (0..1) \X (1..Keys) /\ None \notin Seq({"data"} \X Nat)
  /\ None \notin [first: BOOLEAN, key: (0..1) \X (1..Keys),
                  newkey: ((0..1) \X (1..Keys)) \cup {None}, block: Seq(1..MaxData)]

VARIABLES
  state,     \* 0 idle, 1 connecting, 2 open
  closing,
  wbuf,      \* the write buffer
  out,       \* what of it was put in the last packet
  seed,      \* the seed of the keys; each is new, and told from the last one
  key_n,
  timer,     \* the poll timer is active
  stack,
  calls,     \* history: calls of connectToHost()
  wrote,     \* history: bytes accepted by write()
  acked,     \* history: bytes reported by bytesWritten()
  got,       \* history: data made available for reading, up to the first gap
  gap,       \* history: an answer was broken off, or its data lost undelivered
  lastKey,   \* the server's: the key to which the next must hash
  received,  \* the server's: data taken
  sent,      \* the server's: number of bytes sent
  sock, unsent, postdata, inHeader, headerLines, recvBuf, body, wire, reply, broken, gone

\* What the identifier in the answer's cookie says: the packet is taken, or it
\* ends in ":0" and the session is over.
Cookies == {"ok", "over"}

Http == INSTANCE HttpProxyPost

\* What is asked of it: `block' of http_result() is d->http.body() itself.
Post == INSTANCE PostService WITH
  request <- IF Http!Posted THEN postdata ELSE None,
  delivered <- body,
  signal <- stack # <<>> /\ Head(stack).at = "syncFinished"

streamVars == <<state, closing, wbuf, out, timer>>
httpVars   == <<sock, unsent, postdata, inHeader, headerLines, recvBuf, body, wire, reply, broken, gone>>
keyVars    == <<seed, key_n>>
serverVars == <<lastKey, received, sent>>
histVars   == <<calls, wrote, acked, got, gap>>
vars == <<streamVars, stack, httpVars, keyVars, serverVars, histVars>>

Key        == (0..1) \X (1..Keys)
Hash(k)    == <<k[1], k[2] + 1>>
Drop(s, n) == SubSeq(s, n + 1, Len(s))

Packets == [first: BOOLEAN, key: Key, newkey: Key \cup {None}, block: Seq(1..MaxData)]
Frames  == [at: Places, key: Key \cup {None}, newkey: Key \cup {None}]

TypeOK ==
  /\ state \in 0..2
  /\ closing \in BOOLEAN
  /\ wbuf \in Seq(1..MaxData) /\ out \in Seq(1..MaxData)
  /\ seed \in 0..1
  /\ key_n \in 1..Keys
  /\ timer \in BOOLEAN
  /\ Http!TypeOK
  /\ postdata \in Packets \cup {None}
  /\ stack \in Seq(Frames)
  /\ calls \in 0..MaxCalls
  /\ wrote \in 0..MaxData /\ acked \in 0..MaxData
  /\ got \in Seq(Http!Units)
  /\ gap \in BOOLEAN
  /\ lastKey \in Key \cup {None}
  /\ received \in Seq(1..MaxData) /\ sent \in 0..MaxData

Init ==
  /\ state = 0
  /\ closing = FALSE
  /\ wbuf = <<>> /\ out = <<>>
  /\ seed = 0
  /\ key_n = Keys
  /\ timer = FALSE
  /\ Http!Init
  /\ stack = <<>>
  /\ calls = 0
  /\ wrote = 0 /\ acked = 0
  /\ got = <<>>
  /\ gap = FALSE
  /\ lastKey = None
  /\ received = <<>> /\ sent = 0

-----------------------------------------------------------------------------
(* Keys and packets.                                                       *)

\* resetKey() and getKey(): the first key of a new chain.
FirstKey == [key |-> <<1 - seed, Keys>>, newkey |-> None, seed |-> 1 - seed, key_n |-> Keys - 1]

\* Mutant of NextKey: the new chain comes one packet late.
NextKeyLate ==
  IF key_n = 0 THEN FirstKey
  ELSE [key |-> <<seed, key_n>>, newkey |-> None, seed |-> seed, key_n |-> key_n - 1]

\* Mutant of NextKey: the new chain is not announced.
NextKeySilent ==
  IF key_n > 1 THEN [key |-> <<seed, key_n>>, newkey |-> None, seed |-> seed, key_n |-> key_n - 1]
  ELSE [key |-> <<seed, 1>>, newkey |-> None, seed |-> 1 - seed, key_n |-> Keys - 1]

\* The keys of the next packet: getKey(), and with the last key of a chain the
\* first of a new one.  key_n is the number of keys left, one at least.
NextKey ==
  IF key_n > 1 THEN [key |-> <<seed, key_n>>, newkey |-> None, seed |-> seed, key_n |-> key_n - 1]
  ELSE [key |-> <<seed, 1>>, newkey |-> FirstKey.key, seed |-> 1 - seed, key_n |-> Keys - 1]

-----------------------------------------------------------------------------
(* Parts the handlers share.                                               *)

Slot(at) == [at |-> at, key |-> None, newkey |-> None]

\* do_sync() when nothing is posted: up to its signal, with buf to be written.
DoSync(buf, below) ==
  /\ timer' = FALSE
  /\ out' = buf
  /\ seed' = NextKey.seed
  /\ key_n' = NextKey.key_n
  /\ stack' = Append(below, [at |-> "syncStarted", key |-> NextKey.key, newkey |-> NextKey.newkey])

\* reset(), without the HttpProxyPost.
ResetStream ==
  /\ wbuf' = <<>>
  /\ out' = <<>>
  /\ state' = 0
  /\ closing' = FALSE
  /\ timer' = FALSE

\* reset()
Reset ==
  /\ ResetStream
  /\ IF Http!isActive THEN Http!stop ELSE UNCHANGED httpVars

\* The program may act: from the event loop, or in a slot of the set.
MayCall(slots) == IF stack = <<>> THEN TRUE ELSE Last(stack).at \in slots

\* The innermost handler is there.
At(places) == IF stack = <<>> THEN FALSE ELSE Last(stack).at \in places

-----------------------------------------------------------------------------
(* The program's calls.                                                    *)

\* connectToHost(), up to its signal.
ConnectToHost ==
  /\ stack = <<>>
  /\ calls < MaxCalls
  /\ calls' = calls + 1
  /\ Reset
  /\ seed' = FirstKey.seed
  /\ key_n' = FirstKey.key_n
  /\ stack' = << [at |-> "connecting", key |-> FirstKey.key, newkey |-> None] >>
  /\ wrote' = 0 /\ acked' = 0 /\ got' = <<>> /\ gap' = FALSE
  /\ lastKey' = None /\ received' = <<>> /\ sent' = 0

\* ByteStream::write() of n bytes, and tryWrite() when there were none.
Write(n) ==
  /\ MayCall(WriteIn)
  /\ state = 2
  /\ wrote + n <= MaxData
  /\ wrote' = wrote + n
  /\ wbuf' = wbuf \o [i \in 1..n |-> wrote + i]
  /\ IF wbuf = <<>> /\ ~Http!isActive
       THEN DoSync(wbuf', stack)
       ELSE UNCHANGED <<timer, out, seed, key_n, stack>>
  /\ UNCHANGED <<state, closing, httpVars, serverVars, calls, acked, got, gap>>

\* close()
Close ==
  /\ MayCall(CloseIn)
  /\ state # 0 /\ ~closing
  /\ IF wbuf = <<>>
       THEN Reset
       ELSE closing' = TRUE /\ UNCHANGED <<state, wbuf, out, timer, httpVars>>
  /\ UNCHANGED <<stack, keyVars, serverVars, histVars>>

-----------------------------------------------------------------------------
(* Events.                                                                 *)

\* The poll timer fires: do_sync().
Timeout ==
  /\ stack = <<>>
  /\ timer
  /\ IF ~Http!isActive
       THEN DoSync(wbuf, <<>>)
       ELSE timer' = FALSE /\ UNCHANGED <<out, seed, key_n, stack>>
  /\ UNCHANGED <<state, closing, wbuf, httpVars, serverVars, histVars>>

\* An event of the HttpProxyPost that is not signalled.
HttpEvent ==
  /\ stack = <<>>
  /\ \/ Http!SockConnected
     \/ \E n \in 1..Len(wire) : Http!SockReadyRead(n)
     \/ Http!SockBytesWritten
  /\ UNCHANGED <<streamVars, stack, keyVars, serverVars, histVars>>

\* http_result(), up to syncFinished().
HttpResult ==
  /\ stack = <<>>
  /\ Http!SockConnectionClosed
  /\ stack' = << Slot("syncFinished") >>
  /\ gap' = (gap \/ broken)
  /\ UNCHANGED <<streamVars, keyVars, serverVars, calls, wrote, acked, got>>

\* http_error(), after a bad header.
HttpRefused ==
  /\ stack = <<>>
  /\ \E n \in 1..Len(wire) : Http!SockRefused(n)
  /\ ResetStream
  /\ UNCHANGED <<stack, keyVars, serverVars, histVars>>

\* http_error(), after an error of the connection.
HttpError ==
  /\ stack = <<>>
  /\ Http!SockError
  /\ ResetStream
  /\ UNCHANGED <<stack, keyVars, serverVars, histVars>>

\* Mutant of Finish: a delayed close is left to the next result.
FinishNoClose(buf, below) ==
  /\ wbuf' = buf
  /\ IF buf # <<>> /\ ~Http!isActive
       THEN DoSync(buf, below)
       ELSE stack' = below /\ UNCHANGED <<timer, out, keyVars>>
  /\ UNCHANGED <<state, closing, httpVars>>

\* The end of http_result(): another post, or the end of a delayed close.
Finish(buf, below) ==
  \/ /\ buf # <<>> /\ ~Http!isActive
     /\ DoSync(buf, below)
     /\ wbuf' = buf
     /\ UNCHANGED <<state, closing, httpVars>>
  \/ /\ buf # <<>> /\ Http!isActive
     /\ wbuf' = buf
     /\ stack' = below
     /\ UNCHANGED <<state, closing, timer, out, keyVars, httpVars>>
  \/ /\ buf = <<>>
     /\ stack' = below
     /\ IF closing THEN Reset ELSE UNCHANGED <<streamVars, httpVars>>
     /\ UNCHANGED keyVars

\* The middle of http_result(): what the reply carries is made available.
Deliver(below) ==
  IF body = <<>> THEN Finish(wbuf, below) /\ UNCHANGED got
  ELSE /\ got' = IF gap THEN got ELSE got \o body
       /\ stack' = Append(below, Slot("readyRead"))
       /\ UNCHANGED <<streamVars, httpVars, keyVars>>

\* History: a handler of http_result() has not come to the body yet.
Undelivered ==
  /\ body # <<>>
  /\ \E i \in DOMAIN stack : stack[i].at \in {"syncFinished", "connected", "bytesWritten"}

\* syncStarted() returns: the packet is posted.
SyncStartedReturns ==
  /\ At({"connecting", "syncStarted"})
  /\ LET f     == Last(stack)
         first == f.at = "connecting"
     IN  /\ Http!post([first |-> first, key |-> f.key, newkey |-> f.newkey,
                       block |-> IF first THEN <<>> ELSE out])
         /\ state' = IF first THEN 1 ELSE state
  /\ stack' = Front(stack)
  /\ gap' = (gap \/ Undelivered)
  /\ UNCHANGED <<closing, wbuf, out, timer, keyVars, serverVars, calls, wrote, acked, got>>

\* syncFinished() returns, and the answer is no good: reset() and
\* connectionClosed() or error().
SyncFailed ==
  /\ At({"syncFinished"}) /\ Http!getHeader(Cookies) # "ok"
  /\ Reset
  /\ stack' = Front(stack)
  /\ UNCHANGED <<keyVars, serverVars, histVars>>

\* Mutant of SyncSucceeded: the whole write buffer counts as sent.
SyncSucceededAll ==
  /\ At({"syncFinished"}) /\ Http!getHeader(Cookies) = "ok"
  /\ state' = 2
  /\ timer' = (timer \/ wbuf # <<>> \/ ~closing)
  /\ wbuf' = IF state = 1 THEN wbuf ELSE <<>>
  /\ out' = IF state = 1 THEN out ELSE <<>>
  /\ acked' = IF state = 1 THEN acked ELSE acked + Len(wbuf)
  /\ stack' = Append(Front(stack), Slot(IF state = 1 THEN "connected" ELSE "bytesWritten"))
  /\ UNCHANGED <<closing, httpVars, keyVars, serverVars, calls, wrote, got, gap>>

\* syncFinished() returns, and the answer carries on the session: the timer
\* runs, the connection is announced or the data sent is taken off.
SyncSucceeded ==
  /\ At({"syncFinished"}) /\ Http!getHeader(Cookies) = "ok"
  /\ state' = IF state = 1 THEN 2 ELSE state
  /\ timer' = (timer \/ wbuf # <<>> \/ ~closing)
  /\ \/ /\ state = 1
        /\ stack' = Append(Front(stack), Slot("connected"))
        /\ UNCHANGED <<wbuf, out, acked>>
     \/ /\ state # 1
        /\ wbuf' = Drop(wbuf, Len(out))
        /\ out' = <<>>
        /\ acked' = acked + Len(out)
        /\ stack' = Append(Front(stack), Slot(IF out = <<>> THEN "sent" ELSE "bytesWritten"))
  /\ UNCHANGED <<closing, httpVars, keyVars, serverVars, calls, wrote, got, gap>>

\* connected() or bytesWritten() returns.
MiddleReturns ==
  /\ At({"connected", "bytesWritten", "sent"})
  /\ Deliver(Front(stack))
  /\ UNCHANGED <<serverVars, calls, wrote, acked, gap>>

\* readyRead() returns.
ReadyReadReturns ==
  /\ At({"readyRead"})
  /\ Finish(wbuf, Front(stack))
  /\ UNCHANGED <<serverVars, histVars>>

-----------------------------------------------------------------------------
(* The polling server (external).                                          *)

\* It answers a packet, with up to MaxData bytes in a session and a cookie or
\* none.
Serve(cookie, n) ==
  /\ Http!Unanswered
  /\ LET valid == postdata.first \/ Hash(postdata.key) = lastKey
         taken == valid /\ cookie = "ok"
     IN  /\ n > 0 => taken
         /\ sent + n <= MaxData
         /\ Http!Answer(IF valid THEN cookie ELSE "over", [i \in 1..n |-> Http!Data(sent + i)])
         /\ sent' = sent + n
         /\ received' = IF taken THEN received \o postdata.block ELSE received
         /\ lastKey' = IF ~taken THEN lastKey
                       ELSE IF postdata.newkey = None THEN postdata.key ELSE postdata.newkey
  /\ UNCHANGED <<streamVars, stack, keyVars, histVars>>

\* A proxy or the server refuses, or the connection is closed.
Disturb ==
  /\ (\E status \in Statuses : Http!Refuse(status)) \/ (\E lost \in BOOLEAN : Http!Leave(lost))
  /\ UNCHANGED <<streamVars, stack, keyVars, serverVars, histVars>>

-----------------------------------------------------------------------------

SlotReturns ==
  \/ SyncStartedReturns
  \/ SyncFailed
  \/ SyncSucceeded
  \/ MiddleReturns
  \/ ReadyReadReturns

Next ==
  \/ ConnectToHost
  \/ \E n \in 1..MaxData : Write(n)
  \/ Close
  \/ Timeout
  \/ HttpEvent
  \/ HttpResult
  \/ HttpRefused
  \/ HttpError
  \/ SlotReturns
  \/ \E cookie \in Cookies \cup {"none"}, n \in 0..MaxData : Serve(cookie, n)
  \/ Disturb

Spec == Init /\ [][Next]_vars

\* Slots return, the timer fires, the network moves what is sent and reports
\* what has ended, and the server closes, as HTTP/1.0 has it.
Fairness ==
  /\ WF_vars(SlotReturns)
  /\ WF_vars(Timeout)
  /\ WF_vars(HttpResult)
  /\ WF_vars(HttpEvent \/ HttpRefused)
  /\ WF_vars(Disturb)

FairSpec == Spec /\ Fairness

-----------------------------------------------------------------------------
(* Properties.                                                             *)

\* The server takes every packet: each key hashes to the one before it, or to
\* the new key announced with the one before, whatever is posted by the timer,
\* by write() or by the end of the last result.
KeysChain ==
  Http!Posted /\ reply = None /\ ~postdata.first => Hash(postdata.key) = lastKey

\* Each byte written goes to the server once and in order, and what is still in
\* the buffer is what has not been reported: the data that write() adds while a
\* post is under way is neither lost nor taken for sent.
SentOnce ==
  /\ received = [i \in 1..Len(received) |-> i]
  /\ state = 2 => wbuf = [i \in 1..(wrote - acked) |-> acked + i]
  /\ acked <= Len(received)

\* The data the server sends is made available once, in order, and all of it by
\* the time nothing is posted, however the blocks are cut; but an answer that is
\* broken off is taken for a whole one, and a write() in the slot of connected()
\* or bytesWritten() posts again and so empties the body before it is delivered.
ReceivedInOrder ==
  ~gap =>
    /\ got = [i \in 1..Len(got) |-> Http!Data(i)]
    /\ state = 2 /\ stack = <<>> /\ ~Http!Posted => Len(got) = sent

\* The HttpProxyPost keeps what HttpPoll counts on: every post ends, and its
\* body is what the server answered to it.
PostServiceSpec == Post!Spec

\* A stream that is closed, by the program, the server or an error, polls no
\* more: refuted when close() comes in the slot of syncStarted() or
\* syncFinished(), for then do_sync() and http_result() go on.
QuietWhenClosed ==
  state = 0 /\ stack = <<>> => ~timer /\ ~Http!Posted

\* A delayed close ends: the data goes out or the connection fails.
CloseConcludes == closing ~> ~closing
=============================================================================
