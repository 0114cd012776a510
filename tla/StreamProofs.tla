----------------------------- MODULE StreamProofs -----------------------------
(***************************************************************************)
(* Proofs about BConsole, base64 and RtspClient, which have names of their *)
(* own so that they can share the lemmas about sequences and folds.        *)
(*                                                                         *)
(* The safety of BConsole is for any number of bytes, any chunk and any    *)
(* room in the pipe.  OutputInOrder and ClosedAfterLastByte are kept by    *)
(* every step once the types are known; the types need Counts, which       *)
(* bounds the forgotten notifiers by the bytes written, and says that a    *)
(* close is reported once.  The codec is for every sequence of bytes.      *)
(*                                                                         *)
(* RtspClient is for any packets of the peer, cut anywhere, and any        *)
(* packets written: it signals those that were sent, and counts those that *)
(* are written.                                                            *)
(***************************************************************************)
EXTENDS BConsole, Base64, RtspClient, SequenceTheorems, WellFoundedInduction, TLAPS

-----------------------------------------------------------------------------
(* The inductive invariant of BConsole.                                    *)

ByteNumbers == 1..MaxBytes

Counts ==
  /\ leaked <= wrote
  /\ finished # 0 => closed

\* The inductive invariant.
IInv == TypeOK /\ Counts /\ OutputInOrder /\ ClosedAfterLastByte

-----------------------------------------------------------------------------
(* Sequences.                                                              *)

\* Taking the first r elements off and putting them behind `s' loses nothing.
LEMMA CutAndJoin ==
  \A S : \A s, t \in Seq(S) : \A r \in 1..Len(t) :
    /\ SubSeq(t, r + 1, Len(t)) \in Seq(S)
    /\ s \o SubSeq(t, 1, r) \in Seq(S)
    /\ (s \o SubSeq(t, 1, r)) \o SubSeq(t, r + 1, Len(t)) = s \o t
<1> TAKE S
<1> TAKE s, t \in Seq(S)
<1> TAKE r \in 1..Len(t)
<1>1. Len(t) \in Nat /\ r \in Nat /\ 1 <= r /\ r <= Len(t)
  BY LenProperties, SMT
<1>2. /\ \A i \in 1..r : t[i] \in S
      /\ \A i \in (r + 1)..Len(t) : t[i] \in S
  BY <1>1, ElementOfSeq, SMT
<1>3. SubSeq(t, 1, r) \in Seq(S)
  BY <1>1, <1>2, SubSeqProperties, SMT
<1>4. SubSeq(t, r + 1, Len(t)) \in Seq(S)
  BY <1>1, <1>2, SubSeqProperties, SMT
<1>5. SubSeq(t, 1, r) \o SubSeq(t, r + 1, Len(t)) = t
  <2>1. /\ 1 \in 1..(Len(t) + 1) /\ r \in (1 - 1)..Len(t) /\ Len(t) \in r..Len(t)
    BY <1>1, SMT
  <2>2. SubSeq(t, 1, r) \o SubSeq(t, r + 1, Len(t)) = SubSeq(t, 1, Len(t))
    BY <2>1, ConcatAdjacentSubSeq
  <2> QED
    BY <2>2, SubSeqFull
<1>6. s \o SubSeq(t, 1, r) \in Seq(S)
  BY <1>3, ConcatProperties
<1>7. (s \o SubSeq(t, 1, r)) \o SubSeq(t, r + 1, Len(t)) = s \o t
  <2> DEFINE front == SubSeq(t, 1, r)
             rest == SubSeq(t, r + 1, Len(t))
  <2>1. front \in Seq(S) /\ rest \in Seq(S)
    BY <1>3, <1>4
  <2> HIDE DEF front, rest
  <2>2. \A x, y \in Seq(S) : (s \o x) \o y = s \o (x \o y)
    <3>1. SUFFICES ASSUME NEW x \in Seq(S), NEW y \in Seq(S)
                   PROVE  (s \o x) \o y = s \o (x \o y)
      OBVIOUS
    <3> QED
      BY ConcatAssociative, SMTT(60)
  <2>3. (s \o front) \o rest = s \o (front \o rest)
    BY <2>1, <2>2, Zenon
  <2> QED
    BY <1>5, <2>3 DEF front, rest
<1> QED
  BY <1>4, <1>6, <1>7

\* The next n bytes that the program writes, and what has been written then.
LEMMA NextBytes ==
  ASSUME NEW k \in Nat, NEW n \in Nat, NEW m \in Nat, k + n <= m
  PROVE  /\ [i \in 1..n |-> k + i] \in Seq(1..m)
         /\ [i \in 1..k |-> i] \o [i \in 1..n |-> k + i] = [i \in 1..(k + n) |-> i]
<1> DEFINE first == [i \in 1..k |-> i]
           next  == [i \in 1..n |-> k + i]
           all   == [i \in 1..(k + n) |-> i]
<1>1. next \in Seq(1..m) /\ Len(next) = n
  BY SMT
<1>2. first \in Seq(1..m) /\ Len(first) = k
  BY SMT
<1>3. all \in Seq(1..m) /\ Len(all) = k + n
  BY SMT
<1>4. /\ first \o next \in Seq(1..m)
      /\ Len(first \o next) = k + n
      /\ \A i \in 1..(k + n) : (first \o next)[i] = IF i <= k THEN first[i] ELSE next[i - k]
  BY <1>1, <1>2, ConcatProperties
<1>5. \A i \in 1..(k + n) : (first \o next)[i] = all[i]
  <2>1. SUFFICES ASSUME NEW i \in 1..(k + n) PROVE (first \o next)[i] = all[i]
    OBVIOUS
  <2>2. (first \o next)[i] = IF i <= k THEN first[i] ELSE next[i - k]
    BY <1>4
  <2>3. CASE i <= k
    <3>1. i \in 1..k
      BY <2>3, SMT
    <3> QED
      BY <2>2, <2>3, <3>1
  <2>4. CASE ~(i <= k)
    <3>1. i - k \in 1..n /\ k + (i - k) = i
      BY <2>4, SMT
    <3> QED
      BY <2>2, <2>4, <3>1
  <2> QED
    BY <2>3, <2>4
<1>6. first \o next = all
  BY <1>3, <1>4, <1>5, SeqEqual
<1> QED
  BY <1>1, <1>6

-----------------------------------------------------------------------------
(* The steps.                                                              *)

\* tryWrite() moves a prefix of its buffer to stdout, or nothing, and forgets at
\* most one notifier.
LEMMA TryWriteMoves ==
  ASSUME BConsoleAssumption, TypeOK,
         NEW buf \in Seq(ByteNumbers), NEW notifier \in BOOLEAN, NEW caller \in Callers,
         tryWrite(buf, notifier, caller)
  PROVE  /\ wbuf' \in Seq(ByteNumbers) /\ out' \in Seq(ByteNumbers)
         /\ out' \o wbuf' = out \o buf
         /\ w' \in BOOLEAN /\ refused' \in BOOLEAN
         /\ stack' \in Seq(Callers) /\ pipe' \in 0..Room
         /\ leaked' = leaked \/ (notifier /\ leaked' = leaked + 1)
<1>1. CASE pipe = Room /\ Refused(buf, notifier)
  BY <1>1 DEF Refused, TypeOK, ByteNumbers
<1>2. CASE \E r \in 1..Chunk : r <= Len(buf) /\ pipe + r <= Room /\ Accepted(buf, notifier, r, caller)
  <2>1. PICK r \in 1..Chunk : r <= Len(buf) /\ pipe + r <= Room /\ Accepted(buf, notifier, r, caller)
    BY <1>2
  <2>2. r \in 1..Len(buf)
    <3>1. Len(buf) \in Nat /\ Chunk \in Nat
      BY LenProperties DEF BConsoleAssumption
    <3> QED
      BY <2>1, <3>1, SMT
  <2>3. out \in Seq(ByteNumbers)
    BY DEF TypeOK, ByteNumbers
  <2>4. /\ wbuf' = SubSeq(buf, r + 1, Len(buf))
        /\ out' = out \o SubSeq(buf, 1, r)
    BY <2>1 DEF Accepted
  <2>5. /\ wbuf' \in Seq(ByteNumbers) /\ out' \in Seq(ByteNumbers)
        /\ out' \o wbuf' = out \o buf
    <3>1. /\ SubSeq(buf, r + 1, Len(buf)) \in Seq(ByteNumbers)
          /\ out \o SubSeq(buf, 1, r) \in Seq(ByteNumbers)
          /\ (out \o SubSeq(buf, 1, r)) \o SubSeq(buf, r + 1, Len(buf)) = out \o buf
      <4>1. \A q \in 1..Len(buf) :
              /\ SubSeq(buf, q + 1, Len(buf)) \in Seq(ByteNumbers)
              /\ out \o SubSeq(buf, 1, q) \in Seq(ByteNumbers)
              /\ (out \o SubSeq(buf, 1, q)) \o SubSeq(buf, q + 1, Len(buf)) = out \o buf
        BY <2>3, CutAndJoin, ZenonT(60)
      <4> QED
        BY <2>2, <4>1, Zenon
    <3> QED
      BY <2>4, <3>1
  <2>6. stack' \in Seq(Callers)
    BY <2>1, AppendProperties DEF Accepted, TypeOK
  <2>7. pipe' \in 0..Room
    BY <2>1, SMT DEF Accepted, TypeOK, BConsoleAssumption
  <2>8. w' \in BOOLEAN /\ refused' \in BOOLEAN
    BY <2>1 DEF Accepted, TypeOK
  <2>9. leaked' = leaked \/ (notifier /\ leaked' = leaked + 1)
    BY <2>1 DEF Accepted
  <2> QED
    BY <2>5, <2>6, <2>7, <2>8, <2>9
<1> QED
  BY <1>1, <1>2 DEF tryWrite

\* Initially nothing is written and nothing is left to write.
LEMMA InitIInv == BConsoleAssumption /\ Init => IInv
<1> SUFFICES ASSUME BConsoleAssumption, Init PROVE IInv
  OBVIOUS
<1>1. TypeOK
  <2>1. \A S : <<>> \in Seq(S)
    BY EmptySeq
  <2>2. 0 \in 0..MaxBytes /\ 0 \in 0..Room /\ 0 \in 0..1
    BY SMT DEF BConsoleAssumption
  <2> QED
    BY <2>1, <2>2 DEF Init, TypeOK
<1>2. Counts /\ ClosedAfterLastByte
  BY SMT DEF Init, Counts, ClosedAfterLastByte
<1>3. OutputInOrder
  <2>1. 1..0 = {}
    BY SMT
  <2>2. [i \in 1..wrote |-> i] = <<>>
    BY <2>1, SMT DEF Init
  <2>3. out \o wbuf = <<>>
    BY EmptySeq, ConcatEmptySeq DEF Init
  <2> QED
    BY <2>2, <2>3 DEF OutputInOrder
<1> QED
  BY <1>1, <1>2, <1>3 DEF IInv

\* A byte that is written is put behind those before it.
LEMMA WriteKeepsIInv ==
  ASSUME BConsoleAssumption, IInv, NEW n \in 1..MaxBytes, Write(n)
  PROVE  IInv'
<1> DEFINE new == [i \in 1..n |-> wrote + i]
           buf == wbuf \o new
<1> USE DEF IInv
<1>1. /\ wrote \in Nat /\ n \in Nat /\ MaxBytes \in Nat /\ 1 <= n
      /\ wrote + n <= MaxBytes /\ wrote' = wrote + n /\ wrote' \in 0..MaxBytes
  BY SMT DEF TypeOK, Write, BConsoleAssumption
<1>2. /\ new \in Seq(ByteNumbers)
      /\ [i \in 1..wrote |-> i] \o new = [i \in 1..wrote' |-> i]
  BY <1>1, NextBytes DEF ByteNumbers
<1>3. wbuf \in Seq(ByteNumbers) /\ out \in Seq(ByteNumbers)
  BY DEF TypeOK, ByteNumbers
<1> HIDE DEF new
<1>4. buf \in Seq(ByteNumbers) /\ out \o buf = [i \in 1..wrote' |-> i]
  <2>1. buf \in Seq(ByteNumbers)
    BY <1>2, <1>3, ConcatProperties
  <2>2. (out \o wbuf) \o new = out \o buf
    BY <1>2, <1>3, ConcatAssociative, SMTT(60)
  <2> QED
    BY <1>2, <2>1, <2>2 DEF OutputInOrder
<1>5. /\ ~closing /\ ~closed
      /\ UNCHANGED <<closing, closed, finished>>
      /\ IF wbuf = <<>> THEN tryWrite(buf, w, "write")
                        ELSE wbuf' = buf /\ UNCHANGED <<w, leaked, stack, pipe, out, refused>>
  BY DEF Write, isOpen, new
<1> HIDE DEF buf
<1>6. /\ wbuf' \in Seq(ByteNumbers) /\ out' \in Seq(ByteNumbers)
      /\ out' \o wbuf' = out \o buf
      /\ w' \in BOOLEAN /\ refused' \in BOOLEAN
      /\ stack' \in Seq(Callers) /\ pipe' \in 0..Room
      /\ leaked' = leaked \/ leaked' = leaked + 1
  <2>1. CASE wbuf = <<>>
    <3>1. w \in BOOLEAN /\ "write" \in Callers
      BY DEF TypeOK, Callers
    <3> QED
      BY <1>4, <1>5, <2>1, <3>1, TryWriteMoves
  <2>2. CASE wbuf # <<>>
    BY <1>3, <1>4, <1>5, <2>2 DEF TypeOK
  <2> QED
    BY <2>1, <2>2
<1>7. leaked' \in 0..MaxBytes /\ leaked' <= wrote'
  BY <1>1, <1>6, SMTT(60) DEF TypeOK, Counts
<1>8. TypeOK'
  BY <1>1, <1>5, <1>6, <1>7 DEF TypeOK, ByteNumbers
<1>9. Counts' /\ ClosedAfterLastByte'
  BY <1>5, <1>7 DEF Counts, ClosedAfterLastByte
<1>10. OutputInOrder'
  BY <1>4, <1>6 DEF OutputInOrder
<1> QED
  BY <1>8, <1>9, <1>10

\* A notifier's write takes from the buffer, and what has been written in all is
\* the same; the stream is not closed, as there was something to write.
LEMMA SnWriteKeepsIInv ==
  ASSUME BConsoleAssumption, IInv, wbuf # <<>>, tryWrite(wbuf, FALSE, "sn_write"),
         UNCHANGED <<wrote, closing, closed, finished>>
  PROVE  IInv'
<1> USE DEF IInv
<1>1. wbuf \in Seq(ByteNumbers) /\ "sn_write" \in Callers /\ FALSE \in BOOLEAN
  BY DEF TypeOK, ByteNumbers, Callers
<1>2. /\ wbuf' \in Seq(ByteNumbers) /\ out' \in Seq(ByteNumbers)
      /\ out' \o wbuf' = out \o wbuf
      /\ w' \in BOOLEAN /\ refused' \in BOOLEAN
      /\ stack' \in Seq(Callers) /\ pipe' \in 0..Room
      /\ leaked' = leaked
  BY <1>1, TryWriteMoves
<1>3. TypeOK'
  BY <1>2 DEF TypeOK, ByteNumbers
<1>4. OutputInOrder'
  BY <1>2 DEF OutputInOrder
<1>5. Counts' /\ ClosedAfterLastByte'
  BY <1>2 DEF Counts, ClosedAfterLastByte
<1> QED
  BY <1>3, <1>4, <1>5

\* CloseCheck() closes only when nothing is left, and once.
LEMMA CloseCheckKeepsIInv ==
  ASSUME BConsoleAssumption, IInv, CloseCheck(wbuf),
         UNCHANGED <<wbuf, leaked, pipe, wrote, out, refused>>,
         w' \in BOOLEAN, stack' \in Seq(Callers)
  PROVE  IInv'
<1> USE DEF IInv
<1>1. \/ /\ wbuf = <<>> /\ closing
         /\ closing' = FALSE /\ closed' = TRUE /\ finished' = finished + 1
      \/ UNCHANGED <<closing, closed, finished>>
  BY DEF CloseCheck
<1>2. finished' \in 0..1 /\ closing' \in BOOLEAN /\ closed' \in BOOLEAN
  <2>1. closing => finished = 0
    BY SMT DEF TypeOK, Counts, ClosedAfterLastByte
  <2>2. closing \in BOOLEAN /\ closed \in BOOLEAN /\ finished \in 0..1
    BY DEF TypeOK
  <2>3. 0 + 1 \in 0..1
    BY SMT
  <2> QED
    BY <1>1, <2>1, <2>2, <2>3
<1>3. TypeOK'
  BY <1>2 DEF TypeOK
<1>4. Counts' /\ ClosedAfterLastByte'
  BY <1>1 DEF Counts, ClosedAfterLastByte
<1>5. OutputInOrder'
  BY DEF OutputInOrder
<1> QED
  BY <1>3, <1>4, <1>5

\* Every step keeps the invariant.
LEMMA NextKeepsIInv == BConsoleAssumption /\ IInv /\ [Next]_vars => IInv'
<1> SUFFICES ASSUME BConsoleAssumption, IInv, [Next]_vars PROVE IInv'
  OBVIOUS
<1>1. CASE \E n \in 1..MaxBytes : Write(n)
  BY <1>1, WriteKeepsIInv
<1>2. CASE Close
  <2>1. TypeOK'
    BY <1>2 DEF Close, IInv, TypeOK
  <2>2. Counts' /\ OutputInOrder' /\ ClosedAfterLastByte'
    BY <1>2 DEF Close, isOpen, IInv, Counts, OutputInOrder, ClosedAfterLastByte
  <2> QED
    BY <2>1, <2>2 DEF IInv
<1>3. CASE SnWrite
  <2>1. CASE wbuf # <<>> /\ tryWrite(wbuf, FALSE, "sn_write") /\ UNCHANGED <<closing, closed, finished>>
    BY <1>3, <2>1, SnWriteKeepsIInv DEF SnWrite
  <2>2. CASE /\ wbuf = <<>> /\ w' = FALSE /\ CloseCheck(wbuf)
             /\ UNCHANGED <<wbuf, leaked, stack, pipe, out, refused>>
    <3>1. wrote' = wrote /\ w' \in BOOLEAN /\ stack' \in Seq(Callers)
      BY <1>3, <2>2 DEF SnWrite, IInv, TypeOK
    <3> QED
      BY <2>2, <3>1, CloseCheckKeepsIInv
  <2> QED
    BY <1>3, <2>1, <2>2 DEF SnWrite
<1>4. CASE SlotReturns
  <2>1. stack' \in Seq(Callers)
    <3>1. stack \in Seq(Callers) /\ stack # <<>> /\ stack' = SubSeq(stack, 1, Len(stack) - 1)
      BY <1>4 DEF SlotReturns, Front, IInv, TypeOK
    <3>2. Len(stack) \in Nat
      BY <3>1, LenProperties
    <3>3. \A i \in 1..(Len(stack) - 1) : stack[i] \in Callers
      BY <3>1, <3>2, ElementOfSeq, SMT
    <3> QED
      BY <3>1, <3>2, <3>3, SubSeqProperties
  <2>2. w' \in BOOLEAN /\ UNCHANGED <<wbuf, leaked, pipe, wrote, out, refused>>
    BY <1>4 DEF SlotReturns, IInv, TypeOK
  <2>3. CASE CloseCheck(wbuf)
    BY <2>1, <2>2, <2>3, CloseCheckKeepsIInv
  <2>4. CASE UNCHANGED <<closing, closed, finished>>
    <3>1. TypeOK'
      BY <2>1, <2>2, <2>4 DEF IInv, TypeOK
    <3>2. Counts' /\ OutputInOrder' /\ ClosedAfterLastByte'
      BY <2>2, <2>4 DEF IInv, Counts, OutputInOrder, ClosedAfterLastByte
    <3> QED
      BY <3>1, <3>2 DEF IInv
  <2> QED
    BY <1>4, <2>3, <2>4 DEF SlotReturns
<1>5. CASE Drain \/ OtherWriter
  <2>1. pipe' \in 0..Room
    BY <1>5, SMT DEF Drain, OtherWriter, IInv, TypeOK, BConsoleAssumption
  <2>2. UNCHANGED <<wbuf, w, leaked, closing, closed, stack, wrote, out, refused, finished>>
    BY <1>5 DEF Drain, OtherWriter
  <2>3. TypeOK'
    BY <2>1, <2>2 DEF IInv, TypeOK
  <2>4. Counts' /\ OutputInOrder' /\ ClosedAfterLastByte'
    BY <2>2 DEF IInv, Counts, OutputInOrder, ClosedAfterLastByte
  <2> QED
    BY <2>3, <2>4 DEF IInv
<1>6. CASE UNCHANGED vars
  BY <1>6 DEF vars, IInv, TypeOK, Counts, OutputInOrder, ClosedAfterLastByte
<1> QED
  BY <1>1, <1>2, <1>3, <1>4, <1>5, <1>6 DEF Next

-----------------------------------------------------------------------------
(* The theorems.                                                           *)

\* The inductive invariant holds in every reachable state.
THEOREM Invariance == Spec => []IInv
<1>1. BConsoleAssumption
  BY BConsoleAssumption
<1> QED
  BY <1>1, InitIInv, NextKeepsIInv, PTL DEF Spec

\* Every byte that write() accepts goes to stdout once and in order, however the
\* slots of bytesWritten() nest and whatever is refused (bconsole.cpp:98-130).
THEOREM OutputIsInOrder == Spec => []OutputInOrder
<1>1. IInv => OutputInOrder
  BY DEF IInv
<1> QED
  BY <1>1, Invariance, PTL

\* The stream is closed only behind its last byte, and a close is reported at most
\* once (bconsole.cpp:68-79, 105-109).
THEOREM ClosesAfterLastByte == Spec => [](ClosedAfterLastByte /\ TypeOK)
<1>1. IInv => ClosedAfterLastByte /\ TypeOK
  BY DEF IInv
<1> QED
  BY <1>1, Invariance, PTL

-----------------------------------------------------------------------------
(* Base64.                                                                 *)

Groups(s) == (Len(s) + 2) \div 3

\* encode() gives four characters for each group, all of the alphabet.
LEMMA EncodeShape ==
  ASSUME NEW s \in Seq(Byte)
  PROVE  /\ Groups(s) \in Nat
         /\ Len(s) <= 3 * Groups(s) /\ 3 * Groups(s) <= Len(s) + 2
         /\ Len(encode(s)) = 4 * Groups(s)
         /\ DOMAIN encode(s) = 1..(4 * Groups(s))
<1>1. Len(s) \in Nat
  OBVIOUS
<1>2. Groups(s) \in Nat /\ Len(s) <= 3 * Groups(s) /\ 3 * Groups(s) <= Len(s) + 2
  BY <1>1, SMT DEF Groups
<1>3. DOMAIN encode(s) = 1..(Groups(s) * 4)
  BY DEF encode, Groups
<1>4. Groups(s) * 4 = 4 * Groups(s)
  BY <1>2, SMT
<1> QED
  BY <1>2, <1>3, <1>4

\* The four characters of a group.
LEMMA EncodeGroup ==
  ASSUME NEW s \in Seq(Byte), NEW g \in 0..(Groups(s) - 1)
  PROVE  /\ encode(s)[4 * g + 1] = s[3 * g + 1] \div 4
         /\ encode(s)[4 * g + 2] =
              (s[3 * g + 1] % 4) * 16 + (IF 3 * g + 1 < Len(s) THEN s[3 * g + 2] \div 16 ELSE 0)
         /\ encode(s)[4 * g + 3] =
              IF 3 * g + 1 < Len(s)
                THEN (s[3 * g + 2] % 16) * 4
                     + (IF 3 * g + 2 < Len(s) THEN s[3 * g + 3] \div 64 ELSE 0)
                ELSE 64
         /\ encode(s)[4 * g + 4] = IF 3 * g + 2 < Len(s) THEN s[3 * g + 3] % 64 ELSE 64
<1>1. Groups(s) \in Nat /\ g \in Nat /\ g + 1 <= Groups(s)
  BY EncodeShape, SMT
<1>2. \A k \in 0..3 : 4 * g + k + 1 \in 1..(Groups(s) * 4)
  BY <1>1, SMT
<1>3. \A k \in 0..3 : ((4 * g + k + 1) - 1) \div 4 = g /\ ((4 * g + k + 1) - 1) % 4 = k
  BY <1>1, SMT
<1>4. g * 3 = 3 * g
  BY <1>1, SMT
<1>5. ASSUME NEW k \in 0..3
      PROVE  encode(s)[4 * g + k + 1] =
               LET i == 3 * g
               IN  << s[i + 1] \div 4,
                      (s[i + 1] % 4) * 16 + (IF i + 1 < Len(s) THEN s[i + 2] \div 16 ELSE 0),
                      IF i + 1 < Len(s)
                        THEN (s[i + 2] % 16) * 4 + (IF i + 2 < Len(s) THEN s[i + 3] \div 64 ELSE 0)
                        ELSE 64,
                      IF i + 2 < Len(s) THEN s[i + 3] % 64 ELSE 64 >>[k + 1]
  BY <1>2, <1>3, <1>4 DEF encode, Groups
<1>6. /\ 4 * g + 0 + 1 = 4 * g + 1 /\ 4 * g + 1 + 1 = 4 * g + 2
      /\ 4 * g + 2 + 1 = 4 * g + 3 /\ 4 * g + 3 + 1 = 4 * g + 4
  BY <1>1, SMT
<1>7. encode(s)[4 * g + 1] = s[3 * g + 1] \div 4
  BY <1>5, <1>6
<1>8. encode(s)[4 * g + 2] =
        (s[3 * g + 1] % 4) * 16 + (IF 3 * g + 1 < Len(s) THEN s[3 * g + 2] \div 16 ELSE 0)
  BY <1>5, <1>6
<1>9. encode(s)[4 * g + 3] =
        IF 3 * g + 1 < Len(s)
          THEN (s[3 * g + 2] % 16) * 4 + (IF 3 * g + 2 < Len(s) THEN s[3 * g + 3] \div 64 ELSE 0)
          ELSE 64
  BY <1>5, <1>6
<1>10. encode(s)[4 * g + 4] = IF 3 * g + 2 < Len(s) THEN s[3 * g + 3] % 64 ELSE 64
  BY <1>5, <1>6
<1> QED
  BY <1>7, <1>8, <1>9, <1>10

\* What encode() makes of bytes is six bits each time.
LEMMA SixBits0 == \A x \in 0..255 : x \div 4 \in 0..63
  BY SMT
LEMMA SixBits1 == \A x, y \in 0..255 : (x % 4) * 16 + y \div 16 \in 0..63
  BY SMT
LEMMA SixBits2 == \A y, z \in 0..255 : (y % 16) * 4 + z \div 64 \in 0..63
  BY SMT
LEMMA SixBits3 == \A z \in 0..255 : z % 64 \in 0..63
  BY SMT
LEMMA LastBits == \A x \in 0..255 : (x % 4) * 16 + 0 \in 0..63 /\ (x % 16) * 4 + 0 \in 0..63
  BY SMT

\* And what decode() makes of those six bits is the byte again, whatever the one
\* before and the one behind it, if there is one.
LEMMA FirstByte ==
  \A x, y \in 0..255 :
    /\ ((x \div 4) % 64) * 4 + ((((x % 4) * 16 + y \div 16) \div 16) % 4) = x
    /\ ((x \div 4) % 64) * 4 + ((((x % 4) * 16 + 0) \div 16) % 4) = x
  BY SMT

SecondOf(x, y, z) ==
  (((x % 4) * 16 + y \div 16) % 16) * 16 + ((((y % 16) * 4 + z \div 64) \div 4) % 16)

LEMMA SecondByte == \A x, y, z \in 0..255 : SecondOf(x, y, z) = y
  BY SMT DEF SecondOf

LEMMA SecondByteLast ==
  \A x, y \in 0..255 :
    (((x % 4) * 16 + y \div 16) % 16) * 16 + ((((y % 16) * 4 + 0) \div 4) % 16) = y
  BY SMT

LEMMA ThirdByte ==
  \A y, z \in 0..255 : (((y % 16) * 4 + z \div 64) % 4) * 64 + ((z % 64) % 64) = z
  BY SMT

\* Each character is one of the table's, and of the first two of a group none is `='.
LEMMA EncodeCodes ==
  ASSUME NEW s \in Seq(Byte), NEW g \in 0..(Groups(s) - 1)
  PROVE  /\ encode(s)[4 * g + 1] \in 0..63
         /\ encode(s)[4 * g + 2] \in 0..63
         /\ encode(s)[4 * g + 3] \in 0..64
         /\ encode(s)[4 * g + 4] \in 0..64
         /\ 3 * g + 1 < Len(s) => encode(s)[4 * g + 3] \in 0..63
         /\ 3 * g + 2 < Len(s) => encode(s)[4 * g + 4] \in 0..63
<1>1. g \in Nat /\ 3 * g + 1 <= Len(s) /\ Len(s) \in Nat
  BY EncodeShape, SMT
<1>2. \A n \in 1..Len(s) : s[n] \in 0..255
  BY ElementOfSeq DEF Byte
<1>3. s[3 * g + 1] \in 0..255
  BY <1>1, <1>2, SMT
<1>4. 3 * g + 1 < Len(s) => s[3 * g + 2] \in 0..255
  BY <1>1, <1>2, SMT
<1>5. 3 * g + 2 < Len(s) => s[3 * g + 3] \in 0..255
  BY <1>1, <1>2, SMT
<1>6. encode(s)[4 * g + 1] \in 0..63
  <2>1. encode(s)[4 * g + 1] = s[3 * g + 1] \div 4
    BY EncodeGroup
  <2>2. s[3 * g + 1] \div 4 \in 0..63
    BY <1>3, SixBits0
  <2> QED
    BY <2>1, <2>2
<1>7. encode(s)[4 * g + 2] \in 0..63
  <2>1. encode(s)[4 * g + 2] =
          (s[3 * g + 1] % 4) * 16 + (IF 3 * g + 1 < Len(s) THEN s[3 * g + 2] \div 16 ELSE 0)
    BY EncodeGroup
  <2>2. CASE 3 * g + 1 < Len(s)
    <3>1. (s[3 * g + 1] % 4) * 16 + s[3 * g + 2] \div 16 \in 0..63
      BY <1>3, <1>4, <2>2, SixBits1
    <3> QED
      BY <2>1, <2>2, <3>1
  <2>3. CASE ~(3 * g + 1 < Len(s))
    BY <1>3, <2>1, <2>3, LastBits, ZenonT(60)
  <2> QED
    BY <2>2, <2>3
<1>8. /\ 3 * g + 1 < Len(s) => encode(s)[4 * g + 3] \in 0..63
      /\ ~(3 * g + 1 < Len(s)) => encode(s)[4 * g + 3] = 64
  <2>1. encode(s)[4 * g + 3] =
          IF 3 * g + 1 < Len(s)
            THEN (s[3 * g + 2] % 16) * 4
                 + (IF 3 * g + 2 < Len(s) THEN s[3 * g + 3] \div 64 ELSE 0)
            ELSE 64
    BY EncodeGroup
  <2>2. CASE ~(3 * g + 1 < Len(s))
    BY <2>1, <2>2
  <2>3. CASE 3 * g + 1 < Len(s) /\ 3 * g + 2 < Len(s)
    <3>1. (s[3 * g + 2] % 16) * 4 + s[3 * g + 3] \div 64 \in 0..63
      BY <1>4, <1>5, <2>3, SixBits2
    <3> QED
      BY <2>1, <2>3, <3>1
  <2>4. CASE 3 * g + 1 < Len(s) /\ ~(3 * g + 2 < Len(s))
    BY <1>4, <2>1, <2>4, LastBits, ZenonT(60)
  <2> QED
    BY <2>2, <2>3, <2>4
<1>9. /\ 3 * g + 2 < Len(s) => encode(s)[4 * g + 4] \in 0..63
      /\ ~(3 * g + 2 < Len(s)) => encode(s)[4 * g + 4] = 64
  <2>1. encode(s)[4 * g + 4] = IF 3 * g + 2 < Len(s) THEN s[3 * g + 3] % 64 ELSE 64
    BY EncodeGroup
  <2> QED
    BY <1>5, <2>1, SixBits3, ZenonT(60)
<1>10. 0..63 \subseteq 0..64 /\ 64 \in 0..64
  BY SMT
<1> QED
  BY <1>6, <1>7, <1>8, <1>9, <1>10

\* decode() takes what encode() gives.
LEMMA EncodeDecodable ==
  ASSUME NEW s \in Seq(Byte)
  PROVE  Decodable(encode(s))
<1>1. Groups(s) \in Nat /\ Len(encode(s)) = 4 * Groups(s) /\ DOMAIN encode(s) = 1..(4 * Groups(s))
  BY EncodeShape
<1>2. Len(encode(s)) % 4 = 0
  BY <1>1, SMT
<1>3. ASSUME NEW n \in DOMAIN encode(s)
      PROVE  encode(s)[n] >= 0 /\ (n % 4 \in {1, 2} => encode(s)[n] # 64)
  <2>1. PICK g \in 0..(Groups(s) - 1) : n \in {4 * g + 1, 4 * g + 2, 4 * g + 3, 4 * g + 4}
    <3> DEFINE m == n - 1
    <3>1. m \in Nat /\ m < 4 * Groups(s) /\ n = m + 1
      BY <1>1, <1>3, SMT
    <3> HIDE DEF m
    <3>2. m \div 4 \in Nat /\ m % 4 \in 0..3 /\ m = 4 * (m \div 4) + (m % 4)
      BY <3>1, SMT
    <3>3. m \div 4 \in 0..(Groups(s) - 1)
      BY <1>1, <3>1, <3>2, SMT
    <3>4. m % 4 = 0 \/ m % 4 = 1 \/ m % 4 = 2 \/ m % 4 = 3
      BY <3>2, SMT
    <3>5. n = 4 * (m \div 4) + (m % 4) + 1
      BY <3>1, <3>2
    <3>6. \/ n = 4 * (m \div 4) + 1 \/ n = 4 * (m \div 4) + 2
          \/ n = 4 * (m \div 4) + 3 \/ n = 4 * (m \div 4) + 4
      BY <3>2, <3>4, <3>5, SMT
    <3> QED
      BY <3>3, <3>6
  <2>2. /\ encode(s)[4 * g + 1] \in 0..63 /\ encode(s)[4 * g + 2] \in 0..63
        /\ encode(s)[4 * g + 3] \in 0..64 /\ encode(s)[4 * g + 4] \in 0..64
    BY EncodeCodes
  <2>3. g \in Nat
    BY <1>1, SMT
  <2>4. (4 * g + 3) % 4 = 3 /\ (4 * g + 4) % 4 = 0
    BY <2>3, SMT
  <2>5. \A c : c \in 0..64 => c >= 0
    BY SMT
  <2>6. \A c : c \in 0..63 => c >= 0 /\ c # 64
    BY SMT
  <2>7. CASE n = 4 * g + 1 \/ n = 4 * g + 2
    BY <2>2, <2>6, <2>7
  <2>8. CASE n = 4 * g + 3 \/ n = 4 * g + 4
    <3>1. n % 4 \in {0, 3}
      BY <2>4, <2>8
    <3>2. n % 4 \notin {1, 2}
      BY <3>1, SMT
    <3> QED
      BY <2>2, <2>5, <2>8, <3>2
  <2> QED
    BY <2>1, <2>7, <2>8
<1> QED
  BY <1>2, <1>3 DEF Decodable

\* decode() finds how many bytes the last group was short of three.
LEMMA EncodeShort ==
  ASSUME NEW s \in Seq(Byte)
  PROVE  Short(encode(s)) = 3 * Groups(s) - Len(s)
<1>1. /\ Groups(s) \in Nat /\ Len(s) \in Nat /\ Len(encode(s)) = 4 * Groups(s)
      /\ Len(s) <= 3 * Groups(s) /\ 3 * Groups(s) <= Len(s) + 2
  BY EncodeShape
<1>2. CASE Groups(s) = 0
  <2>1. Len(encode(s)) = 0 /\ 3 * Groups(s) - Len(s) = 0
    BY <1>1, <1>2, SMT
  <2> QED
    BY <2>1 DEF Short
<1>3. CASE Groups(s) # 0
  <2> DEFINE g == Groups(s) - 1
  <2>1. /\ g \in 0..(Groups(s) - 1) /\ Len(encode(s)) # 0
        /\ Len(encode(s)) - 1 = 4 * g + 3 /\ Len(encode(s)) = 4 * g + 4
    BY <1>1, <1>3, SMT
  <2>2. /\ 3 * g + 1 < Len(s) => encode(s)[4 * g + 3] \in 0..63
        /\ 3 * g + 2 < Len(s) => encode(s)[4 * g + 4] \in 0..63
    BY <2>1, EncodeCodes
  <2>3. /\ ~(3 * g + 1 < Len(s)) => encode(s)[4 * g + 3] = 64
        /\ ~(3 * g + 2 < Len(s)) => encode(s)[4 * g + 4] = 64
    BY <2>1, EncodeGroup
  <2>4. 64 \notin 0..63
    BY SMT
  <2>5. /\ g \in Nat /\ Len(s) \in Nat /\ 3 * Groups(s) - Len(s) = 3 * g + 3 - Len(s)
        /\ Len(s) <= 3 * g + 3 /\ 3 * g + 3 <= Len(s) + 2
    BY <1>1, <1>3, SMT
  <2> HIDE DEF g
  <2>6. CASE ~(3 * g + 1 < Len(s))
    <3>1. 3 * Groups(s) - Len(s) = 2
      BY <2>5, <2>6, SMT
    <3> QED
      BY <2>1, <2>3, <2>6, <3>1 DEF Short
  <2>7. CASE 3 * g + 1 < Len(s) /\ ~(3 * g + 2 < Len(s))
    <3>1. 3 * Groups(s) - Len(s) = 1
      BY <2>5, <2>7, SMT
    <3> QED
      BY <2>1, <2>2, <2>3, <2>4, <2>7, <3>1 DEF Short
  <2>8. CASE 3 * g + 1 < Len(s) /\ 3 * g + 2 < Len(s)
    <3>1. 3 * Groups(s) - Len(s) = 0
      BY <2>5, <2>8, SMT
    <3> QED
      BY <2>1, <2>2, <2>4, <2>8, <3>1 DEF Short
  <2> QED
    BY <2>6, <2>7, <2>8
<1> QED
  BY <1>2, <1>3

\* The three bytes of a group, as far as there are any.
LEMMA DecodeGroup ==
  ASSUME NEW s \in Seq(Byte), NEW g \in 0..(Groups(s) - 1)
  PROVE  LET e == encode(s)
         IN  /\ (e[4 * g + 1] % 64) * 4 + ((e[4 * g + 2] \div 16) % 4) = s[3 * g + 1]
             /\ 3 * g + 1 < Len(s) =>
                  (e[4 * g + 2] % 16) * 16 + ((e[4 * g + 3] \div 4) % 16) = s[3 * g + 2]
             /\ 3 * g + 2 < Len(s) =>
                  (e[4 * g + 3] % 4) * 64 + (e[4 * g + 4] % 64) = s[3 * g + 3]
<1> DEFINE x == s[3 * g + 1]
           y == s[3 * g + 2]
           z == s[3 * g + 3]
           e == encode(s)
<1>1. g \in Nat /\ 3 * g + 1 <= Len(s) /\ Len(s) \in Nat
  BY EncodeShape, SMT
<1>2. \A n \in 1..Len(s) : s[n] \in 0..255
  BY ElementOfSeq DEF Byte
<1>3. /\ x \in 0..255
      /\ 3 * g + 1 < Len(s) => y \in 0..255
      /\ 3 * g + 2 < Len(s) => 3 * g + 1 < Len(s) /\ z \in 0..255
  BY <1>1, <1>2, SMT
<1>4. /\ e[4 * g + 1] = x \div 4
      /\ e[4 * g + 2] = (x % 4) * 16 + (IF 3 * g + 1 < Len(s) THEN y \div 16 ELSE 0)
      /\ e[4 * g + 3] = IF 3 * g + 1 < Len(s)
                          THEN (y % 16) * 4 + (IF 3 * g + 2 < Len(s) THEN z \div 64 ELSE 0)
                          ELSE 64
      /\ e[4 * g + 4] = IF 3 * g + 2 < Len(s) THEN z % 64 ELSE 64
  BY EncodeGroup
<1> HIDE DEF x, y, z, e
<1>5. CASE ~(3 * g + 1 < Len(s))
  <2>1. ~(3 * g + 2 < Len(s))
    BY <1>3, <1>5
  <2>2. ((x \div 4) % 64) * 4 + ((((x % 4) * 16 + 0) \div 16) % 4) = x
    BY <1>3, FirstByte
  <2>3. e[4 * g + 1] = x \div 4 /\ e[4 * g + 2] = (x % 4) * 16 + 0
    BY <1>4, <1>5
  <2> QED
    BY <1>5, <2>1, <2>2, <2>3 DEF x, y, z, e
<1>6. CASE 3 * g + 1 < Len(s) /\ ~(3 * g + 2 < Len(s))
  <2>1. ((x \div 4) % 64) * 4 + ((((x % 4) * 16 + y \div 16) \div 16) % 4) = x
    BY <1>3, <1>6, FirstByte, ZenonT(60)
  <2>3. (((x % 4) * 16 + y \div 16) % 16) * 16 + ((((y % 16) * 4 + 0) \div 4) % 16) = y
    BY <1>3, <1>6, SecondByteLast
  <2>2. /\ e[4 * g + 1] = x \div 4 /\ e[4 * g + 2] = (x % 4) * 16 + y \div 16
        /\ e[4 * g + 3] = (y % 16) * 4 + 0
    BY <1>4, <1>6
  <2> QED
    BY <1>6, <2>1, <2>2, <2>3 DEF x, y, z, e
<1>7. CASE 3 * g + 2 < Len(s)
  <2>1. ((x \div 4) % 64) * 4 + ((((x % 4) * 16 + y \div 16) \div 16) % 4) = x
    BY <1>3, <1>7, FirstByte, ZenonT(60)
  <2>3. (((x % 4) * 16 + y \div 16) % 16) * 16 + ((((y % 16) * 4 + z \div 64) \div 4) % 16) = y
    <3>1. x \in 0..255 /\ y \in 0..255 /\ z \in 0..255
      BY <1>3, <1>7
    <3>2. SecondOf(x, y, z) = y
      BY <3>1, SecondByte, ZenonT(60)
    <3> QED
      BY <3>2 DEF SecondOf
  <2>4. (((y % 16) * 4 + z \div 64) % 4) * 64 + ((z % 64) % 64) = z
    BY <1>3, <1>7, ThirdByte, ZenonT(60)
  <2>2. /\ e[4 * g + 1] = x \div 4 /\ e[4 * g + 2] = (x % 4) * 16 + y \div 16
        /\ e[4 * g + 3] = (y % 16) * 4 + z \div 64 /\ e[4 * g + 4] = z % 64
    BY <1>3, <1>4, <1>7
  <2> QED
    BY <1>3, <1>7, <2>1, <2>2, <2>3, <2>4 DEF x, y, z, e
<1> QED
  BY <1>3, <1>5, <1>6, <1>7

\* decode() undoes encode() (base64.cpp:43, 77), for byte sequences of any length:
\* the padding of the last group gives exactly the bytes that were there.
THEOREM Base64RoundTrip == \A s \in Seq(Byte) : decode(encode(s)) = s
<1> SUFFICES ASSUME NEW s \in Seq(Byte) PROVE decode(encode(s)) = s
  OBVIOUS
<1> DEFINE e == encode(s)
           d == decode(e)
<1>1. /\ Groups(s) \in Nat /\ Len(s) \in Nat /\ Len(e) = 4 * Groups(s)
      /\ Len(s) <= 3 * Groups(s) /\ 3 * Groups(s) <= Len(s) + 2
  BY EncodeShape
<1>2. Decodable(e) /\ Short(e) = 3 * Groups(s) - Len(s)
  BY EncodeDecodable, EncodeShort
<1> HIDE DEF e
<1>3. Len(e) \div 4 = Groups(s)
  BY <1>1, SMT
<1>4. Groups(s) * 3 - (3 * Groups(s) - Len(s)) = Len(s)
  BY <1>1, SMT
<1>5. d = [at \in 1..Len(s) |->
             LET i == ((at - 1) \div 3) * 4
                 k == (at - 1) % 3
             IN  << (e[i + 1] % 64) * 4 + ((e[i + 2] \div 16) % 4),
                    (e[i + 2] % 16) * 16 + ((e[i + 3] \div 4) % 16),
                    (e[i + 3] % 4) * 64 + (e[i + 4] % 64) >>[k + 1]]
  BY <1>2, <1>3, <1>4 DEF decode
<1> HIDE DEF d
<1>6. ASSUME NEW at \in 1..Len(s) PROVE d[at] = s[at]
  <2> DEFINE m == at - 1
             g == m \div 3
             k == m % 3
  <2>1. m \in Nat /\ m < Len(s) /\ at = m + 1
    BY <1>1, SMT
  <2> HIDE DEF m
  <2>2. g \in Nat /\ k \in 0..2 /\ m = 3 * g + k
    BY <2>1, SMT
  <2> HIDE DEF g, k
  <2>3. g \in 0..(Groups(s) - 1)
    BY <1>1, <2>1, <2>2, SMT
  <2>4. g * 4 = 4 * g /\ at = 3 * g + k + 1
    BY <2>1, <2>2, SMT
  <2>5. d[at] = << (e[4 * g + 1] % 64) * 4 + ((e[4 * g + 2] \div 16) % 4),
                   (e[4 * g + 2] % 16) * 16 + ((e[4 * g + 3] \div 4) % 16),
                   (e[4 * g + 3] % 4) * 64 + (e[4 * g + 4] % 64) >>[k + 1]
    BY <1>5, <2>4 DEF m, g, k
  <2>6. /\ (e[4 * g + 1] % 64) * 4 + ((e[4 * g + 2] \div 16) % 4) = s[3 * g + 1]
        /\ 3 * g + 1 < Len(s) =>
             (e[4 * g + 2] % 16) * 16 + ((e[4 * g + 3] \div 4) % 16) = s[3 * g + 2]
        /\ 3 * g + 2 < Len(s) =>
             (e[4 * g + 3] % 4) * 64 + (e[4 * g + 4] % 64) = s[3 * g + 3]
    BY <2>3, DecodeGroup DEF e
  <2>7. CASE k = 0
    <3>1. at = 3 * g + 1
      BY <2>2, <2>4, <2>7, SMT
    <3> QED
      BY <2>5, <2>6, <2>7, <3>1
  <2>8. CASE k = 1
    <3>1. at = 3 * g + 2 /\ 3 * g + 1 < Len(s)
      BY <1>1, <2>1, <2>2, <2>8, SMT
    <3> QED
      BY <2>5, <2>6, <2>8, <3>1
  <2>9. CASE k = 2
    <3>1. at = 3 * g + 3 /\ 3 * g + 2 < Len(s)
      BY <1>1, <2>1, <2>2, <2>9, SMT
    <3> QED
      BY <2>5, <2>6, <2>9, <3>1
  <2>10. k = 0 \/ k = 1 \/ k = 2
    BY <2>2, SMT
  <2> QED
    BY <2>7, <2>8, <2>9, <2>10
<1>7. d = [at \in 1..Len(s) |-> s[at]]
  BY <1>5, <1>6
<1>8. s = [at \in 1..Len(s) |-> s[at]]
  BY LenProperties
<1> QED
  BY <1>7, <1>8 DEF d, e

-----------------------------------------------------------------------------
(* Folds and the largest of a set.                                         *)

Less == {ss \in Nat \X Nat : ss[1] < ss[2]}

\* A set of numbers has a least one.
LEMMA LeastNumber ==
  ASSUME NEW T \in SUBSET Nat, T # {}
  PROVE  \E m \in T : \A n \in T : m <= n
<1>1. IsWellFoundedOn(Less, Nat)
  BY NatLessThanWellFounded DEF OpToRel, Less
<1>2. PICK m \in T : \A n \in T : ~(<<n, m>> \in Less)
  BY <1>1, WFMin, Zenon
<1>3. ASSUME NEW n \in T PROVE m <= n
  <2>1. m \in Nat /\ n \in Nat /\ ~(<<n, m>> \in Less)
    BY <1>2
  <2>2. ~(n < m)
    BY <2>1 DEF Less
  <2> QED
    BY <2>1, <2>2, SMT
<1> QED
  BY <1>3

\* It is what Min() chooses.
LEMMA MinIsLeast ==
  ASSUME NEW T \in SUBSET Nat, T # {}
  PROVE  Min(T) \in T /\ \A n \in T : Min(T) <= n
BY LeastNumber, Zenon DEF Min

\* Nothing else is.
LEMMA MinIs ==
  ASSUME NEW T \in SUBSET Nat, NEW m \in T, \A n \in T : m <= n
  PROVE  Min(T) = m
<1>1. Min(T) \in T /\ Min(T) <= m
  BY MinIsLeast
<1>2. Min(T) \in Nat /\ m \in Nat /\ m <= Min(T)
  BY <1>1
<1> QED
  BY <1>1, <1>2, SMT

\* Induction, for a set of numbers.
LEMMA InductionOnSet ==
  ASSUME NEW T \in SUBSET Nat, 0 \in T, \A n \in Nat : n \in T => n + 1 \in T
  PROVE  \A n \in Nat : n \in T
<1> SUFFICES ASSUME Nat \ T # {} PROVE FALSE
  OBVIOUS
<1>1. PICK m \in Nat \ T : \A n \in Nat \ T : m <= n
  BY LeastNumber, Zenon
<1>2. m - 1 \in Nat
  BY <1>1, SMT
<1>3. m - 1 \in T
  BY <1>1, <1>2, SMT
<1> QED
  BY <1>1, <1>2, <1>3, SMT

\* What Max() chooses.
LEMMA MaxIsGreatest ==
  ASSUME NEW n \in Nat, NEW T \in SUBSET (1..n), T # {}
  PROVE  Max(T) \in T /\ \A i \in T : i <= Max(T)
<1> DEFINE U == {k \in Nat : \E i \in T : k + i = n}
<1>1. U # {}
  <2>1. PICK i \in T : TRUE
    OBVIOUS
  <2>2. n - i \in Nat /\ (n - i) + i = n
    BY <2>1, SMT
  <2> QED
    BY <2>1, <2>2
<1>2. PICK k \in U : \A j \in U : k <= j
  BY <1>1, LeastNumber, Zenon
<1>3. PICK m \in T : k + m = n
  BY <1>2
<1>4. \A i \in T : m >= i /\ i \in Int
  <2> TAKE i \in T
  <2>1. n - i \in Nat /\ (n - i) + i = n /\ i \in Int /\ m \in Int /\ k \in Nat
    BY <1>3, SMT
  <2>2. n - i \in U
    BY <2>1
  <2>3. k <= n - i
    BY <1>2, <2>2
  <2> QED
    BY <1>3, <2>1, <2>3, SMT
<1>5. Max(T) \in T /\ \A i \in T : Max(T) >= i
  BY <1>3, <1>4, Zenon DEF Max
<1> QED
  BY <1>5, SMT

\* A set that reaches to k + 1 has it as its maximum.
LEMMA LastIsMax ==
  ASSUME NEW k \in Nat, NEW T \in SUBSET (1..(k + 1)), k + 1 \in T
  PROVE  Max(T) = k + 1
<1>1. T # {} /\ k + 1 \in Nat
  BY SMT
<1>2. Max(T) \in T /\ \A i \in T : i <= Max(T)
  BY <1>1, MaxIsGreatest
<1>3. Max(T) \in 1..(k + 1) /\ k + 1 <= Max(T)
  BY <1>2
<1> QED
  BY <1>3, SMT

\* A prefix without its maximum is the prefix before.
LEMMA MaxOfPrefix ==
  ASSUME NEW k \in Nat
  PROVE  Max(1..(k + 1)) = k + 1 /\ (1..(k + 1)) \ {k + 1} = 1..k /\ 1..(k + 1) # {}
<1>1. k + 1 \in 1..(k + 1)
  BY SMT
<1>2. (1..(k + 1)) \ {k + 1} = 1..k
  BY SMT
<1> QED
  BY <1>1, <1>2, LastIsMax

\* What a fold over 1..n gives for each subset, if a step is G.
FoldOf(f, b, G, n) ==
  f = [S \in SUBSET (1..n) |-> IF S = {} THEN b ELSE G[<<f[S \ {Max(S)}], Max(S)>>]]

\* There is such a function, with values in X.
LEMMA FoldSolved ==
  ASSUME NEW n \in Nat, NEW X, NEW b \in X, NEW G \in [X \X (1..n) -> X]
  PROVE  \E f \in [SUBSET (1..n) -> X] : FoldOf(f, b, G, n)
<1> DEFINE Solved(m) == \E f \in [SUBSET (1..m) -> X] : FoldOf(f, b, G, m)
           T == {m \in Nat : m <= n => Solved(m)}
<1>1. 0 \in T
  <2> DEFINE f == [S \in SUBSET (1..0) |-> b]
  <2>1. \A S \in SUBSET (1..0) : S = {}
    BY SMT
  <2>2. f = [S \in SUBSET (1..0) |-> IF S = {} THEN b ELSE G[<<f[S \ {Max(S)}], Max(S)>>]]
    BY <2>1
  <2>3. FoldOf(f, b, G, 0) /\ f \in [SUBSET (1..0) -> X]
    BY <2>2 DEF FoldOf
  <2> HIDE DEF f
  <2> QED
    BY <2>3
<1>2. ASSUME NEW m \in Nat, m \in T PROVE m + 1 \in T
  <2> SUFFICES ASSUME m + 1 <= n PROVE Solved(m + 1)
    <3> HIDE DEF Solved
    <3>1. m + 1 \in Nat
      BY SMT
    <3> QED
      BY <3>1
  <2>1. m <= n /\ m + 1 \in 1..n
    BY <1>2, SMT
  <2>2. PICK f \in [SUBSET (1..m) -> X] : FoldOf(f, b, G, m)
    BY <1>2, <2>1
  <2> DEFINE g == [S \in SUBSET (1..(m + 1)) |->
                     IF m + 1 \in S THEN G[<<f[S \ {m + 1}], m + 1>>] ELSE f[S]]
  <2>3. ASSUME NEW S \in SUBSET (1..(m + 1))
        PROVE  /\ m + 1 \notin S => S \in SUBSET (1..m)
               /\ S \ {m + 1} \in SUBSET (1..m)
               /\ m + 1 \in S => Max(S) = m + 1
    <3>1. m + 1 \notin S => S \in SUBSET (1..m)
      BY SMT
    <3>2. S \ {m + 1} \in SUBSET (1..m)
      BY SMT
    <3>3. ASSUME m + 1 \in S PROVE Max(S) = m + 1
      BY <3>3, LastIsMax
    <3> QED
      BY <3>1, <3>2, <3>3
  <2>4. g \in [SUBSET (1..(m + 1)) -> X]
    BY <2>1, <2>2, <2>3, Zenon
  <2>5. ASSUME NEW S \in SUBSET (1..(m + 1))
        PROVE  g[S] = IF S = {} THEN b ELSE G[<<g[S \ {Max(S)}], Max(S)>>]
    <3>1. CASE m + 1 \in S
      <4>1. S # {} /\ g[S] = G[<<f[S \ {m + 1}], m + 1>>] /\ Max(S) = m + 1
        BY <2>3, <3>1
      <4>2. S \ {m + 1} \in SUBSET (1..(m + 1)) /\ m + 1 \notin S \ {m + 1}
        OBVIOUS
      <4>3. g[S \ {m + 1}] = f[S \ {m + 1}]
        BY <4>2
      <4> QED
        BY <4>1, <4>3
    <3>2. CASE m + 1 \notin S
      <4>1. g[S] = f[S] /\ S \in SUBSET (1..m)
        BY <2>3, <3>2
      <4>2. f[S] = IF S = {} THEN b ELSE G[<<f[S \ {Max(S)}], Max(S)>>]
        BY <2>2, <4>1 DEF FoldOf
      <4>3. S \ {Max(S)} \in SUBSET (1..(m + 1)) /\ m + 1 \notin S \ {Max(S)}
        BY <3>2
      <4>4. g[S \ {Max(S)}] = f[S \ {Max(S)}]
        BY <4>3
      <4> QED
        BY <4>1, <4>2, <4>4
    <3> QED
      BY <3>1, <3>2
  <2> HIDE DEF g
  <2>6. FoldOf(g, b, G, m + 1)
    <3>1. g = [S \in SUBSET (1..(m + 1)) |-> g[S]]
      BY <2>4
    <3> QED
      BY <2>5, <3>1 DEF FoldOf
  <2> QED
    BY <2>4, <2>6
<1> HIDE DEF T
<1>3. \A m \in Nat : m \in T
  <2>1. T \in SUBSET Nat
    BY DEF T
  <2> QED
    BY <1>1, <1>2, <2>1, InductionOnSet
<1>4. n \in T /\ n <= n
  BY <1>3, SMT
<1>5. Solved(n)
  <2> HIDE DEF Solved
  <2> QED
    BY <1>4 DEF T
<1> QED
  BY <1>5

\* A fold whose value for a set that is not empty is H's.
Steps(f, b, H, n) == f = [S \in SUBSET (1..n) |-> IF S = {} THEN b ELSE H[S]]

\* It goes through the prefixes.
LEMMA FoldSteps ==
  ASSUME NEW n \in Nat, NEW b, NEW f, NEW H, Steps(f, b, H, n)
  PROVE  /\ f[1..0] = b
         /\ \A k \in Nat : k < n => /\ f[1..(k + 1)] = H[1..(k + 1)]
                                    /\ Max(1..(k + 1)) = k + 1
                                    /\ (1..(k + 1)) \ {k + 1} = 1..k
<1> USE DEF Steps
<1>1. 1..0 = {} /\ 1..0 \in SUBSET (1..n)
  BY SMT
<1>2. ASSUME NEW k \in Nat, k < n
      PROVE  /\ f[1..(k + 1)] = H[1..(k + 1)]
             /\ Max(1..(k + 1)) = k + 1
             /\ (1..(k + 1)) \ {k + 1} = 1..k
  <2>1. 1..(k + 1) \in SUBSET (1..n)
    BY <1>2, SMT
  <2>2. /\ 1..(k + 1) # {} /\ Max(1..(k + 1)) = k + 1
        /\ (1..(k + 1)) \ {k + 1} = 1..k
    BY MaxOfPrefix
  <2> QED
    BY <2>1, <2>2
<1>3. f[1..0] = b
  BY <1>1
<1> QED
  BY <1>2, <1>3

\* f gives what the first sequences are, put together.
Joins(f, seqs) ==
  \A i \in 1..Len(seqs) : f[i] = IF i = 1 THEN seqs[i] ELSE f[i - 1] \o seqs[i]

\* FlattenSeq() puts them together one by one.
LEMMA FlattenJoins ==
  ASSUME NEW X, NEW seqs \in Seq(Seq(X)), Len(seqs) # 0
  PROVE  \E f \in [1..Len(seqs) -> Seq(X)] : Joins(f, seqs) /\ FlattenSeq(seqs) = f[Len(seqs)]
<1> DEFINE n == Len(seqs)
           Is(m, f) == f = [i \in 1..m |-> IF i = 1 THEN seqs[i] ELSE f[i - 1] \o seqs[i]]
           Solved(m) == \E f \in [1..m -> Seq(X)] : Is(m, f)
           T == {m \in Nat : m <= n => Solved(m)}
<1>1. n \in Nat /\ \A i \in 1..n : seqs[i] \in Seq(X)
  BY LenProperties, ElementOfSeq
<1>2. n # 0
  OBVIOUS
<1>3. Solved(0)
  <2> DEFINE f == [i \in 1..0 |-> <<>>]
  <2>1. \A i \in 1..0 : FALSE
    BY SMT
  <2>2. f \in [1..0 -> Seq(X)] /\ Is(0, f)
    BY <2>1
  <2> QED
    BY <2>2
<1>4. ASSUME NEW m \in Nat, Solved(m), m + 1 <= n PROVE Solved(m + 1)
  <2>1. PICK f \in [1..m -> Seq(X)] : Is(m, f)
    BY <1>4
  <2> DEFINE g == [i \in 1..(m + 1) |->
                     IF i = m + 1 THEN IF m = 0 THEN seqs[1] ELSE f[m] \o seqs[m + 1] ELSE f[i]]
  <2>2. \A i \in 1..(m + 1) : /\ i # m + 1 => i \in 1..m
                              /\ i \in 1..m /\ i # 1 => i - 1 \in 1..m /\ i - 1 \in 1..(m + 1) /\ i - 1 # m + 1
    BY SMT
  <2>3. /\ m + 1 \in 1..n /\ 1 \in 1..n
        /\ m # 0 => m \in 1..m /\ m \in 1..(m + 1) /\ m # m + 1 /\ (m + 1) - 1 = m /\ m + 1 # 1
        /\ m = 0 => m + 1 = 1
    BY <1>1, <1>4, SMT
  <2>4. g \in [1..(m + 1) -> Seq(X)]
    <3>1. m # 0 => f[m] \o seqs[m + 1] \in Seq(X)
      BY <1>1, <2>1, <2>3, ConcatProperties
    <3> QED
      BY <1>1, <2>1, <2>2, <2>3, <3>1
  <2>5. ASSUME NEW i \in 1..(m + 1)
        PROVE  g[i] = IF i = 1 THEN seqs[i] ELSE g[i - 1] \o seqs[i]
    <3>1. CASE i = m + 1
      BY <2>2, <2>3, <3>1
    <3>2. CASE i # m + 1
      BY <2>1, <2>2, <3>2
    <3> QED
      BY <3>1, <3>2
  <2> HIDE DEF g
  <2>6. Is(m + 1, g)
    BY <2>4, <2>5
  <2> QED
    BY <2>4, <2>6
<1>5. Solved(n)
  <2> HIDE DEF Solved
  <2>1. 0 \in T /\ T \in SUBSET Nat
    BY <1>3
  <2>2. ASSUME NEW m \in Nat, m \in T PROVE m + 1 \in T
    <3> SUFFICES ASSUME m + 1 <= n PROVE Solved(m + 1)
      <4>1. m + 1 \in Nat
        BY SMT
      <4> QED
        BY <4>1
    <3>1. m <= n
      BY <1>1, SMT
    <3> QED
      BY <1>4, <2>2, <3>1
  <2>3. n \in T
    <3> HIDE DEF T, n
    <3> QED
      BY <1>1, <2>1, <2>2, InductionOnSet
  <2>4. n <= n
    BY <1>1, SMT
  <2> QED
    BY <2>3, <2>4 DEF T
<1> DEFINE flatten == CHOOSE f : Is(n, f)
<1>6. Is(n, flatten)
  BY <1>5, Zenon
<1>7. FlattenSeq(seqs) = flatten[n]
  BY <1>2, Zenon DEF FlattenSeq
<1> HIDE DEF flatten
<1> DEFINE U == {m \in Nat : m + 1 <= n => flatten[m + 1] \in Seq(X)}
<1>8. 0 \in U
  <2>1. 1 \in 1..n /\ 0 + 1 = 1
    BY <1>1, <1>2, SMT
  <2> QED
    BY <1>1, <1>6, <2>1
<1>9. ASSUME NEW m \in Nat, m \in U PROVE m + 1 \in U
  <2> SUFFICES ASSUME (m + 1) + 1 <= n PROVE flatten[(m + 1) + 1] \in Seq(X)
    OBVIOUS
  <2>1. m + 1 <= n /\ (m + 1) + 1 \in 1..n /\ (m + 1) + 1 # 1 /\ ((m + 1) + 1) - 1 = m + 1
    BY <1>1, SMT
  <2>2. flatten[m + 1] \in Seq(X) /\ seqs[(m + 1) + 1] \in Seq(X)
    BY <1>1, <1>9, <2>1
  <2>3. flatten[(m + 1) + 1] = flatten[m + 1] \o seqs[(m + 1) + 1]
    BY <1>6, <2>1
  <2> QED
    BY <2>2, <2>3, ConcatProperties
<1>10. \A m \in Nat : m \in U
  <2>1. U \in SUBSET Nat
    OBVIOUS
  <2> HIDE DEF U
  <2> QED
    BY <1>8, <1>9, <2>1, InductionOnSet
<1>11. \A i \in 1..n : i - 1 \in Nat /\ (i - 1) + 1 = i /\ i <= n
  BY <1>1, SMT
<1>12. \A i \in 1..n : flatten[i] \in Seq(X)
  BY <1>10, <1>11
<1>13. flatten \in [1..n -> Seq(X)]
  BY <1>6, <1>12
<1>14. Joins(flatten, seqs)
  BY <1>6 DEF Joins
<1> QED
  BY <1>7, <1>13, <1>14

-----------------------------------------------------------------------------
(* The packets that an RTSP::Client has written.                           *)

\* g gives the sum of each prefix of s.
Sums(s, g) ==
  /\ g \in [Nat -> Nat] /\ g[0] = 0
  /\ \A k \in Nat : k < Len(s) => g[k + 1] = g[k] + s[k + 1]

\* Sum() goes through the prefixes.
LEMMA SumIsLast ==
  ASSUME NEW s \in Seq(Nat), NEW g, Sums(s, g)
  PROVE  Sum(s) = g[Len(s)]
<1> DEFINE n == Len(s)
           b == 0
           Turn(acc, k) == acc + s[k]
           G == [p \in Nat \X (1..n) |-> Turn(p[1], p[2])]
           Is(f) == f = [S \in SUBSET (1..n) |-> IF S = {} THEN b ELSE Turn(f[S \ {Max(S)}], Max(S))]
           fold == CHOOSE f : Is(f)
           H == [S \in SUBSET (1..n) |-> Turn(fold[S \ {Max(S)}], Max(S))]
<1>1. n \in Nat /\ DOMAIN s = 1..n /\ \A k \in 1..n : s[k] \in Nat
  BY LenProperties, ElementOfSeq
<1>2. b \in Nat
  BY SMT
<1>3. \A acc \in Nat, k \in 1..n : Turn(acc, k) \in Nat
  BY <1>1, SMT
<1>4. Sum(s) = fold[1..n]
  <2> HIDE DEF n
  <2>1. Sum(s) = (CHOOSE f : f = [S \in SUBSET (DOMAIN s) |->
                 IF S = {} THEN b ELSE Turn(f[S \ {Max(S)}], Max(S))])[DOMAIN s]
    BY Zenon DEF Sum, FoldLeft, MapThenFoldSet, Max, Max
  <2> QED
    BY <1>1, <2>1, Zenon
<1> HIDE DEF b, n, Turn
<1>5. G \in [Nat \X (1..n) -> Nat]
  BY <1>3
<1>6. Is(fold)
  <2>1. PICK f \in [SUBSET (1..n) -> Nat] : FoldOf(f, b, G, n)
    <3> HIDE DEF G
    <3> QED
      BY <1>1, <1>2, <1>5, FoldSolved
  <2>2. ASSUME NEW S \in SUBSET (1..n), S # {}
        PROVE  G[<<f[S \ {Max(S)}], Max(S)>>] = Turn(f[S \ {Max(S)}], Max(S))
    <3>1. Max(S) \in 1..n
      BY <1>1, <2>2, MaxIsGreatest
    <3> QED
      BY <2>1, <3>1
  <2>3. Is(f)
    BY <2>1, <2>2 DEF FoldOf
  <2> QED
    BY <2>3, Zenon
<1> HIDE DEF fold
<1>7. Steps(fold, b, H, n)
  <2>1. \A S \in SUBSET (1..n) : H[S] = Turn(fold[S \ {Max(S)}], Max(S))
    OBVIOUS
  <2> HIDE DEF H
  <2> QED
    BY <1>6, <2>1 DEF Steps
<1>8. \A S \in SUBSET (1..n) : H[S] = Turn(fold[S \ {Max(S)}], Max(S))
  OBVIOUS
<1> HIDE DEF H, G
<1> DEFINE T == {k \in Nat : k <= n => fold[1..k] = g[k]}
<1>9. 0 \in T
  BY <1>1, <1>7, FoldSteps DEF Sums, b
<1>10. ASSUME NEW k \in Nat, k \in T PROVE k + 1 \in T
  <2> SUFFICES ASSUME k + 1 <= n PROVE fold[1..(k + 1)] = g[k + 1]
    OBVIOUS
  <2>1. k < n /\ k <= n /\ k + 1 \in 1..n
    BY <1>1, SMT
  <2>2. /\ fold[1..(k + 1)] = H[1..(k + 1)] /\ Max(1..(k + 1)) = k + 1
        /\ (1..(k + 1)) \ {k + 1} = 1..k
    BY <1>1, <1>7, <2>1, FoldSteps
  <2>3. 1..(k + 1) \in SUBSET (1..n)
    BY <1>1, <2>1, SMT
  <2>4. fold[1..(k + 1)] = Turn(fold[1..k], k + 1)
    BY <1>8, <2>2, <2>3
  <2> QED
    BY <1>10, <2>1, <2>4 DEF Sums, Turn, n
<1>11. n \in T
  <2> HIDE DEF T
  <2>1. T \in SUBSET Nat
    BY DEF T
  <2> QED
    BY <1>1, <1>9, <1>10, <2>1, InductionOnSet
<1> QED
  BY <1>1, <1>4, <1>11 DEF n

\* Of a prefix too.
LEMMA SumOfPrefix ==
  ASSUME NEW s \in Seq(Nat), NEW g, Sums(s, g), NEW k \in 0..Len(s)
  PROVE  Sum(SubSeq(s, 1, k)) = g[k]
<1>1. Len(s) \in Nat /\ k \in Nat /\ k <= Len(s) /\ \A i \in 1..Len(s) : s[i] \in Nat
  BY LenProperties, ElementOfSeq
<1> DEFINE t == SubSeq(s, 1, k)
<1>2. /\ t \in Seq(Nat) /\ Len(t) = k
      /\ \A i \in 1..k : t[i] = s[i]
  <2>1. \A i \in 1..k : i \in 1..Len(s) /\ 1 + i - 1 = i
    BY <1>1, SMT
  <2>2. k - 1 + 1 = k /\ 1 \in Int /\ k \in Int
    BY <1>1, SMT
  <2>3. t = [i \in 1..k |-> s[i]]
    BY <1>1, <2>1, <2>2 DEF t
  <2> HIDE DEF t
  <2>4. t \in Seq(Nat) /\ Len(t) = k
    BY <1>1, <2>1, <2>3, SeqDef, LenProperties
  <2> QED
    BY <2>3, <2>4
<1> HIDE DEF t
<1>3. Sums(t, g)
  <2>1. \A i \in Nat : i < k => i + 1 \in 1..k /\ i < Len(s)
    BY <1>1, SMT
  <2> QED
    BY <1>2, <2>1 DEF Sums
<1>4. Sum(t) = g[k]
  BY <1>2, <1>3, SumIsLast
<1> QED
  BY <1>4 DEF t

\* Every sequence has them.
LEMMA SumsThere ==
  ASSUME NEW s \in Seq(Nat)
  PROVE  \E g : Sums(s, g)
<1> DEFINE n == Len(s)
           G == [p \in Nat \X (1..n) |-> p[1] + s[p[2]]]
<1>1. n \in Nat /\ \A k \in 1..n : s[k] \in Nat
  BY LenProperties, ElementOfSeq
<1> HIDE DEF n
<1>2. G \in [Nat \X (1..n) -> Nat]
  BY <1>1, SMT
<1>3. PICK f \in [SUBSET (1..n) -> Nat] : FoldOf(f, 0, G, n)
  <2> HIDE DEF G
  <2>1. 0 \in Nat
    BY SMT
  <2> QED
    BY <1>1, <1>2, <2>1, FoldSolved
<1> DEFINE g == [k \in Nat |-> IF k <= n THEN f[1..k] ELSE 0]
<1>4. \A k \in Nat : k <= n => 1..k \in SUBSET (1..n)
  BY <1>1, SMT
<1>5. g \in [Nat -> Nat]
  BY <1>4
<1>6. g[0] = 0
  <2>1. 1..0 = {} /\ 0 <= n /\ 0 \in Nat
    BY <1>1, SMT
  <2>2. f[{}] = 0
    BY <1>3 DEF FoldOf
  <2> QED
    BY <2>1, <2>2
<1>7. ASSUME NEW k \in Nat, k < n PROVE g[k + 1] = g[k] + s[k + 1]
  <2>1. k <= n /\ k + 1 <= n /\ k + 1 \in Nat /\ k + 1 \in 1..n
    BY <1>1, <1>7, SMT
  <2>2. /\ Max(1..(k + 1)) = k + 1 /\ (1..(k + 1)) \ {k + 1} = 1..k /\ 1..(k + 1) # {}
    BY MaxOfPrefix
  <2>3. 1..(k + 1) \in SUBSET (1..n) /\ 1..k \in SUBSET (1..n)
    BY <1>4, <2>1
  <2>4. f[1..(k + 1)] = G[<<f[1..k], k + 1>>]
    <3> HIDE DEF G
    <3> QED
      BY <1>3, <2>2, <2>3 DEF FoldOf
  <2>5. G[<<f[1..k], k + 1>>] = f[1..k] + s[k + 1]
    BY <2>1, <2>3
  <2> QED
    BY <2>1, <2>4, <2>5
<1> HIDE DEF g
<1>8. Sums(s, g)
  BY <1>5, <1>6, <1>7 DEF Sums, n
<1> QED
  BY <1>8

\* They grow with the prefix.
LEMMA SumsGrow ==
  ASSUME NEW s \in Seq(Nat), NEW g, Sums(s, g), NEW k \in 0..Len(s), NEW j \in 0..Len(s), k <= j
  PROVE  g[k] <= g[j]
<1> DEFINE T == {d \in Nat : k + d <= Len(s) => g[k] <= g[k + d]}
<1>1. /\ Len(s) \in Nat /\ k \in Nat /\ j \in Nat /\ \A i \in 1..Len(s) : s[i] \in Nat
      /\ \A i \in Nat : g[i] \in Nat
  <2>1. Len(s) \in Nat /\ \A i \in 1..Len(s) : s[i] \in Nat
    BY LenProperties, ElementOfSeq
  <2>2. \A i \in Nat : g[i] \in Nat
    BY DEF Sums
  <2> HIDE DEF T
  <2> QED
    BY <2>1, <2>2, SMT
<1>2. 0 \in T
  <2>1. k + 0 = k /\ g[k] <= g[k]
    BY <1>1, SMT
  <2> QED
    BY <2>1
<1>3. ASSUME NEW d \in Nat, d \in T PROVE d + 1 \in T
  <2> SUFFICES ASSUME k + (d + 1) <= Len(s) PROVE g[k] <= g[k + (d + 1)]
    OBVIOUS
  <2>1. k + d \in Nat /\ k + d < Len(s) /\ k + d <= Len(s) /\ (k + d) + 1 \in 1..Len(s) /\ (k + d) + 1 = k + (d + 1)
    BY <1>1, SMT
  <2>2. g[(k + d) + 1] = g[k + d] + s[(k + d) + 1] /\ g[k] <= g[k + d]
    BY <1>3, <2>1 DEF Sums
  <2>3. s[(k + d) + 1] \in Nat /\ g[k + d] \in Nat /\ g[k] \in Nat
    BY <1>1, <2>1
  <2> QED
    BY <2>1, <2>2, <2>3, SMT
<1>4. \A d \in Nat : d \in T
  <2> HIDE DEF T
  <2>1. T \in SUBSET Nat
    BY DEF T
  <2> QED
    BY <1>2, <1>3, <2>1, InductionOnSet
<1>5. j - k \in Nat /\ k + (j - k) = j /\ j <= Len(s)
  BY <1>1, SMT
<1>6. k + (j - k) <= Len(s) => g[k] <= g[k + (j - k)]
  BY <1>4, <1>5
<1> QED
  BY <1>5, <1>6

\* The greatest number of a set of them from 0 on.
LEMMA GreatestFrom0 ==
  ASSUME NEW n \in Nat, NEW T \in SUBSET (0..n), T # {}
  PROVE  Max(T) \in T /\ \A i \in T : i <= Max(T)
<1> DEFINE U == {i \in 1..(n + 1) : i - 1 \in T}
<1>1. \A i \in T : i + 1 \in 1..(n + 1) /\ (i + 1) - 1 = i
  BY SMT
<1>2. U \in SUBSET (1..(n + 1)) /\ U # {} /\ n + 1 \in Nat
  <2>1. PICK i \in T : TRUE
    OBVIOUS
  <2>2. i + 1 \in U
    BY <1>1
  <2>3. U # {}
    BY <2>2
  <2>4. n + 1 \in Nat
    BY SMT
  <2> QED
    BY <2>3, <2>4
<1>3. Max(U) \in U /\ \A i \in U : i <= Max(U)
  BY <1>2, MaxIsGreatest, Zenon
<1>4. PICK m \in U : \A i \in U : i <= m
  BY <1>3
<1>5. m - 1 \in T /\ m \in 1..(n + 1)
  BY <1>4
<1>6. ASSUME NEW i \in T PROVE m - 1 >= i
  <2>1. i + 1 \in U
    BY <1>1
  <2>2. i + 1 <= m
    BY <1>4, <2>1
  <2> QED
    BY <1>1, <1>5, <2>2, SMT
<1>7. Max(T) \in T /\ \A i \in T : Max(T) >= i
  BY <1>5, <1>6, Zenon DEF Max
<1>8. \A i \in T : i \in Int
  BY <1>1
<1> QED
  BY <1>7, <1>8, SMT

\* Complete() finds the packets that end within n bytes.
LEMMA CompleteIs ==
  ASSUME NEW s \in Seq(Nat), NEW g, Sums(s, g), NEW n \in Nat, NEW k, k = Complete(s, n)
  PROVE  /\ k \in 0..Len(s) /\ g[k] <= n
         /\ \A j \in 0..Len(s) : g[j] <= n => j <= k
         /\ k < Len(s) => n < g[k + 1]
<1> DEFINE T == {i \in 0..Len(s) : g[i] <= n}
<1>1. Len(s) \in Nat /\ g[0] = 0 /\ \A i \in Nat : g[i] \in Nat
  BY LenProperties DEF Sums
<1>2. k = Max(T)
  <2>1. \A i \in 0..Len(s) : Sum(SubSeq(s, 1, i)) = g[i]
    BY SumOfPrefix
  <2>2. {i \in 0..Len(s) : Sum(SubSeq(s, 1, i)) <= n} = T
    BY <2>1
  <2> HIDE DEF T
  <2> QED
    BY <2>2 DEF Complete
<1>3. 0 \in T /\ T \in SUBSET (0..Len(s))
  BY <1>1, SMT
<1>4. k \in T /\ \A i \in T : i <= k
  <2> HIDE DEF T
  <2>1. T # {}
    BY <1>3
  <2> QED
    BY <1>1, <1>2, <1>3, <2>1, GreatestFrom0
<1>5. ASSUME k < Len(s) PROVE n < g[k + 1]
  <2>1. k \in Nat /\ k + 1 \in 0..Len(s) /\ k + 1 \in Nat /\ ~(k + 1 <= k)
    BY <1>1, <1>4, <1>5, SMT
  <2>2. ~(g[k + 1] <= n)
    BY <1>4, <2>1
  <2> QED
    BY <1>1, <2>1, <2>2, SMT
<1> QED
  BY <1>4, <1>5

\* The queue t is what is left of the packets s: a bytes are reported of them,
\* and with these the first r packets.
Matches(t, s, a, r, g) ==
  /\ s \in Seq(Nat) /\ Sums(s, g)
  /\ a \in Nat
  /\ r \in 0..Len(s)
  /\ t \in Seq(Nat) /\ Len(t) = Len(s) - r
  /\ g[r] <= a /\ a <= g[Len(s)]
  /\ r < Len(s) => a < g[r + 1]
  /\ \A j \in 1..Len(t) : t[j] = s[r + j] - (IF j = 1 THEN a - g[r] ELSE 0)

\* A packet that is written is behind the others in both.
LEMMA WriteKeeps ==
  ASSUME NEW t, NEW s, NEW a, NEW r, NEW g, Matches(t, s, a, r, g), NEW n \in Nat, n > 0
  PROVE  \E h : Matches(Append(t, n), Append(s, n), a, r, h)
<1> DEFINE N == Len(s)
           h == [k \in Nat |-> IF k <= N THEN g[k] ELSE g[N] + n]
           s1 == Append(s, n)
           t1 == Append(t, n)
<1>1. /\ s \in Seq(Nat) /\ t \in Seq(Nat) /\ N \in Nat /\ a \in Nat /\ r \in Nat /\ r <= N
      /\ Len(t) = N - r /\ g[r] <= a /\ a <= g[N]
      /\ r < N => a < g[r + 1]
      /\ \A j \in 1..(N - r) : t[j] = s[r + j] - (IF j = 1 THEN a - g[r] ELSE 0)
      /\ g[0] = 0
  BY LenProperties DEF Matches, Sums
<1>2. \A i \in Nat : g[i] \in Nat
  BY DEF Matches, Sums
<1>3. \A k \in Nat : k < N => g[k + 1] = g[k] + s[k + 1]
  BY DEF Matches, Sums
<1>4. /\ s1 \in Seq(Nat) /\ Len(s1) = N + 1 /\ s1[N + 1] = n
      /\ \A i \in 1..N : s1[i] = s[i]
  BY <1>1, AppendProperties
<1>5. /\ t1 \in Seq(Nat) /\ Len(t1) = N - r + 1 /\ t1[N - r + 1] = n
      /\ \A i \in 1..(N - r) : t1[i] = t[i]
  BY <1>1, AppendProperties
<1> HIDE DEF N, s1, t1
<1>6. h \in [Nat -> Nat] /\ h[0] = 0
  <2>1. \A k \in Nat : (IF k <= N THEN g[k] ELSE g[N] + n) \in Nat
    BY <1>1, <1>2, SMT
  <2>2. 0 \in Nat /\ 0 <= N
    BY <1>1, SMT
  <2> QED
    BY <1>1, <2>1, <2>2
<1>7. \A k \in Nat : k <= N => h[k] = g[k]
  OBVIOUS
<1>8. h[N + 1] = g[N] + n
  <2>1. N + 1 \in Nat /\ ~(N + 1 <= N)
    BY <1>1, SMT
  <2> QED
    BY <2>1
<1> HIDE DEF h
<1>9. Sums(s1, h)
  <2>1. ASSUME NEW k \in Nat, k < N + 1 PROVE h[k + 1] = h[k] + s1[k + 1]
    <3>1. CASE k = N
      <4>1. h[k] = g[N]
        BY <1>1, <1>7, <3>1, SMT
      <4> QED
        BY <1>4, <1>8, <3>1, <4>1
    <3>2. CASE k < N
      <4>1. k + 1 \in Nat /\ k + 1 <= N /\ k <= N /\ k + 1 \in 1..N
        BY <1>1, <3>2, SMT
      <4>2. h[k + 1] = g[k + 1] /\ h[k] = g[k] /\ s1[k + 1] = s[k + 1]
        BY <1>4, <1>7, <4>1
      <4> QED
        BY <1>3, <3>2, <4>2
    <3> QED
      BY <1>1, <2>1, <3>1, <3>2, SMT
  <2> QED
    BY <1>4, <1>6, <2>1 DEF Sums
<1>10. r \in 0..Len(s1) /\ Len(t1) = Len(s1) - r
  BY <1>1, <1>4, <1>5, SMT
<1>11. h[r] = g[r] /\ h[r] <= a
  BY <1>1, <1>7
<1>12. a <= h[Len(s1)]
  BY <1>1, <1>2, <1>4, <1>8, SMT
<1>13. a < h[r + 1]
  <2>1. CASE r = N
    BY <1>1, <1>2, <1>8, <2>1, SMT
  <2>2. CASE r < N
    <3>1. r + 1 \in Nat /\ r + 1 <= N
      BY <1>1, <2>2, SMT
    <3> QED
      BY <1>1, <1>7, <2>2, <3>1
  <2> QED
    BY <1>1, <2>1, <2>2, SMT
<1>14. ASSUME NEW j \in 1..Len(t1)
       PROVE  t1[j] = s1[r + j] - (IF j = 1 THEN a - h[r] ELSE 0)
  <2>1. CASE j \in 1..(N - r)
    <3>1. r + j \in 1..N
      BY <1>1, <2>1, SMT
    <3>2. t1[j] = t[j] /\ s1[r + j] = s[r + j]
      BY <1>4, <1>5, <2>1, <3>1
    <3> QED
      BY <1>1, <1>11, <2>1, <3>2
  <2>2. CASE j = N - r + 1
    <3>1. r + j = N + 1
      BY <1>1, <2>2, SMT
    <3>2. t1[j] = n /\ s1[r + j] = n
      BY <1>4, <1>5, <2>2, <3>1
    <3>3. j = 1 => a - h[r] = 0
      <4> SUFFICES ASSUME j = 1 PROVE a - g[r] = 0
        BY <1>11
      <4>1. r = N
        BY <1>1, <2>2, SMT
      <4> QED
        BY <1>1, <1>2, <4>1, SMT
    <3>4. n - 0 = n
      BY SMT
    <3> QED
      BY <3>2, <3>3, <3>4
  <2>3. j \in 1..(N - r) \/ j = N - r + 1
    BY <1>1, <1>5, SMT
  <2> QED
    BY <2>1, <2>2, <2>3
<1>15. Matches(t1, s1, a, r, h)
  BY <1>1, <1>4, <1>5, <1>9, <1>10, <1>11, <1>12, <1>13, <1>14 DEF Matches
<1> QED
  BY <1>15 DEF s1, t1

\* The sums of the queue are those of the packets, less the reported bytes.
LEMMA QueueSums ==
  ASSUME NEW t, NEW s, NEW a, NEW r, NEW g, Matches(t, s, a, r, g)
  PROVE  \E h : /\ Sums(t, h)
                /\ \A j \in 1..Len(t) : h[j] = g[r + j] - a
<1> DEFINE N == Len(s)
           h == [j \in Nat |-> IF 0 < j /\ r + j <= N THEN g[r + j] - a ELSE 0]
<1>1. /\ s \in Seq(Nat) /\ t \in Seq(Nat) /\ N \in Nat /\ a \in Nat /\ r \in Nat /\ r <= N
      /\ Len(t) = N - r /\ g[r] <= a /\ a <= g[N]
      /\ r < N => a < g[r + 1]
      /\ \A j \in 1..(N - r) : t[j] = s[r + j] - (IF j = 1 THEN a - g[r] ELSE 0)
      /\ Sums(s, g)
  BY LenProperties DEF Matches
<1>2. \A i \in Nat : g[i] \in Nat
  BY DEF Matches, Sums
<1>3. \A k \in Nat : k < N => g[k + 1] = g[k] + s[k + 1]
  BY DEF Matches, Sums
<1>4. \A j \in Nat : 0 < j /\ r + j <= N => g[r + j] - a \in Nat
  <2> SUFFICES ASSUME NEW j \in Nat, 0 < j, r + j <= N PROVE g[r + j] - a \in Nat
    OBVIOUS
  <2>1. r + 1 \in 0..N /\ r + j \in 0..N /\ r + 1 <= r + j /\ r < N /\ r + j \in Nat /\ r + 1 \in Nat
    BY <1>1, SMT
  <2>2. g[r + 1] <= g[r + j]
    <3> HIDE DEF h
    <3> QED
      BY <1>1, <2>1, SumsGrow
  <2>3. g[r + 1] \in Nat /\ g[r + j] \in Nat /\ a < g[r + 1] /\ a \in Nat
    BY <1>1, <1>2, <2>1
  <2> HIDE DEF h
  <2> QED
    BY <2>2, <2>3, SMT
<1> HIDE DEF N
<1>5. h \in [Nat -> Nat] /\ h[0] = 0
  <2>1. \A j \in Nat : (IF 0 < j /\ r + j <= N THEN g[r + j] - a ELSE 0) \in Nat
    BY <1>4
  <2>2. 0 \in Nat /\ ~(0 < 0)
    BY SMT
  <2> QED
    BY <2>1, <2>2
<1>6. \A j \in Nat : 0 < j /\ r + j <= N => h[j] = g[r + j] - a
  OBVIOUS
<1> HIDE DEF h
<1>7. ASSUME NEW k \in Nat, k < N - r PROVE h[k + 1] = h[k] + t[k + 1]
  <2>1. /\ k + 1 \in Nat /\ 0 < k + 1 /\ r + (k + 1) <= N /\ k + 1 \in 1..(N - r)
        /\ r + k \in Nat /\ r + k < N /\ r + (k + 1) = (r + k) + 1 /\ r + k <= N
    BY <1>1, <1>7, SMT
  <2>2. h[k + 1] = g[(r + k) + 1] - a
    BY <1>6, <2>1
  <2>3. g[(r + k) + 1] = g[r + k] + s[(r + k) + 1]
    BY <1>3, <2>1
  <2>4. t[k + 1] = s[(r + k) + 1] - (IF k + 1 = 1 THEN a - g[r] ELSE 0)
    BY <1>1, <2>1
  <2>5. g[r + k] \in Nat /\ g[r] \in Nat /\ s[(r + k) + 1] \in Nat
    <3>1. (r + k) + 1 \in 1..N
      BY <1>1, <2>1, SMT
    <3> QED
      BY <1>1, <1>2, <2>1, <3>1, ElementOfSeq DEF N
  <2>6. CASE k = 0
    <3>1. h[k] = 0 /\ r + k = r /\ k + 1 = 1
      BY <1>1, <1>5, <2>6, SMT
    <3> QED
      BY <1>1, <2>2, <2>3, <2>4, <2>5, <3>1, SMT
  <2>7. CASE k # 0
    <3>1. 0 < k /\ k + 1 # 1
      BY <2>7, SMT
    <3>2. h[k] = g[r + k] - a
      BY <1>6, <2>1, <3>1
    <3> QED
      BY <1>1, <2>2, <2>3, <2>4, <2>5, <3>1, <3>2, SMT
  <2> QED
    BY <2>6, <2>7
<1>8. Sums(t, h)
  BY <1>1, <1>5, <1>7 DEF Sums
<1>9. \A j \in 1..Len(t) : h[j] = g[r + j] - a
  <2>1. \A j \in 1..Len(t) : j \in Nat /\ 0 < j /\ r + j <= N
    BY <1>1, SMT
  <2> QED
    BY <1>6, <2>1
<1> QED
  BY <1>8, <1>9

\* What bsBytesWritten() leaves of the queue t: not the first k packets, and of
\* the next not the first c bytes.
Rest(q, t, c, k) ==
  q = [j \in 1..(Len(t) - k) |-> IF j = 1 THEN t[k + 1] - c ELSE t[k + j]]

\* The n bytes complete k packets of the queue.
Completes(t, h, n, k) ==
  /\ k \in 0..Len(t) /\ h[k] <= n
  /\ k < Len(t) => n < h[k + 1]

\* That is how the code shortens it.
LEMMA RestIs ==
  ASSUME NEW t \in Seq(Nat), NEW k \in 0..Len(t), NEW c
  PROVE  Rest(IF SubSeq(t, k + 1, Len(t)) = <<>> THEN <<>>
              ELSE [SubSeq(t, k + 1, Len(t)) EXCEPT ![1] = @ - c], t, c, k)
<1> DEFINE M == Len(t)
           rest == SubSeq(t, k + 1, M)
           q == IF rest = <<>> THEN <<>> ELSE [rest EXCEPT ![1] = @ - c]
<1>1. M \in Nat /\ k \in Nat /\ k <= M /\ M - k \in Nat /\ k + 1 \in Int /\ M \in Int
  <2>1. M \in Nat
    BY LenProperties
  <2> HIDE DEF M
  <2> HIDE DEF rest, q
  <2> QED
    BY <2>1, SMT DEF M
<1>2. M - (k + 1) + 1 = M - k /\ \A j \in 1..(M - k) : (k + 1) + j - 1 = k + j /\ k + j \in 1..M
  <2> HIDE DEF M, rest, q
  <2> QED
    BY <1>1, SMT
<1>3. rest = [j \in 1..(M - k) |-> t[k + j]]
  <2> HIDE DEF q
  <2> QED
    BY <1>1, <1>2
<1>4. \A j \in 1..(M - k) : t[k + j] \in Nat
  <2> HIDE DEF q, rest
  <2> QED
    BY <1>2, ElementOfSeq
<1> HIDE DEF rest, M
<1>5. CASE M - k = 0
  <2>1. 1..(M - k) = {}
    <3> HIDE DEF q
    <3> QED
      BY <1>5, SMT
  <2>2. rest = <<>>
    <3> HIDE DEF q
    <3>1. rest \in Seq(Nat) /\ Len(rest) = 0
      BY <1>1, <1>3, <1>4, <1>5, SeqDef, LenProperties
    <3> QED
      BY <3>1, EmptySeq
  <2>3. q = <<>>
    BY <2>2
  <2>4. rest = [j \in 1..(M - k) |-> IF j = 1 THEN t[k + 1] - c ELSE t[k + j]]
    <3> HIDE DEF q
    <3> QED
      BY <1>3, <2>1
  <2> QED
    BY <2>2, <2>3, <2>4 DEF Rest, M, rest
<1>6. CASE M - k # 0
  <2>1. 1 \in 1..(M - k)
    <3> HIDE DEF q
    <3> QED
      BY <1>1, <1>6, SMT
  <2>2. DOMAIN rest = 1..(M - k) /\ rest[1] = t[k + 1] /\ rest # <<>>
    <3> HIDE DEF q
    <3> QED
      BY <1>3, <2>1
  <2>3. q = [rest EXCEPT ![1] = rest[1] - c]
    BY <2>2
  <2> HIDE DEF q
  <2>4. q = [j \in 1..(M - k) |-> IF j = 1 THEN t[k + 1] - c ELSE t[k + j]]
    BY <1>3, <2>2, <2>3
  <2> QED
    BY <2>4 DEF Rest, M, rest, q
<1> QED
  BY <1>5, <1>6

\* A part of a packet is left over when not all of its bytes are reported.
LEMMA LeftOver ==
  ASSUME NEW x \in Nat, NEW y \in Nat, NEW z \in Nat, z = y + x, NEW m \in Nat, m < z
  PROVE  x - (m - y) \in Nat
BY SMT

\* Bytes that are reported are taken off the first packets, and off a part of
\* the next.
LEMMA AckKeeps ==
  ASSUME NEW t, NEW s, NEW a \in Nat, NEW r \in Nat, NEW g, Matches(t, s, a, r, g),
         NEW h, Sums(t, h), \A j \in 1..Len(t) : h[j] = g[r + j] - a,
         NEW n \in Nat, a + n <= g[Len(s)],
         NEW k \in Nat, Completes(t, h, n, k),
         NEW q, Rest(q, t, n - h[k], k)
  PROVE  Matches(q, s, a + n, r + k, g)
<1> DEFINE N == Len(s)
           M == Len(t)
<1>1. /\ s \in Seq(Nat) /\ t \in Seq(Nat) /\ Sums(s, g)
      /\ \A j \in 1..M : t[j] = s[r + j] - (IF j = 1 THEN a - g[r] ELSE 0)
  BY DEF Matches
<1>2. /\ N \in Nat /\ M \in Nat /\ r <= N /\ M = N - r /\ k <= M
      /\ r + k <= N /\ r + k \in 0..N /\ r + k \in Nat /\ a + n \in Nat
      /\ M - k = N - (r + k) /\ M - k \in Nat
  <2>1. N \in Nat /\ M \in Nat /\ r \in 0..N /\ M = N - r /\ k \in 0..M
    BY LenProperties DEF Matches, Completes
  <2> HIDE DEF N, M
  <2> QED
    BY <2>1, SMT
<1>3. \A i \in Nat : g[i] \in Nat
  BY <1>1 DEF Sums
<1>4. \A i \in Nat : i < N => g[i + 1] = g[i] + s[i + 1]
  BY <1>1 DEF Sums
<1>5. h[0] = 0 /\ \A i \in Nat : h[i] \in Nat
  BY DEF Sums
<1>6. \A i \in 1..N : s[i] \in Nat
  BY <1>1, ElementOfSeq
<1>7. \A i \in 1..M : t[i] \in Nat
  BY <1>1, ElementOfSeq
<1>8. g[r] <= a /\ a <= g[N] /\ h[k] <= n /\ (k < M => n < h[k + 1]) /\ a + n <= g[N]
  BY DEF Matches, Completes
<1> DEFINE c == n - h[k]
<1>9. q = [j \in 1..(M - k) |-> IF j = 1 THEN t[k + 1] - c ELSE t[k + j]]
  BY DEF Rest
<1>10. \A j \in 1..M : h[j] = g[r + j] - a
  OBVIOUS
<1> HIDE DEF N, M, c
<1>11. h[k] = (IF k = 0 THEN 0 ELSE g[r + k] - a)
  <2>1. CASE k = 0
    BY <1>5, <2>1
  <2>2. CASE k # 0
    <3>1. k \in 1..M
      BY <1>2, <2>2, SMT
    <3> QED
      BY <1>10, <2>2, <3>1
  <2> QED
    BY <2>1, <2>2
<1>12. g[r + k] <= a + n
  <2>1. g[r + k] \in Nat /\ g[r] \in Nat
    BY <1>2, <1>3
  <2>2. CASE k = 0
    <3>1. r + k = r
      BY <2>2, SMT
    <3> QED
      BY <1>8, <2>1, <3>1, SMT
  <2>3. CASE k # 0
    <3>1. h[k] = g[r + k] - a
      BY <1>11, <2>3
    <3> QED
      BY <1>8, <2>1, <3>1, SMT
  <2> QED
    BY <2>2, <2>3
<1>13. ASSUME r + k < N
       PROVE  /\ a + n < g[(r + k) + 1]
              /\ t[k + 1] - c = s[(r + k) + 1] - ((a + n) - g[r + k])
              /\ t[k + 1] - c \in Nat
  <2>1. /\ k < M /\ k + 1 \in 1..M /\ r + (k + 1) = (r + k) + 1
        /\ (r + k) + 1 \in Nat /\ (r + k) + 1 \in 1..N
    BY <1>2, <1>13, SMT
  <2>2. h[k + 1] = g[(r + k) + 1] - a /\ n < h[k + 1]
    BY <1>8, <1>10, <2>1
  <2>3. /\ g[(r + k) + 1] \in Nat /\ g[r + k] \in Nat /\ s[(r + k) + 1] \in Nat /\ g[r] \in Nat
        /\ t[k + 1] \in Nat /\ h[k] \in Nat /\ h[k + 1] \in Nat
        /\ g[(r + k) + 1] = g[r + k] + s[(r + k) + 1]
    <3>1. k + 1 \in Nat
      BY SMT
    <3> QED
      BY <1>2, <1>3, <1>4, <1>5, <1>6, <1>7, <1>13, <2>1, <3>1
  <2>4. a + n < g[(r + k) + 1]
    BY <2>2, <2>3, SMT
  <2>5. t[k + 1] = s[(r + k) + 1] - (IF k + 1 = 1 THEN a - g[r] ELSE 0)
    BY <1>1, <2>1
  <2>6. t[k + 1] - c = s[(r + k) + 1] - ((a + n) - g[r + k])
    <3>1. CASE k = 0
      <4>1. r + k = r /\ k + 1 = 1 /\ h[k] = 0
        BY <1>11, <3>1, SMT
      <4>2. t[k + 1] = s[(r + k) + 1] - (a - g[r])
        BY <2>5, <4>1
      <4>3. g[r + k] = g[r]
        BY <4>1
      <4> HIDE <3>1
      <4> QED
        BY <2>3, <4>1, <4>2, <4>3, SMT DEF c
    <3>2. CASE k # 0
      <4>1. k + 1 # 1
        BY <3>2, SMT
      <4>2. h[k] = g[r + k] - a
        BY <1>11, <3>2
      <4>3. t[k + 1] = s[(r + k) + 1] - 0
        BY <2>5, <4>1
      <4> QED
        BY <2>3, <4>2, <4>3, SMT DEF c
    <3> QED
      BY <3>1, <3>2
  <2>7. t[k + 1] - c \in Nat
    <3>1. s[(r + k) + 1] - ((a + n) - g[r + k]) \in Nat
      BY <1>2, <2>3, <2>4, LeftOver
    <3> QED
      BY <2>6, <3>1
  <2> QED
    BY <2>4, <2>6, <2>7
<1>14. \A j \in 1..(M - k) : /\ k + j \in 1..M /\ (j # 1 => k + j # 1) /\ r + (k + j) = (r + k) + j
                             /\ (r + k) + j \in 1..N /\ r + k < N
  BY <1>2, SMT
<1>15. \A j \in 1..(M - k) : (IF j = 1 THEN t[k + 1] - c ELSE t[k + j]) \in Nat
  BY <1>7, <1>13, <1>14
<1>16. q \in Seq(Nat) /\ Len(q) = M - k
  BY <1>2, <1>9, <1>15, SeqDef, LenProperties
<1>17. \A j \in 1..Len(q) : q[j] = s[(r + k) + j] - (IF j = 1 THEN (a + n) - g[r + k] ELSE 0)
  <2> SUFFICES ASSUME NEW j \in 1..(M - k)
               PROVE  q[j] = s[(r + k) + j] - (IF j = 1 THEN (a + n) - g[r + k] ELSE 0)
    BY <1>16
  <2>1. CASE j = 1
    BY <1>9, <1>13, <1>14, <2>1
  <2>2. CASE j # 1
    <3>1. q[j] = t[k + j]
      BY <1>9, <2>2
    <3>2. t[k + j] = s[r + (k + j)] - (IF k + j = 1 THEN a - g[r] ELSE 0)
      BY <1>1, <1>14
    <3> QED
      BY <1>14, <2>2, <3>1, <3>2
  <2> QED
    BY <2>1, <2>2
<1> QED
  BY <1>1, <1>2, <1>8, <1>12, <1>13, <1>16, <1>17 DEF Matches, N

\* The packets that the client waits for: those that the stream has accepted, behind
\* the one that it dropped.
Awaited(q) == IF early THEN \E e \in 1..MaxSize : q = <<e>> \o sizes ELSE q = sizes

\* The client has not been connected.
Unopened == bs = "connecting" \/ (bs = "none" /\ ended = "no")

\* The queue and the packets that the stream has accepted.
Written ==
  /\ bs \in {"none", "connecting", "open"}
  /\ early \in BOOLEAN
  /\ sizes \in Seq(1..MaxSize) /\ Len(sizes) <= MaxWrites
  /\ acked \in Nat /\ acked <= Sum(sizes)
  /\ Unopened => sizes = <<>>
  /\ \E q, g : Awaited(q) /\ Matches(track, q, acked, reported, g)

\* No other action touches them.
LEMMA WritesKept ==
  ASSUME Written, bs' \in {"none", "connecting", "open"}, Unopened' => Unopened, UNCHANGED writeVars
  PROVE  Written'
<1>1. track' = track /\ sizes' = sizes /\ acked' = acked /\ reported' = reported /\ early' = early
  BY DEF writeVars
<1>2. PICK q, g : Awaited(q) /\ Matches(track, q, acked, reported, g)
  BY DEF Written
<1>3. Awaited(q)' /\ Matches(track, q, acked, reported, g)'
  BY <1>1, <1>2 DEF Awaited, Matches, Sums
<1> QED
  BY <1>1, <1>3 DEF Written

\* Sizes are numbers.
LEMMA SizesAre ==
  ASSUME NEW s \in Seq(1..MaxSize)
  PROVE  s \in Seq(Nat) /\ Len(s) \in Nat /\ \A i \in 1..Len(s) : s[i] \in 1..MaxSize
<1>1. Len(s) \in Nat /\ \A i \in 1..Len(s) : s[i] \in 1..MaxSize
  BY LenProperties, ElementOfSeq
<1>2. \A x \in 1..MaxSize : x \in Nat
  BY SMT
<1>3. s \in [1..Len(s) -> 1..MaxSize]
  BY LenProperties
<1>4. s \in [1..Len(s) -> Nat]
  BY <1>2, <1>3
<1> QED
  BY <1>1, <1>4, SeqDef

\* What is written is added to the sum.
LEMMA SumOfMore ==
  ASSUME NEW s \in Seq(Nat), NEW n \in Nat
  PROVE  Sum(Append(s, n)) = Sum(s) + n /\ Sum(s) \in Nat
<1> DEFINE t == Append(s, n)
           m == Len(s)
<1>1. t \in Seq(Nat) /\ Len(t) = m + 1 /\ m \in Nat /\ t[m + 1] = n /\ \A i \in 1..m : t[i] = s[i]
  BY LenProperties, AppendProperties
<1> HIDE DEF t, m
<1>2. PICK g : Sums(t, g)
  BY <1>1, SumsThere
<1>3. m < Len(t) /\ \A k \in Nat : k < m => k < Len(t) /\ k + 1 \in 1..m
  BY <1>1, SMT
<1>4. Sums(s, g)
  BY <1>1, <1>2, <1>3 DEF Sums, m
<1>5. Sum(s) = g[m] /\ Sum(t) = g[m + 1]
  BY <1>1, <1>2, <1>4, SumIsLast DEF m
<1>6. g[m + 1] = g[m] + n /\ g[m] \in Nat
  BY <1>1, <1>2, <1>3 DEF Sums
<1> QED
  BY <1>5, <1>6 DEF t

\* A packet in front of the others adds its size.
LEMMA SumOfEarly ==
  ASSUME NEW s \in Seq(Nat), NEW e \in Nat
  PROVE  <<e>> \o s \in Seq(Nat) /\ Len(<<e>> \o s) = 1 + Len(s) /\ Sum(<<e>> \o s) = e + Sum(s)
<1> DEFINE t == <<e>> \o s
           m == Len(s)
<1>1. <<e>> \in Seq(Nat) /\ Len(<<e>>) = 1 /\ <<e>>[1] = e
  OBVIOUS
<1>2. /\ t \in Seq(Nat) /\ Len(t) = 1 + m /\ m \in Nat
      /\ \A i \in 1..(1 + m) : t[i] = IF i <= 1 THEN <<e>>[i] ELSE s[i - 1]
  BY <1>1, LenProperties, ConcatProperties
<1>3. \A i \in 1..m : s[i] \in Nat
  BY ElementOfSeq
<1> HIDE DEF t, m
<1>4. PICK g : Sums(s, g)
  BY SumsThere
<1>5. g \in [Nat -> Nat] /\ g[0] = 0 /\ \A k \in Nat : k < m => g[k + 1] = g[k] + s[k + 1]
  BY <1>4 DEF Sums, m
<1> DEFINE h == [k \in Nat |-> IF k = 0 THEN 0 ELSE e + g[k - 1]]
<1>6. \A k \in Nat : k # 0 => k - 1 \in Nat /\ e + g[k - 1] \in Nat
  <2>1. \A k \in Nat : k # 0 => k - 1 \in Nat
    BY SMT
  <2>2. \A k \in Nat : k # 0 => g[k - 1] \in Nat
    BY <1>5, <2>1
  <2> QED
    BY <2>1, <2>2, SMT
<1>7. h \in [Nat -> Nat] /\ h[0] = 0
  <2>1. 0 \in Nat
    BY SMT
  <2> QED
    BY <1>6, <2>1
<1>8. ASSUME NEW k \in Nat, k < 1 + m PROVE h[k + 1] = h[k] + t[k + 1]
  <2>1. k + 1 \in 1..(1 + m) /\ k + 1 \in Nat /\ k + 1 # 0 /\ (k + 1) - 1 = k
    BY <1>2, <1>8, SMT
  <2>2. h[k + 1] = e + g[k]
    BY <2>1
  <2>3. CASE k = 0
    <3>1. t[k + 1] = e
      <4>1. k + 1 = 1 /\ k + 1 <= 1
        BY <2>3, SMT
      <4> QED
        BY <1>1, <1>2, <2>1, <4>1
    <3>2. h[k] = 0 /\ g[k] = 0 /\ e + 0 = 0 + e
      BY <1>5, <1>7, <2>3, SMT
    <3> QED
      BY <2>2, <3>1, <3>2
  <2>4. CASE k # 0
    <3>1. k - 1 \in Nat /\ k - 1 < m /\ (k - 1) + 1 = k /\ ~(k + 1 <= 1) /\ k \in 1..m
      BY <1>2, <1>8, <2>4, SMT
    <3>2. t[k + 1] = s[k] /\ s[k] \in Nat
      BY <1>2, <1>3, <2>1, <3>1
    <3>3. g[k] = g[k - 1] + s[k] /\ g[k - 1] \in Nat
      BY <1>5, <3>1
    <3>4. h[k] = e + g[k - 1]
      BY <2>4
    <3> HIDE DEF h
    <3> QED
      BY <2>2, <3>2, <3>3, <3>4, SMT
  <2> QED
    BY <2>3, <2>4
<1> HIDE DEF h
<1>9. Sums(t, h)
  BY <1>2, <1>7, <1>8 DEF Sums
<1>10. Sum(t) = h[1 + m] /\ Sum(s) = g[m]
  BY <1>2, <1>4, <1>9, SumIsLast DEF m
<1>11. h[1 + m] = e + g[m]
  <2>1. 1 + m \in Nat /\ 1 + m # 0 /\ (1 + m) - 1 = m
    BY <1>2, SMT
  <2> QED
    BY <2>1 DEF h
<1> QED
  BY <1>2, <1>10, <1>11 DEF t, m

\* What the client waits for: packets of those sizes, and bytes that are no less.
LEMMA AwaitedAre ==
  ASSUME NEW q, Awaited(q), early \in BOOLEAN, sizes \in Seq(1..MaxSize)
  PROVE  /\ q \in Seq(Nat) /\ Sum(sizes) \in Nat /\ Sum(q) \in Nat
         /\ \A i \in 1..Len(q) : q[i] \in 1..MaxSize
         /\ ~early => Len(q) = Len(sizes) /\ Sum(q) = Sum(sizes)
         /\ early => Len(q) = 1 + Len(sizes) /\ Sum(q) > Sum(sizes)
<1>1. sizes \in Seq(Nat) /\ Len(sizes) \in Nat /\ \A i \in 1..Len(sizes) : sizes[i] \in 1..MaxSize
  BY SizesAre
<1>2. Sum(sizes) \in Nat
  <2>1. 0 \in Nat
    BY SMT
  <2> QED
    BY <1>1, <2>1, SumOfMore
<1>3. CASE ~early
  BY <1>1, <1>2, <1>3 DEF Awaited
<1>4. CASE early
  <2>1. PICK e \in 1..MaxSize : q = <<e>> \o sizes
    BY <1>4 DEF Awaited
  <2>2. e \in Nat /\ e > 0
    BY SMT
  <2>3. q \in Seq(Nat) /\ Len(q) = 1 + Len(sizes) /\ Sum(q) = e + Sum(sizes)
    BY <1>1, <2>1, <2>2, SumOfEarly
  <2>4. <<e>> \in Seq(1..MaxSize)
    BY <2>1
  <2>5. q \in Seq(1..MaxSize)
    BY <2>1, <2>4, ConcatProperties
  <2>6. \A i \in 1..Len(q) : q[i] \in 1..MaxSize
    BY <2>5, SizesAre
  <2>7. Sum(q) \in Nat /\ Sum(q) > Sum(sizes)
    BY <1>2, <2>2, <2>3, SMT
  <2> QED
    BY <1>2, <1>4, <2>3, <2>6, <2>7
<1> QED
  BY <1>3, <1>4

\* Nothing is queued at first.
LEMMA WrittenInit ==
  ASSUME ClientInit
  PROVE  Written
<1> DEFINE g == [k \in Nat |-> 0]
<1>1. <<>> \in Seq(Nat) /\ Len(<<>>) = 0 /\ 0 \in Nat /\ 0 \in 0..0 /\ 1..0 = {} /\ 0 - 0 = 0
  BY SMT
<1>2. g \in [Nat -> Nat] /\ g[0] = 0
  BY <1>1
<1> HIDE DEF g
<1>3. \A k \in Nat : ~(k < 0)
  BY SMT
<1>4. Sums(<<>>, g)
  BY <1>1, <1>2, <1>3 DEF Sums
<1>5. 0 <= 0 /\ ~(0 < 0)
  BY SMT
<1>6. Matches(<<>>, <<>>, 0, 0, g)
  BY <1>1, <1>2, <1>4, <1>5 DEF Matches
<1>7. Sum(<<>>) = 0
  BY <1>1, <1>2, <1>4, SumIsLast
<1>8. /\ bs \in {"none", "open"} /\ early = FALSE /\ track = <<>> /\ sizes = <<>> /\ acked = 0 /\ reported = 0
  BY DEF ClientInit
<1>9. <<>> \in Seq(1..MaxSize) /\ 0 <= MaxWrites
  BY RtspClientAssumption, SMT
<1>10. Awaited(<<>>)
  BY <1>8 DEF Awaited
<1> QED
  BY <1>1, <1>5, <1>6, <1>7, <1>8, <1>9, <1>10 DEF Written

\* Reading ends the stream at most.
LEMMA ReadKeepsWrites ==
  ASSUME Written, ReadPacket
  PROVE  Written'
<1> USE DEF Unopened
<1>1. bs \in {"none", "connecting", "open"}
  BY DEF Written
<1>2. CASE ReadNothing
  BY <1>1, <1>2, WritesKept DEF ReadNothing, Stop
<1>3. CASE ReadInterleaved
  BY <1>1, <1>3, WritesKept DEF ReadInterleaved, Stop, Deliver
<1>4. CASE ReadLines
  BY <1>1, <1>4, WritesKept DEF ReadLines, Stop
<1>5. CASE ReadBadLines
  BY <1>1, <1>5, WritesKept DEF ReadBadLines, Fail
<1>6. CASE ReadMessage
  BY <1>1, <1>6, WritesKept DEF ReadMessage, Take, Stop, Deliver
<1>7. CASE ReadContent
  BY <1>1, <1>7, WritesKept DEF ReadContent, Take, Stop, Deliver
<1> QED
  BY <1>2, <1>3, <1>4, <1>5, <1>6, <1>7 DEF ReadPacket

\* A packet that is written joins the queue, and those that the stream has accepted
\* or dropped.
LEMMA WriteIsAwaited ==
  ASSUME Written, NEW n \in 1..MaxSize, ClientWrite(n)
  PROVE  Written'
<1>1. n \in Nat /\ n > 0
  BY SMT
<1>2. /\ bs \in {"connecting", "open"} /\ early \in BOOLEAN /\ sizes \in Seq(1..MaxSize) /\ Len(sizes) <= MaxWrites
      /\ acked \in Nat /\ acked <= Sum(sizes) /\ (Unopened => sizes = <<>>)
  BY DEF Written, ClientWrite
<1>3. bs' = bs /\ ended' = ended /\ acked' = acked /\ reported' = reported /\ track' = Append(track, n)
  BY DEF ClientWrite
<1>4. PICK q, g : Awaited(q) /\ Matches(track, q, acked, reported, g)
  BY DEF Written
<1>5. PICK h : Matches(Append(track, n), Append(q, n), acked, reported, h)
  BY <1>1, <1>4, WriteKeeps
<1>6. sizes \in Seq(Nat) /\ Len(sizes) \in Nat
  BY <1>2, SizesAre
<1>7. CASE bs = "open"
  <2>1. sizes' = Append(sizes, n) /\ early' = early /\ Len(sizes) < MaxWrites
    BY <1>2, <1>7 DEF ClientWrite
  <2>2. Append(sizes, n) \in Seq(1..MaxSize) /\ Len(Append(sizes, n)) = Len(sizes) + 1
    BY <1>2, AppendProperties
  <2>3. Len(sizes) + 1 <= MaxWrites
    BY <1>6, <2>1, RtspClientAssumption, SMT
  <2>4. acked <= Sum(Append(sizes, n))
    <3>1. Sum(Append(sizes, n)) = Sum(sizes) + n /\ Sum(sizes) \in Nat
      BY <1>1, <1>6, SumOfMore
    <3> QED
      BY <1>1, <1>2, <3>1, SMT
  <2>5. Awaited(Append(q, n))'
    <3>1. CASE ~early
      BY <1>4, <2>1, <3>1 DEF Awaited
    <3>2. CASE early
      <4>1. PICK e \in 1..MaxSize : q = <<e>> \o sizes
        BY <1>4, <3>2 DEF Awaited
      <4>2. Append(q, n) = <<e>> \o Append(sizes, n)
        <5>1. <<e>> \in Seq(1..MaxSize)
          BY <4>1
        <5>2. sizes \in Seq(1..MaxSize)
          BY <1>2
        <5> QED
          BY <4>1, <5>1, <5>2
      <4> QED
        BY <2>1, <3>2, <4>1, <4>2 DEF Awaited
    <3> QED
      BY <1>2, <3>1, <3>2
  <2>6. ~Unopened'
    BY <1>3, <1>7 DEF Unopened
  <2> QED
    BY <1>2, <1>3, <1>5, <2>1, <2>2, <2>3, <2>4, <2>5, <2>6 DEF Written
<1>8. CASE bs = "connecting"
  <2>1. sizes' = sizes /\ early' = TRUE /\ ~early /\ sizes = <<>>
    BY <1>2, <1>8 DEF ClientWrite, Unopened
  <2>2. Append(q, n) = <<n>> \o sizes
    <3>1. q = <<>>
      BY <1>4, <2>1 DEF Awaited
    <3> QED
      BY <2>1, <3>1
  <2>3. Awaited(Append(q, n))'
    BY <2>1, <2>2 DEF Awaited
  <2> QED
    BY <1>2, <1>3, <1>5, <2>1, <2>3 DEF Written
<1> QED
  BY <1>2, <1>7, <1>8

\* Bytes that are reported are taken off what the client waits for.
LEMMA AckIsAwaited ==
  ASSUME Written, NEW n \in Nat, BsBytesWritten(n)
  PROVE  Written'
<1>1. /\ bs \in {"none", "connecting", "open"} /\ early \in BOOLEAN /\ sizes \in Seq(1..MaxSize)
      /\ Len(sizes) <= MaxWrites /\ acked \in Nat /\ (Unopened => sizes = <<>>)
  BY DEF Written
<1>2. /\ bs' = bs /\ ended' = ended /\ early' = early /\ sizes' = sizes
      /\ acked' = acked + n /\ acked + n <= Sum(sizes)
  BY DEF BsBytesWritten
<1> DEFINE k == Complete(track, n)
           rest == SubSeq(track, k + 1, Len(track))
<1>3. /\ reported' = reported + k
      /\ track' = IF rest = <<>> THEN <<>>
                  ELSE [rest EXCEPT ![1] = @ - (n - Sum(SubSeq(track, 1, k)))]
  BY Zenon DEF BsBytesWritten
<1> HIDE DEF k
<1>4. PICK q, g : Awaited(q) /\ Matches(track, q, acked, reported, g)
  BY DEF Written
<1>5. PICK h : /\ Sums(track, h)
               /\ \A j \in 1..Len(track) : h[j] = g[reported + j] - acked
  BY <1>4, QueueSums
<1>6. /\ track \in Seq(Nat) /\ q \in Seq(Nat) /\ Sums(q, g) /\ reported \in Nat
      /\ Len(q) \in Nat /\ Len(track) \in Nat
  <2>1. track \in Seq(Nat) /\ q \in Seq(Nat) /\ Sums(q, g) /\ reported \in 0..Len(q)
    BY <1>4 DEF Matches
  <2> QED
    BY <2>1, LenProperties
<1>7. Completes(track, h, n, k)
  <2>1. k = Complete(track, n)
    BY DEF k
  <2> QED
    BY <1>5, <1>6, <2>1, CompleteIs DEF Completes
<1>8. k \in 0..Len(track) /\ k \in Nat
  BY <1>6, <1>7 DEF Completes
<1>9. Sum(SubSeq(track, 1, k)) = h[k] /\ Sum(q) = g[Len(q)]
  BY <1>5, <1>6, <1>8, SumOfPrefix, SumIsLast
<1>10. Rest(track', track, n - h[k], k)
  <2>1. track' = IF rest = <<>> THEN <<>> ELSE [rest EXCEPT ![1] = @ - (n - h[k])]
    BY <1>3, <1>9
  <2> QED
    BY <1>6, <1>8, <2>1, RestIs
<1> HIDE DEF rest
<1>11. acked + n <= g[Len(q)]
  <2>1. Sum(q) \in Nat /\ Sum(sizes) \in Nat /\ Sum(sizes) <= Sum(q)
    BY <1>1, <1>4, AwaitedAre, SMT
  <2> QED
    BY <1>1, <1>2, <1>9, <2>1, SMT
<1>12. Matches(track', q, acked + n, reported + k, g)
  BY <1>1, <1>4, <1>5, <1>6, <1>7, <1>8, <1>10, <1>11, AckKeeps
<1>13. Matches(track', q, acked', reported', g) /\ Awaited(q)'
  BY <1>2, <1>3, <1>4, <1>12 DEF Awaited
<1>14. acked + n \in Nat /\ (Unopened' => Unopened)
  BY <1>1, <1>2, SMT DEF Unopened
<1> QED
  BY <1>1, <1>2, <1>13, <1>14 DEF Written

\* Every step of the client keeps the queue.
LEMMA WrittenNext ==
  ASSUME Written, [ClientNext]_clientVars
  PROVE  Written'
<1> USE DEF Idle, Unopened
<1>1. bs \in {"none", "connecting", "open"}
  BY DEF Written
<1>2. CASE ConnectToHost
  BY <1>1, <1>2, WritesKept DEF ConnectToHost
<1>3. CASE SockConnected
  BY <1>1, <1>3, WritesKept DEF SockConnected
<1>4. CASE TakeIncoming
  BY <1>1, <1>4, WritesKept DEF TakeIncoming
<1>5. CASE Serve
  BY <1>1, <1>5, WritesKept DEF Serve
<1>6. ASSUME NEW n \in 1..Len(Stream), BsReadyRead(n) PROVE Written'
  BY <1>1, <1>6, WritesKept DEF BsReadyRead
<1>7. CASE ReadPacket
  BY <1>7, ReadKeepsWrites
<1>8. ASSUME NEW n \in 1..MaxSize, ClientWrite(n) PROVE Written'
  BY <1>8, WriteIsAwaited
<1>9. ASSUME NEW n \in 1..(MaxSize * MaxWrites), BsBytesWritten(n) PROVE Written'
  <2>1. n \in Nat
    BY SMT
  <2> QED
    BY <1>9, <2>1, AckIsAwaited
<1>10. CASE BsConnectionClosed
  BY <1>1, <1>10, WritesKept DEF BsConnectionClosed
<1>11. CASE BsError
  BY <1>1, <1>11, WritesKept DEF BsError
<1>12. CASE Delete
  BY <1>1, <1>12, WritesKept DEF Delete
<1>13. CASE UNCHANGED clientVars
  BY <1>1, <1>13, WritesKept DEF clientVars, writeVars
<1> QED
  BY <1>2, <1>3, <1>4, <1>5, <1>6, <1>7, <1>8, <1>9, <1>10, <1>11, <1>12, <1>13 DEF ClientNext

\* What is reported is what is complete.
LEMMA WrittenCounts ==
  ASSUME Written
  PROVE  WrittenCountsPackets
<1> SUFFICES ASSUME ~early PROVE reported = Complete(sizes, acked)
  BY DEF WrittenCountsPackets
<1>1. PICK g : Matches(track, sizes, acked, reported, g)
  BY DEF Written, Awaited
<1> DEFINE k == Complete(sizes, acked)
<1>2. /\ sizes \in Seq(Nat) /\ Sums(sizes, g) /\ acked \in Nat /\ reported \in 0..Len(sizes)
      /\ Len(sizes) \in Nat /\ g[reported] <= acked
      /\ reported < Len(sizes) => acked < g[reported + 1]
  BY <1>1, LenProperties DEF Matches
<1>3. k = Complete(sizes, acked)
  OBVIOUS
<1> HIDE DEF k
<1>4. k \in 0..Len(sizes) /\ g[k] <= acked /\ \A j \in 0..Len(sizes) : g[j] <= acked => j <= k
  BY <1>2, <1>3, CompleteIs
<1>5. reported <= k
  BY <1>2, <1>4
<1>6. ~(reported < k)
  <2> SUFFICES ASSUME reported < k PROVE FALSE
    OBVIOUS
  <2>1. /\ reported < Len(sizes) /\ reported + 1 \in 0..Len(sizes) /\ reported + 1 <= k
        /\ reported + 1 \in Nat /\ k \in Nat
    BY <1>2, <1>4, SMT
  <2>2. g[reported + 1] <= g[k]
    BY <1>2, <1>4, <2>1, SumsGrow
  <2>3. g[reported + 1] \in Nat /\ g[k] \in Nat
    BY <1>2, <2>1 DEF Sums
  <2> QED
    BY <1>2, <1>4, <2>1, <2>2, <2>3, SMT
<1> QED
  BY <1>2, <1>3, <1>4, <1>5, <1>6, SMT

\* RTSP::Client emits packetWritten() once for each packet whose last byte is
\* written, however the stream reports the bytes: unless one was written early.
THEOREM WritesAreCounted == ClientSpec => []WrittenCountsPackets
<1>1. ClientInit => Written
  BY WrittenInit
<1>2. Written /\ [ClientNext]_clientVars => Written'
  BY WrittenNext
<1>3. Written => WrittenCountsPackets
  BY WrittenCounts
<1> QED
  BY <1>1, <1>2, <1>3, PTL DEF ClientSpec

-----------------------------------------------------------------------------
(* The packets that an RTSP::Client signals.                               *)

\* One more sequence comes behind the others.
LEMMA FlattenMore ==
  ASSUME NEW X, NEW seqs \in Seq(Seq(X)), NEW more \in Seq(Seq(X)),
         Len(more) = Len(seqs) + 1, \A i \in 1..Len(seqs) : more[i] = seqs[i]
  PROVE  FlattenSeq(more) = FlattenSeq(seqs) \o more[Len(more)]
<1> DEFINE n == Len(seqs)
<1>1. n \in Nat /\ Len(more) = n + 1 /\ n + 1 # 0 /\ n + 1 \in 1..(n + 1)
  BY LenProperties, SMT
<1>2. PICK h \in [1..(n + 1) -> Seq(X)] : Joins(h, more) /\ FlattenSeq(more) = h[n + 1]
  <2> HIDE DEF n
  <2> QED
    BY <1>1, FlattenJoins
<1>3. \A i \in 1..n : more[i] = seqs[i]
  OBVIOUS
<1>4. \A i \in 1..(n + 1) : h[i] = IF i = 1 THEN more[i] ELSE h[i - 1] \o more[i]
  BY <1>1, <1>2 DEF Joins
<1>5. more[n + 1] \in Seq(X)
  BY <1>1, ElementOfSeq
<1>6. CASE n = 0
  <2>1. seqs = <<>>
    BY <1>6, EmptySeq
  <2>2. FlattenSeq(seqs) = <<>>
    BY <1>6, <2>1 DEF FlattenSeq
  <2>3. h[n + 1] = more[n + 1]
    BY <1>1, <1>4, <1>6
  <2> QED
    BY <1>1, <1>2, <1>5, <2>2, <2>3, ConcatEmptySeq
<1>7. CASE n # 0
  <2>1. PICK f \in [1..n -> Seq(X)] : Joins(f, seqs) /\ FlattenSeq(seqs) = f[n]
    BY <1>7, FlattenJoins
  <2>2. \A i \in 1..n : f[i] = IF i = 1 THEN seqs[i] ELSE f[i - 1] \o seqs[i]
    BY <2>1 DEF Joins
  <2> HIDE DEF n
  <2> DEFINE T == {m \in Nat : m + 1 <= n => h[m + 1] = f[m + 1]}
  <2>3. 0 \in T
    <3>1. 0 + 1 = 1 /\ 1 \in 1..n /\ 1 \in 1..(n + 1)
      BY <1>1, <1>7, SMT
    <3> QED
      BY <1>3, <1>4, <2>2, <3>1
  <2>4. ASSUME NEW m \in Nat, m \in T PROVE m + 1 \in T
    <3> SUFFICES ASSUME (m + 1) + 1 <= n PROVE h[(m + 1) + 1] = f[(m + 1) + 1]
      OBVIOUS
    <3>1. /\ m + 1 <= n /\ (m + 1) + 1 \in 1..n /\ (m + 1) + 1 \in 1..(n + 1)
          /\ (m + 1) + 1 # 1 /\ ((m + 1) + 1) - 1 = m + 1
      BY <1>1, SMT
    <3>2. h[m + 1] = f[m + 1]
      BY <2>4, <3>1
    <3>3. h[(m + 1) + 1] = h[m + 1] \o more[(m + 1) + 1]
      BY <1>4, <3>1
    <3>4. f[(m + 1) + 1] = f[m + 1] \o seqs[(m + 1) + 1]
      BY <2>2, <3>1
    <3> QED
      BY <1>3, <3>1, <3>2, <3>3, <3>4
  <2>5. \A m \in Nat : m \in T
    <3>1. T \in SUBSET Nat
      OBVIOUS
    <3> HIDE DEF T
    <3> QED
      BY <2>3, <2>4, <3>1, InductionOnSet
  <2>6. n - 1 \in Nat /\ (n - 1) + 1 = n /\ n <= n /\ n + 1 # 1 /\ (n + 1) - 1 = n
    BY <1>1, <1>7, SMT
  <2>7. h[n] = f[n]
    BY <2>5, <2>6
  <2>8. h[n + 1] = h[n] \o more[n + 1]
    BY <1>1, <1>4, <2>6
  <2> QED
    BY <1>1, <1>2, <2>1, <2>7, <2>8
<1> QED
  BY <1>6, <1>7

-----------------------------------------------------------------------------
(* The bytes of the peer's packets.                                        *)

\* The lines that a packet has, if it is no interleaved data.
LinesOf(i, p) ==
  CASE p.kind = "bad" -> << <<"text", i>> >>
    [] p.kind = "message" /\ p.len # 0 -> << <<"start", i>>, <<"length", i>> >>
    [] OTHER -> << <<"start", i>> >>

\* What is in front of its content.
HeaderOf(i, p) ==
  CASE p.kind = "data"  -> << <<"dollar", i>>, <<"size", i>> >>
    [] p.kind = "blank" -> << <<"eol", i>>, <<"start", i>>, <<"eol", i>>, <<"eol", i>> >>
    [] p.kind = "bad"   -> << <<"text", i>>, <<"eol", i>>, <<"eol", i>> >>
    [] p.kind = "message" /\ p.len = 0 -> << <<"start", i>>, <<"eol", i>>, <<"eol", i>> >>
    [] OTHER -> << <<"start", i>>, <<"eol", i>>, <<"length", i>>, <<"eol", i>>, <<"eol", i>> >>

\* The bytes of its content.
Size(p) == IF p.len > 0 THEN p.len ELSE 0

\* What a packet of the peer can be.
LEMMA KindsAre ==
  ASSUME NEW p \in Kinds
  PROVE  /\ p.kind \in {"message", "blank", "bad", "data"}
         /\ p.len \in Int /\ p.len >= -1 /\ p.len <= MaxContent + 1
         /\ p.kind \in {"blank", "bad"} => p.len = 0
         /\ p.kind = "data" => p.len >= 0
<1>1. MaxContent \in Nat
  BY RtspClientAssumption
<1>2. CASE p \in [kind: {"message"}, len: -1..(MaxContent + 1)]
  BY <1>1, <1>2, SMT
<1>3. CASE p \in [kind: {"blank", "bad"}, len: {0}]
  BY <1>1, <1>3, SMT
<1>4. CASE p \in [kind: {"data"}, len: 0..1]
  <2>1. p.kind = "data" /\ p.len \in 0..1
    BY <1>4
  <2> QED
    BY <1>1, <2>1, SMT
<1> QED
  BY <1>2, <1>3, <1>4 DEF Kinds

\* Content is as many bytes, each like the end of a line.
LEMMA ContentIs ==
  ASSUME NEW i \in 1..MaxPackets, NEW p \in Kinds
  PROVE  /\ Content(i, p.len) \in Seq(Units) /\ Len(Content(i, p.len)) = Size(p)
         /\ Size(p) \in Nat
         /\ \A j \in 1..Size(p) : Content(i, p.len)[j] = <<"eol", i>>
<1>1. p.len \in Int /\ Size(p) \in Nat /\ 1..p.len = 1..Size(p)
  BY KindsAre, SMT DEF Size
<1>2. <<"eol", i>> \in Units
  BY DEF Units
<1>3. Content(i, p.len) = [j \in 1..Size(p) |-> <<"eol", i>>]
  BY <1>1 DEF Content
<1>4. Content(i, p.len) \in [1..Size(p) -> Units]
  BY <1>2, <1>3
<1>5. Content(i, p.len) \in Seq(Units)
  BY <1>1, <1>4, SeqDef
<1> QED
  BY <1>1, <1>3, <1>5, LenProperties

\* What two sequences are, one after the other.
LEMMA JoinIs ==
  ASSUME NEW S, NEW s \in Seq(S), NEW t \in Seq(S), NEW u \in Seq(S),
         Len(u) = Len(s) + Len(t), \A j \in 1..Len(s) : u[j] = s[j],
         \A j \in 1..Len(t) : u[Len(s) + j] = t[j]
  PROVE  s \o t = u
<1>1. Len(s) \in Nat /\ Len(t) \in Nat
  BY LenProperties
<1>2. /\ s \o t \in Seq(S) /\ Len(s \o t) = Len(s) + Len(t)
      /\ \A j \in 1..(Len(s) + Len(t)) : (s \o t)[j] = IF j <= Len(s) THEN s[j] ELSE t[j - Len(s)]
  BY ConcatProperties
<1>3. ASSUME NEW j \in 1..(Len(s) + Len(t)) PROVE (s \o t)[j] = u[j]
  <2>1. CASE j <= Len(s)
    <3>1. j \in 1..Len(s)
      BY <1>1, <2>1, SMT
    <3> QED
      BY <1>2, <2>1, <3>1
  <2>2. CASE ~(j <= Len(s))
    <3>1. j - Len(s) \in 1..Len(t) /\ Len(s) + (j - Len(s)) = j
      BY <1>1, <2>2, SMT
    <3>2. u[Len(s) + (j - Len(s))] = t[j - Len(s)]
      BY <3>1
    <3> QED
      BY <1>2, <2>2, <3>1, <3>2
  <2> QED
    BY <2>1, <2>2
<1> QED
  BY <1>2, <1>3, SeqEqual

\* A packet is its header and its content.
LEMMA EncodeIs ==
  ASSUME NEW i \in 1..MaxPackets, NEW p \in Kinds
  PROVE  Encode(i, p) = HeaderOf(i, p) \o Content(i, p.len)
<1>1. /\ p.kind \in {"message", "blank", "bad", "data"}
      /\ p.kind \in {"blank", "bad"} => p.len = 0
  BY KindsAre
<1> DEFINE s == <<"start", i>>
           e == <<"eol", i>>
           l == <<"length", i>>
           c == Content(i, p.len)
<1>2. s \in Units /\ e \in Units /\ l \in Units /\ <<"text", i>> \in Units
  BY DEF Units
<1>3. c \in Seq(Units) /\ Len(c) = Size(p)
  BY ContentIs
<1>4. p.len = 0 => c = <<>>
  <2>1. p.len = 0 => Len(c) = 0
    BY <1>3, SMT DEF Size
  <2> QED
    BY <1>3, <2>1, EmptySeq
<1>5. CASE p.kind = "data"
  BY <1>5 DEF Encode, HeaderOf
<1>6. CASE p.kind = "blank"
  <2>1. HeaderOf(i, p) = <<e, s, e, e>> /\ Encode(i, p) = <<e, s, e, e>>
    BY <1>6 DEF Encode, HeaderOf
  <2>2. <<e, s, e, e>> \in Seq(Units)
    BY <1>2
  <2> QED
    BY <1>1, <1>4, <1>6, <2>1, <2>2, ConcatEmptySeq
<1>7. CASE p.kind = "bad"
  <2>1. HeaderOf(i, p) = << <<"text", i>>, e, e >> /\ Encode(i, p) = << <<"text", i>>, e, e >>
    BY <1>7 DEF Encode, HeaderOf
  <2>2. << <<"text", i>>, e, e >> \in Seq(Units)
    BY <1>2
  <2> QED
    BY <1>1, <1>4, <1>7, <2>1, <2>2, ConcatEmptySeq
<1>8. CASE p.kind = "message"
  <2> HIDE DEF s, e, l, c
  <2>1. Encode(i, p) = <<s, e>> \o (IF p.len # 0 THEN <<l, e>> ELSE <<>>) \o <<e>> \o c
    BY <1>8 DEF Encode, s, e, l, c
  <2>2. <<s, e>> \in Seq(Units) /\ <<l, e>> \in Seq(Units) /\ <<e>> \in Seq(Units)
    BY <1>2
  <2>3. CASE p.len = 0
    <3>1. <<s, e>> \o <<>> = <<s, e>>
      BY <2>2, ConcatEmptySeq
    <3>2. <<s, e>> \o <<e>> = <<s, e, e>>
      <4>1. <<s, e, e>> \in Seq(Units)
        BY <1>2
      <4>2. /\ Len(<<s, e, e>>) = Len(<<s, e>>) + Len(<<e>>)
            /\ \A j \in 1..Len(<<s, e>>) : <<s, e, e>>[j] = <<s, e>>[j]
            /\ \A j \in 1..Len(<<e>>) : <<s, e, e>>[Len(<<s, e>>) + j] = <<e>>[j]
        BY SMT
      <4> QED
        BY <2>2, <4>1, <4>2, JoinIs
    <3>3. HeaderOf(i, p) = <<s, e, e>>
      BY <1>8, <2>3 DEF HeaderOf, s, e
    <3> QED
      BY <2>1, <2>3, <3>1, <3>2, <3>3 DEF c
  <2>4. CASE p.len # 0
    <3>1. <<s, e>> \o <<l, e>> = <<s, e, l, e>>
      <4>1. <<s, e, l, e>> \in Seq(Units)
        BY <1>2
      <4>2. /\ Len(<<s, e, l, e>>) = Len(<<s, e>>) + Len(<<l, e>>)
            /\ \A j \in 1..Len(<<s, e>>) : <<s, e, l, e>>[j] = <<s, e>>[j]
            /\ \A j \in 1..Len(<<l, e>>) : <<s, e, l, e>>[Len(<<s, e>>) + j] = <<l, e>>[j]
        BY SMT
      <4> QED
        BY <2>2, <4>1, <4>2, JoinIs
    <3>2. <<s, e, l, e>> \o <<e>> = <<s, e, l, e, e>>
      <4>1. <<s, e, l, e>> \in Seq(Units) /\ <<s, e, l, e, e>> \in Seq(Units)
        BY <1>2
      <4>2. /\ Len(<<s, e, l, e, e>>) = Len(<<s, e, l, e>>) + Len(<<e>>)
            /\ \A j \in 1..Len(<<s, e, l, e>>) : <<s, e, l, e, e>>[j] = <<s, e, l, e>>[j]
            /\ \A j \in 1..Len(<<e>>) : <<s, e, l, e, e>>[Len(<<s, e, l, e>>) + j] = <<e>>[j]
        BY SMT
      <4> QED
        BY <2>2, <4>1, <4>2, JoinIs
    <3>3. HeaderOf(i, p) = <<s, e, l, e, e>>
      BY <1>8, <2>4 DEF HeaderOf, s, e, l
    <3> QED
      BY <2>1, <2>4, <3>1, <3>2, <3>3 DEF c
  <2> QED
    BY <2>3, <2>4
<1> QED
  BY <1>1, <1>5, <1>6, <1>7, <1>8

\* So a packet is laid out.
LEMMA Encoded ==
  ASSUME NEW i \in 1..MaxPackets, NEW p \in Kinds
  PROVE  /\ Encode(i, p) \in Seq(Units) /\ HeaderOf(i, p) \in Seq(Units)
         /\ Size(p) \in Nat /\ Len(HeaderOf(i, p)) \in 2..5
         /\ Len(Encode(i, p)) = Len(HeaderOf(i, p)) + Size(p)
         /\ \A j \in 1..Len(HeaderOf(i, p)) : Encode(i, p)[j] = HeaderOf(i, p)[j]
         /\ \A j \in 1..Size(p) : Encode(i, p)[Len(HeaderOf(i, p)) + j] = <<"eol", i>>
<1> DEFINE h == HeaderOf(i, p)
           c == Content(i, p.len)
           n == Size(p)
<1>1. p.kind \in {"message", "blank", "bad", "data"}
  BY KindsAre
<1>2. /\ <<"start", i>> \in Units /\ <<"eol", i>> \in Units /\ <<"length", i>> \in Units
      /\ <<"text", i>> \in Units /\ <<"dollar", i>> \in Units /\ <<"size", i>> \in Units
  BY DEF Units
<1>3. h \in Seq(Units) /\ Len(h) \in 2..5
  <2>1. CASE p.kind = "data"
    BY <1>2, <2>1, SMT DEF HeaderOf
  <2>2. CASE p.kind = "blank"
    BY <1>2, <2>2, SMT DEF HeaderOf
  <2>3. CASE p.kind = "bad"
    BY <1>2, <2>3, SMT DEF HeaderOf
  <2>4. CASE p.kind = "message" /\ p.len = 0
    BY <1>2, <2>4, SMT DEF HeaderOf
  <2>5. CASE p.kind = "message" /\ p.len # 0
    BY <1>2, <2>5, SMT DEF HeaderOf
  <2> QED
    BY <1>1, <2>1, <2>2, <2>3, <2>4, <2>5
<1>4. c \in Seq(Units) /\ Len(c) = n /\ n \in Nat /\ \A j \in 1..n : c[j] = <<"eol", i>>
  BY ContentIs
<1>5. Encode(i, p) = h \o c
  BY EncodeIs
<1> HIDE DEF h, c, n
<1>6. /\ h \o c \in Seq(Units) /\ Len(h \o c) = Len(h) + n
      /\ \A j \in 1..(Len(h) + n) : (h \o c)[j] = IF j <= Len(h) THEN h[j] ELSE c[j - Len(h)]
  BY <1>3, <1>4, ConcatProperties
<1>7. \A j \in 1..Len(h) : j \in 1..(Len(h) + n) /\ j <= Len(h)
  BY <1>3, <1>4, SMT
<1>8. \A j \in 1..n : Len(h) + j \in 1..(Len(h) + n) /\ ~(Len(h) + j <= Len(h)) /\ (Len(h) + j) - Len(h) = j
  BY <1>3, <1>4, SMT
<1>9. \A j \in 1..Len(h) : (h \o c)[j] = h[j]
  BY <1>6, <1>7
<1>10. \A j \in 1..n : (h \o c)[Len(h) + j] = <<"eol", i>>
  BY <1>4, <1>6, <1>8
<1> QED
  BY <1>3, <1>4, <1>5, <1>6, <1>9, <1>10 DEF h, n

\* An empty line comes in front of its first one.
Before(p) == IF p.kind = "blank" THEN 1 ELSE 0

\* Of a header h with lines l, b units in front of them: each line is two units, and
\* an empty line is behind them.
HeaderIs(h, l, b) ==
  /\ l \in Seq(Units) /\ Len(l) \in 1..2 /\ b \in 0..1
  /\ Len(h) = b + 2 * Len(l) + 1
  /\ b = 1 => h[1][1] = "eol"
  /\ \A k \in 1..Len(l) : l[k][1] # "eol" /\ h[b + 2 * k - 1] = l[k] /\ h[b + 2 * k][1] = "eol"
  /\ h[b + 2 * Len(l) + 1][1] = "eol"

\* So are the headers of the peer's packets.
LEMMA HeaderLines ==
  ASSUME NEW i \in 1..MaxPackets, NEW p \in Kinds, p.kind # "data",
         NEW h, h = HeaderOf(i, p), NEW l, l = LinesOf(i, p), NEW b, b = Before(p)
  PROVE  HeaderIs(h, l, b)
<1> USE DEF HeaderIs
<1>1. p.kind \in {"message", "blank", "bad"}
  BY KindsAre
<1>2. <<"start", i>> \in Units /\ <<"length", i>> \in Units /\ <<"text", i>> \in Units
  BY DEF Units
<1>3. CASE p.kind = "blank"
  <2>1. /\ h = << <<"eol", i>>, <<"start", i>>, <<"eol", i>>, <<"eol", i>> >>
        /\ l = << <<"start", i>> >> /\ b = 1
    BY <1>3 DEF HeaderOf, LinesOf, Before
  <2>2. \A k \in 1..1 : k = 1 /\ 1 + 2 * k - 1 = 2 /\ 1 + 2 * k = 3
    BY SMT
  <2> QED
    BY <1>2, <2>1, <2>2, SMT
<1>4. CASE p.kind = "bad"
  <2>1. h = << <<"text", i>>, <<"eol", i>>, <<"eol", i>> >> /\ l = << <<"text", i>> >> /\ b = 0
    BY <1>4 DEF HeaderOf, LinesOf, Before
  <2>2. \A k \in 1..1 : k = 1 /\ 0 + 2 * k - 1 = 1 /\ 0 + 2 * k = 2
    BY SMT
  <2> QED
    BY <1>2, <2>1, <2>2, SMT
<1>5. CASE p.kind = "message" /\ p.len = 0
  <2>1. h = << <<"start", i>>, <<"eol", i>>, <<"eol", i>> >> /\ l = << <<"start", i>> >> /\ b = 0
    BY <1>5 DEF HeaderOf, LinesOf, Before
  <2>2. \A k \in 1..1 : k = 1 /\ 0 + 2 * k - 1 = 1 /\ 0 + 2 * k = 2
    BY SMT
  <2> QED
    BY <1>2, <2>1, <2>2, SMT
<1>6. CASE p.kind = "message" /\ p.len # 0
  <2>1. /\ h = << <<"start", i>>, <<"eol", i>>, <<"length", i>>, <<"eol", i>>, <<"eol", i>> >>
        /\ l = << <<"start", i>>, <<"length", i>> >> /\ b = 0
    BY <1>6 DEF HeaderOf, LinesOf, Before
  <2>2. \A k \in 1..2 : k = 1 \/ k = 2
    BY SMT
  <2>3. /\ 0 + 2 * 1 - 1 = 1 /\ 0 + 2 * 1 = 2 /\ 0 + 2 * 2 - 1 = 3 /\ 0 + 2 * 2 = 4
        /\ 0 + 2 * 2 + 1 = 5
    BY SMT
  <2> QED
    BY <1>2, <2>1, <2>2, <2>3, SMT
<1> QED
  BY <1>1, <1>3, <1>4, <1>5, <1>6

\* The bytes of the first k packets, and where they end.
Bytes(ps, k) == FlattenSeq([i \in 1..k |-> Encode(i, ps[i])])
EndOf(ps, k) == Len(Bytes(ps, k))

\* What a peer may send.
Sent(ps) == ps \in Seq(Kinds) /\ Len(ps) <= MaxPackets

\* Its packets are numbered.
LEMMA PacketOf ==
  ASSUME NEW ps, Sent(ps)
  PROVE  /\ Len(ps) \in Nat /\ DOMAIN ps = 1..Len(ps)
         /\ \A i \in 1..Len(ps) : i \in 1..MaxPackets /\ ps[i] \in Kinds
<1>1. ps \in Seq(Kinds) /\ Len(ps) <= MaxPackets /\ MaxPackets \in Nat
  BY RtspClientAssumption DEF Sent
<1>2. Len(ps) \in Nat /\ DOMAIN ps = 1..Len(ps) /\ \A i \in 1..Len(ps) : ps[i] \in Kinds
  BY <1>1, LenProperties, ElementOfSeq
<1>3. \A i \in 1..Len(ps) : i \in 1..MaxPackets
  BY <1>1, <1>2, SMT
<1> QED
  BY <1>2, <1>3

\* The bytes of each come behind those of the one before.
LEMMA BytesMore ==
  ASSUME NEW ps, Sent(ps), NEW k \in Nat, k < Len(ps)
  PROVE  Bytes(ps, k + 1) = Bytes(ps, k) \o Encode(k + 1, ps[k + 1])
<1> DEFINE s == [i \in 1..k |-> Encode(i, ps[i])]
           t == [i \in 1..(k + 1) |-> Encode(i, ps[i])]
<1>1. \A i \in 1..Len(ps) : Encode(i, ps[i]) \in Seq(Units)
  BY PacketOf, Encoded
<1>2. \A i \in 1..(k + 1) : i \in 1..Len(ps)
  BY PacketOf, SMT
<1>3. \A i \in 1..k : i \in 1..(k + 1)
  BY SMT
<1>4. k + 1 \in Nat /\ k + 1 \in 1..(k + 1)
  BY SMT
<1>5. s \in [1..k -> Seq(Units)] /\ t \in [1..(k + 1) -> Seq(Units)]
  BY <1>1, <1>2, <1>3
<1>6. s \in Seq(Seq(Units)) /\ t \in Seq(Seq(Units))
  BY <1>4, <1>5, SeqDef
<1>7. Len(s) = k /\ Len(t) = k + 1
  BY <1>4, <1>6, LenProperties
<1>8. \A i \in 1..k : t[i] = s[i]
  BY <1>3
<1>9. t[k + 1] = Encode(k + 1, ps[k + 1])
  BY <1>4
<1> HIDE DEF s, t
<1>10. FlattenSeq(t) = FlattenSeq(s) \o t[k + 1]
  BY <1>6, <1>7, <1>8, FlattenMore
<1> QED
  BY <1>9, <1>10 DEF Bytes, s, t

\* There are none at first.
LEMMA NoBytes ==
  ASSUME NEW ps
  PROVE  Bytes(ps, 0) = <<>> /\ EndOf(ps, 0) = 0
<1> DEFINE s == [i \in 1..0 |-> Encode(i, ps[i])]
<1>1. s = <<>>
  <2>1. \A i \in 1..0 : FALSE
    BY SMT
  <2>2. s \in [1..0 -> Units]
    BY <2>1
  <2>3. s \in Seq(Units)
    BY <2>2, SeqDef, SMT
  <2>4. Len(s) = 0
    BY <2>1, <2>3, LenProperties, SMT
  <2> QED
    BY <2>3, <2>4, EmptySeq
<1>2. Len(s) = 0
  BY <1>1
<1> HIDE DEF s
<1>3. FlattenSeq(s) = s
  BY <1>2, Zenon DEF FlattenSeq
<1> QED
  BY <1>1, <1>2, <1>3 DEF Bytes, EndOf, s

\* Where the packets end.
LEMMA EndsAre ==
  ASSUME NEW ps, Sent(ps)
  PROVE  /\ \A k \in 0..Len(ps) : Bytes(ps, k) \in Seq(Units) /\ EndOf(ps, k) \in Nat
         /\ \A k \in Nat : k < Len(ps) => EndOf(ps, k + 1) = EndOf(ps, k) + Len(Encode(k + 1, ps[k + 1]))
<1>1. Len(ps) \in Nat /\ \A i \in 1..Len(ps) : Encode(i, ps[i]) \in Seq(Units)
  BY PacketOf, Encoded
<1> DEFINE T == {k \in Nat : k <= Len(ps) => Bytes(ps, k) \in Seq(Units)}
<1>2. 0 \in T
  <2>1. Bytes(ps, 0) = <<>> /\ <<>> \in Seq(Units) /\ 0 \in Nat
    BY NoBytes, EmptySeq, SMT
  <2> QED
    BY <2>1
<1>3. ASSUME NEW k \in Nat, k \in T PROVE k + 1 \in T
  <2> SUFFICES ASSUME k + 1 <= Len(ps) PROVE Bytes(ps, k + 1) \in Seq(Units)
    <3>1. k + 1 \in Nat
      BY SMT
    <3> QED
      BY <3>1
  <2>1. k < Len(ps) /\ k <= Len(ps) /\ k + 1 \in 1..Len(ps)
    BY <1>1, SMT
  <2> QED
    BY <1>1, <1>3, <2>1, BytesMore, ConcatProperties
<1>4. \A k \in Nat : k \in T
  <2>1. T \in SUBSET Nat
    OBVIOUS
  <2> HIDE DEF T
  <2> QED
    BY <1>2, <1>3, <2>1, InductionOnSet
<1>5. \A k \in 0..Len(ps) : k \in Nat /\ k <= Len(ps)
  BY <1>1, SMT
<1>6. \A k \in 0..Len(ps) : Bytes(ps, k) \in Seq(Units)
  BY <1>4, <1>5
<1>7. \A k \in 0..Len(ps) : EndOf(ps, k) \in Nat
  BY <1>6, LenProperties DEF EndOf
<1>8. ASSUME NEW k \in Nat, k < Len(ps)
      PROVE  EndOf(ps, k + 1) = EndOf(ps, k) + Len(Encode(k + 1, ps[k + 1]))
  <2>1. k \in 0..Len(ps) /\ k + 1 \in 1..Len(ps)
    BY <1>1, <1>8, SMT
  <2> QED
    BY <1>1, <1>6, <1>8, <2>1, BytesMore, ConcatProperties DEF EndOf
<1> QED
  BY <1>6, <1>7, <1>8

\* What follows does not change what was there.
LEMMA BytesStay ==
  ASSUME NEW ps, Sent(ps), NEW k \in 0..Len(ps), NEW m \in 0..Len(ps), k <= m
  PROVE  /\ EndOf(ps, k) <= EndOf(ps, m)
         /\ \A j \in 1..EndOf(ps, k) : Bytes(ps, m)[j] = Bytes(ps, k)[j]
<1> DEFINE Stays(n) == /\ EndOf(ps, k) <= EndOf(ps, n)
                       /\ \A j \in 1..EndOf(ps, k) : Bytes(ps, n)[j] = Bytes(ps, k)[j]
           T == {d \in Nat : k + d <= Len(ps) => Stays(k + d)}
<1>1. Len(ps) \in Nat /\ k \in Nat /\ m \in Nat /\ m - k \in Nat /\ k + (m - k) = m /\ m <= Len(ps) /\ k + 0 = k
  BY PacketOf, SMT
<1>2. \A i \in 0..Len(ps) : Bytes(ps, i) \in Seq(Units) /\ EndOf(ps, i) \in Nat
  BY EndsAre
<1>3. 0 \in T
  <2>1. Stays(k)
    BY <1>2, SMT
  <2> HIDE DEF Stays
  <2> QED
    BY <1>1, <2>1
<1>4. ASSUME NEW d \in Nat, d \in T PROVE d + 1 \in T
  <2> SUFFICES ASSUME k + (d + 1) <= Len(ps) PROVE Stays(k + (d + 1))
    <3>1. d + 1 \in Nat
      BY SMT
    <3> HIDE DEF Stays
    <3> QED
      BY <3>1
  <2> DEFINE n == k + d
  <2>1. /\ n \in Nat /\ n < Len(ps) /\ n \in 0..Len(ps) /\ n + 1 \in 1..Len(ps) /\ n + 1 = k + (d + 1)
        /\ n <= Len(ps)
    BY <1>1, SMT
  <2>2. Stays(n)
    BY <1>4, <2>1
  <2> HIDE DEF n
  <2>3. Encode(n + 1, ps[n + 1]) \in Seq(Units)
    BY <2>1, PacketOf, Encoded
  <2>4. Len(Encode(n + 1, ps[n + 1])) \in Nat
    BY <2>3, LenProperties
  <2>5. Bytes(ps, n + 1) = Bytes(ps, n) \o Encode(n + 1, ps[n + 1])
    BY <2>1, BytesMore
  <2>6. EndOf(ps, n + 1) = EndOf(ps, n) + Len(Encode(n + 1, ps[n + 1]))
    BY <2>1, EndsAre
  <2>7. /\ EndOf(ps, k) \in Nat /\ EndOf(ps, n) \in Nat /\ EndOf(ps, k) <= EndOf(ps, n)
        /\ Len(Bytes(ps, n)) = EndOf(ps, n)
    BY <1>2, <2>1, <2>2 DEF EndOf
  <2>8. \A j \in 1..EndOf(ps, k) :
          j \in 1..(EndOf(ps, n) + Len(Encode(n + 1, ps[n + 1]))) /\ j <= EndOf(ps, n)
    BY <2>4, <2>7, SMT
  <2>9. \A j \in 1..EndOf(ps, k) : Bytes(ps, n + 1)[j] = Bytes(ps, n)[j]
    BY <1>2, <2>1, <2>3, <2>5, <2>7, <2>8, ConcatProperties
  <2>10. EndOf(ps, k) <= EndOf(ps, n + 1)
    BY <2>4, <2>6, <2>7, SMT
  <2> QED
    BY <2>1, <2>2, <2>9, <2>10
<1>5. m - k \in T
  <2>1. T \in SUBSET Nat
    OBVIOUS
  <2> HIDE DEF T
  <2> QED
    BY <1>1, <1>3, <1>4, <2>1, InductionOnSet
<1>6. Stays(m)
  <2> HIDE DEF Stays
  <2> QED
    BY <1>1, <1>5
<1> QED
  BY <1>6

\* Each packet is in the stream.
LEMMA InStream ==
  ASSUME NEW ps, Sent(ps), NEW k \in Nat, k < Len(ps), NEW s, s = Encode(k + 1, ps[k + 1])
  PROVE  /\ EndOf(ps, k) + Len(s) = EndOf(ps, k + 1) /\ EndOf(ps, k + 1) <= EndOf(ps, Len(ps))
         /\ \A j \in 1..Len(s) : Bytes(ps, Len(ps))[EndOf(ps, k) + j] = s[j]
<1>1. /\ Len(ps) \in Nat /\ k \in 0..Len(ps) /\ k + 1 \in 0..Len(ps) /\ k + 1 \in 1..Len(ps)
      /\ Len(ps) \in 0..Len(ps) /\ k + 1 <= Len(ps)
  BY PacketOf, SMT
<1>2. s \in Seq(Units)
  BY <1>1, PacketOf, Encoded
<1>3. Len(s) \in Nat
  BY <1>2, LenProperties
<1>4. Bytes(ps, k) \in Seq(Units) /\ EndOf(ps, k) \in Nat /\ Len(Bytes(ps, k)) = EndOf(ps, k)
  BY <1>1, EndsAre DEF EndOf
<1>5. EndOf(ps, k + 1) = EndOf(ps, k) + Len(s) /\ Bytes(ps, k + 1) = Bytes(ps, k) \o s
  BY EndsAre, BytesMore
<1>6. /\ EndOf(ps, k + 1) <= EndOf(ps, Len(ps))
      /\ \A j \in 1..EndOf(ps, k + 1) : Bytes(ps, Len(ps))[j] = Bytes(ps, k + 1)[j]
  BY <1>1, BytesStay
<1>7. \A j \in 1..Len(s) : /\ EndOf(ps, k) + j \in 1..(EndOf(ps, k) + Len(s))
                           /\ ~(EndOf(ps, k) + j <= EndOf(ps, k)) /\ (EndOf(ps, k) + j) - EndOf(ps, k) = j
  BY <1>3, <1>4, SMT
<1>8. \A j \in 1..Len(s) : (Bytes(ps, k) \o s)[EndOf(ps, k) + j] = s[j]
  BY <1>2, <1>4, <1>7, ConcatProperties
<1>9. \A j \in 1..Len(s) : Bytes(ps, Len(ps))[EndOf(ps, k) + j] = s[j]
  BY <1>5, <1>6, <1>7, <1>8
<1> QED
  BY <1>5, <1>6, <1>9

\* The stream is the bytes of all of them.
LEMMA StreamIs ==
  ASSUME Sent(packets)
  PROVE  Stream = Bytes(packets, Len(packets))
BY PacketOf DEF Stream, Bytes

-----------------------------------------------------------------------------
(* The lines of a header.                                                  *)

\* What Max() chooses, if nothing is greater than m.
LEMMA MaxIs ==
  ASSUME NEW T \in SUBSET Nat, NEW m \in T, \A n \in T : n <= m
  PROVE  Max(T) = m
<1>1. \A n \in T : n \in Nat /\ m >= n
  BY SMT
<1>2. Max(T) \in T /\ \A n \in T : Max(T) >= n
  BY <1>1, Zenon DEF Max
<1>3. Max(T) \in Nat /\ m \in Nat /\ Max(T) >= m /\ m >= Max(T)
  BY <1>1, <1>2
<1> QED
  BY <1>3, SMT

\* One unit more.
Grow(ls, u) == IF u[1] = "eol" THEN ls ELSE Append(ls, u)

\* f gives the lines that the first units of buf make, behind those of c.
Grows(f, n, buf, c) == f = [k \in 0..n |-> IF k = 0 THEN c ELSE Grow(f[k - 1], buf[k])]

\* The recursive function of Lines exists.
LEMMA GrowthExists ==
  ASSUME NEW buf, NEW c, NEW n \in Nat
  PROVE  \E f : Grows(f, n, buf, c)
<1> DEFINE T == {m \in Nat : \E f : Grows(f, m, buf, c)}
<1>1. 0 \in T
  <2> DEFINE f == [k \in 0..0 |-> c]
  <2>1. \A k \in 0..0 : k = 0
    BY SMT
  <2>2. f = [k \in 0..0 |-> IF k = 0 THEN c ELSE Grow(f[k - 1], buf[k])]
    BY <2>1
  <2> HIDE DEF f
  <2>3. Grows(f, 0, buf, c)
    BY <2>2 DEF Grows
  <2>4. 0 \in Nat
    BY SMT
  <2> QED
    BY <2>3, <2>4
<1>2. ASSUME NEW m \in Nat, m \in T PROVE m + 1 \in T
  <2>1. PICK f : Grows(f, m, buf, c)
    BY <1>2
  <2> DEFINE g == [k \in 0..(m + 1) |-> IF k = m + 1 THEN Grow(f[m], buf[m + 1]) ELSE f[k]]
  <2>2. \A k \in 0..(m + 1) : /\ k # m + 1 => k \in 0..m
                              /\ k # m + 1 /\ k # 0 => k - 1 \in 0..(m + 1) /\ k - 1 # m + 1
    BY SMT
  <2>3. /\ m + 1 # 0 /\ (m + 1) - 1 = m /\ m \in 0..(m + 1) /\ m # m + 1 /\ m + 1 \in Nat
    BY SMT
  <2>4. \A k \in 0..m : f[k] = IF k = 0 THEN c ELSE Grow(f[k - 1], buf[k])
    BY <2>1 DEF Grows
  <2>5. ASSUME NEW k \in 0..(m + 1) PROVE g[k] = IF k = 0 THEN c ELSE Grow(g[k - 1], buf[k])
    <3>1. CASE k = m + 1
      BY <2>3, <3>1
    <3>2. CASE k # m + 1
      BY <2>2, <2>4, <3>2
    <3> QED
      BY <3>1, <3>2
  <2>6. g = [k \in 0..(m + 1) |-> g[k]]
    OBVIOUS
  <2> HIDE DEF g
  <2>7. g = [k \in 0..(m + 1) |-> IF k = 0 THEN c ELSE Grow(g[k - 1], buf[k])]
    BY <2>5, <2>6, Zenon
  <2>8. Grows(g, m + 1, buf, c)
    BY <2>7 DEF Grows
  <2> QED
    BY <2>3, <2>8
<1>3. \A m \in Nat : m \in T
  <2>1. T \in SUBSET Nat
    OBVIOUS
  <2> HIDE DEF T
  <2> QED
    BY <1>1, <1>2, <2>1, InductionOnSet
<1> QED
  BY <1>3

\* f gives the lines after each of the first n units of the buffer.
Growing(f, n) == f[0] = cur /\ \A k \in 1..n : f[k] = Grow(f[k - 1], in[k])

\* Lines() goes through the units one by one.
LEMMA LinesGrow ==
  ASSUME Eaten \in Nat
  PROVE  \E f : Lines = f[Eaten] /\ Growing(f, Eaten)
<1> DEFINE n == Eaten
           f == CHOOSE g : Grows(g, n, in, cur)
<1>1. Grows(f, n, in, cur)
  <2> HIDE DEF n
  <2> QED
    BY GrowthExists, Zenon DEF n
<1>2. Lines = f[n]
  BY Zenon DEF Lines, Grows, Grow
<1> HIDE DEF f
<1>3. \A k \in 0..n : f[k] = IF k = 0 THEN cur ELSE Grow(f[k - 1], in[k])
  BY <1>1, Zenon DEF Grows
<1>4. 0 \in 0..n /\ \A k \in 1..n : k \in 0..n /\ k # 0
  BY SMT
<1>5. Growing(f, n)
  BY <1>3, <1>4 DEF Growing
<1> QED
  BY <1>2, <1>5

\* The next line of a sequence of lines.
LEMMA NextLine ==
  ASSUME NEW all \in Seq(Units), NEW t \in Nat, t < Len(all)
  PROVE  Append(SubSeq(all, 1, t), all[t + 1]) = SubSeq(all, 1, t + 1)
<1>1. Len(all) \in Nat /\ \A k \in 1..Len(all) : all[k] \in Units
  BY LenProperties, ElementOfSeq
<1>2. t + 1 \in 1..Len(all) /\ 1 \in 1..Len(all) /\ t + 1 \in Int /\ t \in Int /\ 1 \in Int
  BY <1>1, SMT
<1>3. /\ \A k \in 1..t : k \in 1..Len(all) /\ 1 + k - 1 = k
      /\ \A k \in 1..(t + 1) : k \in 1..Len(all) /\ 1 + k - 1 = k
  BY <1>1, SMT
<1>4. (IF 1 <= t THEN t - 1 + 1 ELSE 0) = t /\ (IF 1 <= t + 1 THEN (t + 1) - 1 + 1 ELSE 0) = t + 1
      /\ t - 1 + 1 = t /\ (t + 1) - 1 + 1 = t + 1
  BY SMT
<1> DEFINE a == SubSeq(all, 1, t)
           b == SubSeq(all, 1, t + 1)
<1>5. a \in Seq(Units) /\ Len(a) = t /\ \A k \in 1..t : a[k] = all[k]
  <2>1. \A k \in 1..t : all[k] \in Units
    BY <1>1, <1>3
  <2> QED
    BY <1>2, <1>3, <1>4, <2>1, SubSeqProperties
<1>6. b \in Seq(Units) /\ Len(b) = t + 1 /\ \A k \in 1..(t + 1) : b[k] = all[k]
  <2>1. \A k \in 1..(t + 1) : all[k] \in Units
    BY <1>1, <1>3
  <2> QED
    BY <1>2, <1>3, <1>4, <2>1, SubSeqProperties
<1> DEFINE c == Append(a, all[t + 1])
<1> HIDE DEF a, b
<1>7. c \in Seq(Units) /\ Len(c) = t + 1 /\ c[t + 1] = all[t + 1] /\ \A k \in 1..t : c[k] = a[k]
  BY <1>1, <1>2, <1>5, AppendProperties
<1> HIDE DEF c
<1>8. ASSUME NEW k \in 1..(t + 1) PROVE c[k] = b[k]
  <2>1. k = t + 1 \/ k \in 1..t
    BY SMT
  <2> QED
    BY <1>5, <1>6, <1>7, <2>1
<1>9. c = b
  BY <1>6, <1>7, <1>8, SeqEqual
<1> QED
  BY <1>9 DEF a, b, c

\* The k-th line in the buffer, as far as it is there, is u.
LineAt(buf, k, u) ==
  /\ 2 * k - 1 \in 1..Len(buf) => buf[2 * k - 1] = u
  /\ 2 * k \in 1..Len(buf) => buf[2 * k][1] = "eol"

\* What is in the buffer when t of the lines of a packet have been read.
Ahead(buf, all, t) ==
  /\ \A k \in 1..(Len(all) - t) : LineAt(buf, k, all[t + k])
  /\ 2 * (Len(all) - t) + 1 \in 1..Len(buf) => buf[2 * (Len(all) - t) + 1][1] = "eol"

\* So much of the lines `all' has been read.
HeaderRead(all, t) ==
  /\ all \in Seq(Units) /\ \A k \in 1..Len(all) : all[k][1] # "eol"
  /\ in \in Seq(Units) /\ cur = SubSeq(all, 1, t)
  /\ Ahead(in, all, t)

\* Where the lines end, in the first units of the buffer.
LEMMA EndsAhead ==
  ASSUME NEW all, NEW t \in 0..2, HeaderRead(all, t), NEW r \in 0..2, Len(all) = t + r,
         NEW n \in Nat, Len(in) = n
  PROVE  /\ \A j \in 1..n : j <= 2 * r + 1 => (j \in Ends <=> j = 2 \/ j = 4 \/ j = 2 * r + 1)
         /\ \A j \in 1..n : j <= 2 * r + 1 => (j \in Blanks <=> j = 2 * r + 1)
<1>1. /\ DOMAIN in = 1..n /\ \A k \in 1..(t + r) : all[k][1] # "eol"
      /\ \A k \in 1..r : LineAt(in, k, all[t + k])
      /\ 2 * r + 1 \in 1..n => in[2 * r + 1][1] = "eol"
  <2>1. (t + r) - t = r
    BY SMT
  <2> QED
    BY <2>1, LenProperties DEF HeaderRead, Ahead
<1>2. /\ r = 0 \/ r = 1 \/ r = 2
      /\ \A k \in 1..r : t + k \in 1..(t + r)
  BY SMT
<1>3. \A j \in 1..n : j \in Ends <=> in[j][1] = "eol"
  BY <1>1 DEF Ends
<1>4. \A j \in 1..n : j <= 2 * r + 1 =>
        \/ j = 2 * r + 1
        \/ r >= 1 /\ (j = 1 \/ j = 2)
        \/ r = 2 /\ (j = 3 \/ j = 4)
  BY <1>2, SMT
<1>5. ASSUME r >= 1
      PROVE  /\ 1 \in 1..n => in[1][1] # "eol"
             /\ 2 \in 1..n => in[2][1] = "eol"
  <2>1. 1 \in 1..r /\ 2 * 1 - 1 = 1 /\ 2 * 1 = 2
    BY <1>5, SMT
  <2>2. LineAt(in, 1, all[t + 1]) /\ all[t + 1][1] # "eol"
    BY <1>1, <1>2, <2>1
  <2> QED
    BY <2>1, <2>2 DEF LineAt
<1>6. ASSUME r = 2
      PROVE  /\ 3 \in 1..n => in[3][1] # "eol"
             /\ 4 \in 1..n => in[4][1] = "eol"
  <2>1. 2 \in 1..r /\ 2 * 2 - 1 = 3 /\ 2 * 2 = 4
    BY <1>6, SMT
  <2>2. LineAt(in, 2, all[t + 2]) /\ all[t + 2][1] # "eol"
    BY <1>1, <1>2, <2>1
  <2> QED
    BY <2>1, <2>2 DEF LineAt
<1>7. 2 * r + 1 \in 1..n => in[2 * r + 1][1] = "eol"
  BY <1>1
<1>8. \A j \in 1..n : j <= 2 * r + 1 => (j \in Ends <=> j = 2 \/ j = 4 \/ j = 2 * r + 1)
  <2> SUFFICES ASSUME NEW j \in 1..n, j <= 2 * r + 1
               PROVE  in[j][1] = "eol" <=> j = 2 \/ j = 4 \/ j = 2 * r + 1
    BY <1>3
  <2>1. CASE j = 2 * r + 1
    BY <1>7, <2>1
  <2>2. CASE r >= 1 /\ (j = 1 \/ j = 2)
    <3>1. 1 # 2 /\ 1 # 4 /\ 1 # 2 * r + 1
      BY <1>2, <2>2, SMT
    <3> QED
      BY <1>5, <2>2, <3>1
  <2>3. CASE r = 2 /\ (j = 3 \/ j = 4)
    <3>1. 3 # 2 /\ 3 # 4 /\ 3 # 2 * 2 + 1
      BY SMT
    <3> QED
      BY <1>6, <2>3, <3>1
  <2> QED
    BY <1>4, <2>1, <2>2, <2>3
<1>9. \A j \in 1..n : j <= 2 * r + 1 => (j \in Blanks <=> j = 2 * r + 1)
  <2> SUFFICES ASSUME NEW j \in 1..n, j <= 2 * r + 1
               PROVE  j \in Ends /\ (j = 1 \/ j - 1 \in Ends) <=> j = 2 * r + 1
    BY DEF Blanks
  <2>1. CASE j = 1
    <3>1. 1 # 2 /\ 1 # 4
      BY SMT
    <3> QED
      BY <1>8, <2>1, <3>1
  <2>2. CASE j # 1
    <3>1. j - 1 \in 1..n /\ j - 1 <= 2 * r + 1
      BY <1>1, <2>2, SMT
    <3>2. j - 1 \in Ends <=> j - 1 = 2 \/ j - 1 = 4 \/ j - 1 = 2 * r + 1
      BY <1>8, <3>1
    <3>3. j \in Ends <=> j = 2 \/ j = 4 \/ j = 2 * r + 1
      BY <1>8
    <3>4. (j = 2 \/ j = 4 \/ j = 2 * r + 1) /\ (j - 1 = 2 \/ j - 1 = 4 \/ j - 1 = 2 * r + 1) <=> j = 2 * r + 1
      BY <1>1, <1>2, <2>2, SMT
    <3> QED
      BY <2>2, <3>2, <3>3, <3>4
  <2> QED
    BY <2>1, <2>2
<1> QED
  BY <1>8, <1>9

\* After 2 * m units of the buffer there are m lines more.
Grown(f, all, t, m) == f[2 * m] = SubSeq(all, 1, t + m)

\* After m more of the header's lines it has all of them so far.
LEMMA GrowsTo ==
  ASSUME NEW all, NEW t \in 0..2, HeaderRead(all, t), NEW r \in 0..2, Len(all) = t + r,
         NEW n \in Nat, Len(in) = n, NEW e \in 0..n, NEW f, Growing(f, e),
         NEW m \in 0..r, 2 * m <= e
  PROVE  Grown(f, all, t, m)
<1> DEFINE Is(k) == Grown(f, all, t, k)
<1>1. /\ all \in Seq(Units) /\ cur = SubSeq(all, 1, t)
      /\ \A k \in 1..(t + r) : all[k][1] # "eol"
      /\ \A k \in 1..r : LineAt(in, k, all[t + k])
      /\ f[0] = cur /\ \A k \in 1..e : f[k] = Grow(f[k - 1], in[k])
  <2>1. (t + r) - t = r
    BY SMT
  <2> QED
    BY <2>1 DEF HeaderRead, Ahead, Growing
<1>2. Is(0)
  <2>1. 2 * 0 = 0 /\ t + 0 = t
    BY SMT
  <2> QED
    BY <1>1, <2>1 DEF Grown
<1>3. ASSUME NEW k \in Nat, k + 1 <= m, Is(k) PROVE Is(k + 1)
  <2>1. k + 1 <= m
    BY <1>3
  <2>2. /\ 2 * (k + 1) - 1 \in 1..e /\ 2 * (k + 1) \in 1..e
        /\ 2 * (k + 1) - 1 \in 1..n /\ 2 * (k + 1) \in 1..n
        /\ (2 * (k + 1) - 1) - 1 = 2 * k
        /\ k + 1 \in 1..r /\ t + (k + 1) = (t + k) + 1 /\ t + (k + 1) \in 1..(t + r)
        /\ t + k \in Nat /\ t + k < t + r
    <3> HIDE DEF Is
    <3> QED
      BY <2>1, SMT
  <2> DEFINE j == 2 * (k + 1)
             u == all[t + (k + 1)]
  <2>3. LineAt(in, k + 1, u) /\ u[1] # "eol"
    BY <1>1, <2>2
  <2>4. in[j - 1] = u /\ in[j][1] = "eol"
    BY <2>2, <2>3 DEF LineAt
  <2>5. j - 1 \in 1..e /\ j \in 1..e /\ (j - 1) - 1 = 2 * k
    BY <2>2
  <2> HIDE DEF j, u
  <2>6. f[j - 1] = Grow(f[2 * k], u)
    <3>1. f[j - 1] = Grow(f[(j - 1) - 1], in[j - 1])
      BY <1>1, <2>5
    <3> QED
      BY <2>4, <2>5, <3>1
  <2>7. f[j] = Grow(f[j - 1], in[j])
    BY <1>1, <2>5
  <2>8. f[2 * k] = SubSeq(all, 1, t + k)
    BY <1>3 DEF Grown
  <2>9. f[j] = Append(SubSeq(all, 1, t + k), u)
    BY <2>3, <2>4, <2>6, <2>7, <2>8 DEF Grow
  <2>10. Append(SubSeq(all, 1, t + k), all[(t + k) + 1]) = SubSeq(all, 1, (t + k) + 1)
    BY <1>1, <2>2, NextLine
  <2> QED
    BY <2>2, <2>9, <2>10 DEF Grown, j, u
<1>4. m = 0 \/ m = 1 \/ m = 2
  BY SMT
<1>5. 0 \in Nat /\ 1 \in Nat /\ 0 + 1 = 1 /\ 1 + 1 = 2 /\ (m = 1 => 0 + 1 <= m) /\ (m = 2 => 0 + 1 <= m /\ 1 + 1 <= m)
  BY SMT
<1> HIDE DEF Is
<1>6. m = 1 => Is(1)
  BY <1>2, <1>3, <1>5
<1>7. m = 2 => Is(1) /\ Is(2)
  <2>1. m = 2 => Is(1)
    BY <1>2, <1>3, <1>5
  <2> QED
    BY <1>3, <1>5, <2>1
<1>8. Is(m)
  BY <1>2, <1>4, <1>6, <1>7
<1> QED
  BY <1>8 DEF Is

\* All of the header is there: its lines are found.
LEMMA LinesComplete ==
  ASSUME NEW all, NEW t \in 0..2, HeaderRead(all, t), NEW r \in 0..2, Len(all) = t + r,
         NEW n \in Nat, Len(in) = n, 2 * r + 1 <= n
  PROVE  Blanks # {} /\ Eaten = 2 * r + 1 /\ Lines = all
<1>1. /\ \A j \in 1..n : j <= 2 * r + 1 => (j \in Blanks <=> j = 2 * r + 1)
      /\ in \in Seq(Units) /\ all \in Seq(Units)
  BY EndsAhead DEF HeaderRead
<1>2. 2 * r + 1 \in 1..n /\ 2 * r + 1 <= 2 * r + 1 /\ 2 * r + 1 \in Nat
  BY SMT
<1>3. 2 * r + 1 \in Blanks
  BY <1>1, <1>2
<1>4. Blanks \subseteq 1..n
  BY <1>1, LenProperties DEF Blanks, Ends
<1>5. \A j \in Blanks : j \in Nat /\ 2 * r + 1 <= j
  <2> SUFFICES ASSUME NEW j \in Blanks PROVE j \in Nat /\ 2 * r + 1 <= j
    OBVIOUS
  <2>1. j \in 1..n
    BY <1>4
  <2>2. j <= 2 * r + 1 => j = 2 * r + 1
    BY <1>1, <2>1
  <2> QED
    BY <2>1, <2>2, SMT
<1>6. Min(Blanks) = 2 * r + 1
  BY <1>3, <1>5, MinIs
<1>7. Eaten = 2 * r + 1
  BY <1>3, <1>6 DEF Eaten
<1>8. PICK f : Lines = f[Eaten] /\ Growing(f, Eaten)
  <2>1. Eaten \in Nat
    BY <1>2, <1>7
  <2> QED
    BY <2>1, LinesGrow
<1>9. /\ r \in 0..r /\ 2 * r <= 2 * r + 1 /\ 2 * r + 1 \in 0..n
      /\ 2 * r + 1 \in 1..(2 * r + 1) /\ (2 * r + 1) - 1 = 2 * r
  BY SMT
<1>10. f[2 * r] = SubSeq(all, 1, t + r)
  <2> DEFINE e == 2 * r + 1
  <2>1. Growing(f, e) /\ e \in 0..n /\ 2 * r <= e
    BY <1>7, <1>8, <1>9
  <2> HIDE DEF e
  <2>2. Grown(f, all, t, r)
    BY <1>9, <2>1, GrowsTo
  <2> QED
    BY <2>2 DEF Grown
<1>11. SubSeq(all, 1, t + r) = all
  BY <1>1, SubSeqFull
<1>12. in[2 * r + 1][1] = "eol"
  <2>1. (t + r) - t = r
    BY SMT
  <2> QED
    BY <1>2, <2>1 DEF HeaderRead, Ahead
<1>13. f[2 * r + 1] = Grow(f[2 * r], in[2 * r + 1])
  BY <1>7, <1>8, <1>9 DEF Growing
<1>14. Lines = all
  BY <1>7, <1>8, <1>10, <1>11, <1>12, <1>13 DEF Grow
<1> QED
  BY <1>3, <1>7, <1>14

\* A number of units is at most one more than those of some lines.
LEMMA Halved ==
  ASSUME NEW n \in 0..5
  PROVE  \E m \in 0..2 : 2 * m <= n /\ n <= 2 * m + 1
<1>1. 0 \in 0..2 /\ 1 \in 0..2 /\ 2 \in 0..2
  BY SMT
<1>2. CASE n <= 1
  <2>1. 2 * 0 <= n /\ n <= 2 * 0 + 1
    BY <1>2, SMT
  <2> QED
    BY <1>1, <2>1
<1>3. CASE n = 2 \/ n = 3
  <2>1. 2 * 1 <= n /\ n <= 2 * 1 + 1
    BY <1>3, SMT
  <2> QED
    BY <1>1, <2>1
<1>4. CASE n >= 4
  <2>1. 2 * 2 <= n /\ n <= 2 * 2 + 1
    BY <1>4, SMT
  <2> QED
    BY <1>1, <2>1
<1> QED
  BY <1>2, <1>3, <1>4, SMT

\* Not all of it is there: the whole lines are taken.
LEMMA LinesPartial ==
  ASSUME NEW all, NEW t \in 0..2, HeaderRead(all, t), NEW r \in 0..2, Len(all) = t + r,
         NEW n \in Nat, Len(in) = n, n < 2 * r + 1
  PROVE  /\ Blanks = {}
         /\ \E m \in 0..r : /\ Eaten = 2 * m /\ 2 * m <= n /\ n <= 2 * m + 1
                            /\ Lines = SubSeq(all, 1, t + m)
<1>1. /\ \A j \in 1..n : j <= 2 * r + 1 => (j \in Ends <=> j = 2 \/ j = 4 \/ j = 2 * r + 1)
      /\ \A j \in 1..n : j <= 2 * r + 1 => (j \in Blanks <=> j = 2 * r + 1)
      /\ in \in Seq(Units)
  BY EndsAhead DEF HeaderRead
<1>2. \A j \in 1..n : j <= 2 * r + 1 /\ j # 2 * r + 1 /\ j \in Nat
  BY SMT
<1>3. Blanks \subseteq 1..n /\ Ends \subseteq 1..n
  BY <1>1, LenProperties DEF Blanks, Ends
<1>4. Blanks = {}
  BY <1>1, <1>2, <1>3
<1>5. PICK m \in 0..2 : 2 * m <= n /\ n <= 2 * m + 1
  <2>1. n \in 0..5
    BY SMT
  <2> QED
    BY <2>1, Halved
<1>6. m \in 0..r
  BY <1>5, SMT
<1>7. \A j \in 1..n : j \in Ends <=> j = 2 \/ j = 4
  BY <1>1, <1>2
<1> DEFINE T == Ends \cup {0}
<1>8. \A j \in T : j \in Nat /\ j <= 2 * m
  <2> SUFFICES ASSUME NEW j \in T PROVE j \in Nat /\ j <= 2 * m
    OBVIOUS
  <2>1. CASE j = 0
    BY <1>5, <2>1, SMT
  <2>2. CASE j \in Ends
    <3>1. j \in 1..n /\ (j = 2 \/ j = 4)
      BY <1>3, <1>7, <2>2
    <3> HIDE DEF T
    <3> QED
      BY <1>5, <3>1, SMT
  <2> QED
    BY <2>1, <2>2
<1>9. 2 * m \in T
  <2>1. m = 0 \/ m = 1 \/ m = 2
    BY <1>5, SMT
  <2>2. CASE m = 0
    <3>1. 2 * m = 0
      BY <2>2, SMT
    <3> QED
      BY <3>1
  <2>3. CASE m = 1
    <3>1. 2 * m = 2 /\ 2 \in 1..n
      BY <1>5, <2>3, SMT
    <3> QED
      BY <1>7, <3>1
  <2>4. CASE m = 2
    <3>1. 2 * m = 4 /\ 4 \in 1..n
      BY <1>5, <2>4, SMT
    <3> QED
      BY <1>7, <3>1
  <2> QED
    BY <2>1, <2>2, <2>3, <2>4
<1>10. Max(T) = 2 * m
  <2> HIDE DEF T
  <2>1. T \in SUBSET Nat
    BY <1>8
  <2> QED
    BY <1>8, <1>9, <2>1, MaxIs
<1>11. Eaten = 2 * m
  BY <1>4, <1>10 DEF Eaten
<1>12. Eaten \in Nat /\ m \in Nat /\ 2 * m \in Nat
  BY <1>5, <1>11, SMT
<1>13. PICK f : Lines = f[Eaten] /\ Growing(f, Eaten)
  BY <1>12, LinesGrow
<1>14. 2 * m \in 0..n /\ 2 * m <= 2 * m
  BY <1>5, SMT
<1>15. f[2 * m] = SubSeq(all, 1, t + m)
  <2> DEFINE e == 2 * m
  <2>1. Growing(f, e) /\ e \in 0..n /\ 2 * m <= e
    BY <1>11, <1>13, <1>14
  <2> HIDE DEF e
  <2>2. Grown(f, all, t, m)
    BY <1>6, <2>1, GrowsTo
  <2> QED
    BY <2>2 DEF Grown
<1>16. Lines = SubSeq(all, 1, t + m)
  BY <1>11, <1>13, <1>15
<1> QED
  BY <1>4, <1>5, <1>6, <1>11, <1>16

-----------------------------------------------------------------------------
(* What is in the parser's buffer.                                         *)

\* The buffer holds the last of the a bytes of ps that have arrived.
Window(buf, a, ps) ==
  /\ buf \in Seq(Units) /\ a \in 0..EndOf(ps, Len(ps)) /\ Len(buf) <= a
  /\ \A j \in 1..Len(buf) : buf[j] = Bytes(ps, Len(ps))[(a - Len(buf)) + j]

\* Where in the packet behind the first n ones it begins.
PlaceOf(buf, a, ps, n) == (a - Len(buf)) - EndOf(ps, n)

\* A part of a sequence.
LEMMA PartIs ==
  ASSUME NEW S, NEW s \in Seq(S), NEW i \in Nat, NEW j \in 0..Len(s), i <= j
  PROVE  /\ SubSeq(s, i + 1, j) \in Seq(S) /\ Len(SubSeq(s, i + 1, j)) = j - i
         /\ \A k \in 1..(j - i) : SubSeq(s, i + 1, j)[k] = s[i + k]
<1>1. Len(s) \in Nat /\ \A k \in 1..Len(s) : s[k] \in S
  BY LenProperties, ElementOfSeq
<1>2. /\ i + 1 \in Int /\ j \in Int
      /\ \A k \in (i + 1)..j : k \in 1..Len(s)
      /\ (IF i + 1 <= j THEN j - (i + 1) + 1 ELSE 0) = j - i /\ j - (i + 1) + 1 = j - i
      /\ \A k \in 1..(j - i) : (i + 1) + k - 1 = i + k
  BY <1>1, SMT
<1>3. \A k \in (i + 1)..j : s[k] \in S
  BY <1>1, <1>2
<1> QED
  BY <1>2, <1>3, SubSeqProperties

\* Units are taken from the front of the buffer.
Dropped(buf, k, rest, a, ps, n) ==
  /\ Window(rest, a, ps) /\ Len(rest) = Len(buf) - k
  /\ \A j \in 1..Len(rest) : rest[j] = buf[k + j]
  /\ PlaceOf(rest, a, ps, n) = PlaceOf(buf, a, ps, n) + k

\* What the parser takes off the front of its buffer moves its place.
LEMMA WindowDrops ==
  ASSUME NEW ps, Sent(ps), NEW buf, NEW a, Window(buf, a, ps), NEW k \in 0..Len(buf),
         NEW rest, rest = SubSeq(buf, k + 1, Len(buf)), NEW n \in 0..Len(ps)
  PROVE  Dropped(buf, k, rest, a, ps, n)
<1> DEFINE m == Len(buf)
<1>1. /\ buf \in Seq(Units) /\ m \in Nat /\ m <= a /\ k \in 0..m
      /\ \A j \in 1..m : buf[j] = Bytes(ps, Len(ps))[(a - m) + j]
  BY LenProperties DEF Window
<1>2. a \in 0..EndOf(ps, Len(ps)) /\ EndOf(ps, Len(ps)) \in Nat /\ EndOf(ps, n) \in Nat
  <2>1. Len(ps) \in 0..Len(ps)
    BY PacketOf, SMT
  <2> QED
    BY <2>1, EndsAre DEF Window
<1> HIDE DEF m
<1>3. a \in Nat /\ k \in Nat /\ m \in 0..m /\ k <= m
  BY <1>1, <1>2, SMT
<1>4. /\ rest \in Seq(Units) /\ Len(rest) = m - k
      /\ \A j \in 1..(m - k) : rest[j] = buf[k + j]
  BY <1>1, <1>3, PartIs DEF m
<1>5. \A j \in 1..(m - k) : k + j \in 1..m /\ (a - m) + (k + j) = (a - (m - k)) + j
  BY <1>1, <1>3, SMT
<1>6. \A j \in 1..(m - k) : rest[j] = Bytes(ps, Len(ps))[(a - (m - k)) + j]
  BY <1>1, <1>4, <1>5
<1>7. m - k <= a
  BY <1>1, <1>3, SMT
<1>8. Window(rest, a, ps)
  BY <1>2, <1>4, <1>6, <1>7 DEF Window
<1>9. (a - (m - k)) - EndOf(ps, n) = ((a - m) - EndOf(ps, n)) + k
  BY <1>1, <1>2, <1>3, SMT
<1> QED
  BY <1>4, <1>8, <1>9 DEF Dropped, PlaceOf, m

\* The place of a unit does not change when more arrive.
LEMMA Shift ==
  ASSUME NEW a \in Nat, NEW m \in Nat, m <= a, NEW k \in Nat, NEW j \in 1..(m + k)
  PROVE  /\ j <= m => j \in 1..m /\ ((a + k) - (m + k)) + j = (a - m) + j
         /\ ~(j <= m) => j - m \in 1..k /\ ((a + k) - (m + k)) + j = a + (j - m)
BY SMT

\* More bytes arrive, and are put behind it.
Filled(buf, k, more, a, ps, n) ==
  Window(more, a + k, ps) /\ PlaceOf(more, a + k, ps, n) = PlaceOf(buf, a, ps, n)

\* What arrives is put behind, and leaves its place.
LEMMA WindowReads ==
  ASSUME NEW ps, Sent(ps), NEW buf, NEW a, Window(buf, a, ps),
         NEW k \in Nat, a + k <= EndOf(ps, Len(ps)), NEW n \in 0..Len(ps),
         NEW more, more = buf \o SubSeq(Bytes(ps, Len(ps)), a + 1, a + k)
  PROVE  Filled(buf, k, more, a, ps, n)
<1> DEFINE m == Len(buf)
           s == Bytes(ps, Len(ps))
           t == SubSeq(s, a + 1, a + k)
<1>1. /\ buf \in Seq(Units) /\ m \in Nat /\ m <= a
      /\ \A j \in 1..m : buf[j] = s[(a - m) + j]
  BY LenProperties DEF Window
<1>2. /\ a \in 0..EndOf(ps, Len(ps)) /\ EndOf(ps, Len(ps)) \in Nat /\ EndOf(ps, n) \in Nat
      /\ s \in Seq(Units) /\ Len(s) = EndOf(ps, Len(ps))
  <2>1. Len(ps) \in 0..Len(ps)
    BY PacketOf, SMT
  <2> QED
    BY <2>1, EndsAre DEF Window, EndOf
<1> HIDE DEF m, s
<1>3. a \in Nat /\ a + k \in 0..Len(s) /\ a <= a + k /\ (a + k) - a = k /\ a + k \in 0..EndOf(ps, Len(ps))
  BY <1>2, SMT
<1>4. t \in Seq(Units) /\ Len(t) = k /\ \A j \in 1..k : t[j] = s[a + j]
  BY <1>2, <1>3, PartIs
<1> HIDE DEF t
<1>5. more = buf \o t
  BY DEF t, s
<1>6. /\ more \in Seq(Units) /\ Len(more) = m + k
      /\ \A j \in 1..(m + k) : more[j] = IF j <= m THEN buf[j] ELSE t[j - m]
  <2>1. Len(buf) = m
    BY DEF m
  <2>2. buf \in Seq(Units) /\ t \in Seq(Units) /\ Len(t) = k
    BY <1>1, <1>4
  <2>3. /\ buf \o t \in Seq(Units) /\ Len(buf \o t) = Len(buf) + Len(t)
        /\ \A j \in 1..(Len(buf) + Len(t)) : (buf \o t)[j] = IF j <= Len(buf) THEN buf[j] ELSE t[j - Len(buf)]
    BY <2>2, ConcatProperties
  <2> QED
    BY <1>5, <2>1, <2>2, <2>3
<1>10. m \in Nat /\ m <= a
  BY <1>1
<1>7. ASSUME NEW j \in 1..(m + k) PROVE more[j] = s[((a + k) - (m + k)) + j]
  <2>1. CASE j <= m
    <3>1. j \in 1..m /\ ((a + k) - (m + k)) + j = (a - m) + j
      BY <1>10, <1>3, <2>1, Shift
    <3> QED
      BY <1>1, <1>6, <2>1, <3>1
  <2>2. CASE ~(j <= m)
    <3>1. j - m \in 1..k /\ ((a + k) - (m + k)) + j = a + (j - m)
      BY <1>10, <1>3, <2>2, Shift
    <3> QED
      BY <1>4, <1>6, <2>2, <3>1
  <2> QED
    BY <2>1, <2>2
<1>8. m + k <= a + k /\ ((a + k) - (m + k)) - EndOf(ps, n) = (a - m) - EndOf(ps, n)
  BY <1>1, <1>2, <1>3, SMT
<1>9. Window(more, a + k, ps)
  BY <1>3, <1>6, <1>7, <1>8 DEF Window, s
<1> QED
  BY <1>6, <1>8, <1>9 DEF Filled, PlaceOf, m

\* A place, by what is in front of it.
LEMMA PlaceSums ==
  ASSUME NEW a \in Nat, NEW m \in Nat, NEW e \in Nat, NEW o \in Nat, (a - m) - e = o
  PROVE  a - m = e + o /\ a = e + o + m
BY SMT

\* From the place o on, the buffer holds the packet s that is n packets behind.
Shown(buf, a, ps, n, s, o) ==
  /\ \A j \in 1..Len(buf) : o + j <= Len(s) => buf[j] = s[o + j]
  /\ o + Len(buf) < Len(s) <=> a < EndOf(ps, n + 1)
  /\ EndOf(ps, n + 1) \in Nat

\* The buffer holds what is still to come of a packet, as far as it is there.
LEMMA WindowShows ==
  ASSUME NEW ps, Sent(ps), NEW buf, NEW a, Window(buf, a, ps), NEW n \in Nat, n < Len(ps),
         NEW s, s = Encode(n + 1, ps[n + 1]), NEW o \in Nat, PlaceOf(buf, a, ps, n) = o, o <= Len(s)
  PROVE  Shown(buf, a, ps, n, s, o)
<1> DEFINE m == Len(buf)
           ww == Bytes(ps, Len(ps))
           e == EndOf(ps, n)
<1>1. /\ buf \in Seq(Units) /\ m \in Nat /\ m <= a
      /\ \A j \in 1..m : buf[j] = ww[(a - m) + j]
  BY LenProperties DEF Window
<1>2. n \in 0..Len(ps) /\ n + 1 \in 0..Len(ps) /\ n + 1 \in 1..Len(ps) /\ Len(ps) \in 0..Len(ps)
  BY PacketOf, SMT
<1>3. a \in 0..EndOf(ps, Len(ps)) /\ EndOf(ps, Len(ps)) \in Nat /\ e \in Nat
  BY <1>2, EndsAre DEF Window
<1>4. s \in Seq(Units)
  BY <1>2, PacketOf, Encoded
<1>5. /\ Len(s) \in Nat /\ e + Len(s) = EndOf(ps, n + 1)
      /\ \A j \in 1..Len(s) : ww[e + j] = s[j]
  BY <1>4, LenProperties, InStream
<1>6. (a - m) - e = o
  BY DEF PlaceOf
<1> HIDE DEF m, ww, e
<1>7. a \in Nat /\ a - m = e + o /\ a = e + o + m
  <2>1. a \in Nat /\ m \in Nat /\ e \in Nat
    BY <1>1, <1>3
  <2> QED
    BY <1>6, <2>1, PlaceSums
<1>8. ASSUME NEW j \in 1..m, o + j <= Len(s) PROVE buf[j] = s[o + j]
  <2>1. (e + o) + j = e + (o + j) /\ o + j \in 1..Len(s)
    BY <1>3, <1>5, <1>8, SMT
  <2>2. buf[j] = ww[(e + o) + j]
    BY <1>1, <1>7
  <2> QED
    BY <1>5, <2>1, <2>2
<1>9. o + m < Len(s) <=> a < e + Len(s)
  BY <1>1, <1>3, <1>5, <1>7, SMT
<1>10. e + Len(s) \in Nat
  BY <1>3, <1>5, SMT
<1> QED
  BY <1>5, <1>8, <1>9, <1>10 DEF m, Shown

-----------------------------------------------------------------------------
(* What the parser has read.                                               *)

\* A packet as the program is to see it.
DecodedOf(ps, i) ==
  [kind |-> IF ps[i].kind = "data" THEN "data" ELSE "message",
   number |-> i,
   data |-> Content(i, ps[i].len)]

\* It has got the first ones, each as it was sent.
GotAll(g, ps) ==
  /\ g \in Seq(Packets) /\ Len(g) <= Len(ps)
  /\ \A i \in 1..Len(g) : g[i] = DecodedOf(ps, i)

\* Where the parser is in the packet behind them, o units of which are read:
\* in front of it, in its header, or in its content.
Between(o) == tmp = "empty" /\ o = 0 /\ cur = <<>> /\ data = <<>>

AtLine(i, p, o, t) ==
  t \in 0..Len(LinesOf(i, p)) /\ cur = SubSeq(LinesOf(i, p), 1, t) /\ o = Before(p) + 2 * t

InHeader(i, p, o) ==
  /\ tmp = "message" /\ reading = FALSE /\ data = <<>>
  /\ p.kind # "data"
  /\ \E t \in 0..2 : AtLine(i, p, o, t)

InContent(i, p, o) ==
  /\ tmp = "message" /\ reading = TRUE
  /\ p.kind \in {"message", "blank"}
  /\ cur = <<>> /\ head = <<"start", i>> /\ clen = p.len
  /\ data = Content(i, Len(data)) /\ o = Len(HeaderOf(i, p)) + Len(data)
  /\ Len(data) < clen \/ (clen < 0 /\ data = <<>>)

Placed(n, ps, o) ==
  Between(o) \/ (n < Len(ps) /\ (InHeader(n + 1, ps[n + 1], o) \/ InContent(n + 1, ps[n + 1], o)))

ParserTypes ==
  /\ cur \in Seq(Units) /\ data \in Seq(Units)
  /\ tmp \in {"empty", "message"} /\ reading \in BOOLEAN
  /\ head \in Units \cup {NoHead} /\ clen \in -1..MaxContent

ParserInv ==
  /\ Sent(packets)
  /\ Window(in, arrived, packets)
  /\ GotAll(got, packets)
  /\ Placed(Len(got), packets, PlaceOf(in, arrived, packets, Len(got)))
  /\ ParserTypes

\* No other packet of ps is whole, if a bytes have arrived.
Stuck(g, ps, a) ==
  Len(g) < Len(ps) => ps[Len(g) + 1].len < 0 \/ a < EndOf(ps, Len(g) + 1)

\* Some of what the lemmas need of it.
LEMMA ParserFacts ==
  ASSUME ParserInv, NEW n, n = Len(got), NEW o, o = PlaceOf(in, arrived, packets, n)
  PROVE  /\ n \in Nat /\ n <= Len(packets) /\ Len(packets) \in Nat /\ n \in 0..Len(packets)
         /\ in \in Seq(Units) /\ Len(in) \in Nat /\ o \in Int
         /\ n < Len(packets) => n + 1 \in 1..MaxPackets /\ packets[n + 1] \in Kinds
<1>1. /\ Sent(packets) /\ Window(in, arrived, packets) /\ GotAll(got, packets)
  BY DEF ParserInv
<1>2. n \in Nat /\ n <= Len(packets) /\ in \in Seq(Units) /\ Len(in) \in Nat
  BY <1>1, LenProperties DEF GotAll, Window
<1>3. Len(packets) \in Nat /\ \A i \in 1..Len(packets) : i \in 1..MaxPackets /\ packets[i] \in Kinds
  BY <1>1, PacketOf
<1>4. n \in 0..Len(packets) /\ (n < Len(packets) => n + 1 \in 1..Len(packets)) /\ Len(packets) \in 0..Len(packets)
  BY <1>2, <1>3, SMT
<1>5. EndOf(packets, n) \in Nat /\ EndOf(packets, Len(packets)) \in Nat
  BY <1>1, <1>4, EndsAre
<1>6. arrived \in Nat
  BY <1>1, <1>5, SMT DEF Window
<1>7. o \in Int
  BY <1>2, <1>5, <1>6, SMT DEF PlaceOf
<1> QED
  BY <1>2, <1>3, <1>4, <1>7

\* Places in a header of h units with q lines, b units in front of them and t of
\* them read, in a packet of s units: o units are read.
HeaderPlace(b, q, t, o, h, s) ==
  /\ o \in Nat /\ o <= s
  /\ \A j \in Nat : 1 <= j /\ j <= 2 * (q - t) + 1 => o + j <= s /\ o + j \in 1..h
  /\ \A k \in 1..(q - t) :
       /\ t + k \in 1..q /\ 2 * k - 1 <= 2 * (q - t) + 1 /\ 2 * k <= 2 * (q - t) + 1
       /\ o + (2 * k - 1) = b + 2 * (t + k) - 1
       /\ o + 2 * k = b + 2 * (t + k)
  /\ o + (2 * (q - t) + 1) = b + 2 * q + 1
  /\ 2 * (q - t) + 1 <= 2 * (q - t) + 1
  /\ q - t \in 0..2 /\ t + (q - t) = q

\* So the numbers are, for headers of one or two lines.
LEMMA HeaderPlaces ==
  ASSUME NEW b \in 0..1, NEW q \in 1..2, NEW t \in 0..q, NEW z \in Nat
  PROVE  HeaderPlace(b, q, t, b + 2 * t, b + 2 * q + 1, (b + 2 * q + 1) + z)
BY SMT DEF HeaderPlace

\* The lines that are still to come are in the buffer.
LEMMA HeaderAhead ==
  ASSUME Sent(packets), Window(in, arrived, packets), NEW n \in Nat, n < Len(packets),
         NEW p, p = packets[n + 1], p.kind # "data", NEW t \in 0..2,
         NEW o, o = PlaceOf(in, arrived, packets, n), AtLine(n + 1, p, o, t)
  PROVE  HeaderRead(LinesOf(n + 1, p), t)
<1> DEFINE l == LinesOf(n + 1, p)
           h == HeaderOf(n + 1, p)
           s == Encode(n + 1, p)
           b == Before(p)
           r == Len(l) - t
           m == Len(in)
<1>1. n + 1 \in 1..MaxPackets /\ p \in Kinds
  <2>1. n + 1 \in 1..Len(packets)
    BY PacketOf, SMT
  <2> QED
    BY <2>1, PacketOf
<1>2. /\ l \in Seq(Units) /\ Len(l) \in 1..2 /\ b \in 0..1
      /\ Len(h) = b + 2 * Len(l) + 1
      /\ \A k \in 1..Len(l) : l[k][1] # "eol" /\ h[b + 2 * k - 1] = l[k] /\ h[b + 2 * k][1] = "eol"
      /\ h[b + 2 * Len(l) + 1][1] = "eol"
  <2>1. l = LinesOf(n + 1, p) /\ h = HeaderOf(n + 1, p) /\ b = Before(p)
    OBVIOUS
  <2> HIDE DEF l, h, b
  <2>2. HeaderIs(h, l, b)
    BY <1>1, <2>1, HeaderLines
  <2> QED
    BY <2>2 DEF HeaderIs
<1>3. /\ s \in Seq(Units) /\ Size(p) \in Nat /\ Len(h) \in 2..5 /\ Len(s) = Len(h) + Size(p)
      /\ \A j \in 1..Len(h) : s[j] = h[j]
  BY <1>1, Encoded
<1>4. t \in 0..Len(l) /\ cur = SubSeq(l, 1, t) /\ o = b + 2 * t
  BY DEF AtLine
<1>5. in \in Seq(Units) /\ m \in Nat
  BY LenProperties DEF Window
<1> HIDE DEF l, h, s, b, m
<1>6. /\ o \in Nat /\ o <= Len(s)
      /\ \A j \in Nat : 1 <= j /\ j <= 2 * r + 1 => o + j <= Len(s) /\ o + j \in 1..Len(h)
      /\ \A k \in 1..r :
           /\ t + k \in 1..Len(l) /\ 2 * k - 1 <= 2 * r + 1 /\ 2 * k <= 2 * r + 1
           /\ o + (2 * k - 1) = b + 2 * (t + k) - 1
           /\ o + 2 * k = b + 2 * (t + k)
      /\ o + (2 * r + 1) = b + 2 * Len(l) + 1
      /\ 2 * r + 1 <= 2 * r + 1
  <2> DEFINE q == Len(l)
             z == Size(p)
  <2>1. q \in 1..2 /\ t \in 0..q /\ z \in Nat /\ b \in 0..1
    BY <1>2, <1>3, <1>4
  <2>2. o = b + 2 * t /\ Len(h) = b + 2 * q + 1 /\ Len(s) = (b + 2 * q + 1) + z
    BY <1>2, <1>3, <1>4
  <2> HIDE DEF q, z
  <2>3. HeaderPlace(b, q, t, b + 2 * t, b + 2 * q + 1, (b + 2 * q + 1) + z)
    BY <2>1, HeaderPlaces
  <2>4. HeaderPlace(b, q, t, o, Len(h), Len(s))
    BY <2>2, <2>3, Zenon
  <2> QED
    BY <2>4 DEF q, HeaderPlace
<1>7. \A j \in 1..m : o + j <= Len(s) => in[j] = s[o + j]
  BY <1>6, WindowShows DEF s, m, Shown
<1>8. \A j \in 1..m : j <= 2 * r + 1 => in[j] = h[o + j]
  <2>1. \A j \in 1..m : j \in Nat /\ 1 <= j
    BY SMT
  <2> QED
    BY <1>3, <1>6, <1>7, <2>1
<1>9. ASSUME NEW k \in 1..r PROVE LineAt(in, k, l[t + k])
  <2>1. /\ t + k \in 1..Len(l) /\ o + (2 * k - 1) = b + 2 * (t + k) - 1
        /\ o + 2 * k = b + 2 * (t + k) /\ 2 * k - 1 <= 2 * r + 1 /\ 2 * k <= 2 * r + 1
    BY <1>6
  <2>2. h[o + (2 * k - 1)] = l[t + k] /\ h[o + 2 * k][1] = "eol"
    BY <1>2, <2>1
  <2> QED
    BY <1>8, <2>1, <2>2 DEF LineAt, m
<1>10. 2 * r + 1 \in 1..m => in[2 * r + 1][1] = "eol"
  BY <1>2, <1>6, <1>8
<1>11. Ahead(in, l, t)
  BY <1>9, <1>10 DEF Ahead, m
<1> QED
  BY <1>2, <1>4, <1>5, <1>11 DEF HeaderRead, l

-----------------------------------------------------------------------------
(* What read() finds.                                                      *)

\* An empty line with nothing in front of it.
LEMMA BlankLine ==
  ASSUME in \in Seq(Units), in # <<>>, in[1][1] = "eol", cur = <<>>
  PROVE  Blanks # {} /\ Eaten = 1 /\ Lines = <<>>
<1>1. Len(in) \in Nat /\ Len(in) # 0 /\ DOMAIN in = 1..Len(in)
  BY LenProperties, EmptySeq
<1>2. 1 \in 1..Len(in) /\ 1 \in Nat /\ \A j \in 1..Len(in) : j \in Nat /\ 1 <= j
  BY <1>1, SMT
<1>3. 1 \in Blanks /\ Blanks \subseteq 1..Len(in)
  BY <1>1, <1>2 DEF Blanks, Ends
<1>4. Min(Blanks) = 1
  <2>1. Blanks \in SUBSET Nat /\ \A j \in Blanks : 1 <= j
    BY <1>2, <1>3
  <2> QED
    BY <1>3, <2>1, MinIs
<1>5. Eaten = 1
  BY <1>3, <1>4 DEF Eaten
<1>6. PICK f : Lines = f[1] /\ Growing(f, 1)
  BY <1>2, <1>5, LinesGrow
<1>7. 1 \in 1..1 /\ 1 - 1 = 0
  BY SMT
<1>8. f[1] = Grow(f[0], in[1]) /\ f[0] = <<>>
  BY <1>6, <1>7 DEF Growing
<1>9. Lines = <<>>
  BY <1>6, <1>8 DEF Grow
<1> QED
  BY <1>3, <1>5, <1>9

\* Which is in front of a packet; or all of the header is there; or a part.
Skips(p, o) == Before(p) = 1 /\ o = 0 /\ Blanks # {} /\ Eaten = 1 /\ Lines = <<>> /\ in # <<>>

Finds(i, p, o) ==
  /\ Blanks # {} /\ Lines = LinesOf(i, p)
  /\ Eaten \in 0..Len(in) /\ o + Eaten = Len(HeaderOf(i, p))

Lacks(i, p, o) ==
  /\ Blanks = {}
  /\ Eaten \in 0..Len(in) /\ o + Len(in) < Len(HeaderOf(i, p))
  /\ \E t \in 0..2 : /\ t \in 0..Len(LinesOf(i, p)) /\ Lines = SubSeq(LinesOf(i, p), 1, t)
                     /\ o + Eaten = Before(p) + 2 * t

\* Numbers of units, in a header of q lines of which t are read.
LEMMA HeaderRest ==
  ASSUME NEW b \in 0..1, NEW q \in 1..2, NEW t \in 0..q, NEW n \in Nat
  PROVE  /\ q - t \in 0..2 /\ q = t + (q - t)
         /\ 2 * (q - t) + 1 <= n => 2 * (q - t) + 1 \in 0..n
         /\ (b + 2 * t) + (2 * (q - t) + 1) = b + 2 * q + 1
         /\ n < 2 * (q - t) + 1 => (b + 2 * t) + n < b + 2 * q + 1
         /\ 2 * (q - t) + 1 <= n \/ n < 2 * (q - t) + 1
         /\ \A m \in 0..(q - t) : /\ t + m \in 0..q /\ t + m \in 0..2
                                  /\ (b + 2 * t) + 2 * m = b + 2 * (t + m)
                                  /\ 2 * m <= n => 2 * m \in 0..n
BY SMT

\* The rest of the header is in the buffer, or its end is not.
LEMMA HeaderFound ==
  ASSUME NEW i \in 1..MaxPackets, NEW p \in Kinds, p.kind # "data",
         NEW o, NEW t \in 0..2, AtLine(i, p, o, t), HeaderRead(LinesOf(i, p), t)
  PROVE  Finds(i, p, o) \/ Lacks(i, p, o)
<1> DEFINE l == LinesOf(i, p)
           q == Len(l)
           b == Before(p)
           r == q - t
           n == Len(in)
<1>1. /\ l \in Seq(Units) /\ q \in 1..2 /\ b \in 0..1
      /\ Len(HeaderOf(i, p)) = b + 2 * q + 1
  BY HeaderLines DEF HeaderIs
<1>2. t \in 0..q /\ o = b + 2 * t
  BY DEF AtLine
<1>3. n \in Nat
  BY LenProperties DEF HeaderRead
<1> HIDE DEF b, n, q, l
<1>4. /\ r \in 0..2 /\ q = t + r
      /\ 2 * r + 1 <= n => 2 * r + 1 \in 0..n
      /\ o + (2 * r + 1) = b + 2 * q + 1
      /\ n < 2 * r + 1 => o + n < b + 2 * q + 1
      /\ 2 * r + 1 <= n \/ n < 2 * r + 1
      /\ \A m \in 0..r : /\ t + m \in 0..q /\ t + m \in 0..2
                         /\ o + 2 * m = b + 2 * (t + m)
                         /\ 2 * m <= n => 2 * m \in 0..n
  BY <1>1, <1>2, <1>3, HeaderRest
<1> HIDE DEF r
<1>5. CASE 2 * r + 1 <= n
  <2>1. Blanks # {} /\ Eaten = 2 * r + 1 /\ Lines = l
    BY <1>3, <1>4, <1>5, LinesComplete DEF l, n, q
  <2> QED
    BY <1>1, <1>4, <1>5, <2>1 DEF Finds, l, n
<1>6. CASE n < 2 * r + 1
  <2>1. /\ Blanks = {}
        /\ \E m \in 0..r : /\ Eaten = 2 * m /\ 2 * m <= n /\ n <= 2 * m + 1
                           /\ Lines = SubSeq(l, 1, t + m)
    <3>1. HeaderRead(l, t) /\ Len(l) = t + r /\ Len(in) = n /\ r \in 0..2 /\ n < 2 * r + 1 /\ n \in Nat
      BY <1>3, <1>4, <1>6 DEF l, n, q
    <3> QED
      BY <3>1, LinesPartial
  <2>2. PICK m \in 0..r : Eaten = 2 * m /\ 2 * m <= n /\ Lines = SubSeq(l, 1, t + m)
    BY <2>1
  <2>3. /\ t + m \in 0..q /\ t + m \in 0..2 /\ o + Eaten = b + 2 * (t + m)
        /\ Eaten \in 0..n
    BY <1>4, <2>2
  <2>4. o + n < Len(HeaderOf(i, p))
    BY <1>1, <1>4, <1>6
  <2> QED
    BY <2>1, <2>2, <2>3, <2>4 DEF Lacks, l, n, q, b
<1> QED
  BY <1>4, <1>5, <1>6

\* The first place of a packet.
LEMMA FirstPlace ==
  ASSUME NEW h \in 2..5, NEW z \in Nat
  PROVE  0 \in Nat /\ 0 <= h + z /\ 0 + 1 <= h + z /\ h + z \in Nat /\ 0 + 1 = 1 /\ 1 \in 1..h
BY SMT

\* Between two packets, the first unit of the buffer is one of the next.
LEMMA FirstUnit ==
  ASSUME ParserInv, tmp = "empty", NEW n, n = Len(got)
  PROVE  /\ cur = <<>> /\ data = <<>> /\ PlaceOf(in, arrived, packets, n) = 0
         /\ in # <<>> => /\ n < Len(packets)
                         /\ 1 \in 1..Len(in) /\ in[1] = HeaderOf(n + 1, packets[n + 1])[1]
<1> DEFINE o == PlaceOf(in, arrived, packets, n)
           m == Len(in)
<1>1. /\ n \in Nat /\ n <= Len(packets) /\ Len(packets) \in Nat /\ n \in 0..Len(packets)
      /\ in \in Seq(Units) /\ m \in Nat
      /\ n < Len(packets) => n + 1 \in 1..MaxPackets /\ packets[n + 1] \in Kinds
  BY ParserFacts
<1>2. Sent(packets) /\ Window(in, arrived, packets) /\ Placed(n, packets, o)
  BY DEF ParserInv
<1>3. cur = <<>> /\ data = <<>> /\ o = 0
  BY <1>2 DEF Placed, Between, InHeader, InContent
<1>4. ASSUME in # <<>>
      PROVE  /\ n < Len(packets)
             /\ 1 \in 1..Len(in) /\ in[1] = HeaderOf(n + 1, packets[n + 1])[1]
  <2>1. m # 0
    BY <1>1, <1>4, EmptySeq
  <2>2. n < Len(packets)
    <3> SUFFICES ASSUME n = Len(packets) PROVE FALSE
      BY <1>1, SMT
    <3>1. EndOf(packets, n) \in Nat
      BY <1>1, <1>2, EndsAre
    <3>2. arrived \in 0..EndOf(packets, n)
      BY <1>2 DEF Window
    <3>3. (arrived - m) - EndOf(packets, n) = 0
      BY <1>3 DEF PlaceOf
    <3> HIDE DEF m
    <3> QED
      BY <1>1, <2>1, <3>1, <3>2, <3>3, SMT
  <2> DEFINE s == Encode(n + 1, packets[n + 1])
             h == HeaderOf(n + 1, packets[n + 1])
  <2>3. Len(h) \in 2..5 /\ Size(packets[n + 1]) \in Nat /\ Len(s) = Len(h) + Size(packets[n + 1])
        /\ \A j \in 1..Len(h) : s[j] = h[j]
    BY <1>1, <2>2, Encoded
  <2> HIDE DEF s, h
  <2>4. 0 \in Nat /\ 0 <= Len(s) /\ 0 + 1 <= Len(s) /\ 0 + 1 = 1 /\ 1 \in 1..Len(h)
    <3>1. Len(h) \in 2..5 /\ Size(packets[n + 1]) \in Nat /\ Len(s) = Len(h) + Size(packets[n + 1])
      BY <2>3
    <3> QED
      BY <3>1, FirstPlace
  <2>5. 1 \in 1..Len(in)
    <3> HIDE DEF m
    <3>1. 1 \in 1..m
      BY <1>1, <2>1, SMT
    <3> QED
      BY <3>1 DEF m
  <2>6. in[1] = s[1]
    <3>1. \A j \in 1..Len(in) : 0 + j <= Len(s) => in[j] = s[0 + j]
      BY <1>1, <1>2, <1>3, <2>2, <2>4, WindowShows DEF s, Shown
    <3> QED
      BY <2>4, <2>5, <3>1
  <2> QED
    BY <2>2, <2>3, <2>4, <2>5, <2>6 DEF h
<1> QED
  BY <1>3, <1>4

\* So is it when a message is read that has no content yet.
LEMMA Heading ==
  ASSUME ParserInv, Reading(FALSE), NEW n, n = Len(got), NEW p, p = packets[n + 1],
         NEW o, o = PlaceOf(in, arrived, packets, n)
  PROVE  /\ n < Len(packets) /\ p.kind # "data" /\ data = <<>> /\ o \in Nat
         /\ Skips(p, o) \/ Finds(n + 1, p, o) \/ Lacks(n + 1, p, o)
<1>1. /\ n \in Nat /\ n <= Len(packets) /\ Len(packets) \in Nat
      /\ in \in Seq(Units) /\ Len(in) \in Nat
      /\ n < Len(packets) => n + 1 \in 1..MaxPackets /\ p \in Kinds
  BY ParserFacts
<1>2. Sent(packets) /\ Window(in, arrived, packets) /\ Placed(n, packets, o) /\ ParserTypes
  BY DEF ParserInv
<1>3. tmp = "message" \/ (in # <<>> /\ in[1][1] # "dollar")
  BY DEF Reading
<1>4. tmp = "message" => reading = FALSE
  BY <1>2 DEF Reading, ParserTypes
<1>5. ASSUME n < Len(packets), p.kind # "data", NEW t \in 0..2, AtLine(n + 1, p, o, t)
      PROVE  o \in Nat /\ (Finds(n + 1, p, o) \/ Lacks(n + 1, p, o))
  <2>1. HeaderRead(LinesOf(n + 1, p), t)
    BY <1>1, <1>2, <1>5, HeaderAhead
  <2>2. Before(p) \in 0..1
    BY DEF Before
  <2>3. o = Before(p) + 2 * t
    BY <1>5 DEF AtLine
  <2>4. Before(p) + 2 * t \in Nat
    BY <2>2, SMT
  <2> QED
    BY <1>1, <1>5, <2>1, <2>3, <2>4, HeaderFound
<1>6. CASE Between(o)
  <2>1. in # <<>> /\ in[1][1] # "dollar" /\ cur = <<>> /\ data = <<>> /\ o = 0 /\ tmp = "empty"
    BY <1>3, <1>6 DEF Between
  <2>2. n < Len(packets) /\ 1 \in 1..Len(in) /\ in[1] = HeaderOf(n + 1, p)[1]
    BY <2>1, FirstUnit
  <2>3. p.kind # "data"
    BY <2>1, <2>2 DEF HeaderOf
  <2>4. LinesOf(n + 1, p) \in Seq(Units) /\ Len(LinesOf(n + 1, p)) \in 1..2
    BY <1>1, <2>2, <2>3, HeaderLines DEF HeaderIs
  <2>5. CASE Before(p) = 1
    <3>1. in[1][1] = "eol"
      BY <1>1, <2>2, <2>3, <2>5, HeaderLines DEF HeaderIs
    <3> QED
      BY <1>1, <2>1, <2>2, <2>3, <2>5, <3>1, BlankLine, SMT DEF Skips
  <2>6. CASE Before(p) = 0
    <3>1. 0 \in 0..Len(LinesOf(n + 1, p)) /\ 0 \in 0..2 /\ 0 = 0 + 2 * 0
      BY <2>4, SMT
    <3>2. SubSeq(LinesOf(n + 1, p), 1, 0) = <<>>
      BY <2>4, SubSeqEmpty, SMT
    <3>3. AtLine(n + 1, p, o, 0)
      BY <2>1, <2>6, <3>1, <3>2 DEF AtLine
    <3> QED
      BY <1>5, <2>1, <2>2, <2>3, <3>1, <3>3
  <2> QED
    BY <2>5, <2>6 DEF Before
<1>7. CASE n < Len(packets) /\ InHeader(n + 1, p, o)
  BY <1>5, <1>7 DEF InHeader
<1>8. CASE InContent(n + 1, p, o)
  BY <1>4, <1>8 DEF InContent
<1> QED
  BY <1>2, <1>6, <1>7, <1>8 DEF Placed

-----------------------------------------------------------------------------
(* What read() takes of the content.                                       *)

\* The less of two numbers.
LEMMA MinOfTwo ==
  ASSUME NEW a \in Nat, NEW b \in Nat
  PROVE  Min({a, b}) = IF a <= b THEN a ELSE b
<1>1. CASE a <= b
  <2>1. \A n \in {a, b} : a <= n
    BY <1>1
  <2> QED
    BY <1>1, <2>1, MinIs
<1>2. CASE ~(a <= b)
  <2>1. \A n \in {a, b} : b <= n
    BY <1>2
  <2> QED
    BY <1>2, <2>1, MinIs
<1> QED
  BY <1>1, <1>2

\* So many bytes of content.
LEMMA ContentOf ==
  ASSUME NEW i \in 1..MaxPackets, NEW m \in Nat
  PROVE  /\ Content(i, m) \in Seq(Units) /\ Len(Content(i, m)) = m
         /\ \A j \in 1..m : Content(i, m)[j] = <<"eol", i>>
<1>1. <<"eol", i>> \in Units
  BY DEF Units
<1>2. Content(i, m) \in [1..m -> Units]
  BY <1>1 DEF Content
<1>3. Content(i, m) \in Seq(Units)
  BY <1>2, SeqDef
<1>4. Len(Content(i, m)) = m
  BY <1>2, <1>3, LenProperties
<1> QED
  BY <1>3, <1>4 DEF Content

\* How many bytes are taken, if c are announced, d are there and r follow; z is
\* the size of the content, h that of the header.
Takes(c, d, r) == IF c > 0 THEN Min({c - d, r}) ELSE 0

TakesWell(c, d, r, h, z, k) ==
  /\ k \in 0..r /\ d + k \in Nat /\ d + k <= z /\ d <= z
  /\ d + k = c => (h + d) + k = h + z
  /\ d + k # c => d + k < c \/ (c < 0 /\ d + k = 0)
  /\ d + k # c => c < 0 \/ (h + d) + r < h + z

\* It takes no more than is there and is announced, and all when that is enough.
LEMMA TakesSome ==
  ASSUME NEW c \in Int, NEW d \in Nat, NEW r \in Nat, d < c \/ d = 0, NEW h \in 2..5,
         NEW z \in Nat, z = IF c > 0 THEN c ELSE 0, NEW k, k = Takes(c, d, r)
  PROVE  TakesWell(c, d, r, h, z, k)
<1>1. CASE c > 0
  <2>1. c - d \in Nat
    BY <1>1
  <2>2. k = IF c - d <= r THEN c - d ELSE r
    BY <1>1, <2>1, MinOfTwo DEF Takes
  <2>3. k \in Nat
    BY <2>1, <2>2
  <2> QED
    BY <1>1, <2>1, <2>2, <2>3 DEF TakesWell
<1>2. CASE ~(c > 0)
  <2>1. k = 0
    BY <1>2 DEF Takes
  <2> QED
    BY <1>2, <2>1 DEF TakesWell
<1> QED
  BY <1>1, <1>2

\* Where they are, of k bytes behind q + d units of a packet of q + z.
LEMMA TakesPlaces ==
  ASSUME NEW d \in Nat, NEW m \in Nat, NEW k \in 0..m, NEW z \in Nat, d + k <= z, NEW q \in 2..5
  PROVE  /\ k \in Nat /\ d + k \in Nat /\ q + d \in Nat /\ q + d <= q + z
         /\ \A j \in 1..k : /\ j \in 1..m /\ (q + d) + j <= q + z /\ (q + d) + j = q + (d + j)
                            /\ d + j \in 1..z /\ d + j \in 1..(d + k)
         /\ \A j \in 1..d : j \in 1..(d + k)
         /\ k - 0 = k /\ 0 + 1 = 1 /\ 0 \in Nat /\ 0 <= k
BY SMT

\* The content goes on with what is taken.
ContentAt(ps, a, n, p, rest, d) ==
  /\ n \in Nat /\ n < Len(ps) /\ p = ps[n + 1]
  /\ Window(rest, a, ps)
  /\ d \in Nat /\ PlaceOf(rest, a, ps, n) = Len(HeaderOf(n + 1, p)) + d

\* What it takes is the content that follows.
LEMMA TakesContent ==
  ASSUME NEW ps, Sent(ps), NEW a, NEW n, NEW p, NEW rest, NEW d, ContentAt(ps, a, n, p, rest, d)
  PROVE  \A k \in 0..Len(rest) : d + k <= Size(p) =>
           Content(n + 1, d) \o SubSeq(rest, 1, k) = Content(n + 1, d + k)
<1> SUFFICES ASSUME NEW k \in 0..Len(rest), d + k <= Size(p)
             PROVE  Content(n + 1, d) \o SubSeq(rest, 1, k) = Content(n + 1, d + k)
  OBVIOUS
<1> DEFINE i == n + 1
           h == HeaderOf(n + 1, p)
           s == Encode(n + 1, p)
           o == Len(h) + d
           m == Len(rest)
<1>0. /\ n \in Nat /\ n < Len(ps) /\ p = ps[n + 1] /\ Window(rest, a, ps)
      /\ d \in Nat /\ PlaceOf(rest, a, ps, n) = o
  BY DEF ContentAt
<1>1. i \in 1..MaxPackets /\ p \in Kinds
  <2>1. n + 1 \in 1..Len(ps)
    BY <1>0, PacketOf, SMT
  <2> QED
    BY <1>0, <2>1, PacketOf
<1>2. /\ s \in Seq(Units) /\ Size(p) \in Nat /\ Len(h) \in 2..5 /\ Len(s) = Len(h) + Size(p)
      /\ \A j \in 1..Size(p) : s[Len(h) + j] = <<"eol", i>>
  BY <1>1, Encoded
<1> HIDE DEF s, h
<1>3. rest \in Seq(Units) /\ m \in Nat
  BY <1>0, LenProperties DEF Window
<1> HIDE DEF i
<1>4. /\ k \in Nat /\ d + k \in Nat /\ o \in Nat /\ o <= Len(s)
      /\ \A j \in 1..k : /\ j \in 1..m /\ o + j <= Len(s) /\ o + j = Len(h) + (d + j)
                         /\ d + j \in 1..Size(p) /\ d + j \in 1..(d + k)
      /\ \A j \in 1..d : j \in 1..(d + k)
      /\ k - 0 = k /\ 0 + 1 = 1 /\ 0 \in Nat /\ 0 <= k
  <2> DEFINE z == Size(p)
             q == Len(h)
  <2>1. z \in Nat /\ q \in 2..5 /\ Len(s) = q + z /\ d + k <= z /\ k \in 0..m /\ m \in Nat
    BY <1>2, <1>3
  <2>0. d \in Nat
    BY <1>0
  <2> HIDE DEF z, q, m
  <2>2. /\ k \in Nat /\ d + k \in Nat /\ q + d \in Nat /\ q + d <= q + z
        /\ \A j \in 1..k : /\ j \in 1..m /\ (q + d) + j <= q + z /\ (q + d) + j = q + (d + j)
                           /\ d + j \in 1..z /\ d + j \in 1..(d + k)
        /\ \A j \in 1..d : j \in 1..(d + k)
        /\ k - 0 = k /\ 0 + 1 = 1 /\ 0 \in Nat /\ 0 <= k
    BY <2>0, <2>1, TakesPlaces
  <2> QED
    BY <2>1, <2>2 DEF z, q
<1>5. \A j \in 1..m : o + j <= Len(s) => rest[j] = s[o + j]
  <2>1. o \in Nat /\ o <= Len(s) /\ PlaceOf(rest, a, ps, n) = o
    BY <1>0, <1>4
  <2>2. s = Encode(n + 1, ps[n + 1])
    BY <1>0 DEF s
  <2>3. Sent(ps) /\ Window(rest, a, ps) /\ n \in Nat /\ n < Len(ps)
    BY <1>0
  <2> HIDE DEF o
  <2>4. Shown(rest, a, ps, n, s, o)
    BY <2>1, <2>2, <2>3, WindowShows
  <2> QED
    BY <2>4 DEF m, Shown
<1> DEFINE t == SubSeq(rest, 1, k)
<1>6. t \in Seq(Units) /\ Len(t) = k /\ \A j \in 1..k : t[j] = rest[j]
  <2>1. /\ SubSeq(rest, 0 + 1, k) \in Seq(Units) /\ Len(SubSeq(rest, 0 + 1, k)) = k - 0
        /\ \A j \in 1..(k - 0) : SubSeq(rest, 0 + 1, k)[j] = rest[0 + j]
    BY <1>3, <1>4, PartIs
  <2>2. \A j \in 1..k : 0 + j = j
    BY SMT
  <2> QED
    BY <1>4, <2>1, <2>2
<1> HIDE DEF t
<1>7. ASSUME NEW j \in 1..k PROVE t[j] = <<"eol", i>>
  <2>1. j \in 1..m /\ o + j <= Len(s) /\ o + j = Len(h) + (d + j) /\ d + j \in 1..Size(p)
    BY <1>4
  <2>2. t[j] = rest[j] /\ rest[j] = s[o + j]
    BY <1>5, <1>6, <2>1
  <2>3. s[Len(h) + (d + j)] = <<"eol", i>>
    BY <1>2, <2>1
  <2> QED
    BY <2>1, <2>2, <2>3
<1>8. /\ Content(i, d) \in Seq(Units) /\ Len(Content(i, d)) = d
      /\ \A j \in 1..d : Content(i, d)[j] = <<"eol", i>>
  BY <1>0, <1>1, ContentOf
<1>9. /\ Content(i, d + k) \in Seq(Units) /\ Len(Content(i, d + k)) = d + k
      /\ \A j \in 1..(d + k) : Content(i, d + k)[j] = <<"eol", i>>
  BY <1>1, <1>4, ContentOf
<1>10. /\ \A j \in 1..d : Content(i, d + k)[j] = Content(i, d)[j]
       /\ \A j \in 1..k : Content(i, d + k)[d + j] = t[j]
  BY <1>4, <1>7, <1>8, <1>9
<1>11. Content(i, d) \o t = Content(i, d + k)
  <2> DEFINE x == Content(i, d)
             y == Content(i, d + k)
  <2>1. /\ x \in Seq(Units) /\ t \in Seq(Units) /\ y \in Seq(Units) /\ Len(y) = Len(x) + Len(t)
        /\ \A j \in 1..Len(x) : y[j] = x[j]
        /\ \A j \in 1..Len(t) : y[Len(x) + j] = t[j]
    BY <1>6, <1>8, <1>9, <1>10
  <2> HIDE DEF x, y
  <2>2. x \o t = y
    BY <2>1, JoinIs
  <2> QED
    BY <2>2 DEF x, y
<1> QED
  BY <1>11 DEF i, t

-----------------------------------------------------------------------------
(* The steps of the parser.                                                *)

\* One packet more.
LEMMA GotMore ==
  ASSUME NEW ps, Sent(ps), NEW g, GotAll(g, ps), Len(g) < Len(ps)
  PROVE  /\ GotAll(Append(g, DecodedOf(ps, Len(g) + 1)), ps)
         /\ Len(Append(g, DecodedOf(ps, Len(g) + 1))) = Len(g) + 1
<1> DEFINE n == Len(g)
           d == DecodedOf(ps, n + 1)
           more == Append(g, d)
<1>1. g \in Seq(Packets) /\ n \in Nat /\ \A i \in 1..n : g[i] = DecodedOf(ps, i)
  BY LenProperties DEF GotAll
<1>2. n + 1 \in 1..MaxPackets /\ ps[n + 1] \in Kinds /\ n + 1 <= Len(ps)
  <2>1. n + 1 \in 1..Len(ps) /\ n + 1 <= Len(ps)
    BY <1>1, PacketOf, SMT
  <2> QED
    BY <2>1, PacketOf
<1>3. d \in Packets
  <2>1. Content(n + 1, ps[n + 1].len) \in Seq(Units)
    BY <1>2, ContentIs
  <2> QED
    BY <1>2, <2>1 DEF DecodedOf, Packets
<1> HIDE DEF d
<1>5. more \in Seq(Packets) /\ Len(more) = n + 1 /\ more[n + 1] = d /\ \A i \in 1..n : more[i] = g[i]
  BY <1>1, <1>3, AppendProperties
<1> HIDE DEF n, more
<1>6. ASSUME NEW i \in 1..(n + 1) PROVE more[i] = DecodedOf(ps, i)
  <2>1. i \in 1..n \/ i = n + 1
    BY <1>1, SMT
  <2> QED
    BY <1>1, <1>5, <2>1 DEF d
<1> QED
  BY <1>2, <1>5, <1>6 DEF GotAll, n, d, more

\* The end of a packet is where the next one starts.
LEMMA NextPlace ==
  ASSUME NEW ps, Sent(ps), NEW buf, NEW a, Window(buf, a, ps), NEW n \in Nat, n < Len(ps),
         PlaceOf(buf, a, ps, n) = Len(Encode(n + 1, ps[n + 1]))
  PROVE  PlaceOf(buf, a, ps, n + 1) = 0
<1> DEFINE m == Len(buf)
           e == EndOf(ps, n)
           s == Len(Encode(n + 1, ps[n + 1]))
<1>1. n \in 0..Len(ps) /\ n + 1 \in 1..Len(ps) /\ Len(ps) \in 0..Len(ps)
  BY PacketOf, SMT
<1>2. e \in Nat /\ EndOf(ps, Len(ps)) \in Nat /\ EndOf(ps, n + 1) = e + s
  BY <1>1, EndsAre
<1>3. Encode(n + 1, ps[n + 1]) \in Seq(Units)
  BY <1>1, PacketOf, Encoded
<1>4. s \in Nat /\ m \in Nat /\ a \in 0..EndOf(ps, Len(ps))
  BY <1>3, LenProperties DEF Window
<1>5. (a - m) - e = s
  BY DEF PlaceOf
<1>6. a \in Nat
  BY <1>2, <1>4
<1> HIDE DEF m, e, s
<1>7. a - m = e + s
  BY <1>2, <1>4, <1>5, <1>6, PlaceSums
<1>8. (e + s) - (e + s) = 0
  BY <1>2, <1>4, SMT
<1> QED
  BY <1>2, <1>7, <1>8 DEF PlaceOf, m

\* The content of a packet has been read in part, or is to be.
Began(n, p, rest) ==
  /\ n = Len(got)
  /\ p.kind \in {"message", "blank"} /\ p.len <= MaxContent
  /\ ContentAt(packets, arrived, n, p, rest, Len(data))
  /\ data = Content(n + 1, Len(data))
  /\ Len(data) < p.len \/ data = <<>>

\* What has been read of it is kept until all of it is there.
LEMMA TakeKeeps ==
  ASSUME ParserInv, NEW n, NEW p, NEW rest, Began(n, p, rest),
         Take(<<"start", n + 1>>, p.len, rest), UNCHANGED <<packets, arrived>>
  PROVE  ParserInv' /\ (Stuck(got, packets, arrived)' \/ busy' = busy)
<1> DEFINE i == n + 1
           u == <<"start", n + 1>>
           c == p.len
           d == Len(data)
           r == Len(rest)
           z == Size(p)
           q == Len(HeaderOf(i, p))
           k == Takes(c, d, r)
           whole == data \o SubSeq(rest, 1, k)
           s == Encode(i, p)
<1>0. /\ n = Len(got) /\ n < Len(packets) /\ p = packets[n + 1] /\ Window(rest, arrived, packets)
      /\ p.kind \in {"message", "blank"} /\ c <= MaxContent 
      /\ d < c \/ data = <<>>
  BY DEF Began, ContentAt
<1>1. /\ n \in Nat /\ Len(packets) \in Nat /\ n \in 0..Len(packets) /\ i \in 1..MaxPackets /\ p \in Kinds
      /\ i \in Nat /\ i \in 0..Len(packets)
  <2>1. /\ n \in Nat /\ Len(packets) \in Nat /\ n \in 0..Len(packets)
        /\ i \in 1..MaxPackets /\ p \in Kinds
    BY <1>0, ParserFacts
  <2> QED
    BY <1>0, <2>1, SMT
<1>2. /\ Sent(packets) /\ GotAll(got, packets)
      /\ cur \in Seq(Units) /\ data \in Seq(Units) /\ d \in Nat
      /\ rest \in Seq(Units) /\ r \in Nat
  BY <1>0, LenProperties DEF ParserInv, ParserTypes, Window
<1>3. c \in Int /\ c >= -1 /\ c <= MaxContent /\ MaxContent \in Nat /\ z = IF c > 0 THEN c ELSE 0
  BY <1>0, <1>1, KindsAre, RtspClientAssumption DEF Size
<1>4. z \in Nat /\ q \in 2..5 /\ Len(s) = q + z
  BY <1>1, Encoded
<1>5. d < c \/ d = 0
  <2>1. data = <<>> => d = 0
    OBVIOUS
  <2> QED
    BY <1>0, <2>1
<1> HIDE DEF i, u, c, d, r, z, q, k, s
<1>6. /\ k \in 0..r /\ d + k \in Nat /\ d + k <= z /\ d <= z
      /\ d + k = c => (q + d) + k = q + z
      /\ d + k # c => d + k < c \/ (c < 0 /\ d + k = 0)
      /\ d + k # c => c < 0 \/ (q + d) + r < q + z
  <2>1. TakesWell(c, d, r, q, z, k)
    BY <1>2, <1>3, <1>4, <1>5, TakesSome DEF k
  <2> QED
    BY <2>1 DEF TakesWell
<1>7. whole = Content(i, d + k)
  <2>1. Content(n + 1, d) \o SubSeq(rest, 1, k) = Content(n + 1, d + k)
    <3>1. k \in 0..Len(rest) /\ d + k <= Size(p)
      BY <1>6 DEF r, z
    <3>2. ContentAt(packets, arrived, n, p, rest, d)
      BY DEF Began, d
    <3>3. Sent(packets)
      BY <1>2
    <3>4. \A j \in 0..Len(rest) : d + j <= Size(p) =>
            Content(n + 1, d) \o SubSeq(rest, 1, j) = Content(n + 1, d + j)
      BY <3>2, <3>3, TakesContent
    <3> QED
      BY <3>1, <3>4
  <2> QED
    BY <2>1 DEF Began, i, d
<1>8. whole \in Seq(Units) /\ Len(whole) = d + k
  BY <1>1, <1>6, <1>7, ContentOf
<1> HIDE DEF whole
<1>9. /\ in' = SubSeq(rest, k + 1, Len(rest)) /\ cur' = <<>> /\ clen' = c /\ reading' = TRUE
      /\ IF Len(whole) = c
           THEN Deliver("message", i, whole) /\ tmp' = "empty" /\ head' = NoHead /\ data' = <<>>
           ELSE Stop(FALSE) /\ tmp' = "message" /\ head' = u /\ data' = whole
  BY Zenon DEF Take, Takes, whole, k, c, r, d, u, i
<1>10. /\ Window(in', arrived, packets)
       /\ PlaceOf(in', arrived, packets, n) = (q + d) + k
  <2>1. k \in 0..Len(rest) /\ PlaceOf(rest, arrived, packets, n) = q + d
    BY <1>6 DEF Began, ContentAt, r, q, d, i
  <2> QED
    <3>1. /\ Sent(packets) /\ Window(rest, arrived, packets) /\ n \in 0..Len(packets)
          /\ in' = SubSeq(rest, k + 1, Len(rest))
      BY <1>0, <1>1, <1>2, <1>9
    <3>2. Dropped(rest, k, in', arrived, packets, n)
      BY <2>1, <3>1, WindowDrops
    <3> QED
      BY <2>1, <3>2 DEF Dropped
<1>11. packets' = packets /\ arrived' = arrived
  OBVIOUS
<1>12. /\ <<>> \in Seq(Units) /\ clen' \in -1..MaxContent /\ u \in Units
  BY <1>1, <1>3, <1>9 DEF Units, u, i
<1>13. CASE Len(whole) = c
  <2>1. /\ got' = Append(got, [kind |-> "message", number |-> i, data |-> whole]) /\ busy' = busy
        /\ tmp' = "empty" /\ head' = NoHead /\ data' = <<>>
    BY <1>9, <1>13 DEF Deliver
  <2>2. got' = Append(got, DecodedOf(packets, n + 1))
    BY <1>0, <1>7, <1>8, <1>13, <2>1 DEF DecodedOf, i, c
  <2>3. GotAll(got', packets) /\ Len(got') = n + 1
    <3>1. Sent(packets) /\ GotAll(got, packets) /\ got' = Append(got, DecodedOf(packets, n + 1))
      BY <1>2, <2>2
    <3> QED
      BY <1>0, <1>1, <3>1, GotMore
  <2>4. PlaceOf(in', arrived, packets, n + 1) = 0
    <3>1. PlaceOf(in', arrived, packets, n) = Len(Encode(n + 1, packets[n + 1]))
      BY <1>0, <1>4, <1>6, <1>8, <1>10, <1>13 DEF s, i
    <3> QED
      BY <1>0, <1>1, <1>2, <1>10, <3>1, NextPlace
  <2>5. Placed(Len(got), packets, PlaceOf(in, arrived, packets, Len(got)))'
    BY <1>0, <1>9, <1>11, <2>1, <2>3, <2>4 DEF Placed, Between
  <2> QED
    BY <1>2, <1>9, <1>10, <1>11, <1>12, <2>1, <2>3, <2>5 DEF ParserInv, ParserTypes
<1>14. CASE Len(whole) # c
  <2>1. got' = got /\ tmp' = "message" /\ head' = u /\ data' = whole
    BY <1>9, <1>14 DEF Stop
  <2>2. d + k < c \/ (c < 0 /\ whole = <<>>)
    BY <1>6, <1>8, <1>14, EmptySeq
  <2>3. InContent(n + 1, packets[n + 1], PlaceOf(in, arrived, packets, n))'
    <3>1. data' = Content(n + 1, Len(data')) /\ Len(data') = d + k
      BY <1>7, <1>8, <2>1 DEF i
    <3>2. (q + d) + k = q + (d + k)
      BY <1>2, <1>4, <1>6, SMT
    <3>3. PlaceOf(in', arrived', packets', n) = Len(HeaderOf(n + 1, p)) + Len(data')
      BY <1>10, <1>11, <3>1, <3>2 DEF q, i
    <3> QED
      BY <1>0, <1>9, <1>11, <2>1, <2>2, <3>1, <3>3 DEF InContent, u, c
  <2>4. Placed(Len(got), packets, PlaceOf(in, arrived, packets, Len(got)))'
    BY <1>0, <1>11, <2>1, <2>3 DEF Placed
  <2>5. Stuck(got', packets, arrived)
    <3>1. ASSUME (q + d) + r < q + z PROVE arrived < EndOf(packets, n + 1)
      <4>1. q + d \in Nat /\ q + d <= Len(s)
        BY <1>2, <1>4, <1>6, SMT
      <4>2. PlaceOf(rest, arrived, packets, n) = q + d
        BY DEF Began, ContentAt, q, d, i
      <4>3. (q + d) + Len(rest) < Len(s)
        BY <1>4, <3>1 DEF r
      <4> DEFINE o == q + d
      <4>4. o \in Nat /\ o <= Len(s) /\ PlaceOf(rest, arrived, packets, n) = o /\ o + Len(rest) < Len(s)
        BY <4>1, <4>2, <4>3
      <4> HIDE DEF o
      <4> QED
        <5>1. /\ Sent(packets) /\ Window(rest, arrived, packets) /\ n \in Nat /\ n < Len(packets)
              /\ s = Encode(n + 1, packets[n + 1])
          BY <1>0, <1>1, <1>2 DEF s, i
        <5> HIDE DEF s
        <5> QED
          BY <4>4, <5>1, WindowShows DEF Shown
    <3> QED
      BY <1>0, <1>6, <1>8, <1>14, <2>1, <3>1 DEF Stuck, c
  <2> QED
    BY <1>2, <1>8, <1>9, <1>10, <1>11, <1>12, <2>1, <2>4, <2>5 DEF ParserInv, ParserTypes
<1> QED
  BY <1>13, <1>14

\* A packet that is not whole yet.
LEMMA NotWhole ==
  ASSUME NEW ps, Sent(ps), NEW buf, NEW a, Window(buf, a, ps), NEW n \in Nat, n < Len(ps),
         NEW o \in Nat, PlaceOf(buf, a, ps, n) = o, o + Len(buf) < Len(Encode(n + 1, ps[n + 1]))
  PROVE  a < EndOf(ps, n + 1)
<1> DEFINE s == Encode(n + 1, ps[n + 1])
           m == Len(buf)
<1>1. n + 1 \in 1..Len(ps)
  BY PacketOf, SMT
<1>2. s \in Seq(Units)
  BY <1>1, PacketOf, Encoded
<1>3. Len(s) \in Nat /\ m \in Nat /\ o + m < Len(s)
  BY <1>2, LenProperties DEF Window
<1> HIDE DEF s, m
<1>4. o <= Len(s)
  BY <1>3, SMT
<1> QED
  BY <1>3, <1>4, WindowShows DEF s, m, Shown

\* Nothing is left in the buffer.
LEMMA ReadNothingKeeps ==
  ASSUME ParserInv, ReadNothing
  PROVE  ParserInv' /\ Stuck(got, packets, arrived)'
<1> DEFINE n == Len(got)
           p == packets[n + 1]
<1>1. /\ tmp = "empty" /\ in = <<>>
      /\ UNCHANGED <<packets, arrived, in, cur, tmp, head, reading, clen, data, got>>
  BY DEF ReadNothing, parserVars, Stop
<1>2. ParserInv'
  BY <1>1 DEF ParserInv, ParserTypes, Placed, Between, InHeader, InContent, AtLine
<1>3. ASSUME n < Len(packets) PROVE arrived < EndOf(packets, n + 1)
  <2>1. /\ n \in Nat /\ n + 1 \in 1..MaxPackets /\ p \in Kinds
        /\ PlaceOf(in, arrived, packets, n) = 0
    BY <1>1, <1>3, ParserFacts, FirstUnit
  <2>2. Sent(packets) /\ Window(in, arrived, packets)
    BY DEF ParserInv
  <2> HIDE DEF n
  <2>3. Len(HeaderOf(n + 1, p)) \in 2..5 /\ Size(p) \in Nat
        /\ Len(Encode(n + 1, p)) = Len(HeaderOf(n + 1, p)) + Size(p)
    BY <2>1, Encoded
  <2>4. 0 + 1 <= Len(Encode(n + 1, p)) /\ 0 \in Nat
    BY <2>3, FirstPlace
  <2>5. 0 + Len(in) < Len(Encode(n + 1, p))
    <3>1. Len(in) = 0
      BY <1>1
    <3>2. Len(Encode(n + 1, p)) \in Nat
      BY <2>3
    <3> QED
      BY <2>4, <3>1, <3>2, SMT
  <2> QED
    BY <1>3, <2>1, <2>2, <2>4, <2>5, NotWhole
<1>4. Stuck(got, packets, arrived)
  BY <1>3 DEF Stuck
<1> QED
  BY <1>1, <1>2, <1>4

\* Interleaved data.
LEMMA DataHeader ==
  ASSUME NEW i \in 1..MaxPackets, NEW p \in Kinds, HeaderOf(i, p)[1][1] = "dollar"
  PROVE  /\ p.kind = "data" /\ p.len \in Nat /\ Size(p) = p.len
         /\ HeaderOf(i, p)[1][2] = i /\ Len(HeaderOf(i, p)) = 2
         /\ Len(Encode(i, p)) = 2 + p.len
<1>1. p.kind \in {"message", "blank", "bad", "data"} /\ p.len \in Int /\ (p.kind = "data" => p.len >= 0)
  BY KindsAre
<1>2. p.kind = "data"
  BY <1>1 DEF HeaderOf
<1>3. HeaderOf(i, p) = << <<"dollar", i>>, <<"size", i>> >>
  BY <1>2 DEF HeaderOf
<1>4. p.len \in Nat /\ Size(p) = p.len
  BY <1>1, <1>2, SMT DEF Size
<1>5. Len(Encode(i, p)) = Len(HeaderOf(i, p)) + Size(p)
  BY Encoded
<1> QED
  BY <1>2, <1>3, <1>4, <1>5

\* read() of interleaved data signals the packet that it is in front of, or waits
\* because it is not whole.
LEMMA ReadInterleavedKeeps ==
  ASSUME ParserInv, ReadInterleaved
  PROVE  ParserInv' /\ (Stuck(got, packets, arrived)' \/ busy')
<1> DEFINE n == Len(got)
           i == n + 1
           p == packets[i]
           s == Encode(i, p)
           h == HeaderOf(i, p)
           k == 2 + p.len
           m == Len(in)
<1>1. /\ busy /\ tmp = "empty" /\ in # <<>> /\ in[1][1] = "dollar"
      /\ UNCHANGED <<packets, arrived, cur, tmp, head, reading, clen, data>>
  BY DEF ReadInterleaved
<1>2. /\ cur = <<>> /\ data = <<>> /\ PlaceOf(in, arrived, packets, n) = 0
      /\ n < Len(packets) /\ 1 \in 1..m /\ in[1] = h[1]
  BY <1>1, FirstUnit
<1>3. /\ n \in Nat /\ i \in 1..MaxPackets /\ p \in Kinds /\ n \in 0..Len(packets)
      /\ in \in Seq(Units) /\ m \in Nat
  BY <1>2, ParserFacts
<1>4. Sent(packets) /\ Window(in, arrived, packets) /\ GotAll(got, packets) /\ ParserTypes
  BY DEF ParserInv
<1> HIDE DEF n, i, p, s, h, m
<1>5. /\ p.kind = "data" /\ p.len \in Nat /\ Size(p) = p.len
      /\ in[1][2] = i /\ Len(h) = 2 /\ Len(s) = k
  BY <1>1, <1>2, <1>3, DataHeader DEF h, s
<1>6. /\ \A j \in 1..Size(p) : s[Len(h) + j] = <<"eol", i>>
      /\ s \in Seq(Units)
  BY <1>3, Encoded DEF h, s
<1>7. \A j \in 1..m : 0 + j <= Len(s) => in[j] = s[0 + j]
  <2>1. /\ Sent(packets) /\ Window(in, arrived, packets) /\ n \in Nat /\ n < Len(packets)
        /\ s = Encode(n + 1, packets[n + 1]) /\ 0 \in Nat /\ PlaceOf(in, arrived, packets, n) = 0
        /\ 0 <= Len(s)
    <3>1. 0 <= 2 + p.len
      BY <1>5, SMT
    <3> QED
      BY <1>2, <1>3, <1>4, <1>5, <3>1 DEF s, p, i
  <2> QED
    BY <2>1, WindowShows DEF m, Shown
<1>8. packets[in[1][2]].len = p.len
  BY <1>5 DEF p
<1>9. IF m >= 2 /\ m >= k
        THEN Deliver("data", i, SubSeq(in, 3, k)) /\ in' = SubSeq(in, k + 1, m)
        ELSE Stop(FALSE) /\ UNCHANGED in
  BY <1>5, <1>8 DEF ReadInterleaved, m
<1>10. CASE m >= 2 /\ m >= k
  <2>1. /\ got' = Append(got, [kind |-> "data", number |-> i, data |-> SubSeq(in, 3, k)])
        /\ busy' = busy /\ in' = SubSeq(in, k + 1, m)
    BY <1>9, <1>10 DEF Deliver
  <2>2. /\ k \in 0..m /\ k \in Nat /\ 2 \in Nat /\ 2 <= k /\ 2 + 1 = 3 /\ k - 2 = p.len
        /\ \A j \in 1..p.len : 2 + j \in 1..m /\ 0 + (2 + j) = 2 + j /\ 2 + j <= k
    BY <1>3, <1>5, <1>10, SMT
  <2>3. SubSeq(in, 3, k) = Content(i, p.len)
    <3> DEFINE t == SubSeq(in, 3, k)
               u == Content(i, p.len)
    <3>1. t \in Seq(Units) /\ Len(t) = p.len /\ \A j \in 1..p.len : t[j] = in[2 + j]
      <4>1. /\ SubSeq(in, 2 + 1, k) \in Seq(Units) /\ Len(SubSeq(in, 2 + 1, k)) = k - 2
            /\ \A j \in 1..(k - 2) : SubSeq(in, 2 + 1, k)[j] = in[2 + j]
        BY <1>3, <2>2, PartIs DEF m
      <4> QED
        BY <2>2, <4>1
    <3>2. u \in Seq(Units) /\ Len(u) = p.len /\ \A j \in 1..p.len : u[j] = <<"eol", i>>
      BY <1>3, <1>5, ContentOf
    <3> HIDE DEF t, u
    <3>3. ASSUME NEW j \in 1..p.len PROVE t[j] = u[j]
      <4>1. 2 + j \in 1..m /\ 0 + (2 + j) = 2 + j /\ 2 + j <= Len(s)
        BY <1>5, <2>2
      <4>2. in[2 + j] = s[2 + j]
        BY <1>7, <4>1
      <4>3. s[2 + j] = <<"eol", i>>
        BY <1>5, <1>6
      <4> QED
        BY <3>1, <3>2, <4>2, <4>3
    <3>4. t = u
      BY <3>1, <3>2, <3>3, SeqEqual
    <3> QED
      BY <3>4 DEF t, u
  <2>4. got' = Append(got, DecodedOf(packets, Len(got) + 1))
    BY <1>5, <2>1, <2>3 DEF DecodedOf, i, p, n
  <2>5. GotAll(got', packets) /\ Len(got') = n + 1
    BY <1>2, <1>4, <2>4, GotMore DEF n
  <2>6. Dropped(in, k, in', arrived, packets, n)
    BY <1>3, <1>4, <2>1, <2>2, WindowDrops DEF m
  <2>7. Window(in', arrived, packets) /\ PlaceOf(in', arrived, packets, n) = Len(s)
    <3>1. 0 + k = k
      BY <2>2, SMT
    <3> QED
      BY <1>2, <1>5, <2>6, <3>1 DEF Dropped
  <2>8. PlaceOf(in', arrived, packets, n + 1) = 0
    BY <1>2, <1>3, <1>4, <2>7, NextPlace DEF s, p, i
  <2>9. Placed(Len(got), packets, PlaceOf(in, arrived, packets, Len(got)))'
    BY <1>1, <1>2, <2>5, <2>8 DEF Placed, Between
  <2> QED
    BY <1>1, <1>4, <2>1, <2>5, <2>7, <2>9 DEF ParserInv, ParserTypes
<1>11. CASE ~(m >= 2 /\ m >= k)
  <2>1. got' = got /\ in' = in
    BY <1>9, <1>11 DEF Stop
  <2>2. ParserInv'
    BY <1>1, <2>1 DEF ParserInv, ParserTypes, Placed, Between, InHeader, InContent, AtLine
  <2>3. 0 + m < Len(s) /\ 0 \in Nat
    BY <1>3, <1>5, <1>11, SMT
  <2>4. arrived < EndOf(packets, n + 1)
    BY <1>2, <1>3, <1>4, <2>3, NotWhole DEF s, p, i, m
  <2> QED
    BY <1>1, <2>1, <2>2, <2>4 DEF Stuck, n
<1> QED
  BY <1>10, <1>11

\* Lines that do not end, or none and an empty one.
LEMMA ReadLinesKeeps ==
  ASSUME ParserInv, ReadLines
  PROVE  ParserInv' /\ (Stuck(got, packets, arrived)' \/ stalled')
<1> DEFINE n == Len(got)
           i == n + 1
           p == packets[i]
           o == PlaceOf(in, arrived, packets, n)
           l == LinesOf(i, p)
           m == Len(in)
<1>1. /\ Reading(FALSE)
      /\ Blanks = {} \/ Lines = <<>>
      /\ tmp' = "message" /\ reading' = FALSE /\ in' = SubSeq(in, Eaten + 1, Len(in))
      /\ cur' = (IF Blanks = {} THEN Lines ELSE <<>>)
      /\ stalled' = (Blanks # {}) /\ got' = got
      /\ UNCHANGED <<packets, arrived, head, clen, data>>
  BY DEF ReadLines, Stop
<1>2. /\ n < Len(packets) /\ p.kind # "data" /\ data = <<>> /\ o \in Nat
      /\ Skips(p, o) \/ Finds(i, p, o) \/ Lacks(i, p, o)
  <2>1. Reading(FALSE)
    BY <1>1
  <2> QED
    BY <2>1, Heading
<1>3. /\ n \in Nat /\ i \in 1..MaxPackets /\ p \in Kinds /\ n \in 0..Len(packets)
      /\ in \in Seq(Units) /\ m \in Nat
  BY <1>2, ParserFacts
<1>4. Sent(packets) /\ Window(in, arrived, packets) /\ GotAll(got, packets) /\ ParserTypes
  BY DEF ParserInv
<1> HIDE DEF n, i, p, o, m, l
<1>5. l \in Seq(Units) /\ Len(l) \in 1..2 /\ Len(HeaderOf(i, p)) = Before(p) + 2 * Len(l) + 1
  BY <1>2, <1>3, HeaderLines DEF l, HeaderIs
<1>6. ASSUME Eaten \in 0..m, NEW t \in 0..2, t \in 0..Len(l), cur' = SubSeq(l, 1, t),
             o + Eaten = Before(p) + 2 * t
      PROVE  ParserInv'
  <2>1. Dropped(in, Eaten, in', arrived, packets, n)
    BY <1>1, <1>3, <1>4, <1>6, WindowDrops DEF m
  <2>2. Window(in', arrived, packets) /\ PlaceOf(in', arrived, packets, n) = Before(p) + 2 * t
    BY <1>6, <2>1 DEF Dropped, o
  <2>3. cur' \in Seq(Units)
    <3>1. t \in Int /\ 1 \in Int /\ \A j \in 1..t : j \in 1..Len(l)
      BY <1>5, <1>6, SMT
    <3>2. \A j \in 1..t : l[j] \in Units
      BY <1>5, <3>1, ElementOfSeq
    <3> QED
      BY <1>6, <3>1, <3>2, SubSeqProperties
  <2>4. Placed(Len(got), packets, PlaceOf(in, arrived, packets, Len(got)))'
    BY <1>1, <1>2, <1>6, <2>2 DEF Placed, InHeader, AtLine, n, i, p, l
  <2> QED
    BY <1>1, <1>4, <2>2, <2>3, <2>4 DEF ParserInv, ParserTypes
<1>7. CASE Skips(p, o)
  <2>1. /\ Before(p) = 1 /\ o = 0 /\ Blanks # {} /\ Eaten = 1 /\ in # <<>>
        /\ cur' = <<>> /\ stalled'
    BY <1>1, <1>7 DEF Skips
  <2>2. m # 0
    BY <1>3, <2>1, EmptySeq DEF m
  <2>3. /\ 1 \in 0..m /\ 0 \in 0..2 /\ 0 \in 0..Len(l) /\ 0 + 1 = 1 + 2 * 0
        /\ 0 \in Int /\ 1 \in Int /\ 0 < 1
    BY <1>3, <1>5, <2>2, SMT
  <2>4. SubSeq(l, 1, 0) = <<>>
    BY <2>3, SubSeqEmpty
  <2> QED
    BY <1>6, <2>1, <2>3, <2>4
<1>8. CASE Finds(i, p, o)
  <2>1. Blanks # {} /\ Lines = l
    BY <1>8 DEF Finds, l
  <2>2. l # <<>>
    <3>1. Len(l) # 0
      <4>1. Len(l) \in 1..2
        BY <1>5
      <4> QED
        BY <4>1, SMT
    <3> QED
      BY <3>1
  <2> QED
    BY <1>1, <2>1, <2>2
<1>9. CASE Lacks(i, p, o)
  <2>1. PICK t \in 0..2 : t \in 0..Len(l) /\ Lines = SubSeq(l, 1, t) /\ o + Eaten = Before(p) + 2 * t
    BY <1>9 DEF Lacks, l
  <2>2. Blanks = {} /\ Eaten \in 0..m /\ o + m < Len(HeaderOf(i, p))
    BY <1>9 DEF Lacks, m
  <2>3. ParserInv'
    BY <1>1, <1>6, <2>1, <2>2
  <2>4. arrived < EndOf(packets, n + 1)
    <3>1. /\ Len(HeaderOf(i, p)) \in 2..5 /\ Size(p) \in Nat
          /\ Len(Encode(i, p)) = Len(HeaderOf(i, p)) + Size(p)
      BY <1>3, Encoded
    <3>2. o + m < Len(Encode(i, p))
      <4> DEFINE q == Len(HeaderOf(i, p))
                 z == Size(p)
      <4>1. q \in 2..5 /\ z \in Nat /\ Len(Encode(i, p)) = q + z /\ o + m < q /\ o \in Nat /\ m \in Nat
        BY <1>2, <1>3, <2>2, <3>1
      <4> HIDE DEF q, z
      <4>2. o + m < q + z
        BY <4>1, SMT
      <4> QED
        BY <4>1, <4>2
    <3> QED
      BY <1>2, <1>3, <1>4, <3>2, NotWhole DEF i, p, o, m
  <2>5. Stuck(got, packets, arrived)'
    BY <1>1, <2>4 DEF Stuck, n
  <2> QED
    BY <2>3, <2>5
<1> QED
  BY <1>2, <1>7, <1>8, <1>9

\* The lines tell the packet and how long its content is.
LEMMA LinesTell ==
  ASSUME NEW i \in 1..MaxPackets, NEW p \in Kinds, p = packets[i], p.kind # "data",
         NEW l, l = LinesOf(i, p), l[1][1] = "start"
  PROVE  l[1] = <<"start", i>> /\ p.kind \in {"message", "blank"} /\ ContentLength(l) = p.len
<1>1. /\ p.kind \in {"message", "blank", "bad"} /\ (p.kind = "blank" => p.len = 0)
  BY KindsAre
<1>2. l = IF p.kind = "bad" THEN << <<"text", i>> >>
         ELSE IF p.kind = "message" /\ p.len # 0 THEN << <<"start", i>>, <<"length", i>> >>
         ELSE << <<"start", i>> >>
  BY DEF LinesOf
<1>3. p.kind # "bad" /\ l[1] = <<"start", i>>
  BY <1>2
<1>4. CASE p.kind = "message" /\ p.len # 0
  <2>1. l = << <<"start", i>>, <<"length", i>> >>
    BY <1>2, <1>4
  <2>2. l[2] = <<"length", i>> /\ 2 \in DOMAIN l
    BY <2>1
  <2>3. <<"length", i>> \in Range(l)
    BY <2>2, Zenon DEF Range
  <2>4. l[1][2] = i
    BY <1>3
  <2> QED
    BY <1>1, <1>3, <2>3, <2>4 DEF ContentLength
<1>5. CASE ~(p.kind = "message" /\ p.len # 0)
  <2>1. l = << <<"start", i>> >> /\ p.len = 0
    BY <1>1, <1>2, <1>3, <1>5
  <2>2. DOMAIN l = {1}
    BY <2>1
  <2>3. \A u \in Range(l) : u[1] = "start"
    BY <1>3, <2>2 DEF Range
  <2> QED
    BY <1>1, <1>3, <2>1, <2>3 DEF ContentLength
<1> QED
  BY <1>4, <1>5

\* The lines of a message, and what follows.
LEMMA ReadMessageKeeps ==
  ASSUME ParserInv, ReadMessage
  PROVE  ParserInv' /\ (Stuck(got, packets, arrived)' \/ busy')
<1> DEFINE n == Len(got)
           i == n + 1
           p == packets[i]
           o == PlaceOf(in, arrived, packets, n)
           m == Len(in)
           rest == SubSeq(in, Eaten + 1, Len(in))
<1>1. /\ Reading(FALSE) /\ Blanks # {} /\ Lines # <<>>
      /\ Lines[1][1] = "start" /\ ContentLength(Lines) <= MaxContent
      /\ Take(Lines[1], ContentLength(Lines), rest) /\ busy
      /\ UNCHANGED <<packets, arrived>>
  BY DEF ReadMessage, Reading
<1>2. /\ n < Len(packets) /\ p.kind # "data" /\ data = <<>> /\ o \in Nat
      /\ Skips(p, o) \/ Finds(i, p, o) \/ Lacks(i, p, o)
  <2>1. Reading(FALSE)
    BY <1>1
  <2> QED
    BY <2>1, Heading
<1>3. Lines = LinesOf(i, p) /\ Eaten \in 0..Len(in) /\ o + Eaten = Len(HeaderOf(i, p))
  BY <1>1, <1>2 DEF Skips, Finds, Lacks
<1>4. /\ n \in Nat /\ i \in 1..MaxPackets /\ p \in Kinds /\ n \in 0..Len(packets)
      /\ in \in Seq(Units)
  BY <1>2, ParserFacts
<1>5. Sent(packets) /\ Window(in, arrived, packets)
  BY DEF ParserInv
<1>6. Lines[1] = <<"start", i>> /\ p.kind \in {"message", "blank"} /\ ContentLength(Lines) = p.len
  BY <1>1, <1>2, <1>3, <1>4, LinesTell
<1>7. Dropped(in, Eaten, rest, arrived, packets, n)
  <2> HIDE DEF n
  <2> QED
    BY <1>3, <1>4, <1>5, WindowDrops
<1> HIDE DEF rest
<1>8. Window(rest, arrived, packets) /\ PlaceOf(rest, arrived, packets, n) = Len(HeaderOf(i, p))
  BY <1>3, <1>7 DEF Dropped
<1>9. Len(data) = 0 /\ data = Content(i, Len(data))
  <2>1. Len(Content(i, 0)) = 0 /\ Content(i, 0) \in Seq(Units)
    <3>1. 0 \in Nat
      BY SMT
    <3> QED
      BY <1>4, <3>1, ContentOf
  <2>2. Content(i, 0) = <<>>
    BY <2>1, EmptySeq
  <2>3. Len(data) = 0
    BY <1>2
  <2> QED
    BY <1>2, <2>2, <2>3
<1>10. Began(n, p, rest)
  <2>1. Len(HeaderOf(i, p)) + 0 = Len(HeaderOf(i, p))
    <3>1. Len(HeaderOf(i, p)) \in 2..5
      BY <1>4, Encoded
    <3> QED
      BY <3>1, SMT
  <2>2. ContentAt(packets, arrived, n, p, rest, Len(data))
    BY <1>2, <1>4, <1>8, <1>9, <2>1 DEF ContentAt
  <2> QED
    BY <1>1, <1>2, <1>6, <1>9, <2>2 DEF Began
<1>11. Take(<<"start", n + 1>>, p.len, rest)
  BY <1>1, <1>6
<1> HIDE DEF n, p
<1> QED
  BY <1>1, <1>10, <1>11, TakeKeeps

\* Content only.
LEMMA ReadContentKeeps ==
  ASSUME ParserInv, ReadContent
  PROVE  ParserInv' /\ (Stuck(got, packets, arrived)' \/ busy')
<1> DEFINE n == Len(got)
           i == n + 1
           p == packets[i]
           o == PlaceOf(in, arrived, packets, n)
<1>1. /\ tmp = "message" /\ reading = TRUE /\ busy /\ Take(head, clen, in) /\ UNCHANGED <<packets, arrived>>
  BY DEF ReadContent, Reading, ParserInv, ParserTypes
<1>2. /\ Sent(packets) /\ Window(in, arrived, packets) /\ data \in Seq(Units)
      /\ clen \in -1..MaxContent /\ Placed(n, packets, o)
  BY DEF ParserInv, ParserTypes
<1>3. n < Len(packets) /\ InContent(i, p, o)
  BY <1>1, <1>2 DEF Placed, Between, InHeader
<1>4. n \in Nat
  BY ParserFacts
<1>5. /\ p.kind \in {"message", "blank"} /\ head = <<"start", i>> /\ clen = p.len
      /\ data = Content(i, Len(data)) /\ o = Len(HeaderOf(i, p)) + Len(data)
      /\ Len(data) < clen \/ data = <<>>
  BY <1>3 DEF InContent
<1>6. Len(data) \in Nat
  BY <1>2, LenProperties
<1>7. clen <= MaxContent
  BY <1>2, RtspClientAssumption, SMT
<1>8. Began(n, p, in)
  <2>1. ContentAt(packets, arrived, n, p, in, Len(data))
    BY <1>2, <1>3, <1>4, <1>5, <1>6 DEF ContentAt
  <2> QED
    BY <1>5, <1>7, <2>1 DEF Began
<1>9. Take(<<"start", n + 1>>, p.len, in)
  BY <1>1, <1>5
<1> HIDE DEF n, p
<1> QED
  BY <1>1, <1>8, <1>9, TakeKeeps

\* After each step the program has got every packet that is whole, unless there
\* is more to read.
LEMMA ReadKeeps ==
  ASSUME ParserInv, ReadPacket
  PROVE  ParserInv' /\ (Stuck(got, packets, arrived)' \/ stalled' \/ busy' \/ ended' # "no")
<1>1. CASE ReadNothing
  BY <1>1, ReadNothingKeeps
<1>2. CASE ReadInterleaved
  BY <1>2, ReadInterleavedKeeps
<1>3. CASE ReadLines
  BY <1>3, ReadLinesKeeps
<1>4. CASE ReadBadLines
  <2>1. /\ UNCHANGED <<packets, arrived, in, cur, tmp, head, reading, clen, data, got>>
        /\ ended' # "no"
    BY <1>4 DEF ReadBadLines, Fail, parserVars
  <2> QED
    BY <2>1 DEF ParserInv, ParserTypes, Placed, Between, InHeader, InContent, AtLine
<1>5. CASE ReadMessage
  BY <1>5, ReadMessageKeeps
<1>6. CASE ReadContent
  BY <1>6, ReadContentKeeps
<1> QED
  BY <1>1, <1>2, <1>3, <1>4, <1>5, <1>6 DEF ReadPacket

-----------------------------------------------------------------------------
(* Every packet that has arrived whole is got.                             *)

ControlTypes ==
  /\ bs \in {"none", "connecting", "open"}
  /\ active \in BOOLEAN /\ taken \in BOOLEAN /\ busy \in BOOLEAN /\ stalled \in BOOLEAN
  /\ ended \in {"no", "closed", "stream", "parse", "deleted"}

\* Nothing is read before it is connected; it is served, and reads, while it is.
Connected ==
  /\ bs = "connecting" \/ (bs = "none" /\ ended = "no") => arrived = 0 /\ tmp = "empty"
  /\ (taken \/ busy) /\ ended = "no" => bs = "open"
  /\ busy => ended = "no"

\* When it waits for bytes, no packet that is whole waits with it.
Waiting == Idle /\ active /\ ~stalled => Stuck(got, packets, arrived)

ClientInv == ControlTypes /\ Connected /\ ParserInv /\ Waiting

\* What may be chosen as the peer's packets.
LEMMA PacketsSent ==
  ASSUME packets \in SeqOf(Kinds, MaxPackets)
  PROVE  Sent(packets)
<1>1. PICK m \in 0..MaxPackets : packets \in [1..m -> Kinds]
  BY Zenon DEF SeqOf
<1>2. m \in Nat /\ m <= MaxPackets
  BY <1>1, RtspClientAssumption, SMT
<1>3. packets \in Seq(Kinds)
  BY <1>1, <1>2, SeqDef
<1>4. Len(packets) = m
  BY <1>1, <1>2, <1>3, LenProperties
<1> QED
  BY <1>2, <1>3, <1>4 DEF Sent

\* Nothing has arrived.
LEMMA NothingRead ==
  ASSUME NEW ps, Sent(ps)
  PROVE  Window(<<>>, 0, ps) /\ PlaceOf(<<>>, 0, ps, 0) = 0 /\ GotAll(<<>>, ps)
<1>1. Len(ps) \in Nat /\ EndOf(ps, 0) = 0
  BY PacketOf, NoBytes
<1>2. EndOf(ps, Len(ps)) \in Nat
  <2>1. Len(ps) \in 0..Len(ps)
    BY <1>1, SMT
  <2> QED
    BY <2>1, EndsAre
<1>3. /\ <<>> \in Seq(Units) /\ <<>> \in Seq(Packets) /\ Len(<<>>) = 0
      /\ \A j \in 1..0 : FALSE
      /\ 0 \in 0..EndOf(ps, Len(ps)) /\ 0 <= 0 /\ 0 <= Len(ps) /\ (0 - 0) - 0 = 0
  BY <1>1, <1>2, SMT
<1> QED
  BY <1>1, <1>3 DEF Window, PlaceOf, GotAll

\* At first nothing has arrived, and nothing is got.
LEMMA ClientInvInit ==
  ASSUME ClientInit
  PROVE  ClientInv
<1>1. /\ packets \in SeqOf(Kinds, MaxPackets) /\ arrived = 0 /\ bs \in {"none", "open"}
      /\ active = FALSE /\ taken = FALSE /\ in = <<>> /\ cur = <<>> /\ tmp = "empty" /\ head = NoHead
      /\ reading = FALSE /\ clen = 0 /\ data = <<>> /\ busy = FALSE /\ got = <<>> /\ stalled = FALSE
      /\ ended = "no"
  BY DEF ClientInit
<1>2. Sent(packets)
  BY <1>1, PacketsSent
<1>3. /\ Window(in, arrived, packets) /\ GotAll(got, packets)
      /\ Placed(Len(got), packets, PlaceOf(in, arrived, packets, Len(got)))
  BY <1>1, <1>2, NothingRead DEF Placed, Between
<1>4. ParserTypes
  <2>1. 0 \in -1..MaxContent
    BY RtspClientAssumption, SMT
  <2>2. <<>> \in Seq(Units) /\ "empty" \in {"empty", "message"} /\ NoHead \in Units \cup {NoHead}
    OBVIOUS
  <2> QED
    BY <1>1, <2>1, <2>2, Zenon DEF ParserTypes
<1> QED
  BY <1>1, <1>2, <1>3, <1>4 DEF ClientInv, ControlTypes, Connected, ParserInv, Waiting

\* A step that reads nothing.
LEMMA ParserStays ==
  ASSUME ParserInv, UNCHANGED <<packets, arrived, parserVars, got>>
  PROVE  ParserInv'
BY DEF ParserInv, ParserTypes, Placed, Between, InHeader, InContent, AtLine, parserVars

\* Connected, the parser starts anew: nothing has been read.
LEMMA SockConnectedKeeps ==
  ASSUME ClientInv, SockConnected
  PROVE  ParserInv' /\ Stuck(got, packets, arrived)'
<1>1. /\ arrived = 0 /\ tmp = "empty"
      /\ in' = <<>> /\ cur' = <<>> /\ tmp' = "empty" /\ head' = NoHead
      /\ UNCHANGED <<packets, arrived, reading, clen, data, got>>
  BY DEF SockConnected, ClientInv, Connected
<1>2. ParserInv
  BY DEF ClientInv
<1>3. /\ Sent(packets) /\ Window(in, arrived, packets) /\ GotAll(got, packets) /\ ParserTypes
      /\ cur = <<>> /\ data = <<>>
  BY <1>1, <1>2, FirstUnit DEF ParserInv
<1>4. in = <<>>
  <2>1. in \in Seq(Units) /\ Len(in) \in Nat
    BY <1>3, LenProperties DEF Window
  <2>2. Len(in) <= arrived
    BY <1>3 DEF Window
  <2>3. Len(in) = 0
    BY <1>1, <2>1, <2>2, SMT
  <2> QED
    BY <2>1, <2>3, EmptySeq
<1>5. ParserInv'
  BY <1>1, <1>2, <1>3, <1>4 DEF ParserInv, ParserTypes, Placed, Between, InHeader, InContent, AtLine
<1> DEFINE n == Len(got)
<1>6. ASSUME n < Len(packets) PROVE arrived < EndOf(packets, n + 1)
  <2>1. /\ n \in Nat /\ n \in 0..Len(packets) /\ n + 1 \in 1..MaxPackets /\ packets[n + 1] \in Kinds
    BY <1>2, <1>6, ParserFacts
  <2> HIDE DEF n
  <2>2. EndOf(packets, n) \in Nat /\ EndOf(packets, n + 1) = EndOf(packets, n) + Len(Encode(n + 1, packets[n + 1]))
    BY <1>3, <1>6, <2>1, EndsAre
  <2>3. /\ Len(HeaderOf(n + 1, packets[n + 1])) \in 2..5 /\ Size(packets[n + 1]) \in Nat
        /\ Len(Encode(n + 1, packets[n + 1])) = Len(HeaderOf(n + 1, packets[n + 1])) + Size(packets[n + 1])
    BY <2>1, Encoded
  <2>4. 0 + 1 <= Len(Encode(n + 1, packets[n + 1])) /\ Len(Encode(n + 1, packets[n + 1])) \in Nat
    BY <2>3, FirstPlace
  <2> QED
    BY <1>1, <2>2, <2>4, SMT
<1> QED
  BY <1>1, <1>5, <1>6 DEF Stuck

\* More bytes.
LEMMA BsReadyReadKeeps ==
  ASSUME ParserInv, NEW k \in Nat, BsReadyRead(k)
  PROVE  ParserInv'
<1> DEFINE n == Len(got)
           more == in \o SubSeq(Bytes(packets, Len(packets)), arrived + 1, arrived + k)
<1>1. Sent(packets) /\ Window(in, arrived, packets) /\ GotAll(got, packets)
  BY DEF ParserInv
<1>2. Stream = Bytes(packets, Len(packets))
  BY <1>1, StreamIs
<1>3. /\ arrived + k <= EndOf(packets, Len(packets)) /\ arrived' = arrived + k /\ in' = more
      /\ UNCHANGED <<packets, cur, tmp, head, reading, clen, data, got>>
  BY <1>2 DEF BsReadyRead, EndOf
<1>4. n \in 0..Len(packets)
  BY ParserFacts
<1> HIDE DEF n
<1>5. Window(more, arrived + k, packets) /\ PlaceOf(more, arrived + k, packets, n) = PlaceOf(in, arrived, packets, n)
  <2>1. Sent(packets) /\ Window(in, arrived, packets) /\ arrived + k <= EndOf(packets, Len(packets))
    BY <1>1, <1>3
  <2>2. Filled(in, k, more, arrived, packets, n)
    BY <1>4, <2>1, WindowReads
  <2> QED
    BY <2>2 DEF Filled
<1> HIDE DEF more
<1>6. Placed(n, packets, PlaceOf(in, arrived, packets, n)) /\ ParserTypes
  BY DEF ParserInv, n
<1>7. Placed(Len(got), packets, PlaceOf(in, arrived, packets, Len(got)))'
  BY <1>3, <1>5, <1>6 DEF Placed, Between, InHeader, InContent, AtLine, n
<1> QED
  BY <1>1, <1>3, <1>5, <1>6, <1>7 DEF ParserInv, ParserTypes

\* Every step of the client keeps the invariant.
LEMMA ClientInvNext ==
  ASSUME ClientInv, [ClientNext]_clientVars
  PROVE  ClientInv'
<1>1. ControlTypes /\ Connected /\ ParserInv /\ Waiting
  BY DEF ClientInv
<1> USE DEF ControlTypes, Connected, Waiting, Idle
<1>2. CASE ConnectToHost
  <2>1. ParserInv'
    BY <1>1, <1>2, ParserStays DEF ConnectToHost
  <2> QED
    BY <1>1, <1>2, <2>1 DEF ConnectToHost, Stuck, ClientInv, parserVars
<1>3. CASE SockConnected
  <2>1. ParserInv' /\ Stuck(got, packets, arrived)'
    BY <1>3, SockConnectedKeeps
  <2> QED
    BY <1>1, <1>3, <2>1 DEF SockConnected, ClientInv
<1>4. CASE TakeIncoming
  <2>1. ParserInv'
    BY <1>1, <1>4, ParserStays DEF TakeIncoming
  <2> QED
    BY <1>1, <1>4, <2>1 DEF TakeIncoming, Stuck, ClientInv, parserVars
<1>5. CASE Serve
  <2>1. ParserInv'
    BY <1>1, <1>5, ParserStays DEF Serve
  <2> QED
    BY <1>1, <1>5, <2>1 DEF Serve, ClientInv, parserVars
<1>6. ASSUME NEW k \in 1..Len(Stream), BsReadyRead(k) PROVE ClientInv'
  <2>1. k \in Nat
    BY SMT
  <2>2. ParserInv'
    BY <1>1, <1>6, <2>1, BsReadyReadKeeps
  <2> QED
    BY <1>1, <1>6, <2>2 DEF BsReadyRead, Stuck, ClientInv
<1>7. CASE ReadPacket
  <2>1. ParserInv' /\ (Stuck(got, packets, arrived)' \/ stalled' \/ busy' \/ ended' # "no")
    BY <1>1, <1>7, ReadKeeps
  <2>2. busy
    BY <1>7 DEF ReadPacket, ReadNothing, ReadInterleaved, ReadLines, ReadBadLines, ReadMessage, ReadContent, Reading
  <2>3. /\ UNCHANGED <<active, taken>> /\ stalled' \in BOOLEAN
        /\ \/ busy' \in {busy, FALSE} /\ bs' = bs /\ ended' = ended
           \/ busy' = FALSE /\ bs' = "none" /\ ended' = "parse"
    <3>1. stalled \in BOOLEAN
      BY <1>1
    <3>2. CASE ReadNothing
      BY <3>2 DEF ReadNothing, Stop
    <3>3. CASE ReadInterleaved
      BY <3>1, <3>3, Zenon DEF ReadInterleaved, Stop, Deliver
    <3>4. CASE ReadLines
      BY <3>4 DEF ReadLines, Stop
    <3>5. CASE ReadBadLines
      BY <3>1, <3>5 DEF ReadBadLines, Fail
    <3>6. CASE ReadMessage
      BY <3>1, <3>6, Zenon DEF ReadMessage, Take, Stop, Deliver
    <3>7. CASE ReadContent
      BY <3>1, <3>7, Zenon DEF ReadContent, Take, Stop, Deliver
    <3> QED
      BY <1>7, <3>2, <3>3, <3>4, <3>5, <3>6, <3>7 DEF ReadPacket
  <2> QED
    BY <1>1, <2>1, <2>2, <2>3 DEF ClientInv
<1>8. ASSUME NEW k \in 1..MaxSize, ClientWrite(k) PROVE ClientInv'
  <2>1. ParserInv'
    BY <1>1, <1>8, ParserStays DEF ClientWrite
  <2> QED
    BY <1>1, <1>8, <2>1 DEF ClientWrite, Stuck, ClientInv, parserVars
<1>9. ASSUME NEW k \in 1..(MaxSize * MaxWrites), BsBytesWritten(k) PROVE ClientInv'
  <2>1. UNCHANGED <<packets, arrived, bs, active, taken, parserVars, busy, got, stalled, ended>>
    BY <1>9 DEF BsBytesWritten
  <2>2. ParserInv'
    BY <1>1, <2>1, ParserStays
  <2> QED
    BY <1>1, <2>1, <2>2 DEF Stuck, ClientInv, parserVars
<1>10. CASE BsConnectionClosed
  <2>1. ParserInv'
    BY <1>1, <1>10, ParserStays DEF BsConnectionClosed
  <2> QED
    BY <1>1, <1>10, <2>1 DEF BsConnectionClosed, ClientInv, parserVars
<1>11. CASE BsError
  <2>1. ParserInv'
    BY <1>1, <1>11, ParserStays DEF BsError
  <2> QED
    BY <1>1, <1>11, <2>1 DEF BsError, ClientInv, parserVars
<1>12. CASE Delete
  <2>1. ParserInv'
    BY <1>1, <1>12, ParserStays DEF Delete
  <2> QED
    BY <1>1, <1>12, <2>1 DEF Delete, ClientInv, parserVars
<1>13. CASE UNCHANGED clientVars
  <2>1. ParserInv'
    BY <1>1, <1>13, ParserStays DEF clientVars
  <2> QED
    BY <1>1, <1>13, <2>1 DEF clientVars, Stuck, ClientInv, parserVars
<1> QED
  BY <1>2, <1>3, <1>4, <1>5, <1>6, <1>7, <1>8, <1>9, <1>10, <1>11, <1>12, <1>13 DEF ClientNext

\* The property, of a state.
LEMMA ClientInvDecodes ==
  ASSUME ClientInv
  PROVE  PacketsAreDecoded
<1>1. Sent(packets) /\ GotAll(got, packets) /\ Waiting
  BY DEF ClientInv, ParserInv
<1>2. \A i \in 1..Len(got) : DecodedOf(packets, i) = Decoded(i)
  BY DEF DecodedOf, Decoded
<1>3. got = [i \in 1..Len(got) |-> Decoded(i)]
  <2> DEFINE d == [i \in 1..Len(got) |-> Decoded(i)]
  <2>1. got \in Seq(Packets) /\ \A i \in 1..Len(got) : got[i] = Decoded(i)
    BY <1>1, <1>2 DEF GotAll
  <2>2. got \in [1..Len(got) -> Packets]
    BY <2>1, LenProperties
  <2> QED
    BY <2>1, <2>2
<1>4. ASSUME Idle, active, ~stalled, NEW k \in DOMAIN packets,
             \A i \in 1..k : packets[i].len >= 0,
             Len(FlattenSeq([i \in 1..k |-> Encode(i, packets[i])])) <= arrived
      PROVE  k <= Len(got)
  <2> DEFINE n == Len(got)
  <2>1. Stuck(got, packets, arrived) /\ EndOf(packets, k) <= arrived
    BY <1>1, <1>4 DEF Waiting, EndOf, Bytes
  <2>2. n \in Nat /\ Len(packets) \in Nat /\ k \in 1..Len(packets)
    BY <1>1, <1>4, PacketOf, LenProperties DEF GotAll
  <2> SUFFICES ASSUME ~(k <= n) PROVE FALSE
    OBVIOUS
  <2> HIDE DEF n
  <2>3. n < Len(packets) /\ n + 1 \in 1..k /\ n + 1 \in 0..Len(packets) /\ k \in 0..Len(packets) /\ n + 1 <= k
    BY <2>2, SMT
  <2>4. packets[n + 1].len >= 0
    BY <1>4, <2>3
  <2>5. packets[n + 1].len \in Int
    <3>1. n + 1 \in 1..Len(packets)
      BY <2>2, <2>3, SMT
    <3>2. packets[n + 1] \in Kinds
      BY <1>1, <3>1, PacketOf
    <3> QED
      BY <3>2, KindsAre
  <2>6. packets[n + 1].len < 0 \/ arrived < EndOf(packets, n + 1)
    BY <2>1, <2>3 DEF Stuck, n
  <2>7. arrived < EndOf(packets, n + 1)
    BY <2>4, <2>5, <2>6, SMT
  <2>8. EndOf(packets, n + 1) <= EndOf(packets, k)
    BY <1>1, <2>3, BytesStay
  <2>9. EndOf(packets, n + 1) \in Nat /\ EndOf(packets, k) \in Nat /\ arrived \in Int
    <3>1. EndOf(packets, n + 1) \in Nat /\ EndOf(packets, k) \in Nat
      BY <1>1, <2>3, EndsAre
    <3>2. arrived \in 0..EndOf(packets, Len(packets))
      BY DEF ClientInv, ParserInv, Window
    <3> QED
      BY <3>1, <3>2
  <2> QED
    BY <2>1, <2>7, <2>8, <2>9, SMT
<1> QED
  BY <1>3, <1>4 DEF PacketsAreDecoded

\* However the peer's bytes are cut, whatever its packets and their content, and
\* whatever else happens to the client: RTSP::Client signals the packets that were
\* sent, whole, in order and once; and none that has arrived whole is left behind,
\* but behind an empty line or a negative length.
THEOREM PacketsDecoded == ClientSpec => []PacketsAreDecoded
<1>1. ClientInit => ClientInv
  BY ClientInvInit
<1>2. ClientInv /\ [ClientNext]_clientVars => ClientInv'
  BY ClientInvNext
<1>3. ClientInv => PacketsAreDecoded
  BY ClientInvDecodes
<1> QED
  BY <1>1, <1>2, <1>3, PTL DEF ClientSpec

-----------------------------------------------------------------------------
(* The types of the parser's variables.                                    *)

\* There is no more content than is announced.
LEMMA ContentFits ==
  ASSUME ParserInv
  PROVE  Len(data) <= Max({clen, 0})
<1> DEFINE n == Len(got)
           o == PlaceOf(in, arrived, packets, n)
<1>1. clen \in Int /\ Len(<<>>) = 0 /\ Placed(n, packets, o)
  BY SMT DEF ParserInv, ParserTypes
<1>2. Max({clen, 0}) = IF clen > 0 THEN clen ELSE 0
  <2>1. CASE clen > 0
    <3>1. \A m \in {clen, 0} : (\A j \in {clen, 0} : m >= j) <=> m = clen
      BY <1>1, <2>1, SMT
    <3>2. (CHOOSE m \in {clen, 0} : \A j \in {clen, 0} : m >= j) = clen
      BY <3>1, Zenon
    <3> QED
      BY <2>1, <3>2 DEF Max
  <2>2. CASE ~(clen > 0)
    <3>1. \A m \in {clen, 0} : (\A j \in {clen, 0} : m >= j) <=> m = 0
      BY <1>1, <2>2, SMT
    <3>2. (CHOOSE m \in {clen, 0} : \A j \in {clen, 0} : m >= j) = 0
      BY <3>1, Zenon
    <3> QED
      BY <2>2, <3>2 DEF Max
  <2> QED
    BY <2>1, <2>2
<1> HIDE DEF n, o
<1>3. data = <<>> \/ Len(data) < clen
  BY <1>1 DEF Placed, Between, InHeader, InContent
<1>4. Len(data) \in Nat
  BY LenProperties DEF ParserInv, ParserTypes
<1>5. CASE data = <<>>
  <2>1. Len(data) = 0
    BY <1>5, <1>1
  <2> QED
    BY <1>1, <1>2, <2>1, SMT
<1>6. CASE Len(data) < clen
  BY <1>1, <1>2, <1>4, <1>6, SMT
<1> QED
  BY <1>3, <1>5, <1>6

\* The invariant holds the types of the parser.
LEMMA ParserTyped ==
  ASSUME ParserInv
  PROVE  /\ packets \in Seq(Kinds) /\ Len(packets) <= MaxPackets
         /\ arrived \in 0..Len(Stream)
         /\ in \in Seq(Units) /\ cur \in Seq(Units)
         /\ tmp \in {"empty", "message"} /\ head \in Units \cup {NoHead}
         /\ reading \in BOOLEAN /\ clen \in -1..MaxContent
         /\ data \in Seq(Units) /\ Len(data) <= Max({clen, 0})
         /\ got \in Seq(Packets)
<1>1. Sent(packets) /\ Window(in, arrived, packets) /\ GotAll(got, packets) /\ ParserTypes
  BY DEF ParserInv
<1>2. packets \in Seq(Kinds) /\ Len(packets) <= MaxPackets
  BY <1>1 DEF Sent
<1>3. arrived \in 0..Len(Stream) /\ in \in Seq(Units)
  BY <1>1, StreamIs DEF Window, EndOf
<1>4. Len(data) <= Max({clen, 0})
  BY ContentFits
<1>5. got \in Seq(Packets)
  BY <1>1 DEF GotAll
<1> QED
  BY <1>1, <1>2, <1>3, <1>4, <1>5 DEF ParserTypes

\* What is queued are sizes, of no packet that is reported.
LEMMA WrittenTyped ==
  ASSUME Written
  PROVE  /\ early \in BOOLEAN
         /\ track \in Seq(1..MaxSize) /\ sizes \in Seq(1..MaxSize)
         /\ acked \in Nat /\ reported \in 0..MaxWrites
<1>1. /\ early \in BOOLEAN /\ sizes \in Seq(1..MaxSize) /\ Len(sizes) <= MaxWrites
      /\ acked \in Nat /\ acked <= Sum(sizes)
  BY DEF Written
<1>2. PICK q, g : Awaited(q) /\ Matches(track, q, acked, reported, g)
  BY DEF Written
<1> DEFINE N == Len(q)
           M == Len(track)
<1>3. /\ q \in Seq(Nat) /\ Sums(q, g) /\ reported \in 0..N /\ track \in Seq(Nat) /\ M = N - reported
      /\ g[reported] <= acked /\ (reported < N => acked < g[reported + 1])
      /\ \A j \in 1..M : track[j] = q[reported + j] - (IF j = 1 THEN acked - g[reported] ELSE 0)
  BY <1>2 DEF Matches
<1>4. N \in Nat /\ M \in Nat /\ Len(sizes) \in Nat
  BY <1>1, <1>3, LenProperties
<1>5. /\ Sum(sizes) \in Nat /\ Sum(q) \in Nat
      /\ \A i \in 1..N : q[i] \in 1..MaxSize
      /\ ~early => N = Len(sizes)
      /\ early => N = 1 + Len(sizes) /\ Sum(q) > Sum(sizes)
  BY <1>1, <1>2, AwaitedAre
<1>6. Sum(q) = g[N]
  BY <1>3, SumIsLast
<1> HIDE DEF N, M
<1>7. reported <= Len(sizes)
  <2>1. CASE ~early
    BY <1>3, <1>4, <1>5, <2>1, SMT
  <2>2. CASE early
    <3>1. reported # N
      <4> SUFFICES ASSUME reported = N PROVE FALSE
        OBVIOUS
      <4>1. Sum(q) <= acked
        BY <1>3, <1>6
      <4> QED
        BY <1>1, <1>5, <2>2, <4>1, SMT
    <3> QED
      BY <1>3, <1>4, <1>5, <2>2, <3>1, SMT
  <2> QED
    BY <1>1, <2>1, <2>2
<1>8. reported \in 0..MaxWrites
  BY <1>1, <1>3, <1>4, <1>7, RtspClientAssumption, SMT
<1>9. ASSUME NEW j \in 1..M PROVE track[j] \in 1..MaxSize
  <2>1. reported + j \in 1..N /\ reported \in Nat /\ MaxSize \in Nat
    BY <1>3, <1>4, RtspClientAssumption, SMT
  <2>2. q[reported + j] \in 1..MaxSize
    BY <1>5, <2>1
  <2>3. CASE j = 1
    <3>1. reported < N /\ reported + j = reported + 1
      BY <1>3, <1>4, <2>1, <2>3, SMT
    <3>2. g[reported + 1] = g[reported] + q[reported + 1] /\ g[reported] \in Nat
      BY <1>3, <2>1, <3>1 DEF Sums, N
    <3>3. track[j] = q[reported + 1] - (acked - g[reported]) /\ q[reported + 1] \in 1..MaxSize
      BY <1>3, <2>2, <2>3, <3>1
    <3>4. acked < g[reported] + q[reported + 1] /\ g[reported] <= acked
      BY <1>3, <3>1, <3>2
    <3> QED
      BY <1>1, <2>1, <3>2, <3>3, <3>4, SMT
  <2>4. CASE j # 1
    <3>1. track[j] = q[reported + j] - 0
      BY <1>3, <2>4
    <3> QED
      BY <2>1, <2>2, <3>1, SMT
  <2> QED
    BY <2>3, <2>4
<1>10. track \in Seq(1..MaxSize)
  <2>1. track \in [1..M -> Nat]
    BY <1>3, LenProperties DEF M
  <2>2. track \in [1..M -> 1..MaxSize]
    BY <1>9, <2>1
  <2> QED
    BY <1>4, <2>2, SeqDef
<1> QED
  BY <1>1, <1>8, <1>10

\* Whatever the peer sends, and the program writes, the variables of an RTSP::Client
\* stay within their types: what is read of a content never grows over the length
\* announced, nor over MAX_CONTENT_LENGTH, and no size in the queue gets to 0 or
\* below by the bytes taken off.
THEOREM ClientTypes == ClientSpec => []ClientTypeOK
<1>1. ClientInit => ClientInv /\ Written
  BY ClientInvInit, WrittenInit
<1>2. ClientInv /\ Written /\ [ClientNext]_clientVars => (ClientInv /\ Written)'
  <2>1. ClientInv /\ [ClientNext]_clientVars => ClientInv'
    BY ClientInvNext
  <2>2. Written /\ [ClientNext]_clientVars => Written'
    BY WrittenNext
  <2> QED
    BY <2>1, <2>2
<1>3. ClientInv /\ Written => ClientTypeOK
  <2> SUFFICES ASSUME ClientInv, Written PROVE ClientTypeOK
    OBVIOUS
  <2>1. ControlTypes /\ ParserInv
    BY DEF ClientInv
  <2> QED
    BY <2>1, ParserTyped, WrittenTyped DEF ControlTypes, ClientTypeOK
<1> QED
  BY <1>1, <1>2, <1>3, PTL DEF ClientSpec
=============================================================================
