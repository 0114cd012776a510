------------------------------- MODULE BConsole -------------------------------
(***************************************************************************)
(* src/util/bconsole.cpp and the write side of src/util/bytestream.cpp: a  *)
(* ByteStream that writes to a non-blocking stdout when a QSocketNotifier  *)
(* says it is writable.                                                    *)
(*                                                                         *)
(* One thread.  tryWrite() emits bytesWritten() before its caller goes on, *)
(* so `stack' holds the callers whose slot has not returned; the program   *)
(* calls write() and close() from the event loop and from those slots.     *)
(* Notifiers fire from the event loop only.                                *)
(*                                                                         *)
(* d->w names the notifier created last.  One created while another is     *)
(* alive takes its place, and the earlier one stays connected with nothing *)
(* left to delete it: those are counted by `leaked'.  When one of them     *)
(* fires and d->w is null, sn_write calls deleteLater() on a null pointer, *)
(* which Qt 3 answers with a warning.                                      *)
(***************************************************************************)
EXTENDS Naturals, Sequences, SequencesExt

CONSTANTS
  MaxBytes,  \* bound: bytes the program writes
  Chunk,     \* bytes one write(2) is given at most (1024)
  Room       \* capacity of the pipe behind stdout

ASSUME BConsoleAssumption == MaxBytes \in Nat /\ Chunk \in Nat \ {0} /\ Room \in Nat \ {0}

VARIABLES
  wbuf,      \* d->writeBuf; a byte is its number
  w,         \* d->w is a notifier
  leaked,    \* number of connected notifiers that d->w has forgotten
  closing,
  closed,
  stack,     \* callers of tryWrite() whose bytesWritten() is being handled
  pipe,      \* bytes in the pipe
  wrote,     \* history: number of bytes accepted by write()
  out,       \* history: bytes given to stdout
  refused,   \* history: error(ErrWrite) has been emitted
  finished   \* history: number of delayedCloseFinished() signals, one at most

vars == <<wbuf, w, leaked, closing, closed, stack, pipe, wrote, out, refused, finished>>

Callers == {"write", "sn_write"}

TypeOK ==
  /\ wbuf \in Seq(1..MaxBytes)
  /\ w \in BOOLEAN
  /\ leaked \in 0..MaxBytes
  /\ closing \in BOOLEAN
  /\ closed \in BOOLEAN
  /\ stack \in Seq(Callers)
  /\ pipe \in 0..Room
  /\ wrote \in 0..MaxBytes
  /\ out \in Seq(1..MaxBytes)
  /\ refused \in BOOLEAN
  /\ finished \in 0..1

Init ==
  /\ wbuf = <<>>
  /\ w = FALSE
  /\ leaked = 0
  /\ closing = FALSE
  /\ closed = FALSE
  /\ stack = <<>>
  /\ pipe = 0
  /\ wrote = 0
  /\ out = <<>>
  /\ refused = FALSE
  /\ finished = 0

isOpen == ~closing /\ ~closed

-----------------------------------------------------------------------------

\* Mutant of Accepted: the whole chunk leaves the buffer after a short write.
AcceptedForgets(buf, notifier, r, caller) ==
  /\ w' = TRUE
  /\ leaked' = IF notifier THEN leaked + 1 ELSE leaked
  /\ wbuf' = SubSeq(buf, Chunk + 1, Len(buf))
  /\ out' = out \o SubSeq(buf, 1, r)
  /\ pipe' = pipe + r
  /\ stack' = Append(stack, caller)
  /\ UNCHANGED refused

\* write(2) has taken r bytes: a notifier, and bytesWritten(r).
Accepted(buf, notifier, r, caller) ==
  /\ w' = TRUE
  /\ leaked' = IF notifier THEN leaked + 1 ELSE leaked
  /\ wbuf' = SubSeq(buf, r + 1, Len(buf))
  /\ out' = out \o SubSeq(buf, 1, r)
  /\ pipe' = pipe + r
  /\ stack' = Append(stack, caller)
  /\ UNCHANGED refused

\* write(2) has failed with EAGAIN: error(ErrWrite).
Refused(buf, notifier) ==
  /\ w' = notifier
  /\ wbuf' = buf
  /\ refused' = TRUE
  /\ UNCHANGED <<leaked, out, pipe, stack>>

\* tryWrite() with `buf' in the write buffer and d->w set or not.
tryWrite(buf, notifier, caller) ==
  \/ /\ pipe = Room
     /\ Refused(buf, notifier)
  \/ \E r \in 1..Chunk :
       /\ r <= Len(buf)
       /\ pipe + r <= Room
       /\ Accepted(buf, notifier, r, caller)

\* ByteStream::write() of n bytes.
Write(n) ==
  /\ isOpen
  /\ wrote + n <= MaxBytes
  /\ wrote' = wrote + n
  /\ LET buf == wbuf \o [i \in 1..n |-> wrote + i]
     IN  IF wbuf = <<>>
           THEN tryWrite(buf, w, "write")
           ELSE wbuf' = buf /\ UNCHANGED <<w, leaked, stack, pipe, out, refused>>
  /\ UNCHANGED <<closing, closed, finished>>

\* close(), with nothing to write or with something.
Close ==
  /\ isOpen
  /\ closing' = (wbuf # <<>>)
  /\ closed' = (wbuf = <<>>)
  /\ UNCHANGED <<wbuf, w, leaked, stack, pipe, wrote, out, refused, finished>>

\* Mutant of CloseCheck: bytesToWrite() is not asked.
CloseCheckAlways(buf) ==
  IF closing
    THEN closing' = FALSE /\ closed' = TRUE /\ finished' = finished + 1
    ELSE UNCHANGED <<closing, closed, finished>>

\* The end of sn_write(): a delayed close is finished.
CloseCheck(buf) ==
  IF buf = <<>> /\ closing
    THEN closing' = FALSE /\ closed' = TRUE /\ finished' = finished + 1
    ELSE UNCHANGED <<closing, closed, finished>>

\* Mutant of SnWrite: what remains is left for the next write().
SnWriteOnce ==
  /\ stack = <<>>
  /\ \/ w /\ pipe < Room
     \/ leaked > 0
  /\ w' = FALSE
  /\ CloseCheck(wbuf)
  /\ UNCHANGED <<wbuf, leaked, stack, pipe, wrote, out, refused>>

\* sn_write(), by the current notifier or by a forgotten one.  Of several that
\* become ready at once the later find the pipe as the earlier left it.
SnWrite ==
  /\ stack = <<>>
  /\ \/ w /\ pipe < Room
     \/ leaked > 0
  /\ UNCHANGED wrote
  /\ \/ /\ wbuf # <<>>
        /\ tryWrite(wbuf, FALSE, "sn_write")
        /\ UNCHANGED <<closing, closed, finished>>
     \/ /\ wbuf = <<>>
        /\ w' = FALSE
        /\ CloseCheck(wbuf)
        /\ UNCHANGED <<wbuf, leaked, stack, pipe, out, refused>>

\* The slot returns to tryWrite() and its caller goes on.
SlotReturns ==
  /\ stack # <<>>
  /\ stack' = Front(stack)
  /\ IF Last(stack) = "sn_write" THEN CloseCheck(wbuf) ELSE UNCHANGED <<closing, closed, finished>>
  /\ UNCHANGED <<wbuf, w, leaked, pipe, wrote, out, refused>>

\* The reader of the pipe takes a byte.
Drain ==
  /\ pipe > 0
  /\ pipe' = pipe - 1
  /\ UNCHANGED <<wbuf, w, leaked, closing, closed, stack, wrote, out, refused, finished>>

\* Whoever shares the pipe with stdout (stderr, another process) writes a byte.
OtherWriter ==
  /\ pipe < Room
  /\ pipe' = pipe + 1
  /\ UNCHANGED <<wbuf, w, leaked, closing, closed, stack, wrote, out, refused, finished>>

-----------------------------------------------------------------------------

Next ==
  \/ \E n \in 1..MaxBytes : Write(n)
  \/ Close
  \/ SnWrite
  \/ SlotReturns
  \/ Drain
  \/ OtherWriter

Spec == Init /\ [][Next]_vars

\* Slots return, the reader of stdout reads, and a notifier fires that the
\* event loop finds ready again and again.
Fairness == WF_vars(SlotReturns) /\ WF_vars(Drain) /\ SF_vars(SnWrite)

FairSpec == Spec /\ Fairness

-----------------------------------------------------------------------------
(* Properties.                                                             *)

\* Every byte accepted is on stdout or in the buffer, once and in order,
\* however the writes of a bytesWritten() slot nest in a short write.
OutputInOrder == out \o wbuf = [i \in 1..wrote |-> i]

\* A stream counts as closed only with nothing left in the buffer: what is
\* written from the last bytesWritten() slots before close() still goes out.
ClosedAfterLastByte == closed => wbuf = <<>> /\ ~closing

\* A delayed close ends, if no write(2) has been refused.
CloseConcludes == closing ~> (~closing \/ refused)

\* The same without the condition, as bytestream.cpp:89-90 has it: refuted by
\* the refused write that leaves no notifier behind (bconsole.cpp:119-122).
DelayedCloseFinishes == closing ~> ~closing
=============================================================================
