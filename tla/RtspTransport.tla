---------------------------- MODULE RtspTransport ----------------------------
(***************************************************************************)
(* The text of a Transport header: Transport and TransportList of          *)
(* src/rtsp/rtspbase.cpp, and of PortRange in src/rtsp/altports.cpp what   *)
(* reads and writes the value of a port argument.                          *)
(*                                                                         *)
(* A text is a sequence of tokens <<kind, base, count>>: a separator or a  *)
(* quote, a word, or a range of ports.  A transport is a record of its     *)
(* name and its arguments, each a name and a value that may be None, which *)
(* is the null string.                                                     *)
(***************************************************************************)
EXTENDS AltPorts

Tokens == STRING \X Nat \X Nat

ASSUME RtspTransportAssumption ==
  /\ {",", ";", "=", "quote", "range", "client_port", "server_port"} \subseteq STRING
  /\ None \notin Seq(Tokens)

Word(w)  == <<w, 0, 0>>
PortText(r) == <<"range", r.base, r.count>>

Comma == Word(",")
Semi  == Word(";")
Equal == Word("=")
Quote == Word("quote")

-----------------------------------------------------------------------------
(* PortRange.                                                              *)

\* fromString(): what is no number counts as 0, alone as a port.
FromText(value) ==
  LET ranges == {i \in DOMAIN value : value[i][1] = "range" /\ value[i][3] > 1}
      t      == value[1]
  IN  IF value \in {None, <<>>} THEN None
      ELSE IF Len(value) = 1 /\ t[1] = "range" /\ (t[3] > 1 => t[2] > 0) THEN [base |-> t[2], count |-> t[3]]
      ELSE IF ranges = {} THEN [base |-> 0, count |-> 1]
      ELSE None

\* toString()
ToText(r) == IF r.count > 0 THEN << PortText(r) >> ELSE None

-----------------------------------------------------------------------------
(* Transport.                                                              *)

\* findOneOf(), from place i; past the end if there is none.
findOneOf(s, list, i) == Min({n \in i..Len(s) : s[n] \in list} \cup {Len(s) + 1})

\* Mutant of mid: the separator is part of a value, as if it were a closing quote.
midInclusive(s, i, j) == IF i > Len(s) THEN None ELSE SubSeq(s, i, Min({j, Len(s)}))

\* QString::mid(), from i up to before j or the end: past the end it is null.
mid(s, i, j) == IF i > Len(s) THEN None ELSE SubSeq(s, i, IF j > Len(s) THEN Len(s) ELSE j - 1)

\* argument(), or None.
argument(t, name) ==
  LET found == {i \in DOMAIN t.args : t.args[i].name = <<Word(name)>>}
  IN  IF found = {} THEN None ELSE t.args[Min(found)].value

\* Mutant of setArgument: an argument more.
setArgumentAppends(t, name, value) ==
  [t EXCEPT !.args = Append(@, [name |-> <<Word(name)>>, value |-> value])]

\* setArgument(): of the first one with that name.
setArgument(t, name, value) ==
  LET found == {i \in DOMAIN t.args : t.args[i].name = <<Word(name)>>}
  IN  IF found = {} THEN t ELSE [t EXCEPT !.args[Min(found)].value = value]

\* An argument as toString() writes it.
ArgText(v) == <<Semi>> \o v.name \o (IF v.value = None THEN <<>> ELSE <<Equal>> \o v.value)

\* Transport::toString()
toString(t) == t.name \o FlattenSeq([i \in DOMAIN t.args |-> ArgText(t.args[i])])

\* Where the value ends whose `=' is at place n: behind the closing quote, or at
\* the next separator.
ValueEnd(s, n) ==
  IF n < Len(s) /\ s[n + 1] = Quote THEN findOneOf(s, {Quote}, n + 2) + 1
  ELSE findOneOf(s, {Comma, Semi}, n + 1)

\* An argument from place i on, whose name ends at n; `end' is where the separator
\* behind it is.  One without a value has the last value that was read, for tval
\* is not cleared.
Arg(s, i, n, end, tval) ==
  [name  |-> SubSeq(s, i, n - 1),
   value |-> IF n < end THEN mid(s, n + 1, end) ELSE tval,
   end   |-> end]

ArgNamed(s, i, n, tval) ==
  Arg(s, i, n, IF n <= Len(s) /\ s[n] = Equal THEN ValueEnd(s, n) ELSE n, tval)

ReadArg(s, i, tval) == ArgNamed(s, i, findOneOf(s, {Comma, Semi, Equal}, i), tval)

\* What the loop of readFromString() does with an argument: an error, if it has no
\* name or no separator behind its quote.
TakeArg(s, r, a) ==
  IF a.name = <<>> \/ a.end > Len(s) + 1 \/ (a.end <= Len(s) /\ s[a.end] \notin {Comma, Semi})
    THEN [r EXCEPT !.ok = FALSE, !.last = TRUE]
    ELSE [ok |-> TRUE, args |-> Append(r.args, [name |-> a.name, value |-> a.value]),
          tval |-> a.value, at |-> a.end + 1, last |-> a.end > Len(s) \/ s[a.end] = Comma]

\* That loop, a turn for a token at most, and `at' where it goes on.
ReadArgs(s, start) ==
  LET Turn(r, token) ==
        IF r.last \/ r.at > Len(s) THEN r ELSE TakeArg(s, r, ReadArg(s, r.at, r.tval))
  IN  FoldLeft(Turn, [ok |-> TRUE, args |-> <<>>, tval |-> None, at |-> start, last |-> FALSE], s)

\* The transport whose name goes from `start' to before n, and its arguments.
TransportNamed(s, start, n, r) ==
  [ok |-> n > start /\ r.ok, at |-> r.at,
   transport |-> [name |-> SubSeq(s, start, n - 1), args |-> r.args]]

ReadTransport(s, start, n) ==
  TransportNamed(s, start, n, IF n <= Len(s) /\ s[n] = Semi THEN ReadArgs(s, n + 1)
                              ELSE [ok |-> TRUE, args |-> <<>>, at |-> n + 1])

\* Transport::readFromString(), from place `start' of a text that goes on there.
readFromString(s, start) == ReadTransport(s, start, findOneOf(s, {Comma, Semi}, start))

-----------------------------------------------------------------------------
(* TransportList and Packet.                                               *)

\* TransportList::toString(), which Packet::setTransports() puts in the header.
ListText(list) ==
  FlattenSeq([i \in DOMAIN list |->
                (IF i > 1 THEN <<Comma>> ELSE <<>>) \o toString(list[i])])

\* TransportList::fromString(), as Packet::transports() has it: what comes before
\* an error stays, for the result is not looked at.
TakeTransport(s, acc, r) ==
  IF r.ok THEN [list |-> Append(acc.list, r.transport), at |-> r.at]
  ELSE [acc EXCEPT !.at = Len(s) + 1]

transports(s) ==
  LET Turn(acc, token) ==
        IF acc.at > Len(s) THEN acc ELSE TakeTransport(s, acc, readFromString(s, acc.at))
  IN  FoldLeft(Turn, [list |-> <<>>, at |-> 1], s).list

=============================================================================
