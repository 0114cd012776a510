------------------------------- MODULE HttpHeader -------------------------------
(***************************************************************************)
(* The header of an HTTP answer, as extractLine() and extractMainHeader()  *)
(* of src/network/httppoll.cpp and their twins in httpconnect.cpp see it.  *)
(*                                                                         *)
(* A unit is <<text, number>>: the text of a line with its CR, the CR of   *)
(* an empty line, an LF, or a byte of data, so that a block can end        *)
(* between a CR and its LF.                                                *)
(***************************************************************************)
EXTENDS Naturals, Sequences, FiniteSetsExt

Data(n) == <<"data", n>>
CR == <<"CR", 0>>
LF == <<"LF", 0>>

\* A line; the empty one ends the header.
Line(text) == IF text = "none" THEN <<CR, LF>> ELSE << <<text, 0>>, LF >>

Drop(s, n) == SubSeq(s, n + 1, Len(s))

\* Where extractLine() finds lines to end, and the first empty one.
LineEnds(buf)   == {n \in DOMAIN buf : n > 1 /\ buf[n] = LF}
HeaderEnds(buf) == {n \in LineEnds(buf) : buf[n - 1] = CR}

\* What extractLine() takes when it is called until it finds no line, or the
\* empty one.
Extent(buf) ==
  IF HeaderEnds(buf) # {} THEN Min(HeaderEnds(buf))
  ELSE Max(LineEnds(buf) \cup {0})

\* The lines it returns, without the empty one.
Lines(buf) ==
  LET lines[n \in 0..Extent(buf)] ==
        IF n = 0 THEN <<>>
        ELSE IF buf[n] \in {CR, LF} THEN lines[n - 1]
        ELSE Append(lines[n - 1], buf[n])
  IN  lines[Extent(buf)]

=============================================================================
