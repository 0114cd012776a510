------------------------------- MODULE AltPorts -------------------------------
(***************************************************************************)
(* src/rtsp/altports.cpp: ranges of UDP ports that stand in for the ranges *)
(* of a peer.  An AltPorts reserves a sequence of ports for each range it  *)
(* is given, then keeps one of them.                                       *)
(*                                                                         *)
(* A range, and a PortSequence, is [base, count]; a PortSequence holds its *)
(* ports bound as long as it lives.  An AltPorts is a record of its list,  *)
(* its ports and its orig.  `taken' is the set of ports bound already, by  *)
(* this program or another.                                                *)
(***************************************************************************)
EXTENDS Integers, Sequences, SequencesExt, FiniteSetsExt

CONSTANTS
  PORT_ALLOC_BASE,
  PORT_ALLOC_MAX,
  None

ASSUME AltPortsAssumption ==
  /\ PORT_ALLOC_BASE \in Nat /\ PORT_ALLOC_MAX \in Nat /\ PORT_ALLOC_BASE > 0
  /\ None \notin [base: Nat, count: Nat]

NoRange  == [base |-> 0, count |-> 0]
Ports(r) == r.base .. (r.base + r.count - 1)

\* QValueList::operator[](n) and first(): past the end is a default element.
At(list, n) ==
  LET k == n % (Len(list) + 1)
  IN  IF k = Len(list) THEN NoRange ELSE list[k + 1]

-----------------------------------------------------------------------------
(* PortRangeList.                                                          *)

\* Mutant of Merge: the first range with a base is taken for all.
MergeFirst(list, r) ==
  IF \E i \in DOMAIN list : list[i].base = r.base THEN list ELSE Append(list, r)

\* merge()
Merge(list, r) ==
  IF \E i \in DOMAIN list : list[i].base = r.base
    THEN LET i == Min({i \in DOMAIN list : list[i].base = r.base})
         IN  [list EXCEPT ![i].count = Max({@, r.count})]
    ELSE Append(list, r)

\* findByBase(), from 0, or -1.
FindByBase(list, base) ==
  IF \E i \in DOMAIN list : list[i].base = base
    THEN Min({i \in DOMAIN list : list[i].base = base}) - 1
    ELSE -1

-----------------------------------------------------------------------------
(* PortSequence.                                                           *)

\* Mutant of Allocate: it goes on after the number of ports it wants.
AllocateStrides(count, taken) ==
  LET scan[start \in Nat] ==
        IF start + count - 1 > PORT_ALLOC_MAX THEN None
        ELSE IF Ports([base |-> start, count |-> count]) \cap taken = {}
          THEN [base |-> start, count |-> count]
          ELSE scan[start + count]
  IN  scan[PORT_ALLOC_BASE]

\* allocate() without a base: tries a start, and goes on after the port that
\* could not be bound.  The ports bound by a failed try are released.
Allocate(count, taken) ==
  LET scan[start \in Nat] ==
        LET refused == {p \in Ports([base |-> start, count |-> count]) : p \in taken}
        IN  IF start + count - 1 > PORT_ALLOC_MAX THEN None
            ELSE IF refused = {} THEN [base |-> start, count |-> count]
            ELSE scan[Min(refused) + 1]
  IN  scan[PORT_ALLOC_BASE]

\* resize(), which does not grow.
Resize(s, count) == IF count > s.count THEN s ELSE [s EXCEPT !.count = count]

-----------------------------------------------------------------------------
(* AltPorts.                                                               *)

Empty == [list |-> <<>>, ports |-> None, orig |-> <<>>]

IsEmpty(alt) == alt.ports = None /\ alt.list = <<>>

\* The ports that it holds bound.
Held(alt) ==
  (UNION {Ports(alt.list[i]) : i \in DOMAIN alt.list})
  \cup (IF alt.ports = None THEN {} ELSE Ports(alt.ports))

\* Mutant of Reserved: the sequences before do not count as taken.
ReservedOverlapping(real, taken) ==
  LET new == [i \in DOMAIN real |-> Allocate(real[i].count, taken)]
  IN  IF \E i \in DOMAIN new : new[i] = None THEN None ELSE new

\* The loop of reserve(): a sequence for each range, or None if one fails.
Reserved(real, taken) ==
  FoldLeft(LAMBDA acc, r :
             IF acc = None THEN None
             ELSE LET s == Allocate(r.count, taken \cup UNION {Ports(acc[i]) : i \in DOMAIN acc})
                  IN  IF s = None THEN None ELSE Append(acc, s),
           <<>>, real)

\* reserve(): whether it succeeds, and what becomes of the AltPorts.
CanReserve(alt, real, taken) == IsEmpty(alt) /\ Reserved(real, taken) # None
Reserve(alt, real, taken)    == [alt EXCEPT !.list = Reserved(real, taken), !.orig = real]

\* keep(): one sequence stays, the others are let go.
Keep(alt, r) ==
  LET n == FindByBase(alt.orig, r.base)
  IN  IF alt.ports # None \/ n = -1 THEN alt
      ELSE [alt EXCEPT !.ports = Resize(alt.list[n + 1], r.count), !.list = <<>>]

\* range()
RangeOf(alt) == IF alt.ports = None THEN NoRange ELSE alt.ports
=============================================================================
