----------------------------- MODULE SrvResolver -----------------------------
(***************************************************************************)
(* src/network/srvresolver.cpp: an SRV query under a timer, then one host  *)
(* lookup per server until one succeeds (the build with NDns).             *)
(*                                                                         *)
(* Everything runs in the GUI thread and each method or slot is one step.  *)
(* Every handler emits resultsReady as its last act, so the connected slot *)
(* is a step of its own that comes next: `signal' holds until it has run,  *)
(* and the program's calls, from that slot or from the event loop, may     *)
(* come at any time.  The NDns member is what LookupService promises: the  *)
(* name it looks up, or None.                                              *)
(***************************************************************************)
EXTENDS Naturals, Sequences, SequencesExt

CONSTANTS
  Servers,     \* QDns::Server records: name, port, priority, weight
  MaxServers,  \* bound: servers of one reply
  MaxCalls,    \* bound: resolve and next calls of a behaviour
  None,        \* no lookup under way
  NoAddr       \* a null address

ASSUME SrvAssumption ==
  /\ \A s \in Servers : /\ DOMAIN s = {"name", "port", "priority", "weight"}
                        /\ s.port \in Nat /\ s.priority \in Nat /\ s.weight \in Nat
                        /\ s.name \notin {None, NoAddr}
  /\ MaxServers \in Nat /\ MaxCalls \in Nat

VARIABLES
  qdns,     \* the QDns: "none", "working", or "done" with results to signal
  timer,    \* the 15 second timer is active
  ndns,     \* the name the NDns looks up, or None
  servers,  \* servers still to be tried, in order
  failed,
  result,   \* resultAddress and resultPort
  srvonly,
  signal,   \* resultsReady is being emitted
  reply,    \* history: the servers of the SRV reply, as received
  tried,    \* history: the servers looked up since, in order
  calls     \* history: calls of the program, bounded by MaxCalls

resolverVars == <<qdns, timer, ndns, servers, failed, result, srvonly, signal, reply, tried>>
vars == <<resolverVars, calls>>

Names    == {s.name : s \in Servers}
NoResult == [addr |-> NoAddr, port |-> 0]

TypeOK ==
  /\ qdns \in {"none", "working", "done"}
  /\ timer \in BOOLEAN
  /\ ndns \in Names \cup {None}
  /\ servers \in Seq(Servers)
  /\ failed \in BOOLEAN
  /\ result \in [addr: Names \cup {NoAddr}, port: {s.port : s \in Servers} \cup {0}]
  /\ srvonly \in BOOLEAN
  /\ signal \in BOOLEAN
  /\ reply \in Seq(Servers)
  /\ tried \in Seq(Servers)
  /\ calls \in 0..MaxCalls

\* isBusy()
Busy == qdns # "none" \/ ndns # None

-----------------------------------------------------------------------------
(* sortSRVList.                                                            *)

\* s goes before t: lower priority value, then lower weight.
Before(s, t) == \/ s.priority < t.priority
                \/ s.priority = t.priority /\ s.weight < t.weight

\* Mutant of LeastIndex: the comparison ignores the priority.
LeastIndexByWeight(list) ==
  CHOOSE i \in DOMAIN list : \A j \in DOMAIN list : list[i].weight <= list[j].weight

\* The inner loop: the first element that no other goes before.
LeastIndex(list) ==
  CHOOSE i \in DOMAIN list : /\ \A j \in DOMAIN list : ~Before(list[j], list[i])
                             /\ \A j \in 1..(i-1) : Before(list[i], list[j])

\* The outer loop moves the least element of tmp to the end of list.
SortSRVList(reply0) ==
  LET step[n \in 0..Len(reply0)] ==
        IF n = 0 THEN [list |-> <<>>, tmp |-> reply0]
        ELSE LET p == step[n-1]
                 i == LeastIndex(p.tmp)
             IN  [list |-> Append(p.list, p.tmp[i]), tmp |-> RemoveAt(p.tmp, i)]
  IN  step[Len(reply0)].list

-----------------------------------------------------------------------------
(* The parts of the object that its methods share.                         *)

\* stop(), whatever the state it finds.
Cleared ==
  /\ timer' = FALSE
  /\ qdns' = "none"
  /\ ndns' = None
  /\ result' = NoResult
  /\ servers' = <<>>
  /\ failed' = TRUE
  /\ reply' = <<>>
  /\ tried' = <<>>
  /\ UNCHANGED srvonly

Stop == Cleared /\ UNCHANGED signal

\* The constructor ends with stop().
Init ==
  /\ qdns = "none"
  /\ timer = FALSE
  /\ ndns = None
  /\ servers = <<>>
  /\ failed = TRUE
  /\ result = NoResult
  /\ srvonly = FALSE
  /\ signal = FALSE
  /\ reply = <<>>
  /\ tried = <<>>
  /\ calls = 0

\* resolve() and resolveSrvOnly()
Resolve(only) ==
  /\ failed' = FALSE
  /\ srvonly' = only
  /\ timer' = TRUE
  /\ qdns' = "working"
  /\ ndns' = None
  /\ result' = NoResult
  /\ servers' = <<>>
  /\ reply' = <<>>
  /\ tried' = <<>>
  /\ UNCHANGED signal

\* next(): silent when no server is left, tryNext() otherwise.
NextServer ==
  /\ IF servers = <<>> THEN UNCHANGED ndns ELSE ndns' = Head(servers).name
  /\ UNCHANGED <<qdns, timer, servers, failed, result, srvonly, signal, reply, tried>>

-----------------------------------------------------------------------------
(* Events.                                                                 *)

\* QDns obtains its results.
QdnsFinish ==
  /\ qdns = "working"
  /\ ~signal
  /\ qdns' = "done"
  /\ UNCHANGED <<timer, ndns, servers, failed, result, srvonly, signal, reply, tried>>

\* Mutant of QdnsEarly: the timer is stopped before isWorking() is asked.
QdnsEarlyStopsTimer ==
  /\ qdns = "working"
  /\ ~signal
  /\ timer' = FALSE
  /\ UNCHANGED <<qdns, ndns, servers, failed, result, srvonly, signal, reply, tried>>

\* QDns signals although it is still working: the slot ignores it.
QdnsEarly ==
  /\ qdns = "working"
  /\ ~signal
  /\ UNCHANGED resolverVars

\* qdns_done() with results.
QdnsDone(list) ==
  /\ qdns = "done"
  /\ ~signal
  /\ IF list = <<>>
       THEN Cleared /\ signal' = TRUE
       ELSE /\ timer' = FALSE
            /\ qdns' = "none"
            /\ servers' = SortSRVList(list)
            /\ reply' = list
            /\ tried' = <<>>
            /\ signal' = srvonly
            /\ ndns' = IF srvonly THEN ndns ELSE Head(servers').name
            /\ UNCHANGED <<failed, result, srvonly>>

\* Mutant of NdnsDone: a failed lookup leaves its server in the list.
NdnsDoneKeepsServer(found) ==
  /\ ndns # None
  /\ ~signal
  /\ ndns' = Head(servers).name
  /\ UNCHANGED <<qdns, timer, servers, failed, result, srvonly, signal, reply, tried>>

\* Mutant of NdnsDone: the first failed lookup ends the search.
NdnsDoneGivesUp(found) ==
  /\ ndns # None
  /\ ~signal
  /\ signal' = TRUE
  /\ IF found
       THEN /\ result' = [addr |-> ndns, port |-> Head(servers).port]
            /\ servers' = Tail(servers)
            /\ tried' = Append(tried, Head(servers))
            /\ ndns' = None
            /\ UNCHANGED <<qdns, timer, failed, srvonly, reply>>
       ELSE Cleared

\* ndns_done(): the front server has an address, or the next one is tried, or
\* the search has failed.
NdnsDone(found) ==
  /\ ndns # None
  /\ ~signal
  /\ \/ /\ found
        /\ servers' = Tail(servers)
        /\ tried' = Append(tried, Head(servers))
        /\ result' = [addr |-> ndns, port |-> Head(servers).port]
        /\ ndns' = None
        /\ signal' = TRUE
        /\ UNCHANGED <<qdns, timer, failed, srvonly, reply>>
     \/ /\ ~found
        /\ Len(servers) > 1
        /\ servers' = Tail(servers)
        /\ tried' = Append(tried, Head(servers))
        /\ ndns' = Head(servers').name
        /\ UNCHANGED <<qdns, timer, failed, result, srvonly, signal, reply>>
     \/ /\ ~found
        /\ Len(servers) <= 1
        /\ Cleared
        /\ signal' = TRUE

\* t_timeout()
Timeout ==
  /\ timer
  /\ ~signal
  /\ Cleared
  /\ signal' = TRUE

SlotReturns ==
  /\ signal
  /\ signal' = FALSE
  /\ UNCHANGED <<qdns, timer, ndns, servers, failed, result, srvonly, reply, tried>>

Replies == UNION {{list \in [1..n -> Servers] : IsInjective(list)} : n \in 0..MaxServers}

-----------------------------------------------------------------------------

Counted(op) == calls < MaxCalls /\ calls' = calls + 1 /\ op

Program ==
  \/ \E only \in BOOLEAN : Counted(Resolve(only))
  \/ Counted(NextServer)
  \/ Stop /\ UNCHANGED calls

Event ==
  /\ \/ QdnsFinish
     \/ QdnsEarly
     \/ \E list \in Replies : QdnsDone(list)
     \/ \E found \in BOOLEAN : NdnsDone(found)
     \/ Timeout
     \/ SlotReturns
  /\ UNCHANGED calls

Next == Program \/ Event

Spec == Init /\ [][Next]_vars

\* Slots return, timers fire and every NDns lookup ends (LookupService).  The
\* name server need not answer.
Fairness == /\ WF_vars(SlotReturns /\ UNCHANGED calls)
            /\ WF_vars(Timeout /\ UNCHANGED calls)
            /\ WF_vars((\E found \in BOOLEAN : NdnsDone(found)) /\ UNCHANGED calls)

FairSpec == Spec /\ Fairness

-----------------------------------------------------------------------------
(* Properties.                                                             *)

\* A query that the name server never answers is always covered by the timer,
\* which runs for nothing else: the early signals of QDns do not stop it
\* (qdns_done asks isWorking() first).
TimerCoversQuery == qdns # "none" <=> timer

\* The servers tried, then those still to try, are the reply in the order of
\* priority, then weight, equals in the order received.
ServersInOrder ==
  LET all == tried \o servers
  IN  /\ Len(all) = Len(reply)
      /\ ToSet(all) = ToSet(reply)
      /\ \A i, j \in DOMAIN all : i < j =>
           \/ Before(all[i], all[j])
           \/ ~Before(all[j], all[i])
              /\ \A m, n \in DOMAIN reply : reply[m] = all[i] /\ reply[n] = all[j] => m < n

\* Failure is announced by a lookup only when every server of the reply has
\* been tried.
FailureOnlyAfterAllServers ==
  [][ndns # None /\ ~signal /\ signal' /\ failed' => Len(tried) + 1 = Len(reply)]_vars

\* Every search ends: with an address, with failure, or with stop().
SearchEnds == Busy ~> ~Busy
=============================================================================
