---------------------------- MODULE LookupService ----------------------------
(***************************************************************************)
(* What an asynchronous resolver promises its users: each object has at    *)
(* most one request pending; a request is withdrawn, or answered once with *)
(* the address of the host that was asked for or a failure, and the answer *)
(* is announced by a signal whose slot runs before the next answer.        *)
(***************************************************************************)
CONSTANTS Objects, Hosts, None, NoAddr

VARIABLES
  pending,   \* pending[o]: the host o waits for, or None
  answer,    \* answer[o]: the address o holds
  emitting   \* the object whose answer is being announced, or None

vars == <<pending, answer, emitting>>

Init ==
  /\ pending = [o \in Objects |-> None]
  /\ answer = [o \in Objects |-> NoAddr]
  /\ emitting = None

\* A new object has no answer.
Renew(o) ==
  /\ pending[o] = None
  /\ answer' = [answer EXCEPT ![o] = NoAddr]
  /\ UNCHANGED <<pending, emitting>>

Ask(o, h) ==
  /\ pending[o] = None
  /\ pending' = [pending EXCEPT ![o] = h]
  /\ UNCHANGED <<answer, emitting>>

Withdraw(o) ==
  /\ pending[o] # None
  /\ pending' = [pending EXCEPT ![o] = None]
  /\ UNCHANGED <<answer, emitting>>

Answer(o) ==
  /\ pending[o] # None
  /\ emitting = None
  /\ \E a \in {pending[o], NoAddr} : answer' = [answer EXCEPT ![o] = a]
  /\ pending' = [pending EXCEPT ![o] = None]
  /\ emitting' = o

Announced ==
  /\ emitting # None
  /\ emitting' = None
  /\ UNCHANGED <<pending, answer>>

Next ==
  \/ \E o \in Objects :
       \/ Renew(o)
       \/ \E h \in Hosts : Ask(o, h)
       \/ Withdraw(o)
       \/ Answer(o)
  \/ Announced

Spec == Init /\ [][Next]_vars

\* A request that stays pending is answered.
FairSpec == Spec /\ \A o \in Objects : SF_vars(Answer(o))
=============================================================================
