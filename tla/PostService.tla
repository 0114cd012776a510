------------------------------ MODULE PostService ------------------------------
(***************************************************************************)
(* What HttpPoll counts on in the HttpProxyPost under it: each post ends   *)
(* with one result() or one error(), or is given up by stop() or the next  *)
(* post(); and the body of a result is what the server answered to that    *)
(* very post, unless the connection broke before the whole answer came,    *)
(* for then nothing is promised of it.  Of a post that was given up there  *)
(* may still come a result, with an empty body.                            *)
(***************************************************************************)
EXTENDS Sequences

CONSTANT None

VARIABLES
  request,    \* the packet posted, or None
  reply,      \* what the server has answered to it, or None
  broken,     \* the connection is closed and the answer is not complete
  delivered,  \* body()
  signal      \* result() is being handled

vars == <<request, reply, broken, delivered, signal>>

Init ==
  /\ request = None
  /\ reply = None
  /\ broken = FALSE
  /\ delivered = <<>>
  /\ signal = FALSE

\* post(), also while another is under way.
Ask ==
  /\ request' # None
  /\ reply' = None
  /\ broken' = FALSE
  /\ delivered' = <<>>
  /\ UNCHANGED signal

\* stop()
Withdraw ==
  /\ request # None
  /\ request' = None
  /\ UNCHANGED <<reply, broken, delivered, signal>>

\* The server answers.
Answer ==
  /\ reply = None
  /\ reply' # None
  /\ UNCHANGED <<request, broken, delivered, signal>>

\* The connection ends too early.
Break ==
  /\ broken' = TRUE
  /\ UNCHANGED <<request, reply, delivered, signal>>

\* result()
Result ==
  /\ request # None
  /\ request' = None
  /\ broken \/ delivered' = reply
  /\ signal' = TRUE
  /\ UNCHANGED <<reply, broken>>

\* result() of a post that was given up.
LateResult ==
  /\ request = None
  /\ delivered' = <<>>
  /\ signal' = TRUE
  /\ UNCHANGED <<request, reply, broken>>

\* The slot of result() returns.
Handled ==
  /\ signal' = FALSE
  /\ UNCHANGED <<request, reply, broken, delivered>>

\* error()
Failure ==
  /\ request # None
  /\ request' = None
  /\ delivered' = <<>>
  /\ UNCHANGED <<reply, broken, signal>>

Next == Ask \/ Withdraw \/ Answer \/ Break \/ Result \/ LateResult \/ Handled \/ Failure

\* A post ends.
Spec == Init /\ [][Next]_vars /\ WF_vars(Failure \/ Result)
=============================================================================
