---------------------------- MODULE MCHttpConnect ----------------------------
\* HttpConnect for model checking, and the codec of the credentials it sends
\* (httpconnect.cpp:201), on short sequences of bytes of each kind.
EXTENDS HttpConnect, Base64

Credentials == UNION {[1..n -> {0, 1, 65, 128, 200, 255}] : n \in 0..5}
Texts       == UNION {[1..n -> {-1, 0, 33, 63, 64}] : n \in 0..5}

\* decode() undoes encode(), and of any text makes no more than three quarters.
ASSUME CredentialsRoundTrip ==
  /\ \A s \in Credentials : Len(encode(s)) = 4 * ((Len(s) + 2) \div 3) /\ decode(encode(s)) = s
  /\ \A t \in Texts : decode(t) \in Seq(Byte) /\ 4 * Len(decode(t)) <= 3 * Len(t)
=============================================================================
