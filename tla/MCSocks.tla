------------------------------- MODULE MCSocks -------------------------------
\* Socks for model checking, and the datagrams of an association, on short hosts
\* and payloads: with a HostLimit of 3 and a BufferSize of 12 both are cut.
EXTENDS Socks, SocksDatagram, FiniteSetsExt

Short(bytes, n) == UNION {[1..k -> bytes] : k \in 0..n}

\* sn_activated() reads of a datagram what write() put there, as far as it fits,
\* and of any other nothing, or less than there was.
ASSUME DatagramsAreRead ==
  /\ \A h \in Short({1, 127}, 4), p \in {0, 255, 256, 65535}, d \in Short({0, 255}, 5) :
       Received(sp_create_udp(h, p, d)) =
         [kind |-> "name", host |-> Truncated(h, HostLimit), port |-> p,
          data |-> Truncated(d, BufferSize - 7 - Min({HostLimit, Len(h)}))]
  /\ \A s \in Short({0, 1, 3, 4, 5}, 6) : Received(s) = None \/ Len(Received(s).data) < Len(s)
=============================================================================
