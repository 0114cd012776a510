---------------------------- MODULE SocksDatagram ----------------------------
(***************************************************************************)
(* The datagrams of SocksUDP and SocksServer in src/network/socks.cpp: the *)
(* header that SocksUDP::write() puts before the data, and what            *)
(* SocksServer::sn_activated() reads of it.                                *)
(*                                                                         *)
(* A byte is a number.  A host is the bytes of its name, which is ASCII:   *)
(* it is written in UTF-8 and read in Latin-1.  SocksUDP::sn_activated()   *)
(* hands a datagram on as it is, and so does SocksServer::writeUDP().      *)
(***************************************************************************)
EXTENDS Integers, Sequences

CONSTANTS
  HostLimit,   \* bytes of a name at most (255)
  BufferSize,  \* bytes of a datagram at most, for readBlock() (8192)
  None

ASSUME SocksDatagramAssumption ==
  /\ HostLimit \in 1..255
  /\ BufferSize \in Nat /\ BufferSize >= 7 + HostLimit

Payload == Seq(0..255)
\* What two bytes say.
Port == {p \in Nat : p \div 256 \in 0..255}
Host == Seq(1..127)

\* QCString::truncate() and QByteArray::resize(), of what is longer.
Truncated(s, n) == IF Len(s) <= n THEN s ELSE SubSeq(s, 1, n)

\* sp_create_udp()
sp_create_udp(host, port, buf) ==
  LET h == Truncated(host, HostLimit)
  IN  << 0, 0, 0, 3, Len(h) >> \o h \o << port \div 256, port % 256 >> \o buf

\* Where the host begins and ends, by the type of the address, and which it is:
\* of any other type it is empty.
HostKind(from) ==
  CASE from[4] = 1 -> "ip4" [] from[4] = 3 -> "name" [] from[4] = 4 -> "ip6" [] OTHER -> "none"
HostBegin(from) == IF from[4] = 3 THEN 5 ELSE 4
HostLength(from) ==
  CASE from[4] = 1 -> 4 [] from[4] = 3 -> from[5] [] from[4] = 4 -> 16 [] OTHER -> 0

\* sp_read_udp(): None if there are not enough bytes.
sp_read_udp(from) ==
  LET begin == HostBegin(from)
      end   == begin + HostLength(from)
  IN  IF Len(from) < 4 \/ Len(from) < begin \/ Len(from) < end + 2 THEN None
      ELSE [kind |-> HostKind(from),
            host |-> SubSeq(from, begin + 1, end),
            port |-> from[end + 1] * 256 + from[end + 2],
            data |-> SubSeq(from, end + 3, Len(from))]

\* The reading of a datagram in SocksServer::sn_activated().
Received(datagram) == sp_read_udp(Truncated(datagram, BufferSize))
=============================================================================
