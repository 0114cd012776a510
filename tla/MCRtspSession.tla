---------------------------- MODULE MCRtspSession ----------------------------
\* RtspSession for model checking.  Of the ports 1 to 6, with 2 bound already,
\* there are enough for the first two offers and a range for the server; for the
\* client's ranges of the next two only, if all of the three ports are taken; and
\* not for the last.  The second has a quoted value, the third an argument without
\* a value at the end, the fifth ends in an `=', and the ones next to it in an error.
EXTENDS RtspSession

Pair(base, count) == [base |-> base, count |-> count]

ClientPort(base, count) == <<Word("client_port"), Equal, PortText(Pair(base, count))>>
RTP(base, count)  == <<Word("RTP"), Semi, Word("unicast"), Semi>> \o ClientPort(base, count)
Mode == <<Word("mode"), Equal, Quote, Word("PLAY"), Comma, Word("RECORD"), Quote>>

MCOffers ==
  { RTP(20, 1) \o <<Comma>> \o RTP(20, 2),
    RTP(20, 2) \o <<Comma>> \o <<Word("RTP"), Semi>> \o Mode \o <<Semi>> \o ClientPort(30, 1),
    <<Word("RTP"), Semi>> \o ClientPort(20, 3) \o <<Semi, Word("unicast")>>,
    RTP(20, 1) \o <<Comma>> \o RTP(30, 3) \o <<Comma, Semi>>,
    RTP(20, 1) \o <<Comma, Word("RTP"), Semi>> \o Mode \o <<Semi, Word("client_port"), Equal>>,
    RTP(20, 2) \o <<Comma>> \o RTP(30, 3) \o <<Comma, Semi>> }
=============================================================================
