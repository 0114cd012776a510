------------------------------ MODULE MCBSocket ------------------------------
\* BSocket for model checking: two servers to search.
EXTENDS BSocket

CONSTANTS a, b

MCServers ==
  { [name |-> a, port |-> 1, priority |-> 1, weight |-> 0],
    [name |-> b, port |-> 2, priority |-> 0, weight |-> 0] }
=============================================================================
