---------------------------- MODULE MCSrvResolver ----------------------------
\* SrvResolver for model checking: four servers that differ by priority, differ
\* by weight only, or tie.
EXTENDS SrvResolver

CONSTANTS a, b, c, d

MCServers ==
  { [name |-> a, port |-> 1, priority |-> 1, weight |-> 0],
    [name |-> b, port |-> 2, priority |-> 0, weight |-> 5],
    [name |-> c, port |-> 3, priority |-> 0, weight |-> 1],
    [name |-> d, port |-> 4, priority |-> 0, weight |-> 5] }
=============================================================================
