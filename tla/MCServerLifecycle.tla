--------------------------- MODULE MCServerLifecycle ---------------------------
\* One query that can be decoded and one that cannot.  One connection makes two
\* requests; the other is there to be accepted late as well.
EXTENDS ServerLifecycle

CONSTANTS c1, c2

MCConns == {c1, c2}
MCMayClose == {c1}
MCMaxRequests == [c \in MCConns |-> IF c = c1 THEN 2 ELSE 0]
==============================================================================
