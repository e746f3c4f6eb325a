--------------------------- MODULE MCCtiIfHandler ---------------------------
(* Instance of CtiIfHandler for TLC. *)
EXTENDS CtiIfHandler

CONSTANTS c1, agent1, agent2, outside

\* Two agents and an address in no range.  Between the two tables the first agent
\* moves to the VAS server of the second, and the second one leaves or enters the
\* ranges.
MCIps == {agent1, agent2, outside}
Table(n1, n2) == [ip \in MCIps |-> IF ip = agent1 THEN n1 ELSE IF ip = agent2 THEN n2 ELSE -1]
MCTables == {Table(1, 2), Table(2, -1)}
=============================================================================
