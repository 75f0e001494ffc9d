----------------------------- MODULE MCTelnetd -----------------------------
(* Instances of Telnetd for TLC. *)
EXTENDS Telnetd

CONSTANTS c1, c2, p1

MCTwoClients == {c1, c2}
MCPrints == {p1}
MCAppPrints == {App}
MCCommandsPrint == {App, c1, c2}

=============================================================================
