--------------------------- MODULE MCSelixReactor ---------------------------
(* Instances of SelixReactor for TLC: which calls each kind of caller makes. *)
EXTENDS SelixReactor, TLC

CONSTANTS k1, k2, k3

MCSocks3 == {k1, k2, k3}
MCSocks1 == {k1}
MCSocks2 == {k1, k2}
Symmetry == Permutations(Socks)

NoCalls == {}
TcpCalls == CallNames \ {"openUdp"}
ClientCalls == TcpCalls \ {"listen", "accept"}
ServerCalls == TcpCalls \ {"connect", "shutdown"}
NoAccept == CallNames \ {"accept", "recv", "shutdown"}
CbSelf == {"accept", "recv", "close"}
CbReopen == {"open", "connect", "close"}
CbKick == {"accept", "close"}
OpenListen == {"open", "listen"}
OpenConnect == {"open", "connect"}
JustRecv == {"recv"}

=============================================================================
