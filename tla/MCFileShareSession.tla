------------------------- MODULE MCFileShareSession -------------------------
(* Instances of FileShareSession for TLC. *)
EXTENDS FileShareSession

CONSTANTS h1, h2, a1, a2

MCOneSession == {h1}
MCSessions == {h1, h2}
MCSenders == {h1}
MCOneApp == {a1}
MCTwoApps == {a1, a2}
Whole == {"none"}
Split == {"none", "mid"}
NoEvents == {}
SafeToDestroy == {"limit", "error"}
AllEvents == EventNames

=============================================================================
