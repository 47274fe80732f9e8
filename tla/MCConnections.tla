--------------------------- MODULE MCConnections ---------------------------
(* One forward and one reverse connection on the same path, two requests,  *)
(* one client, one retry before the adapter gives up.                      *)
EXTENDS Connections

CONSTANTS fwd, rev, napcat, path

MCBots == {fwd, rev}
MCPathOf == [b \in MCBots |-> path]
MCDialsFor == [c \in {napcat} |-> rev]
=============================================================================
