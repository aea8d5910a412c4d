--------------------------- MODULE MCConnections ---------------------------
(* Connections with programs that have one name and start with different mixers. *)
EXTENDS Connections

CONSTANT TheApp

MCApps == {TheApp}
MCApp == [p \in Programs |-> TheApp]
MCLevel == CHOOSE f \in [Programs -> Mixers] : \A m \in Mixers : \E p \in Programs : f[p] = m
=============================================================================
