---------------------------- MODULE MCOwnerTask ----------------------------
EXTENDS OwnerTask

MCServer == MaxCommands
MCBody == 0 .. MaxCommands
MCNumber == 1 .. MaxCommands + MaxInternal

BothDrivers == {Tokio, Smol}
OnlyTokio == {Tokio}
OnlySmol == {Smol}

NoNotes == << >>

(* A command whose output holds a line shaped like an opening guard. *)
EchoedBegin == {[kind |-> "begin", number |-> 1, control |-> TRUE]}
=============================================================================
