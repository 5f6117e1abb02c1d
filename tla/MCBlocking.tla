----------------------------- MODULE MCBlocking -----------------------------
EXTENDS Blocking

MCServer == MaxCommands
MCBody == 0 .. MaxCommands
MCNumber == 1 .. MaxCommands + MaxInternal

NoNotes == << >>
OneNote == << "text" >>

(* A command whose output holds a line shaped like an opening guard. *)
EchoedBegin == {[kind |-> "begin", number |-> 1, control |-> TRUE]}
=============================================================================
