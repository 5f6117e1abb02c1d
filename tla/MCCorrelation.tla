--------------------------- MODULE MCCorrelation ---------------------------
EXTENDS Correlation

MCServer == MaxCommands
MCBody == 0 .. MaxCommands
MCNumber == 1 .. MaxCommands * MaxPerLine + MaxInternal

NoNotes == << >>
OneNote == << "text" >>
TwoNotes == << "output", "text" >>

(* A command whose output holds a line shaped like a closing guard. *)
EchoedEnd == {[kind |-> "end", number |-> MaxCommands, control |-> TRUE]}
=============================================================================
