------------------------------- MODULE MCFeed -------------------------------
(* Feed over every stream of a small alphabet, cut into chunks every way:  *)
(* alone on a line, "b" is a control %begin numbered 7, "be" one numbered  *)
(* 8, "bb" a server-internal %begin, "e" a control %end, "ee" an %error,   *)
(* "eb" an %output; any other bytes are text.                              *)
EXTENDS Feed

MCNumber == {7, 8}
MCBody == {"text"}
MCByte == {"b", "e", "nl"}
MCNL == "nl"

GuardLine(kind, n, control) == [kind |-> kind, number |-> n, control |-> control]

MCLineOf(s) ==
    CASE s = << >> -> Blank
      [] s = <<"b">> -> GuardLine("begin", 7, TRUE)
      [] s = <<"b", "e">> -> GuardLine("begin", 8, TRUE)
      [] s = <<"b", "b">> -> GuardLine("begin", 8, FALSE)
      [] s = <<"e">> -> GuardLine("end", 7, TRUE)
      [] s = <<"e", "e">> -> GuardLine("error", 7, TRUE)
      [] s = <<"e", "b">> -> [kind |-> "output", body |-> "text"]
      [] OTHER -> [kind |-> "text", body |-> "text"]
=============================================================================
