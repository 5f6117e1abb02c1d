------------------------------- MODULE Output -------------------------------
(***************************************************************************)
(* decode_output (src/output.rs): undoing the octal escapes of a tmux      *)
(* %output payload, one turn of the loop per step.  Indices are the        *)
(* code's: i counts the bytes consumed.                                    *)
(*                                                                         *)
(* A payload is any byte string.  If it is one tmux wrote, the fields      *)
(* original and off say what it encodes: the code of original[k] starts at *)
(* index off[k].                                                           *)
(***************************************************************************)
EXTENDS Enumeration

Byte == {n \in Nat : n < 256}

CONSTANT Payloads

IsPayload(p) ==
    /\ p.escaped \in Seq(Byte) /\ p.original \in Seq(Byte)
    /\ \A k \in 1 .. Len(p.original) + 1 : p.off[k] \in Nat

ASSUME PayloadsAssumption == \A p \in Payloads : IsPayload(p)

(* tmux escapes the bytes below 0x20 and the backslash, and no others      *)
(* (output.rs:5-8).                                                        *)
Special(byte) == byte < 32 \/ byte = 92
IsCode(s, j, byte) ==
    IF Special(byte)
    THEN /\ j + 3 < Len(s) /\ s[j + 1] = 92
         /\ s[j + 2] = 48 + byte \div 64
         /\ s[j + 3] = 48 + ((byte \div 8) % 8)
         /\ s[j + 4] = 48 + (byte % 8)
    ELSE j < Len(s) /\ s[j + 1] = byte

WrittenByTmux(p) ==
    /\ p.off[1] = 0 /\ p.off[Len(p.original) + 1] = Len(p.escaped)
    /\ \A k \in 1 .. Len(p.original) :
          /\ IsCode(p.escaped, p.off[k], p.original[k])
          /\ p.off[k + 1] = p.off[k] + (IF Special(p.original[k]) THEN 4 ELSE 1)

----------------------------------------------------------------------------
(* parse_octal, on the three digits after index j. *)
IsOctal(d) == 48 <= d /\ d <= 55
Value(s, j) == 64 * (s[j + 2] - 48) + 8 * (s[j + 3] - 48) + (s[j + 4] - 48)

(* Mutant of ParsesOctal: a value above \377 wraps instead of being taken  *)
(* literally.                                                              *)
BadParsesOctal(s, j) == IsOctal(s[j + 2]) /\ IsOctal(s[j + 3]) /\ IsOctal(s[j + 4])

ParsesOctal(s, j) ==
    /\ IsOctal(s[j + 2]) /\ IsOctal(s[j + 3]) /\ IsOctal(s[j + 4])
    /\ Value(s, j) < 256

(* Mutant of IsEscape: the bound misses an escape that ends the payload.   *)
BadIsEscape(s, j) == s[j + 1] = 92 /\ j + 4 < Len(s) /\ ParsesOctal(s, j)

IsEscape(s, j) == s[j + 1] = 92 /\ j + 3 < Len(s) /\ ParsesOctal(s, j)

VARIABLES payload, i, out

outputVars == <<payload, i, out>>

OutputInit == payload \in Payloads /\ i = 0 /\ out = << >>

Escape ==
    /\ i < Len(payload.escaped) /\ IsEscape(payload.escaped, i)
    /\ out' = Append(out, Value(payload.escaped, i))
    /\ i' = i + 4
    /\ UNCHANGED payload

Literal ==
    /\ i < Len(payload.escaped) /\ ~IsEscape(payload.escaped, i)
    /\ out' = Append(out, payload.escaped[i + 1])
    /\ i' = i + 1
    /\ UNCHANGED payload

OutputNext == Escape \/ Literal

OutputSpec == OutputInit /\ [][OutputNext]_outputVars

Done == i >= Len(payload.escaped)

----------------------------------------------------------------------------
(* The reader stays within the payload and out is made of bytes            *)
(* (output.rs:18-31).                                                      *)
OutputTypeOK ==
    /\ IsPayload(payload)
    /\ i \in Nat /\ i <= Len(payload.escaped)
    /\ out \in Seq(Byte)

(* What tmux wrote is decoded to what the pane printed, whichever bytes    *)
(* stand next to each other: no literal byte completes an escape and no    *)
(* escape swallows its neighbour (output.rs:5-8, 18-31).                   *)
RoundTrip == WrittenByTmux(payload) /\ Done => out = payload.original

(* The escapes are the backslashes followed by three octal digits worth a  *)
(* byte, wherever they stand; each is one byte, every byte outside them is *)
(* itself (output.rs:5-9).                                                 *)
Escapes(s) ==
    {k \in 1 .. Len(s) - 3 :
        s[k] = 92 /\ (\A d \in 1 .. 3 : s[k + d] \in 48 .. 55) /\ s[k + 1] <= 51}
Outside(s) == {k \in 1 .. Len(s) : \A e \in Escapes(s) : k \notin e + 1 .. e + 3}
Means(s) ==
    [k \in Outside(s) |->
        IF k \in Escapes(s)
        THEN ((s[k + 1] - 48) * 8 + s[k + 2] - 48) * 8 + s[k + 3] - 48
        ELSE s[k]]

(* The loop decodes any payload, well escaped or not, as that declarative  *)
(* reading does: a stray backslash is itself, an escape above \377 too,    *)
(* and nothing depends on where the loop came from (output.rs:18-31).      *)
DecodesEveryEscape ==
    Done => LET s == payload.escaped IN Lists(out, Outside(s), Means(s))
=============================================================================
