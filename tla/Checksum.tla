------------------------------ MODULE Checksum ------------------------------
(***************************************************************************)
(* tmux's layout checksum (src/layout.rs, checksum): a 16-bit accumulator, *)
(* rotated right by one and increased by the byte for every byte of the    *)
(* layout.  RotateAdd is one turn of the loop.                             *)
(*                                                                         *)
(* The machine runs the loop in lockstep over the layout tmux dumped and   *)
(* the layout received, which differ in at most one byte.                  *)
(***************************************************************************)
EXTENDS Naturals, Sequences

CONSTANT Layouts        \* the layout bodies that may be dumped or received

U8 == {n \in Nat : n < 256}
U16 == {n \in Nat : n < 65536}

ASSUME LayoutsAssumption == Layouts \subseteq Seq(U8)

(* Mutant of RotateAdd: a shift, the low bit is lost. *)
BadRotateAdd(csum, byte) == (csum \div 2 + byte) % 65536

RotateAdd(csum, byte) == (csum \div 2 + (csum % 2) * 32768 + byte) % 65536

VARIABLES
    dumped, received,
    read,               \* how many bytes both loops have read
    expected, actual    \* their accumulators

checksumVars == <<dumped, received, read, expected, actual>>

Differences == {i \in 1 .. Len(dumped) : dumped[i] # received[i]}

ChecksumInit ==
    /\ dumped \in Layouts /\ received \in Layouts
    /\ Len(dumped) = Len(received)
    /\ \A i, j \in Differences : i = j
    /\ read = 0 /\ expected = 0 /\ actual = 0

ReadByte ==
    /\ read < Len(dumped)
    /\ read' = read + 1
    /\ expected' = RotateAdd(expected, dumped[read + 1])
    /\ actual' = RotateAdd(actual, received[read + 1])
    /\ UNCHANGED <<dumped, received>>

ChecksumSpec == ChecksumInit /\ [][ReadByte]_checksumVars

----------------------------------------------------------------------------
(* parse rejects a layout with one byte changed, wherever the byte is: the *)
(* checksum over it differs from the one the string carries                *)
(* (layout.rs:47-54).                                                      *)
OneChangeDetected ==
    read = Len(dumped) /\ dumped # received => actual # expected
=============================================================================
