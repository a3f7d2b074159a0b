----------------------------- MODULE MCInStream ----------------------------
(* Byte strings of every length up to MaxBytes.                            *)
EXTENDS InStream
CONSTANT MaxBytes
MCInputs == UNION {[1..n -> SUBSET (0..(BYTE - 1))] : n \in 0..MaxBytes}

(* The C readers with integers narrower than an int, the C++ ones also with *)
(* wider ones: aligned, straddling one byte end, straddling two.           *)
MCReaders == [class : {"NailStream"}, little : BOOLEAN, widths : {{1, 2, 3, 5}}]
        \cup [class : {"NailMemStream"}, little : BOOLEAN, widths : {{1, 2, 6}}]
CReaders == [class : {"NailStream"}, little : {FALSE}, widths : {{1, 3, 6}}]
=============================================================================
