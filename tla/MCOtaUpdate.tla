----------------------------- MODULE MCOtaUpdate -----------------------------
(* A bank of two double words; images of 5 bytes (one word, padded), 16 (two *)
(* words, exact) and 17 (too large); frames that are short, unaligned, early, *)
(* late and too long; a clock that wraps every few units.                     *)
EXTENDS OtaUpdate

MCSizes == {0, 5, 16, 17}
MCOffsets == {0, 8}
MCCounts == {0, 4, 8, 16}

\* The run about repeats needs no more than one frame of DATA.
RepeatOffsets == {0}
RepeatCounts == {8}
=============================================================================
