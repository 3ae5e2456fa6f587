------------------------- MODULE MC_DeviceRegistry -------------------------
(* Three devices; groups of 3 positions so a table of 4 spans two groups. *)
EXTENDS DeviceRegistry, TLC

CONSTANTS s1, s2, s3

MCKeys == {s1, s2, s3}
MCSymmetry == Permutations(MCKeys)
=============================================================================
