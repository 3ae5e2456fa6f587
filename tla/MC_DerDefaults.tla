--------------------------- MODULE MC_DerDefaults ---------------------------
(* Three programs in primacy order p1, p2, p3 and two modes, fixedW and     *)
(* voltVar. p1's default supplies fixedW, p2's both, p3's voltVar: every    *)
(* mode has a higher- and a lower-primacy supplier, and p2 can supply one,  *)
(* both or none of its modes depending on p1 and the active blocks.        *)
EXTENDS DerDefaults, TLC

CONSTANTS p1, p2, p3, fixedW, voltVar

MCPrograms == {p1, p2, p3}
MCModes == {fixedW, voltVar}
MCPrimacyOrder == <<p1, p2, p3>>
MCDefaultOf == (p1 :> {fixedW}) @@ (p2 :> {fixedW, voltVar}) @@ (p3 :> {voltVar})
====
