--------------------------- MODULE MC_DerSchedule ---------------------------
(* Two programs in primacy order p1, p2. p1 has one DERControl, p2 two, so *)
(* withdrawing p2 removes two blocks in one walk of s->blocks.             *)
EXTENDS DerSchedule, TLC

CONSTANTS p1, p2, c1, c2, c3

MCPrograms == {p1, p2}
MCControls == {c1, c2, c3}
MCPrimacyOrder == <<p1, p2>>
MCControlsOf == (p1 :> {c1}) @@ (p2 :> {c2, c3})
====
