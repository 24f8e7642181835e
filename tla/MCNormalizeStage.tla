-------------------------- MODULE MCNormalizeStage --------------------------
(* Instances of NormalizeStage for TLC.  Row 3 has the identity of row 1 in   *)
(* upper case; row 2 has an empty payload in one instance.                    *)
EXTENDS NormalizeStage

MCRows == 1..3
MCKey == <<"a", "b", "a">>
MCLower == {1, 2}
MCBare == {2}
MCModes == {"mapper", "single", "batch"}
=============================================================================
