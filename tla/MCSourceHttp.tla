---------------------------- MODULE MCSourceHttp ----------------------------
(* Instances of SourceHttp for TLC. *)
EXTENDS SourceHttp

CONSTANTS c1, c2, c3

MCThreeCallers == {c1, c2, c3}
=============================================================================
