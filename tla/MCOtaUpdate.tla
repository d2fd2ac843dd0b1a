---------------------------- MODULE MCOtaUpdate ----------------------------
(* An instance of OtaUpdate for TLC: sectors of three cells. *)
EXTENDS OtaUpdate, TLC

CONSTANTS small, large

LengthOf == (small :> 2) @@ (large :> 4)
\* Short, up to the update, into it by a header's length, too long; in two
\* parts, the second one into the update by a header's length, or all of it.
SixLayouts == {<<2>>, <<5>>, <<6>>, <<7>>, <<1, 4>>, <<5, 1>>}
=============================================================================
