----------------------------- MODULE MCFlashEep -----------------------------
(* Instances of FlashEep for TLC: headers of two id bits and two size bits. *)
EXTENDS FlashEep, TLC

MCIdBits == {"i0", "i1"}
MCSizeBits == {"s0", "s1"}
MCSizeOf ==
    [s \in SUBSET MCSizeBits |-> (IF "s0" \in s THEN 1 ELSE 0) + (IF "s1" \in s THEN 2 ELSE 0)]

A == {"i0"}
B == {"i1"}
C == {}

(* data words: all bits cleared, and a pattern that would read as a header  *)
X == {}
Y == {"i0", "s0"}

TwoIds == {A, B}
ThreeIds == {A, B, C}

(* objects that grow and shrink, an empty one, and an id that is only read: *)
(* no bit of A is in B, so that a pack may leave a record of C              *)
SizesChange == (A :> {<<Y>>}) @@ (B :> {<<>>, <<X, Y>>}) @@ (C :> {})
(* a pack has one other object to keep, of one word                         *)
OneWord == [id \in TwoIds |-> {<<X>>, <<Y>>}]
=============================================================================
