------------------------------- MODULE MCSdi --------------------------------
(***************************************************************************)
(* The instance of Sdi for TLC: a word of two bytes and an image that is a *)
(* byte short of two blocks.                                               *)
(***************************************************************************)
EXTENDS Sdi

McWords == {<<0, 1>>}
McCards == {<<1, 0, 0, 1, 1>>}
=============================================================================
