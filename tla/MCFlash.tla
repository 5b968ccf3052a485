------------------------------ MODULE MCFlash -------------------------------
(***************************************************************************)
(* The instance of Flash for TLC: both unlock addresses, the other half of *)
(* one's word.                                                             *)
(***************************************************************************)
EXTENDS Flash

McAddr == {ADDR1, ADDR1 - 1, ADDR2}
=============================================================================
