------------------------------- MODULE MCIntc -------------------------------
(***************************************************************************)
(* Instances of Intc for TLC.                                              *)
(***************************************************************************)
EXTENDS Intc

\* PRIORITY words: the reset value, and rotation switched off everywhere.
McPriorities == {ResetPriority, [ResetPriority EXCEPT !.mode = [a \in Arbiters |-> FALSE]]}
McFiqSets == {{}, {EINT0}}
NoFiq == {{}}

\* Bound: the image of arbiter 1's selector in PRIORITY is 0 or up to date.
FreshImage == m.priority.sel[1] \in {0, m.sel[1]}
=============================================================================
