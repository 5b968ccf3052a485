----------------------------- MODULE MCMainLoop -----------------------------
(***************************************************************************)
(* Instances of MainLoop for TLC.                                          *)
(***************************************************************************)
EXTENDS MainLoop

NoFiq == {{}}

\* The watchdog off, and on with each of its two consequences or both.
WtconWrites == {{}, {"ENABLE"}, {"ENABLE", "IRQ"}, {"ENABLE", "RESET"}, WtconBits}
=============================================================================
