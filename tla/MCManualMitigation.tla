-------------------------- MODULE MCManualMitigation --------------------------
(* One definition (a preset, timed or not, or a rule), a direct request and a *)
(* preview of it, and their reverts.                                          *)
EXTENDS ManualMitigation
=============================================================================
