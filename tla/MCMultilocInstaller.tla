------------------------- MODULE MCMultilocInstaller -------------------------
(* A small instance of MultilocInstaller: the panel with a file the install *)
(* replaces, xray with a template it adds.                                  *)
EXTENDS MultilocInstaller
==============================================================================
