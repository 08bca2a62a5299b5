---------------------------- MODULE MCAutoDirector ----------------------------
(* A small instance of AutoDirector: two countries.                          *)
EXTENDS AutoDirector

MCCountries == {"DE", "NL"}
==============================================================================
