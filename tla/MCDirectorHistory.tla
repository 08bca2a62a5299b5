-------------------------- MODULE MCDirectorHistory ---------------------------
(* DirectorHistory on the instance of MCAutoDirector.                        *)
EXTENDS DirectorHistory, DirectorRefinement

MCCountries == {"DE", "NL"}
==============================================================================
