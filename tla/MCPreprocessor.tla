--------------------------- MODULE MCPreprocessor ---------------------------
(* Preprocessor with every source of at most MaxLines directives over the  *)
(* macro names below.                                                      *)
EXTENDS Preprocessor

CONSTANTS n1, bad
=============================================================================
