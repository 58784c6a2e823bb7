--------------------------- MODULE MCSymbolTable ---------------------------
(* Three scopes, two names, two kinds of declaration.                      *)
EXTENDS SymbolTable
=============================================================================
