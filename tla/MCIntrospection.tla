-------------------------- MODULE MCIntrospection --------------------------
(* Introspection for TLC: two types, and lists of up to both of them.      *)
EXTENDS Introspection

CONSTANTS t1, t2

SomeLists == {<<>>, <<t1>>, <<t2, t1>>}
=============================================================================
