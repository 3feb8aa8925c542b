----------------------------- MODULE MCService -----------------------------
(* Service for TLC: requests, paths and connections are interchangeable,    *)
(* and so are the services without a name.                                  *)
EXTENDS Service, TLC

Symmetry ==
    Permutations(Requests) \cup Permutations(Paths) \cup Permutations(Conns)
        \cup Permutations(Unnamed)
=============================================================================
