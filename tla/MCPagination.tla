---------------------------- MODULE MCPagination ----------------------------
(***************************************************************************)
(* Five emails on pages of two: full pages, a half page and an empty one.  *)
(***************************************************************************)
EXTENDS Pagination

CONSTANTS e1, e2, e3, e4, e5
Symmetry == Permutations({e1, e2, e3, e4, e5})
=============================================================================
