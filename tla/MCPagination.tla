---------------------------- MODULE MCPagination ----------------------------
(* Instances of Pagination for TLC. *)
EXTENDS Pagination

\* No limit, none of the items, part of a page, and more than a page.
SomeLimits == {NoLimit, 0, 1, 3}
=============================================================================
