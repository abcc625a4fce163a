----------------------------- MODULE MCPaginate -----------------------------
(* Values for checking Paginate. *)
EXTENDS Paginate

\* No per-page size, one under the clamp and one over it.
Sizes == {Unset, 1, 3}
Limits == {Unset, 0, 3}
NoSizes == {Unset}
=============================================================================
