------------------------------- MODULE MCPaging -------------------------------
(* Paging on four frames and seven pages.                                    *)
EXTENDS Paging
=============================================================================
