----------------------------- MODULE MCHeadFeed -----------------------------
(* Small instances of HeadFeed. *)
EXTENDS HeadFeed

\* three records, the last without its newline, and one that does not fit in s_line; each goes in two chunks
MCLayouts == {[len |-> 5, ends |-> {1, 3}], [len |-> 4, ends |-> {}]}
=============================================================================
