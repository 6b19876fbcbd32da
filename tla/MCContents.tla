------------------------------ MODULE MCContents ------------------------------
(* Two names; the second one is possible at two paths. *)
EXTENDS Contents
CONSTANTS a, b
Files3 == {<<1, a>>, <<1, b>>, <<2, b>>}
=============================================================================
