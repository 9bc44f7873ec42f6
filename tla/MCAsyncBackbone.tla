-------------------------- MODULE MCAsyncBackbone --------------------------
(* Two events, one of which the handler always rejects. *)
EXTENDS AsyncBackbone
CONSTANTS e1, e2
=============================================================================
