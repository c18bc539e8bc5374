---------------------------- MODULE MCToolCalls ----------------------------
(* A small response for ToolCalls. *)
EXTENDS ToolCalls, TLC

CONSTANTS c1, c2, c3

\* Two that start the browser, and a third call on the web or a summary; what is found while
\* one or two summarise; mutations, noticed or not, before and after the checkpoint.
MCPlans == {
  (c1 :> "text") @@ (c2 :> "text") @@ (c3 :> "open"),
  (c1 :> "text") @@ (c2 :> "open") @@ (c3 :> "clean"),
  (c1 :> "read") @@ (c2 :> "open") @@ (c3 :> "clean"),
  (c1 :> "read") @@ (c2 :> "write") @@ (c3 :> "clean"),
  (c1 :> "write") @@ (c2 :> "write") @@ (c3 :> "read")}
=============================================================================
