-------------------------- MODULE MCRendererProcess --------------------------
(* RendererProcess on small instances: a short document, one at the limit of *)
(* a frame and one beyond it.                                                *)
EXTENDS RendererProcess

CONSTANTS short, limit, long, none

MCLength == [d \in Docs |-> IF d = short THEN 1 ELSE IF d = limit THEN MaxFrame ELSE MaxFrame + 1]
=============================================================================
