----------------------------- MODULE MCOverlay -----------------------------
(***************************************************************************)
(* Two nodes behind NATs and a public one that both bootstrap from.        *)
(***************************************************************************)
EXTENDS Overlay

CONSTANTS a, b, r

Swap == {[x \in {a, b} |-> IF x = a THEN b ELSE a]}

MCNode == {a, b, r}
MCPublic == {r}
MCBootstrap == {<<a, r>>, <<b, r>>}
MCTcp == {{a, b}}
MCObservers == {r}
MCAllowed == {<<a, b>>, <<b, a>>}
=============================================================================
