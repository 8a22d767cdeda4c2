------------------------------ MODULE MCDedupe ------------------------------
(* Dedupe with four callers and three entry identities: one execution in   *)
(* flight and up to two settled ones not yet cleaned up.                   *)
EXTENDS Dedupe

CONSTANTS c1, c2, c3, c4, e1, e2, e3

MCCallers == {c1, c2, c3, c4}
MCEntries == {e1, e2, e3}
=============================================================================
