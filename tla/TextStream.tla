----------------------------- MODULE TextStream -----------------------------
(***************************************************************************)
(* What a text stream promises its consumer, apart from how many times the *)
(* provider is asked: if the providers stop when they are told to, the     *)
(* text is that of one generation, from its beginning and without a gap,   *)
(* and the stream ends once: with `completed` and then the result, or with *)
(* an error and a rejected result.  Of providers that go on regardless it  *)
(* promises only that nothing comes after the result.                      *)
(*                                                                         *)
(* LlmStream implements this specification (LlmStream!Implements).         *)
(***************************************************************************)
EXTENDS Naturals

CONSTANTS
    Generations,    \* the generations that may be started
    MaxText         \* the text deltas of one generation

VARIABLES
    trusted,        \* whether the provider stops when told to
    source,         \* the generation of the text, 0 before there is any
    seen,           \* the number of the last text delta in its generation
    outcome         \* "open", "completed", "resolved" or "rejected"

avars == <<trusted, source, seen, outcome>>

AInit ==
    /\ trusted \in BOOLEAN
    /\ source = 0
    /\ seen = 0
    /\ outcome = "open"

Text(g) ==
    /\ outcome = "open"
    /\ source \in {0, g}
    /\ source' = g
    /\ seen' = seen + 1
    /\ UNCHANGED <<trusted, outcome>>

Ends(from, to) ==
    /\ outcome = from
    /\ outcome' = to
    /\ UNCHANGED <<trusted, source, seen>>

\* What an abandoned generation of an untrusted provider may still do.
Stray ==
    /\ ~trusted
    /\ outcome \in {"open", "completed"}
    /\ source' \in {0} \cup Generations
    /\ seen' \in 0..MaxText
    /\ outcome' \in {"open", "completed", "resolved", "rejected"}
    /\ UNCHANGED trusted

ANext ==
    \/ \E g \in Generations : Text(g)
    \/ Ends("open", "completed") \/ Ends("completed", "resolved") \/ Ends("open", "rejected")
    \/ Stray

ASpec == AInit /\ [][ANext]_avars
=============================================================================
