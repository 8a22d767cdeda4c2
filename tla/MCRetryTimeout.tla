--------------------------- MODULE MCRetryTimeout ---------------------------
(* Three attempts, back-offs of two lengths or none, and a budget that     *)
(* allows for two short ones or for a long one.                            *)
EXTENDS RetryTimeout, MCOptions

\* Exponential delays, unless the service asks for another.
MCRetry == [backoff |-> "exponential", baseDelayMs |-> 1, maxDelayMs |-> 2, factor |-> 2,
            respectRetryAfter |-> TRUE]

MCDelays ==
    {ResolveDelayMs(MCRetry, asked, i) : asked \in {Undefined, Number(0), Number(5)}, i \in 0..1}
=============================================================================
