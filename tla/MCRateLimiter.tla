--------------------------- MODULE MCRateLimiter ---------------------------
(* Both strategies of RateLimiter, rejecting and waiting.                  *)
EXTENDS RateLimiter

CONSTANTS c1, c2, c3

MCCalls == {c1, c2, c3}

\* Two permits in three milliseconds, so that a token takes one and a half.
Limiter(strategy, burst, onLimit, maxWait, punctual) ==
    [strategy |-> strategy, limit |-> 2, interval |-> 3, burst |-> burst,
     onLimit |-> onLimit, maxWait |-> maxWait, punctual |-> punctual]

\* Waits that are too short for some sleeps are limited in a punctual loop;
\* longer ones are left to a loop that may be late.
MCOptions ==
    {Limiter("token-bucket", 2, "wait", 1, TRUE),
     Limiter("sliding-window", 2, "wait", 2, TRUE),
     Limiter("token-bucket", 2, "wait", 2, FALSE),
     Limiter("sliding-window", 2, "wait", 3, FALSE),
     Limiter("token-bucket", 3, "reject", 0, FALSE),
     Limiter("sliding-window", 2, "reject", 0, FALSE)}

\* The options that normalizeOptions accepts are those of OptionOK, when they
\* are whole numbers.
JS == INSTANCE MCOptions
ASSUME OptionsCovered ==
    JS!ForLimiterOptions(LAMBDA arg :
        JS!LimiterAccepts(arg) /\ JS!AllWhole(JS!LimiterOptions(arg)) =>
            OptionOK(JS!LimiterStudied(JS!LimiterOptions(arg), FALSE)))
=============================================================================
