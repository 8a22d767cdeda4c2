# TLA+ models of resili

`resili` wraps an asynchronous operation in a pipeline of resilience policies: fallback, cache,
retry, circuit breaker, timeout, dedupe, hedge, rate limiter, bulkhead. Everything runs on one
JavaScript event loop. There are no threads, but every `await`, timer and abort listener is a point
where calls that share a policy interleave, and most of the state of the policies is shared by all
calls of a client. These models are about those interleavings.

Paths below are relative to `src/packages/core/src` unless they name another package.

## 1. The system

Policies wrap each other in the order of their numbers (`core/pipeline/index.ts`); a call passes
through all of them to the operation and its result passes back:

    fallback 100 > cache 150 > [LLM budget 199.5] > retry 200 > circuit breaker 300 > timeout 400
      > dedupe 425 > hedge 450 > rate limiter 500 > bulkhead 600 > operation

They interact by calling `next(ctx)`, by the promise it returns, and by the abort signal of the
context they pass down. No policy reads another one's state.

| Component | State it keeps | Operations | What is hard about it | What makes it correct |
|---|---|---|---|---|
| bulkhead `policies/bulkhead` | per key: slots in use, FIFO queue; per waiter: settled flag, timer | acquire, release with hand-over, queue timeout | hand-over against timeout and newcomers; entries deleted when unused | slots = holders, at most the limit; queue = waiters; nobody waits beside a free slot; FIFO; bounded wait |
| circuit breaker `policies/circuit-breaker` | per key: state, `openedAt`, half-open counters, window of samples | beforeCall, afterSuccess, afterError | results arrive in a later state than the one their call was admitted in | open periods are fixed; permits belong to probes; recovery starts afresh; no trap |
| dedupe `policies/dedupe` | per key: the entry in flight, its subscribers, their count, the shared abort; a gauge | join or own, caller abort, settlement, cleanup in a later microtask | joins and aborts around settlement; a successor entry before the cleanup of its predecessor | one execution in flight; the count is exact; no waiter on a dead entry; unused work aborted |
| hedge `policies/hedge` | per call: two attempts, timer, parent listener, settled flag | execute, hedge timer, attempt success or failure, parent abort | timer, failures, success and abort in every order | never stranded, settled once, losers aborted, fails only when exhausted |
| rate limiter `policies/rate-limiter` | per key: bucket or window, a lock that is a chain of promises | acquire in reject or wait mode, sleep, abort | a waiter sleeps with the lock held; late timers; rounding | the rate in every window; the lock is passed on; a sleep is long enough, but for rounding |
| retry `policies/retry` | per call: attempt, total delay | attempt loop, back-off | abort against timer; contexts forked per attempt | no attempt after an abort, bounded attempts and delay, the last error kept |
| timeout `policies/timeout` | per attempt: timer, settled flag, child context | race of answer and timer | the abandoned attempt runs on beside the next | a timeout aborts what it abandons; late answers are dropped |
| context `core/context.ts` | per context: composed signal, listeners, deadline timer | create, fork, release | who releases a fork; deadlines beyond the range of a timer | nothing outlives the call; deadlines abort when due |
| cache `policies/cache` | map with insertion order and expiry | lookup, store, cleanup, eviction | concurrent misses of a key; a clock that is set back | within capacity; hits are current; what is valid stays |
| fallback `policies/fallback` | none | one try/catch | which outcomes reach the handler | only errors do, and those refused stay as they are |
| pipeline, client, builder `core/` | the chain; a subscription per call; totals; configuration | build, execute, destroy | a call that outlives its client; disposal that fails half-way | the documented order; every call counted once; dependencies outlive their users |
| plugins `core/plugins` | registrations, instances | order, install, dispose | failure in the middle of an installation | dependencies first |
| event bus `core/events`, and that of the LLM client | listener sets, shared by the subscriptions of a type | on, emit (nested), unsubscribe, clear | subscription and removal during dispatch; unsubscribing from a set that is gone | a removal removes only itself; everybody is called once |
| options, contracts `policies/*`, `core/` | none | what users hand in is checked and completed | the edges of numbers, `undefined` against `null` | what is accepted satisfies what the policies assume |
| classification, HTTP adapters | none | transport errors are normalised and judged, headers read | errors of errors, dates, cancellations in other words | cancellations are terminal; nothing is retried that will fail again; hints are long enough |
| LLM budget `packages/llm/src/budget.ts` | per scope: committed and reserved cost | reserve, settle | concurrent calls against one cap; success, failure and abort all settle | a reservation is settled once; the cap |
| LLM stream `packages/llm/src/stream.ts` | per stream: demand, delivery, committed flag, terminal state | next, return, throw, pump, retry | frames of an abandoned attempt; retries of what was read in part; delivery after the end | one generation, one end; every pull is answered; pumps are stopped |
| LLM client `packages/llm/src/client.ts` | events and metrics | generate, the end of a stream | what is told about errors in errors | one end per request, told as thrown |
| LLM providers `packages/llm-*` | the parts of a response | responses and streams of three vendors | frames that lack parts; usage that comes late | a stream adds up to the response; failures keep their kind |
| state store, metrics, clock, metadata, errors | none, or unused by the policies | - | - | - |

`PROJECT.json` lists the same components with the modules of each, and the hazards of the code line
by line with the properties that would show them going wrong.

## 2. The modules

| Module | Models | Kind |
|---|---|---|
| `Admission` | what a bulkhead promises: a pool and a line per key, every step atomic | abstract specification |
| `Bulkhead` | `policies/bulkhead/index.ts` | component; refines `Admission` |
| `BulkheadProofs` | theorems about `Bulkhead` | proofs |
| `CircuitBreaker` | `policies/circuit-breaker/index.ts`, one key | component |
| `Dedupe` | `policies/dedupe/index.ts`, one key | component |
| `DedupeProofs` | theorems about `Dedupe` | proofs |
| `Hedge` | `policies/hedge/index.ts`, one call | component |
| `BreakerHedgeProofs` | theorems about `CircuitBreaker` and `Hedge` | proofs |
| `RateLimiter` | `policies/rate-limiter/index.ts`, one key | component |
| `RateLimiterProofs` | theorems about `RateLimiter` | proofs |
| `RetryTimeout` | `policies/retry/index.ts` over `policies/timeout/index.ts`, with the contexts of `core/context.ts`, one call of `core/pipeline/index.ts` | components, composed |
| `RetryTimeoutProofs` | theorems about `RetryTimeout` | proofs |
| `TextStream` | what an LLM stream promises its consumer | abstract specification |
| `Failures` | what an LLM call makes of the error of a vendor: `errors.ts` of the adapters, `classifier.ts` | functions |
| `LlmStream` | `packages/llm/src/stream.ts` under retry and timeout, one stream | component; refines `TextStream` |
| `LlmStreamProofs` | theorems about `LlmStream` | proofs |
| `Cache` | `policies/cache/index.ts` | component |
| `Budget` | `packages/llm/src/budget.ts`, `pricing.ts` | component |
| `CachedBudget` | calls of an LLM client through `Cache` and `Budget` | composition |
| `CachedBudgetProofs` | theorems about `CachedBudget`, the sums of its ledger and the filter of its cache | proofs |
| `EventBus` | `core/events/index.ts` | component |
| `Plugins` | `core/plugins/index.ts` and the disposer of the builder | component |
| `Client` | `core/client`, `core/builder`, and what a call does to `EventBus` and `Plugins` | composition |
| `ClientProofs` | theorems about `Client`, `EventBus` and `Plugins` | proofs |
| `Options` | `normalizeOptions` of the nine policies | functions |
| `Contracts` | what the builder, `definePolicy`, `definePlugin` and `createContext` accept | functions |
| `PolicyOrder` | the order of the policies (`core/pipeline`, `core/policy`) | functions |
| `Outcomes` | classification, the errors of the HTTP adapters, `fallback`, headers | functions |
| `ProviderFrames` | the providers for OpenAI, Anthropic and Gemini, and the response put together from frames | functions |
| `LlmClient` | `createLlmClient` and the end of a request: events, metrics, errors | functions |
| `MC...` | callers, keys and configurations for TLC; the claims about functions | instances |

An action is the code that runs without giving up the event loop: from a call, a timer callback, an
abort listener or the continuation of an `await` to the next `await`. All of its effects are in the
action. Names of variables and actions follow the code; the map in `PROJECT.json` gives the lines
of each definition. Definitions whose comment begins with "Mutant" are not part of the model. They
are the same step with a plausible mistake in it, and each property is violated when its mutant
takes the place of the original.

**Bulkhead.** `#states` is `present`; an entry's `active` and `queue` are functions of the key; a
`QueuedRequest` is its caller, with `settled` and `timer`. `Admit`, `Enqueue` and `Reject` are the
three ends of the synchronous part of `acquire`, `TimerFires` is the queue timeout,
`ReleaseToWaiter` and `ReleaseSlot` are `#release`. Between the grant of a slot and the
continuation of `await acquire` other code runs: that is the phase "granted".

**CircuitBreaker.** `beforeCall` is `AdmitClosed`, `AdmitFirstProbe`, `AdmitProbe`, `RejectCall`;
`#recordResult` is one action per state it meets and outcome. `probes` is a history variable: who
was admitted in this half-open period. Time stamps are ages that stop at the option they are
compared with.

**Dedupe.** An `InFlightEntry` is an identity with a `stage`. The microtask gaps of the code are
stages: "scheduled" until `next` is called, "settled" until `cleanupEntry` runs. In the second gap a
caller finds a settled entry and registers a successor. An identity is reused once its entry is
cleaned up and nothing refers to it.

**Hedge.** One `HedgeCoordinator`; coordinators share nothing. An attempt is "started" until the
microtask that calls `next`, and "settled" until its context is released. Its specification is
`HedgeSpec`, so that one module can hold the proofs about it and the circuit breaker.

**RateLimiter.** The promise chain of `#withKeyLock` is the sequence `lock`; its head runs. Reject
mode never touches it. Tokens are counted in units of 1/intervalMs, so that refills are integers. The
code computes them with doubles: `short` says that the double in the bucket is just below its count.
Each refill may leave it so (`Rounded`), and a delay that should be whole may come out a millisecond
longer (`RetryAfter`). Which of them do depends on the numbers; in the model any of them may. Taken
for granted is that the errors of a bucket together stay below one unit.
`waited` and `admitted` are history variables for the properties: how long a call has waited, and how
many calls were admitted in each window that ends now.

**RetryTimeout.** One call: `stage` is the `await` at which `executeWithRetry` stands, "racing" while
`executeWithTimeout` races the operation of the attempt against its timer. `op` keeps the operations
of all attempts, since those that lost their race run on. A context is "held" while it has listeners
and a deadline timer, until it is released or aborted; `Reached` is the chain of abort listeners that
`composeSignals` builds. The circuit breaker between the two policies is left out: it only passes on
or refuses an attempt, and a refusal is an operation that fails at once. The abort of a call ends its
back-off in the model because it does in `sleep` (`policies/retry/index.ts:240`); the table at
docs/core/cancellation.md:87 still says that a back-off is not interrupted. The delays are those that
`resolveDelayMs` gives for the options of the run.

**LlmStream.** Consumer and pump meet in `delivery`, the promise of a pending `next()`, and in the
demand a pump waits for. `call` is where `execute()` stands: retry around timeout around the pump.
A pump whose attempt has timed out is not gone: `pump` keeps one per attempt, and each goes on in the
way its provider allows: one that "rejects" when aborted, one whose iterator "ends", and one that is
"deaf". `Failures` decides what is retried: the tables of the three adapters, the LLM classifier, and
beside them, in `MayPass`, what the errors mean by their protocols. Outer policies may refuse the call
or answer it.

**CachedBudget.** One call runs without a pause from its lookup to its reservation, from the answer to
the settlement, and after one more `await` to the store. The map of the cache is a sequence because
eviction goes by insertion. The clock may be set back (`ClockMoves`).

**Client.** A handler runs inside an emission: `stack` holds the emissions under way, and while it is
not empty only the running handler acts: it may subscribe, unsubscribe, emit, start a call or destroy
the client. Listener sets are identities, because an unsubscribe keeps the set of its time.
`build()` may fail at any plugin, a `dispose` at any instance.

**The modules of functions** have no state. JavaScript values are records with their type, finite
numbers are counted in halves so that whole and broken ones differ. What must hold of them is
stated by the assumptions of an MC module, which TLC evaluates over all small inputs before a run:

| Functions | Claims in | Evaluated by the run | What they say |
|---|---|---|---|
| `Options` | `MCOptions`, and `OptionsCovered` in the MC modules of the policies | of each policy | the options a policy accepts satisfy the assumption of its model; defaults agree with the docs; delays are bounded; keys resolve |
| `Contracts`, `PolicyOrder` | `MCPipeline`, `MCClient` | `client` | the chain is the one documented, custom policies find their place, a fork is the same call, accepted plugins can be ordered |
| `Outcomes` | `MCOutcomes` | `circuit_breaker` | the documented table of classifications; cancellations are terminal; an adapter keeps what a failure is; hints are never too short; what is retried counts against the service; only errors reach the fallback |
| `ProviderFrames` | `MCProviderFrames` | `llm_stream` | a stream adds up to the response of the same answer, however its text is cut; counts of usage are whole; blocked prompts are told; accepted options give every request a model |
| `LlmClient` | `MCLlmClient` | `client` | every request has one end, told to listeners as it is thrown and counted once; cancellations become aborts; after text was delivered every failure is final |

## 3. What is left out of them

- Metrics and the text of events: no policy decides by them. Handlers are in `Client`, and what an LLM
  request tells about itself in `LlmClient`.
- Messages of errors, and fields nobody decides by; the contents of values. A classifier's or
  predicate's answer is a free Boolean where its module is not composed with `Outcomes`, and so is
  whether an operation heeds its abort signal.
- Durations, where only their order matters: an armed queue timer may fire at any moment
  (`Bulkhead`), an attempt may end before or after the hedge timer. `CircuitBreaker`, `RateLimiter`
  and `Cache` compare durations and have a clock.
- Rounding of doubles in the circuit breaker: a failure rate of exactly the threshold may fall below it
  (`policies/circuit-breaker/index.ts:231`). That of the token bucket is modelled. A clock that runs backward, except in `Cache`; under
  it a token bucket credits the same time twice (`policies/rate-limiter/index.ts:265`).
- A classifier that throws inside the retry loop. In the circuit breaker it is `ResultUnrecorded`.
- Deadlines beyond the range of a timer, which are cut to 24 days (`core/context.ts:582`).
- Other keys, where keys share nothing. `Bulkhead` keeps them: its map of entries is part of what
  is checked.
- In `LlmStream`: the slot `providerIterator`, through which `return()` closes the iterator beside the
  pump, and retries of successes under `retryOn`.
- In the LLM budget: warnings, and accountants of the user's own. In the event bus: `onAny`.

Not modelled at all: the state store (no policy uses it at this commit; its `withLock` has the shape of
the rate limiter's lock), the metrics registry, the clock, `metadata`, the requests that the providers
and HTTP adapters build (pure translation, whose result only the vendor can judge), benchmarks,
examples and scripts.

## 4. The runs

| Run | Question | Result |
|---|---|---|
| `bulkhead` | Do slots leak, waiters get lost or overtaken, entries stay or vanish too early? Does it refine `Admission`? Is every waiter answered? | holds |
| `circuit_breaker` | Do late results, or a classifier that throws, move an open period, leak permits, bring old failures back, or trap the circuit? | holds, but for permits lost to the classifier |
| `circuit_breaker_probes` | Are at most `halfOpenMaxCalls` probes running (docs/core/circuit-breaker.md:71)? | **violated** |
| `dedupe` | Is one execution in flight, are counts and gauge exact, is every caller answered, and work aborted when it is unused and only then? | holds |
| `dedupe_cancellation` | Does a cancellation affect only its caller (docs/core/dedupe.md:51)? | **violated** |
| `hedge` | Is a call ever left without anything that settles it, settled twice, or its attempts left behind? | holds |
| `rate_limiter` | Does the rate hold over every window, is the lock always passed on, what does a sleep achieve however doubles are rounded, how long can a wait get? | holds |
| `retry_timeout` | Does an abandoned operation go untold or answer for another attempt? Does a call end although operations hang? Does its deadline free what it leaves behind? | holds |
| `llm_stream` | Does a stream mix generations, repeat or lose text, end twice or never, retry what it must not, or leave pumps behind? Does it refine `TextStream`? | holds |
| `llm_stream_generation` | Is the text of a stream that of one generation, whatever the configuration (docs/llm/streaming.md:143, :154)? | **violated** |
| `cached_budget` | Does the ledger agree with the calls and respect the cap, are hits current, is the cache within capacity without dropping what is valid? | holds |
| `client` | Do subscriptions hold, do emissions end only when everybody was called once, do plugins outlive those that need them, are the totals exact? | holds |

The three disagreements with the documentation:

1. **A stale result frees a permit** (`policies/circuit-breaker/index.ts:194`). While half-open,
   any result decrements `halfOpenActive`, also that of a call admitted while the circuit was
   closed, which took no permit. One probe too many is then admitted.
2. **A newcomer joins a doomed execution** (`policies/dedupe/index.ts:156`). When the last caller
   leaves, the shared work is aborted but stays registered until it settles. A caller that joins in
   between is rejected with the abort of the others.
3. **`retryOn` passes by the commit guard** (`policies/retry/index.ts:194`). The guard of
   `packages/llm/src/classifier.ts` wraps the classifier, but `retry.retryOn` is asked first. An answer
   TRUE starts a second generation after text of the first was delivered.

Some properties state what does hold where the documentation says more:

- `WaitsAddUp`: a wait is limited from the lock, not from the arrival
  (`policies/rate-limiter/index.ts:150`; docs/ARCHITECTURE.md:608 has `maxWaitMs`). Callers that queue
  for a key sleep one after the other; in a punctual event loop a wait lasts at most `maxWaitMs` for
  the caller and for each of those before it.
- `SleepSuffices`: `retryAfterMs`, "Until capacity is expected" (docs/reference/errors.md:116), can be a
  millisecond short. With `limit`, `intervalMs` and `burst` of 49 an empty bucket gives 1; one
  millisecond later it holds (1/49) * 49 = 0.9999999999999999 (`policies/rate-limiter/index.ts:262`), and
  the caller that slept is refused again, or rejected if `maxWaitMs` is used up. What holds: it happens
  once at most in a wait, the next sleep is one millisecond, and the call is admitted after it.
- `DeadlineFreesAll`: contexts forked by retry and timeout are not released at the end of the call
  (`policies/retry/index.ts:104`, `policies/timeout/index.ts:52`; docs/INTERNAL_DESIGN.md:433). With
  a deadline, their timers and listeners stay until it passes, and no longer.
- `PermitsHaveProbes`, `NoTrap`: a permit is not released in a `finally` (docs/INTERNAL_DESIGN.md:202).
  If the classifier throws at an error, the permit of a probe stays taken; when all are, the circuit
  rejects every call until a result from before arrives.
- `SubscriptionsHold`: unsubscribing drops the set registered for the type when the set of its own time
  is empty, whether or not they are the same (`core/events/index.ts:491`). A handler subscribed twice is
  in its set once, so that the first of its two unsubscribes ends both, and the second, if a new set has
  taken the place of theirs, ends everybody in the new one. These are the only two ways for a
  subscription to be lost, and the property says so for each step; the run reaches both.
- `RepeatedDeltasAreLost` (`MCProviderFrames`): Gemini's provider cuts from a delta what it has in common
  with the one before it, so that text which repeats is lost (`packages/llm-gemini/src/provider.ts:285`;
  docs/providers/gemini.md:132 has it pass unchanged).
- `UnpricedResponsesAreLost` (`MCLlmClient`): a resolver of prices that throws after the answer turns
  it into a failure, and the answer is gone (`packages/llm/src/client.ts:269`).

### Bounds

- `Bulkhead`: six callers, five on one key with two slots and two places in the queue, so that every
  end of `acquire` occurs with the pool full and a release can meet two waiters in either order of
  timeouts; the sixth uses another key, whose entry comes and goes.
- `CircuitBreaker`: three callers, so that one can be left over from an earlier state while two
  probes run; a count window of three with slow calls, and a time window in which at most
  `MaxSamples` samples and calls meet (a time window itself is unbounded, `RoomInWindow` is the
  bound).
- `Dedupe`: four callers and three entries: one in flight and up to two settled but not cleaned up;
  both values of `abortSharedWhenUnused`.
- `Hedge`: complete. A coordinator has two attempts; both values of the option, and of whether the
  hedge fits before the deadline.
- `RateLimiter`: three callers for two permits in three milliseconds, so that a token takes one and a
  half; both strategies in both modes, and waiting in event loops that are punctual and that are not:
  only in the first a wait has a limit at all.
- `RetryTimeout`: three attempts, so that two abandoned operations can run beside a third; back-offs
  of none, one or two units against a budget of two, so that attempts and budget are exhausted first
  in turn. A call has no deadline, one that passes at any moment, or one already passed.
- `LlmStream`: three attempts of up to two frames, so that two abandoned pumps can meet a third, and a
  frame of one the frames of another; every kind of provider, and errors of each vendor that may be
  retried, that may not, and that are cancellations. `llm_stream_generation` needs two attempts.
- `CachedBudget`: four calls of three keys for two places, in two scopes; a time to live of one in a
  clock of three readings, which may be set back; estimates that are met, passed and missed. Calls
  are interchangeable, hence the symmetry; the properties of this run are safety properties.
- `Client`: one call beside three subscriptions of users, of which two share a handler and listen to
  retries, like the call and the client itself: three handlers are enough to pass over one that is
  gone and still call another, and for a set to be replaced by one with others in it;
  two retries announced, one emission inside another (`MaxNesting`); three plugins, of which
  one needs another, in an order that disagrees with it, and sets that cannot be ordered.

No symmetry is used where a liveness property is checked. The deadlock check is disabled for `hedge`,
`retry_timeout`, the two runs of `LlmStream`, `cached_budget` and `client`: a call, stream or client
that is over has nothing left to do.

### Fairness

Always assumed: the event loop runs pending continuations, microtasks and due timers. Beyond that:

- `Bulkhead`: nothing. Operations may hang for ever; the answer to a waiter rests on its queue timer.
- `CircuitBreaker`: time passes, running operations end (in the pipeline the timeout policy is inside
  the breaker and sees to it) and some caller keeps trying: a half-open circuit is entered and
  decided by calls alone.
- `Dedupe`: the shared operation ends; dedupe has no timer of its own.
- `Hedge`: the second attempt ends. The original may hang: that is the case hedging is for.
- `RateLimiter`: time passes. Operations are outside the lock and play no part.
- `RetryTimeout`: nothing. Operations may hang for ever; the end of a call rests on the timers of its
  attempts and back-offs, the release of its contexts on its deadline.
- `LlmStream`: an iterator that heeds its signal is closed when told to. Providers may hang while
  opening or reading, and the consumer may stop pulling or leave: the end of a stream rests on the
  timer of its attempt. A provider that is deaf may even hang while it is closed.

`CachedBudget` and `Client` have no liveness properties: nothing in them waits.

## 5. What is proved

Every safety property that a run checks, invariant or action property, is also a theorem: the run
shows it on a small instance, `tlapm` proves it to the last leaf for all values of the constants that
satisfy the named assumptions of the modules. They are as weak as the code justifies, TLC evaluates
them in the runs, and `OptionsCovered` of the MC modules finds that the options accepted by the code
satisfy them:

| Assumption | Says |
|---|---|
| `BulkheadAssumption`, `BreakerAssumption`, `DedupeAssumption`, `LimiterAssumption`, `RetryAssumption`, `StreamAssumption`, `CacheAssumption`, `BudgetAssumption` | callers (and scopes) are finitely many, and options are those that `normalizeOptions` accepts |
| `CallsAssumption` (`CachedBudget`) | calls are finitely many, counts of tokens are natural numbers, and a request or response is never mistaken for none |
| `ClientAssumption` | every call, and the client for its totals, subscribes to `RetryStarted` with a closure of its own, which is nobody else's |
| `RegistrationsAssumption` | registrations are a list, and priorities are integers: of finite numbers the order is all that counts |

**BulkheadProofs.** The four safety properties need one another, so they are proved as one inductive
invariant, `BulkheadInv`: that a freed slot goes to somebody who will use it follows only if the
queue holds exactly the unsettled waiters, and that an entry may be deleted only if its slots are
accounted for. From it: `SlotsNeverLeak`, `NoWaiterLost`, `NoIdleSlot`, `EntriesRemoved`, and
`Implements`, the refinement of `Admission`: `InitImplements` for the initial states,
`NextImplements` for the steps, where settling a waiter that has been handed a slot is the step that
takes the abstract slot.

**BreakerHedgeProofs.** `ClosedIsHealthy` and `PermitsAreHeld` are inductive together with the
types. The first needs `TripsIgnoresAge` (time alone trips nothing in a window of its own samples)
and that every result judges the window it has just changed. For the second it is essential that a
stale result only ever takes a permit away: permits never exceed the running probes and those at whose
results the classifier threw, which is why the first disagreement above cannot saturate the circuit.
`OpenPeriods` is the action property.

`Hedge` has no constants and its run explores every state there is; the proof says why it holds.
None of its invariants is inductive alone: that the last failure settles the call, and that a
failed call has made its hedge or had no room for one, rest on `#hedgePossible` saying whether the
timer is armed (`HedgeToCome`). With it they are one invariant, `HedgeInv` (`HedgeInvariant`), from
which the five theorems follow.

**DedupeProofs.** The properties are stacked, each proved with the ones before it: `TypeCorrect`,
`SingleExecution` (one entry unsettled, and it is the registered one), `NobodyWaitsInVain`,
`CountsAreExact`, then `UnusedWork` and `GaugeIsExact`. `UnusedWork` has two halves, and both rest on the
count being exact because the code decides by the count: unused work has been aborted
(`UnusedStep`), and whoever aborts it was the last (`AbortStep`). Afterwards callers may still join it,
as the second disagreement above shows, so that "aborted work is unused" holds of the step only.

**RateLimiterProofs.** `RateRespected` is not inductive: nothing in it says that a bucket is emptier
for what it admitted. The invariant that does is `Accounted`. For a token bucket, in every window of
w + 1 ms, the admissions in that window and the tokens that could be taken now are together at most
burst + w * limit / intervalMs (`TokensAccounted`); for a sliding window, the young stamps are exactly
the admissions of the window (`StampsAccounted`). There is one lemma for each kind of step:
`ConsumeAccounted`, `RefreshAccounted`, `TickAccounted`. `LockChain` has one lemma for each way to
change the lock. `SleepsSuffice` combines both: while a call sleeps it holds the lock (`SleeperHolds`),
so nobody else touches the bucket, and the refill still due by the end of its timer reaches a whole
token (`SleepPlanned`); if it was there already, but for rounding, the sleep is one millisecond and there is
more than a token after it. `RetryAfterReaches` shows that the rounding up in `retryAfterMs` is enough.
`WaitsAreBounded` (`WaitsAddUp`) plans the wait of a whole line (`WaitsPlanned`): the call in place i
has waited no longer than leaves room for what the holder of the lock still has to sleep and for
`maxWaitMs` for each call between them; in line there are never more calls than there are.

**RetryTimeoutProofs.** `TypeCorrect` holds for any `maxAttempts` and any delays; it needs that the
contexts of attempts not yet made do not exist (`AttemptsInOrder`). `AbandonedAreTold` needs two facts
about contexts: every operation's context is held or aborted (`ChildrenKnown`), and the abort of the
call leaves none held (`AbortIsTotal`), which follows from `RootReachesAll`: no fork is more than two
listeners away from the call. `ValuesAreCurrent` is inductive as `AnswerIsCurrent`. `NoLateAttempts` is
the action property.

**LlmStreamProofs.** `PumpsStopped` rests on `StreamInv`: a pump that runs is the one that is raced, or
one whose timer has aborted it (`PumpsKnown`), every abort finds the pump that waits for demand
(`DemandIsLive`), and an end by `return()` or `fail()` has aborted the stream (`StoppedIsAborted`).
It holds with `retryOn` or without, as does `TypeCorrect`. The other two theorems assume that
`retryOn` is not set, as the third disagreement above requires. Their invariant `TextInv` adds that
no attempt is planned once text was delivered (`GuardHolds`), that the text of a provider which stops
when told is that of the present attempt, without a gap (`TextIsCurrent`), and that a stream that
delivered `completed` is on its way to resolving (`CompletedIsKept`), which the timer cannot
interrupt. From it `StreamIsOneText`, the refinement of `TextStream` (`StepMaps` for the steps), and
`RetriesJustified`, which also assumes that the classifier retries only errors that may pass: of
this TLC finds that it holds for the errors of the run.

**CachedBudgetProofs.** What the properties are stated with are recursive: the sums of the ledger
are folds over a set of calls, and the filter that finds expired entries is a recursive function of
the map's length. The library's induction takes an operator, which the provers cannot instantiate,
so induction is proved here for *sets* of numbers (`Induction`), from the pigeonhole principle: a
least number outside the set would make "minus one" an injection of a finite set into itself that is
not onto. With it come `SubsetInduction`, that a sum exists and does not depend on the order in
which it is taken (`SumsAgree`), what it does when one member changes (`SumChanges`), and what the
filter keeps (`FilteredIs`). On these rest `LedgerIsExact` and `SpendIsCapped`: one lemma for each
kind of step (`LedgerBegins`, `LedgerSettles`, `LedgerRests`). The cap rests on the ledger: a
settlement takes its estimate from what is reserved, but not below zero, and only because the sums
agree does that limit never matter: where it did, the total would rise by more than the excess of
the answer. The cache's invariant is `EntriesCurrent`: each entry is the value its key was given
last, by a call that is over, with the time it was given. A hit alone says nothing about the entries
it did not touch. From it `HitsAreCurrent` and `ValidEntriesStay`, the action properties.

**ClientProofs.** All theorems hold for any subscriptions, handlers, types, plugins and calls, and for
any depth of emissions.

- `SubscriptionsNeverLost`: the invariant `IInv` adds that a listener set serves one type
  (`SetsHaveOneType`), that a registered set is that of a subscription to its type
  (`CurrentIsCaptured`), that an active subscription has a set, and that a set holds a handler once
  (`BusTypeOK`), which makes a removal remove only itself (`RemoveFirstKeeps`). There are always enough
  set identities (`UnusedExists`), by counting. `OnKeeps` and `OffKeeps` carry the argument: of the
  step, since what holds may be lost in the two ways above. An unsubscribe that itself holds acts on the
  registered set, and leaves it registered if any other handler is in it.
- `EmissionsAreExact`: of every emission under way, those called and those in line are each without
  repetition and have nobody in common, and who is due is among them and still in the set
  (`EmissionExact`). Due alone is not inductive: when a handler returns, the next in line that is still
  subscribed is called (`EndOfLine`), and nobody due may be among those passed over. Hence also the second
  half: when an emission ends, nobody behind its last handler is subscribed any more (`EndsAfterAll`).
- `StatsNeverDrift`: calls are counted against the calls that are under way (`CallsCounted`). Retries
  need more: one announced is counted or still on its way to the client's own handler
  (`RetriesCounted`). That the handler is reached rests on `StatsListens`: it keeps the set
  registered that every subscription to retries has captured, so that the defect of
  `core/events/index.ts:491` cannot take the set away; and on `StatsAtBottom`: a retry is never announced
  inside another emission.
- `OrderIsRight`: what `orderPlugins` returns for any registrations that can be ordered. A plugin's
  place is the number of those that come before it, and "before" is a total order (`BeforeIsOrder`) that
  puts whatever becomes available in an earlier round first (`RoundsAre`, `RoundsGrow`).
- `DependenciesOutlive`: the invariant `PluginsInv` says what has an instance at each point of an
  installation or disposal: nothing beyond `installed`, nothing released before the end, and then the
  later ones first. With `OrderIsRight` no live plugin is without one it depends on.

Some definitions have the form they have so that they can be reasoned about: `Filtered` of `Cache` is a
recursive function on lengths, and the order of `Plugins` is composed of `Ready`, `Outranks`, `Before` and
`Place` rather than a sort.

Model-checked only:

- the liveness properties `WaiterAnswered`, `NoTrap`, `CallersAnswered`, `HedgeRescues`, `CallEnds`,
  `DeadlineFreesAll` and `StreamSettles`, because the prover handles neither fairness nor ENABLED;
- the claims about the modules of functions, which TLC evaluates over all small inputs;
- that the options accepted by the code satisfy the assumptions;
- the three violations, which are counterexamples.

## 6. Observations without a run

Met while modelling, and stated here because no property covers them:

- `core/plugins/index.ts:233`: a `build()` that fails leaves the instances it has made undisposed. A
  `dispose` that throws ends the disposal of all others, and a second `destroy()` does nothing
  (`core/builder/index.ts:399`). Calls are still accepted after `destroy()`.
- `packages/llm/src/events.ts:165`: the LLM client's bus lacks the flag by which an unsubscribe of the
  core's bus works only once; that it matters is the mutant `OffAgain`.
- `packages/llm/src/stream.ts`: a provider whose iterator ends normally when aborted makes the pump
  report `completed` after a timeout (docs/llm/cancellation.md:22); a fallback, cache or dedupe policy
  that answers the call of a stream leaves its pending `next()` and `result()` unsettled, which is
  the exception in `StreamSettles`.
- `packages/llm/src/client.ts`: the key functions of cache and dedupe get no arguments; callers that
  share a deduplicated request are each charged its full cost.
- `core/classification/index.ts:115`: the date of a Retry-After is measured from the start of the call, so
  that hints are too long but never too short; `getErrorCode` does not look at `cause`, so that the
  TypeError of a native `fetch` is no network error.
- `policies/circuit-breaker/index.ts`: a `window` of null raises a TypeError; any type but "count" is a
  time window. Options as normalised (`burst` of a sliding window, `factor` of a fixed back-off) would
  not be accepted again.

## 7. Plan

Everything of the first plan is written and checked: the policies with state shared by calls, one call
through retry and timeout, the stream, the budget with the cache, and the client with its bus and
plugins. What would come next:

1. Proofs of what the functions claim where they are not recursive: that `Options` accepts only what
   the assumptions of the policies say, and that `Outcomes` classifies as documented, for all inputs.
2. A throwing classifier in `RetryTimeout`, and the slot `providerIterator` in `LlmStream`.
3. Durations for deadlines, to state what the cut at the range of a timer does.
