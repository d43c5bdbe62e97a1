# A verification project for markup-svc

TLA+ models of the parts of markup-svc where goroutines, files, deadlines and a
bucket meet, the TLC runs that check them on small instances, and TLAPS proofs
of what matters most for every instance.  Every definition is translated from
the Go source under `src/`; `PROJECT.json` names, for each one, the lines it
stands for.

    tlc -workers 2 -config MCServingReload.cfg MCServing     # one run
    tlapm ServingProof.tla                                   # one proof module

## 1. The system

markup-server answers `POST /decide` with a markup factor that a rule set gives
for a request.  A process runs in one of two modes: with one rule source
(`--rules` or `--snapshot`) or as a router over several (`--route`).

| component | state it keeps | operations | hard behaviour |
|---|---|---|---|
| rule loading, diagnosis, snapshots (`internal/load`, `internal/snapshot`, `internal/markup`) | none | parse a CSV, diagnose it, build or read a snapshot | what each stage lets through: an unnamed rule, two of one name, a factor that is 0, infinite or NaN, an old snapshot |
| engine adapters (`internal/decider/{inmemory,firstmatch,priority,indexed}`) | an immutable rule set | build, decide | which rules an engine refuses, which matching rule wins |
| swap holder, hot reload (`decider/swap`, `httpapi/reload.go`) | the decider in force, under an RWMutex | decide, `POST /admin/reload` with a file or a body | the gate and the loader read the file separately; reloads overlap; calls in flight |
| guardrails (`decider/guardrails`, `httpapi/guardrails_admin.go`) | the rule list in force, under an RWMutex | check a decision, replace, snapshot | two captures per call; POST answers from a second read |
| decide handler, access log, decision events (`httpapi/decide.go`, `accesslog.go`, `decisionlog.go`, `jsonlog`) | the log | decide, dispatch the shadow, answer, log, publish the event | one error translated in five places; a value json cannot encode; what of a vetoed decision gets out |
| metrics and tracing decorators (`observability/metrics`, `observability/otel`) | metric series, open spans | wrap each layer of the chain | a counter and a histogram updated one after the other; spans and series that must match the event |
| shadow challenger (`decider/shadow`, `httpapi/decide_shadow.go`, `shadow_admin.go`) | an optional decider; metric series | load, clear, compare | a detached goroutine with a deadline; the pair compared; counters that must add up |
| router (`decider/router`, `main.go` `buildRoutes`, `routeReloadHandler`) | one swap holder per route | choose, decide, stamp; reload a named route | stickiness across retries and reloads; isolation of routes; routes of one model |
| decision sink (`observability/decisionsink/s3sink`) | a bounded channel, a batch, a timer, a sequence number; objects in a bucket | publish, gather, flush, upload with retries, drain | full channel, lost answers, SIGTERM against the drain, crash, restart, key reuse |
| process and probes (`cmd/markup-server/main.go` `run`, `httpapi/health.go`, `otel/bootstrap.go`) | a context, a ready flag, a server, open connections | boot in a fixed order, listen, probe, shut down | SIGTERM during boot; two reads of the file; connections net/http does not know; nothing waits for the sink |
| snapshot-build (`cmd/snapshot-build`) | a file | read rules, build, create, encode, write | the deployed file is truncated first and written last; a server may read it meanwhile |
| admin spans, manifests | | | see *Not modelled* |

How they interact.  A call goes through correlation-id and access-log middleware,
metrics and tracing decorators, the guardrails decorator, then the swap holder
(or the router and one of its swap holders), then an engine.  The decision comes
back through the same layers; the handler dispatches the shadow goroutine,
answers, and the access log publishes the event to the sink.  Admin handlers
share memory with calls only through the three holders, each an RWMutex around
one value, and with each other through the rules file on disk.

What makes each correct: a decision is made by a rule set and an envelope that
were in force during the call; a reload answers 200 exactly when it installed
its decider; reloads do not go back in time; a decision that leaves the service
lies in the envelope; a retry stays on its route; a comparison pairs what was in
force together and is counted once; an event is in one place, is stored once,
and is settled; no reader sees half a value and no writer waits for an engine;
span, series, log, event and answer of a call tell one story; nothing is reached
before it has a decider, and SIGTERM ends the process; a rules file that was
written in full is served as it was written, and a short snapshot not at all.
`PROJECT.json` lists the hazards line by line with the properties that cover
them.

## 2. Modules

| module | models | how state and actions correspond |
|---|---|---|
| `RuleSets` | loading, diagnosis, adapters, snapshots | constant operators. A condition is the set of requests it accepts; a factor is a number of tenths, an infinity or NaN (`ParseFloat` reads all three), and `Less` is Go's `<` on them; a source is one of the classes its loader tells apart |
| `Guardrails` | the three rules, `BuildRules`, `snapshotToConfig` | constant operators. An axis of a configuration is a set of at most one value |
| `Serving` | single-source mode: decide, reload, guardrails admin | `deciders`, `envelopes`, `files` are histories whose last entry is what the pointer (or the file) holds; a call's `rules` and `inner` are the pointers it captured. One action per step between two accesses to shared memory: arrive, capture rules, capture decider, evaluate; gate, load, swap; replace, echo |
| `AtomicHolder` | what a holder promises | reads and writes that happen at one instant; implemented by `Holder`, by each of the two holders in `Serving` and by the holder of each route in `Router` |
| `Holder` | the RWMutex holders word by word | lock queue, copy of each word, unlock, engine call outside the lock; implements `AtomicHolder`, which justifies the single steps of the other modules. Its names carry a prefix (`HolderSpec`, `HolderInv`) because `ServingProof` is about both |
| `Router` | router mode | a history per holder and per file; the middleware's ID, the policy, capture, stamp; decode, load, swap of a named route. FNV-1a is a constant function of the ID |
| `Shadow` | the challenger | histories of champion and challenger, the handler's dispatch, the goroutine from spawn to judgement, the metric series as counters |
| `EventLedger` | what a sink promises | accepted events wait in order and are settled from the front, together |
| `DecisionSink` | s3sink and the process around it | channel, batch, timer, attempt and key of the goroutine as variables; one action per select case, upload step, signal and end of the process; implements `EventLedger` |
| `Telemetry` | one `POST /decide` from the outermost middleware to the sink | a call's record holds what its handler holds: upstream span, error and factor on their way out, ended spans, log entry, answer. `count` and `dur` are the two Prometheus vectors, `log` and `published` what was written and handed over, in order. One action per layer that could be seen between two others |
| `Lifecycle` | `run()` from flags to return, the listening goroutine, connections, probes | `main` and `server` are the program counters of the two goroutines; every error return of boot is an action of its own and leads through the deferred flush. Uses the loaders of `RuleSets` |
| `FileFormats` | the two formats of a rules file | constant operators: what is written for a rule set, piece by piece (rows, or members of the JSON value), and what a reader makes of the pieces it got, whole or short |
| `RuleFile` | the rules file while it is written and read | `disk` is the sequence of pieces the file holds (rows, or members of the JSON value), `writer` a run of snapshot-build (or an editor), `loads` boots and reloads that read piece by piece. Uses `FileFormats`, and `Build`, `DiagnoseFile` and the loaders of `RuleSets` on what was read |
| `RuleSetsProof`, `ServingProof`, `RouterProof`, `ShadowProof`, `DecisionSinkProof`, `TelemetryProof`, `LifecycleProof`, `RuleFileProof` | | theorems and proofs, section 4; those of `Holder` are in `ServingProof` |
| `MC*` | | small instances for TLC |

Operators whose comment says *faulty* are seeded faults: each is the form a
plausible bug would give to the definition after it, used to see that the
property it is listed with in `PROJECT.json` notices.  No specification uses
them.

Modelling choices that a reader should know:

* A handler's steps between two accesses to shared memory are one step.  In
  `Serving`, `Router` and `Lifecycle` a file is read whole; `RuleFile` is about
  files that are not.  `Serving` starts from any content the boot gate may have
  read, whichever the loader then installed.
* A request is one-shot; its body or query is chosen in the initial state.  405
  answers and undecodable JSON change nothing and are left out, except where the
  module's subject is what they leave behind (`Telemetry`, `routeReloadHandler`).
* In `Shadow` the champion's reload is the swap alone and the guardrails are one
  configuration: `Serving` has the rest.  In `Router` the guardrails above the
  router are left out for the same reason.
* bre-go and the object store are external.  Which rules an engine refuses and
  which one wins is taken from the adapters' code, comments and tests.
* In `Telemetry` every layer is wired and a decision is its factor: which rule
  fires and which guardrail vetoes is free, subject only to what the code above
  them can tell apart.  No layer gives the champion's context a deadline, so the
  error of a passed deadline is translated (the tables have the row) and never
  occurs.
* In `Lifecycle` router mode has one route; an unknown `--policy` ends boot as a
  failed load does.  A connection carries one request.  A connection that has not
  sent its request when Shutdown begins may still send it: net/http waits five
  seconds for new connections, as long as the drain lasts.
* In `RuleFile` the piece at an index has the same offset in every file.  Files
  of other widths are torn inside a piece: then the CSV reader or the JSON
  decoder fails, or a number is cut short, which is one more value nobody wrote
  and beyond `EveryFactorWasWritten`.  The load and the swap of a reload are one
  step; `Serving` interleaves them.  A source an editor writes always opens: a
  person who saves a file has one.
* Indices into histories that only properties read (`sinceD`, `sinceF`, `at`,
  `after`, ...) are history variables: no guard mentions them.

## 3. Runs

Bounds are the constants of each `.cfg`.  Two actors of a kind are enough for
every order of two accesses to one holder; three events exceed the channel and
the batch; each class of input is present where its branch matters.

| run | instance | shows |
|---|---|---|
| `serving_reload` | 2 reloads, any of 15 bodies or 6 files, 2 edits, gate on, indexed adapter; reloads interchangeable | a 200 means one install and every other answer none; a file reload installs what the file held while it ran and never goes back behind a reload that ended before; only an edit between gate and loader puts an undiagnosed set in force; the proofs' invariant holds |
| `serving_guardrails` | 2 calls, 1 reload (a higher factor, an infinite one, or NaN), 2 posts of 3 configurations, snapshot mode, no gate; calls and posts interchangeable | what a call captured was in force; relaxing the envelope *after* a reload is safe; what is released is in an envelope of the call's time, or NaN; an echo shows a configuration that was posted, not older than its own post |
| `router` | 3 routes, two of one model, one shared file, one snapshot with a foreign tag; 2 calls, 2 reloads, 1 edit; calls and reloads interchangeable | routes are isolated; a 200 moves one holder; labels stand for the rules that answered; retries stay and advance |
| `shadow` | 2 calls, 1 load of 4 bodies (two of them refused), 1 clear, 1 champion swap to 3 rule sets: one with an infinite factor, one that is vetoed, one that does not match; no upper bound | counters add up at every instant; pairs are never stale; late is a timeout; equal rules with a finite factor agree; no answer waits |
| `sink` | 3 events, one unencodable, one large; channel 1, batch 2, lost answers, 1 restart a second later | one place per event, stored once; what was counted as flushed is in the bucket and what was counted as dropped is not, but for lost answers; implements the ledger; every waiting event is settled or its process ends |
| `holder` | 2 readers, 2 writers, 2 words, 2 values | no torn copy, no deadlock, implements the atomic holder, writers return |
| `telemetry` | 2 calls, every outcome, a factor that is NaN, with and without an upstream span, hang-ups, no decision ID, refused requests | series, histogram, events and calls in flight balance at every instant; span, event and status agree; a vetoed factor is seen in the engine's span alone; the log is the sink's copy, unless json could not encode the line; a 200 under a decision ID reaches the sink |
| `lifecycle` | 16 command lines: every combination of sources, every diagnose mode, one departure at a time in the rest; 5 CSV and 2 snapshot contents, 1 edit, 2 calls over either protocol | no connection, probe or failed listener before a decider; undiagnosed rules only after an edit between gate and loader; spans flushed on every way out; exit code 0 cuts no HTTP/1 call off; SIGTERM ends the process with handlers that hang |
| `rulefile` | either mode; 10 sources (sharing names or not, one rule or two, a zero, NaN, an infinity, a duplicate, malformed, missing), 2 writes, 2 loads, 1 crash; loads interchangeable | a whole file loads as its CSV would; a short snapshot is refused; no rule has a factor nobody wrote, whatever the tear |
| `serving_gate`, `router_headerless`, `sink_sigterm` | as above, smaller | counterexamples, section 6 |

`SinkInv`, `RouterInv`, `ShadowInv`, `TelemetryInv` and `LifecycleInv` are the
type invariant of their module, the named properties that stand before them
and what makes the whole inductive: where each handler, upload or goroutine is,
and what it has fixed by then (`CallStage`, `ReloadInv`, `EvalStage`, `LogStage`,
`UploadUnderWay`, `StagesInOrder`, ...).  `IInv` of `Serving` and `HolderInv` are
the same for their modules.  `RuleFileInv` has `EveryFactorWasWritten`, where each
piece of the file and of a load comes from (`DiskInv`, `LoadInv`), and what a run
has still to write (`WriterInv`).

Deadlock is checked in `holder` alone: every other model ends when its one-shot
requests are done or its last process has exited.

Fairness.  `holder`: goroutines between lock and unlock run, and `sync.RWMutex`
starves no writer; no call and no engine answer is assumed.  `sink`: the
goroutine and its timer run, and Go's `select` picks at random among ready
cases, so a case that is ready again and again is taken (strong fairness);
signals, crashes and restarts are not assumed.  `shadow`: the handler's goroutine
runs and the champion's engine returns; nothing is assumed of the challenger or
of its deadline.  `telemetry`: a handler that has begun goes on, its engine
computing in memory; no request need come.  `lifecycle`: `run`'s goroutine, the
listening goroutine and the five-second timer; nothing is assumed of a handler, a client or the signal.  `RuleFile` states none: a writer may stop
for good at any piece.

Two bounds deserve a word.  `rulefile` needs two writes so that a
second can start on the short file of a first, and pairs of sources with the same
names in the same places (`Old`, `New`) and in others (`Other`), so that a
mixture is sometimes well-formed.  `telemetry` needs two calls so that one can be
between counter and histogram, or between log and sink, while the other is
anywhere.

## 4. Proofs

Eight modules hold theorems; each of a state machine goes the same way: one
lemma per action for the parts of the inductive invariant the action can
disturb, a step lemma, and the theorems from it.  TLC has checked each inductive
invariant that is named below as a run's invariant (`IInv`, `SinkInv`,
`HolderInv`, `RouterInv`, `ShadowInv`, `TelemetryInv`, `LifecycleInv`,
`RuleFileInv`) first, so the proofs are about what the runs explore.

**`RuleSetsProof`**, about the constant operators, for any rules and requests:

* A decider that matches a request has a rule that wins it, under each of the
  four engines (there is a first or last index and a greatest priority because
  the natural numbers are well-founded), and its factor is one a matching rule was
  given (`FactorWritten`).  The other proofs use these for what a decision can be.
* `ShortSnapshotRefused`: a written snapshot cut short before its last piece is
  refused.
  `CsvReadsBack`: a CSV read to its end is to gate and loader what its rule list
  is.  `ShortCsvIsShorterCsv`: one cut short after any row is the CSV of the rows
  before, and nothing tells (section 6).
* `ReadFactorsWereWritten`: whatever mixture of writes a snapshot was read from,
  each rule that loads has a factor some piece gave under its name.
* `SnapshotDecidesAlike`: build, write, read and load in a row give a decider
  that answers every request as one built from the rules would, for every rule
  set the indexed engine accepts whose factors are finite (ADR-0007).  It rests on
  names being distinct: factors travel in a map by name, and priorities not at
  all.  With a factor that is NaN or infinite `json` refuses the snapshot
  (`Encodable`): the second half of the theorem says that nothing is written and
  that the empty file is refused.

**`ServingProof`**, for any number of calls, reloads, posts, edits, and any
files, bodies and configurations:

* `Invariance`: `IInv` of `Serving` is inductive.  The safety properties alone
  are not: that an install is acknowledged once needs to know where each reload
  stands (`ReloadInv`), where each installed decider came from and which file
  version was healthy at its gate (`DeciderInv`), and that envelopes remember how
  many deciders preceded them, next to what calls have captured (`CallInv`).
* From it: `TypeCorrect`, `CapturesAreInForce`, `EnvelopeOrder`, `AckedInstalls`,
  `ReloadsReadCurrentFile`, `ReloadsGoForward`, `UnhealthyNeedsEdit`.
* A second inductive invariant beside it, `GuardInv`, says what envelopes hold
  and what an evaluated call has found.  From both: `ReleasesStayWithin`, and,
  with `ConfigSurvives` (a configuration translated to rules and back is itself,
  if each axis has at most one value, as the JSON has), `EchoesAreConfigs`.
  Infinite factors are held back by every bound but an infinite one.  A NaN
  factor is exempt from the first, and so is an envelope with a NaN bound:
  `flag.Float64` accepts one for the boot guardrails (main.go:76-77).

* `SwapHolderIsAtomic` and `RulesHolderIsAtomic`: each of the two holders, with
  everything around it, implements `AtomicHolder`.  A call asks when it comes in
  and captures once.  What a writer is bound to install is fixed before it does:
  by the body when the reload comes in, by the load of the file, by the
  configuration of a post from the start.  So there is one install for each
  request that is acknowledged, only of what the loader makes of some file or
  body, or of a configuration somebody posted, and edits and refused requests are
  no step of either holder.  The echo of a post is left out of the second:
  `EchoShowsAConfig` is about it.

And about `Holder`, for any readers, writers, values and any nonempty set of words:

* `HolderInvariance`: at most one writer holds or awaits the lock and none writes
  beside a reader (`Exclusion`); the words that a writer has not touched agree,
  those it has are its value's (`WholeValue`); what a reader inside has copied is
  what is there (`FaithfulCopy`).
* `CopiesAreWhole` (no torn copy) and `HolderRefinement`: `HolderSpec` implements
  `AtomicHolder`, a read at the copy of its last relevant word, a write at its
  first word.

The two layers meet in the abstract specification: the locks give a holder whose
accesses happen at one instant, and the handlers use it as one.

**`RouterProof`**, for any routes, files, calls, reloads and hash function:
`RoutesAreIsolated` (`RouterInv` is inductive: each holder holds what its own
loader made of versions of its own file, installed by one reload that named the
route), `ReloadsMoveOneHolder`, `LabelsAreTrue`, `RetriesStay` and
`NoReloadGoesBack`.  The last two compare two calls or two reloads; each follows
from what the later one had seen when it came in, which the histories keep.
`RoutesAreIndependent`: the holder of each route implements an `AtomicHolder` of
its own (`Route(i)`), whose values are what the loader of that route makes of its
own file.  Calls to other routes, reloads of other models and edits are stutters
of it, and so is a reload that routes of one model share, for all but the one it
reaches (section 6).

**`ShadowProof`**, for any challengers, champions, calls and loads:
`ComparesWhatItAnswers` (`ShadowInv` is inductive), `PairsAreFresh`,
`TimeoutsAreLate`, `TwinsAgree` (for a factor that is a finite number; the code
counts NaN and the infinities against their own twin, and so does `SameFactor`),
and `CountersAreTrue`.  The last needs `CountInv`, which says how many comparisons are between two counters, by
cardinality; that only finitely many calls have come in is part of that
invariant, so the set of calls itself may be infinite.

**`DecisionSinkProof`**, for any events, queue and batch sizes, attempts, lost
answers, crashes and restarts:

* `TypeCorrect`; `OnePlace`: each event is waiting, flushed, dropped or lost, and
  only one of these.
* `StoredOnce` and `CountersAreTrue` (`SinkInv`), by the inductive `BucketInv`:
  an upload under way has at most one object, under its own key, and its batch
  (`UploadUnderWay`, `ObjectsAreBatches`); no key in the bucket is ahead of the
  clock and the sequence number (`KeysNotAhead`).
* `Refinement`: the sink implements `EventLedger`.

The bucket's theorems suppose `SuccessorsComeLater`: no restart, or each a second
later at least.  That is where the code's promise ends: names are host, second
and a number from 1, so a successor in the same second on a host of the same name
overwrites its predecessor's objects (section 6), and the run has the same bound.
`TypeCorrect` and `OnePlace` do without it.

**`TelemetryProof`**, for any calls, factors, spans and outcomes: `OneStory`
(`TelemetryInv` is inductive, and contains `SignalsAgree`), `VetoesStayInside`,
`LogAndSinkAgree`, and `BooksAreTrue`.  The last needs `BooksInv`: each series is
the events of its outcome and the calls between series and event, by cardinality,
over the finitely many calls that have come in.

**`LifecycleProof`**, for any command lines, files, edits and calls:
`ReachedIsReady` (`LifecycleInv`: what each value of `main` implies, the gate's
memory of what it read, and the calls at the moment of the drain),
`UnhealthyNeedsEdit` and `HonestExit`.

**`RuleFileProof`**, for any sources, runs of the writer, loads and kills, in
either mode:

* `RuleFileInvariance` (`RuleFileInv` is inductive).  `EveryFactorWasWritten` alone
  is not: a load decides on pieces it got at different times, so the invariant
  follows each piece from the run that wrote it (`FromRuns`) to the load that has
  it, and `ReadFactorsWereWritten` does the rest.
* `WholeFilesLoad`.  The file is always the beginning of one run's output, and
  what a run has still to write is what the file lacks (`DiskInv`, `WriterInv`);
  a load that no write fell into has the beginning of what is on disk, and its
  gate has seen the same file (`LoadInv`).  A whole file is then `CsvReadsBack` or
  `SnapshotDecidesAlike`, and a short one `ShortSnapshotRefused`.  It holds beside
  `RuleFileInv` and is proved with it: what a finished load held stays true while
  later writers go on.

Assumptions: the `ASSUME`s of the modules (kinds of the constants, that the boot
configuration builds, that NaN and the infinities are floats beside the
numbers), which TLC evaluates in the runs,
and `SuccessorsComeLater` where it is written in the theorem.  The provers are
Z3, Zenon and LS4 through tlapm.

`RoutesAreIndependent`, `SwapHolderIsAtomic` and `RulesHolderIsAtomic` state
refinements that are no property of a run; every other theorem about a state
machine names a property, or a part of one, that a run checks.

Model-checked only: liveness (`HeldSettles`, `SwapReturns`, `ResponseDoesNotWait`,
`AnswerIsReported`, `SigtermEndsProcess`).  Fairness rests on ENABLED, which the
provers at hand do not reach.

## 5. Not modelled

* Admin spans (`adminspan.go`): opened and ended around a handler they do not
  influence.  `/healthz`: answers 200 without looking at anything.
* Prometheus labels other than the outcome, histogram buckets, help texts; fields
  of lines and events that copy the request; the shadow's log line; diagnosis
  warnings: wording.
* `GET` handlers (`/admin/guardrails`, `/admin/diagnose`, `/metrics`): reads of
  what the modelled handlers write.
* The syntax of CSV conditions and JSON: a condition is the set it accepts.
* `HashFieldPolicy`: no flag wires it.
* Deployment manifests, CI, and the benchmark harness under `scientific/`.

## 6. Where the code and its documents differ

Each has a run whose counterexample shows it; `PROJECT.json` quotes both sides.

1. `serving_gate`: "if the new rules fail diagnosis ... the active Decider is NOT
   swapped".  Gate and loader open the file separately.
2. `router_headerless`: calls without `X-Correlation-ID` are said to fall back to
   the first route; the middleware gives them a random ID first.
3. `sink_sigterm`: the drain is there "so SIGTERM at deploy doesn't strand
   events"; `run` does not wait for it.

Met on the way, without a run of its own:

* NaN.  `ParseFloat` reads it, Diagnose's `factor <= 0` and both comparisons of
  FactorRange are false of it, so it leaves the service past every bound
  (`ReleasedWithinEnvelope` exempts it, and the run has one).  A NaN decision is
  answered 200 with an empty body and logged nowhere, against the access line "per
  request" of accesslog.go:16 and ADR-0021:17; its event takes the sink's whole
  batch with it, silently, which ADR-0036:149 does not list among the drops; and a
  challenger equal to its champion disagrees with it (decide_shadow.go:218-221).
* Infinities.  `ParseFloat` reads those too and Diagnose only warns.  FactorRange
  holds them back, unless a bound is infinite; one that is let through meets the
  same JSON encoder as NaN, and its twin challenger disagrees, since the distance
  of an infinity to itself is NaN (decide_shadow.go:165; `SelfComparisonAgrees`
  exempts it).  Either kind of factor makes
  snapshot-build fail after it has emptied the deployed file.
* Two reads of one file.  The boot gate and its loader read it separately as well,
  so the pod of ADR-0026:9 that "never reports Ready" with bad rules may
  (`UnhealthyBootOnlyIfEdited` is what does hold).  A CSV read while it is
  rewritten in place is a shorter CSV, whatever hot-reload.md:45 says of partial
  replacement.
* Snapshots are called "pre-validated" (ADR-0025:68, ADR-0026:32); snapshot-build
  does not diagnose, nor does the server: a factor of 0 is served.
* Object names are called collision-free (ADR-0036:91); a successor in the same
  second, on a host of the same name, starts again at 1 and overwrites.
* "In-flight requests finish" (deploy.md:66): those over h2c need not.
  `ExitIsHonest` is about the others.
* The error text of an event is "populated only when outcome=error"
  (decisionlog.go:24, ADR-0035:46); it is for canceled calls, too.  `span_id` is
  called "unique per decision" (ADR-0035:55); it is the upstream caller's.
* Routes of one model version share one reload entry and only the last is reached
  (`AckedMovesOneHolder` checks that one moves).  A reload of a snapshot route
  answers with the snapshot's tag while decisions carry the route's.
* The answer to a guardrails POST may show a later POST's configuration
  (`EchoShowsAConfig` is what does hold).
* `RecordSampled` is said to fire on every call where a challenger is loaded, and
  does not after a veto; `WithShadow`'s comment gives rate 0 two meanings, of which
  the code has one (off).
* The label of a passed deadline is `deadline` and the event's outcome
  `deadline_exceeded`, while ADR-0035 says they match (neither can occur today).
  The shadow's log line has no correlation ID: the detached context does not carry
  it.  A failure to draw a UUID is answered outside of the access log.
  hot-reload.md says a file that does not parse is answered 500, and it is 400.

## 7. Plan

Done: `RuleSets`, `FileFormats`, `Guardrails`, `Serving`, `Holder`,
`DecisionSink`, `Router`, `Shadow`, `Telemetry`, `Lifecycle`, `RuleFile` with
their runs.  Every safety invariant and both refinements that a run checks are
proved, and that the holders of `Serving` and `Router` are atomic ones.  Left:

1. The challenger's holder in `Shadow` as an `AtomicHolder`, in the manner of
   `SwapHolder`: its reads are those of the dispatch, its writes loads and clears.
2. Liveness, should a prover for ENABLED be at hand.
