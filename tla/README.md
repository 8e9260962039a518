# A verification project for scout-reporting

TLA+ modules, TLC configurations and TLAPS proofs for the Go code of this
repository: the `attestation` package, and the agentgateway ExtMcp processor
(`integrations/agentgateway-extmcp`) that decides MCP calls by the attestations
it holds, and the generator of the published JSON Schema (`scripts/specgen`).
Paths below are relative to `src/`.

Contents: [the system](#1-the-system) · [modules](#2-the-modules-and-the-code)
· [runs](#3-the-runs) · [fairness](#4-fairness) · [proofs](#5-what-is-proved) ·
[findings](#6-where-code-and-comments-disagree) ·
[not modelled](#7-what-is-not-modelled) · [plan](#8-plan).

Run `tlc -config X.cfg M` for a row of section 3, `tlapm M.tla` for a module
named `*Proofs`.

## 1. The system

A *producer* measures an MCP server and writes a **statement**: an in-toto
envelope whose one subject carries the SHA-256 of a target descriptor (transport,
newline, trimmed endpoint) and whose predicate carries target, verdicts, counts
and score.  A *consumer* parses it, validates it (`Validate`) and asks whether it
is about a given server (`Covers`).  The processor is such a consumer: it loads
one statement per configured backend, and answers the gateway's `CheckRequest`
calls from the table it built.

| Component | Source | State it keeps | Operations |
| --- | --- | --- | --- |
| Statements | `attestation/statement.go`, `verify.go` | none | `SubjectFor`, `Marshal`, `Parse`, `Validate`, `Covers`, `VerdictFor` |
| Drift | `attestation/diff.go` | none | `Compare`, `verdictIndex` |
| Configuration | `processor/config.go` | none | `ReadConfig`, `ParseConfig`, `Validate`, defaults |
| Loader | `processor/load.go` | an HTTP client, limits | `Load` (file or https, capped, with a timeout) |
| Store | `processor/store.go` | the pointer to the snapshot, under a lock | `Reload`, `Build`, `verify`, `Snapshot` |
| Policy | `processor/policy.go` | none | `Evaluate`, `failingIn` |
| Service | `processor/server.go` | one goroutine per call | `CheckRequest`, `CheckResponse` |
| Command | `cmd/agentgateway-extmcp/main.go` | signal channel, ticker, contexts, the reloader | `run`, `reloadOn` |
| Schema generator | `scripts/specgen/main.go`, `spec/` | definitions under way | `schema`, `typeSchema` |
| Bindings, other scripts, example | `gen/`, `scripts/`, `examples/` | none at run time | build-time |

How they interact.  `run` calls `Store.Reload` once itself, then starts the
reloader (`reloadOn`), which calls it on SIGHUP and on a ticker.  `Reload` reads
the configuration, then `Build` loads, parses, validates and compares one
statement after another, and the finished snapshot replaces the old by one
pointer assignment.  The handlers read that pointer once per call and share
nothing else with the reloader.  Contexts tie the two together at the end:
SIGTERM ends `ctx` and so the reload's context; `run` drains the calls, stops
the reloader, joins it, and gives SIGHUP back to the runtime.

What is hard here, and what makes each part correct:

- **Time of reading.**  Configuration, files and https sources change between
  two reads of one reload, so a table mixes versions that never were on disk
  together.  Whatever the mix, each statement in service must vouch for the
  server configured under its name, and a table must be complete.
- **Calls against reloads.**  A request names several backends; all must be
  decided on one snapshot.
- **Two keys, three names.**  `Validate` and `Covers` tie together a digest, a
  displayed name and a predicate's target; each is checked against another one
  and the conclusion needs all of them.
- **Duplicates.**  Family ids give several verdicts one id; counts, policy and
  comparison treat them differently.
- **Signals.**  A SIGHUP before its handler is in place kills the process;
  several while a reload runs become one, which still has to bring the last edit
  into force.
- **Loads.**  Files are overwritten while they are read, servers stall or never
  stop sending, the context and the deadline end a fetch at any point; a part
  must not pass for the whole, and nothing may stay open on any return.
- **Drift.**  Checks come and go between statements: a change must show in some
  comparison however it is split.
- **Two readers.**  A schema derived from Go types and a decoder into the same
  types read one document by different rules.
- **The end.**  Termination meets pending calls, a reload under way, and a
  context that ends between a check and the fetch it was meant to guard.

`PROJECT.json` lists these and the others, each at its line, under `hazards`.

## 2. The modules and the code

```
Attestation <- Policy <- Store <- Server <- Process
     ^           ^         :         |
 Tampering      Gate  <----:---------+ (refinement)
 Schema                  Source <- Loader (refinement)
   |
   v
 SpecGen                 Drift
```

(`X <- Y`: `Y` extends `X`, or implements it where it says refinement; `Store`
relies on what `Source` promises.)

| Module | Models | Variables |
| --- | --- | --- |
| `Attestation` | statements; `Validate`, `Parse`, `Covers`, `SubjectFor` | (pure) |
| `Tampering` | one statement between producer and consumer, edited field by field | `st`, `edits` |
| `Policy` | configuration, policy, and how a snapshot answers for a name | (pure) |
| `Store` | `Reload` and `Build` step by step, with edits and the context's end between the steps | `configFile`, `content`, `snap`, `build`, `cancelled` |
| `Server` | the handlers, one step per use of the shared pointer and per turn of the loop | + `calls` |
| `Gate` | what the service promises, without the mechanism | `table`, `calls` |
| `Process` | `run`, `reloadOn`, the signals and the ticker around all of the above | + `main`, `handler`, `hup`, `tick`, `reloader`, `terminated`, `asked` |
| `Source` | what a load promises the store, without how it is read | `busy`, `scheme`, `held`, `written`, `cancelled`, `outcome` |
| `Loader` | `Load`, `read`, `fetch` and `capped`, with files, servers and time around them | `settings`, `pc`, `scheme`, `size`, `complete`, `response`, `open`, `got`, `left`, `deferred`, `cancelled`, `result`, `whole`, `written`, `late`, `waited` |
| `Drift` | `Compare` and `VerdictFor`, and a consumer that compares a series of statements | `admitted`, `latest`, `reported` |
| `SpecGen` | `schema` and `typeSchema`, one field per step | `table`, `defs`, `stack`, `failed` |
| `Schema` | the statement's types, their JSON, the generated schema and `Parse` as its readers | + `statement`, `document`, `altered` |
| `Samples` | statements and configurations the runs draw on | (data) |
| `MC*` | bounds | |
| `*Proofs` | theorems | |

How state and actions correspond to the code:

- **Strings.**  `Text` is a set of names and endpoints; `Trim` is
  `strings.TrimSpace` on it, any function that leaves the blank string blank.
  `Sha256` is a function on descriptors that is assumed injective
  (`DigestAssumption`): the one cryptographic assumption of the project.
- **Bytes.**  A file's contents are an identifier, and `Decode` is what
  `json.Unmarshal` makes of it: a `Statement` or `NotJSON`.  A `Statement` keeps
  the fields the operations read; `header` is the set of the constant or
  required fields that are right, since `Validate` treats them alike.
  Configuration files work in the same way through `ConfigOf`, whose `form` says
  whether the file is one JSON document, one with more bytes after it, or neither.
- **Names** of backends are numbers in the order of `sort.Strings`, 0 the blank
  one.  The order matters: `Build` takes the names in it, and the context is
  checked before each.
- **`snap`** is the store's pointer.  A snapshot is its configuration and its
  `entries`; `NoEntry` is the nil entry of a name the table does not know, and
  `NoStatement` with a reason the entry of an unusable one.  The reason keeps the
  stage (`verify` names it), and tells a load that failed because the reload's
  context ended from one that failed by itself.
- **`build`** is the running reload: `config` before `ReadConfig`, `next` at
  `Build`'s check of its context, `verify` inside `verify`.  `FinishTarget` reads
  the source as it is at that moment, whatever the configuration was read from.
- **`cancelled`** is the context `Reload` was given.  In `Process` it ends with
  main's context (`Terminate`) or by `stopReload` (`Drained`, `ServeFails`).
- **`calls`** holds a handler's locals: `held` is its `snap`, `next` the loop's
  position, `scores` its `meta`.
- **`main`** is the place in `run`: `armed` after `signal.Notify`, `listening`
  once the address is bound, `draining` in `GracefulStop`, `joining` and
  `abandoning` in the deferred function that joins the reloader (after a graceful
  stop and after `Serve` failed), `leaving` and `failing` after the deferred
  `signal.Stop`, then `exited`, `failed` or `killed`.
- **`hup`** and **`tick`** are channels of capacity one, so one flag each;
  `asked` is a history variable for one liveness property.

- **Contents** are lengths in `Loader`: `size` of the file or body so far,
  `complete` when no one is half way through writing or sending it, `got` what
  `ReadAll` has.  `left` is the time left of the fetch, `open` the file or the
  body.  `deferred` holds the deferred calls that are in force: each `defer` of
  `read` and `fetch` adds its own where it stands, and `Return` runs those and
  no others, so that one which comes too late for an early return shows.
  `whole`, `written`, `late` and `waited` are history.  `Wrap` is the sum of
  `capped` at its width.
- **Files** are what other processes make of them.  A path names a regular file,
  which ends at its size of the moment and may at any time be cut, overwritten
  or added to in place (`Rewrite`, `Grow`, `EndStream`), or a pipe, which ends
  when its writer is done.  A file put in another's place under its name is not
  a case of its own: a reader keeps the file it opened.
- **`reported`** in `Drift` is what all comparisons so far have said.  A
  verdict's outcome is what `VerdictFor` returns, the first of its id, and
  `Kind` is the switch of `Compare` with the zero values that a map returns for
  what it does not hold.
- **`stack`** in `SpecGen` is the calls of `typeSchema` that are inside a
  struct; `defs` is the map they share, `Reserved` its nil.  A type is a record
  of the pointers, slices and maps around a kind, and only struct types have
  names, so only they recurse; a step over those layers is not a call of its own,
  as `typeSchema` changes nothing it shares before it is at the end of them.
- **Go values and JSON** in `Schema` are functions of field names and tagged
  records.  `Seen` is a Go value as `Validate` reads it, a statement of
  `Attestation`; so `Decode`, an assumed function there, is computed here.
  A JSON number keeps its spelling where a reader tells it apart: the digits of
  an int, a whole number spelled otherwise (`decimal`, 7.0 or 7e0), one beyond
  int64 (`big`) or beyond float64 (`huge`), and a fraction.  To a schema an
  integer is one by its value; `encoding/json` wants an int's digits.  Member names
  may differ from a field's in their case (`CaseVariants`, of members without
  members of their own), and a time may be a leap second (`ParsedTimes`).

Operators commented `Fault:` are variants of the operator that follows, as a
plausible slip would leave it: a dropped guard, a missing call, a lock held too
long.  No specification uses them; `PROJECT.json` lists under `mutants` which
property each one breaks when it stands in for the original.

## 3. The runs

| Run | Configuration | Distinct states | Asks |
| --- | --- | --- | --- |
| tampering | `MCTampering` | 2,344,312 | Can three edits of a produced statement leave one that validates, covers a server, and is about another or hides a verdict? |
| store | `MCStore` | 1,658,454 | Can edits between two steps of a reload put an unsound or incomplete table into service?  Whom does a table blame for the end of the reload's context? |
| judge | `MCJudge` | 452,736 | Can a call go past a backend that did not earn it, or be stopped at one that did? |
| server | `MCServer` | 56,144 | Does the stepwise service implement `Gate`, and are requests answered while a reload hangs? |
| process | `MCProcess` | 2,897,340 | Is the service always loaded, does it survive hangups, is each still owed its reload, does everyone who waits have someone to wait for, and does it stop with nothing running? |
| reloads | `MCReloads` | 122,732 | Does a hangup, or the timer, bring the last edit into force, also after a failed reload?  Does the wait for the calls end, even if a reload hangs, and does the process end when told to? |
| drift | `MCDrift` | 68,882 | Can a change since admission hide in a series of comparisons? |
| loader | `MCLoader` | 810,308 | Can a load return a part of its source, read without bound, leave something open, or break `Source`'s promise?  Does a fetch return whatever its server does, and when its context ends? |
| schema | `MCSchema` | 41,553 | Does the generator end on types that refer to each other, with definitions that are whole, reachable and their types'?  With the real types, do marshalled statements conform, are they read as written, and does what conforms decode, but for its spelling? |
| cancel, plan, wrap | `MCCancel`, `MCPlan`, `MCWrap` | | See section 6: each shows a comment or a document and the code at odds. |

What the properties say:

- `ProcessTypeOK` has the types of `Store` and `Server` in it (`StoreTypeOK`,
  `ServerTypeOK`), which are proved for their own specifications too.
- `CoveredIsDescribed`, `CoversItsOwn`: a statement that validates and covers a
  server agrees with it in predicate, digest and displayed name; what
  `SubjectFor` digests is what the consumer recomputes; and a valid statement
  covers the server of its predicate, blanks around the endpoint apart, and no
  other one, of another endpoint or of another transport only.
- `CountsAccountForVerdicts`: the totals cannot be edited apart from the
  verdicts, duplicates of an id included.
- `SnapshotSound`: every statement in service vouches for the server its own
  table configures under that name.  The proof obligation is real because the
  configuration in service may be older than the files: soundness is relative to
  the table's own configuration, not to the file of the moment.
- `SnapshotComplete`: a table in service is of a valid configuration and has
  entries for all of its targets and no other name, so a build that was cut short
  never shows.
- `CancelBlamesLast`: what is true of `Build`'s comment that section 6 quotes
  (**cancel**): a context that ends costs a table in service at most the entry
  of its last target, since every other target's fetch is followed by a check.
- `PassedAreEarned`: stated without `Evaluate`: a backend is passed for a
  statement that vouches for it, is scored high enough and has no failing verdict
  in a denied category, or because the policy does not require one; and a call
  is stopped only at a backend of which that is not so, hence not at a score
  equal to the minimum, nor for want of a score where there is no minimum.
- `GateSpec`: the refinement.  `Gate` swaps tables in one step, each complete
  and sound, and answers a call in one step, by one table, between arrival and
  reply.  The refinement mapping takes a handler's answer to be settled when it
  reads the pointer.  Two fields map: `table` is `snap`, and a call that is
  `deciding` is already `decided`, with the answer of the snapshot it holds.
- `NeverUnavailable`, `NothingAfterReturn`, `SurvivesHangup`: the comments in
  `run` on the order of its steps.  A process whose `Serve` fails returns with
  calls pending, also when it was told to stop at the same time, so nothing is
  said of calls being answered by then.
- `NoHangupLost`, `NobodyWaitsInVain`: what `HangupTakesEffect` and `ShutsDown`
  rest on, as invariants.  With an empty channel and no reload under way, the
  last hangup has had its effect; and where `run` waits for the reload or the
  reloader, what ends the wait is still there: the first reload, a reloader whose
  context has ended, or, for the hangups of a process that serves, a reloader.
  The drain's wait for its calls is liveness: `DrainEnds`.
- `LoadedWhole`, `ReadIsBounded`: one byte past the limit is read to tell too
  large from just fitting, and what is returned is all that the source held, at
  some moment of the load at which no writer was half way through it.  Of a file
  that is written to between its opening and its last byte `Load`
  promises nothing and the property says nothing: see section 7.
- `NothingLeftOpen`, `LateFetchFails`, `GivenItsTime`: handles and timers on
  each early return and the last; a context that ended before the call; the
  three meanings of a timeout (positive, zero, negative).
- `LoadMovesOn`: a load has a number of its own steps left that nothing around it
  raises and each of them lowers, so a server can hold it up and not keep it busy.
- `SourceSpec`: the refinement from `Loader` to `Source`; `busy` is `pc`
  outside `idle`, `held` is `whole`, `outcome` is `result`, and `written` allows
  any contents.  `Store` takes as much from it: any load may fail, one of a fetch
  also for the context's end, and what it gives otherwise is what the source
  holds at that moment, or held, as a mix, between two edits.
- `DriftIsReported`: "regressed" alone would be false of a check that passes, is
  skipped, then fails; the property says that such a chain shows as unassessed.
  `NewFailuresReported` is about failing checks wherever they come from,
  `QuietSeriesUnchanged` about series that report nothing, `OppositeDeltas`
  about the two directions of one comparison.
- `ReferencesResolve`, `DefinesWhatIsReached`, `NeverReentered`,
  `GeneratorEnds`: the reservation that stops the recursion does
  not leave holes, and fixed and hidden fields hide the types behind them.
  `Reached` is stated without the generator's order, as what is in every set of
  structs that has the root and all that its members lead to.
- `DefinitionsAreTheirTypes`: a struct is described over many steps, with the
  descriptions of others between two of its fields; what is stored under its name
  has its own members, schemas and required members all the same.
- `PlainStatementsConform`, `PlainlyConformingDecodes`, `MarshalRoundTrips`: the
  two readers agree as far as they do: on what `Marshal` writes without a plan,
  and in that what the schema lets through and the package cannot decode is
  wrong in its spelling alone (of a number, of a name's case, of a leap second),
  never in a member that is missing or of another type; and what is read is what
  was written, to the bytes if it is marshalled again.
- `HangupTakesEffect`, `IntervalTakesEffect`, `DrainEnds`, `ShutsDown`,
  `CallsAnswered`: section 4.

Bounds, and why they are enough:

- `MCStore` has six configurations (two targets, the same two swapped, a lenient
  rollout with another transport, one with more bytes after it, one that does not
  decode, one refused by `Validate`), and six statement files (right, another transport, another
  endpoint, edited after digesting, displayed under another name, not JSON) on a
  file and an https source.  Two targets are the least with a step between
  targets; the edits are not bounded.
- `MCJudge` has one gated backend and a statement of each kind the policy tells
  apart; requests name it alone, with a blank name, or name nothing.
- `MCServer` has two configurations of opposite tables from one file, so that no
  table passes both backends and a request that mixed tables would be noticed.
  One caller: handlers share only the pointer, which none of them writes, and
  `ServerProofs` proves the refinement for any number.
- `MCProcess` has two callers, so that one may be pending while another arrives
  or is answered; a local, a remote and an unreadable configuration; and the
  ticker, hangups, termination and the listener's failure at any moment.
- `MCReloads` has one caller, for the part of `run` that waits for calls: they
  share nothing, so the wait for several is that for each.  It has two
  configurations of one backend, one that does not decode, and one file: what more
  backends and sources add to the edits that a reload may meet is in
  `HangupsAreNotLost`, which is proved for any.  The command has its interval; a
  ticker that never ticks stands for one without.
- `MCTampering` has six strings: blank, spaces only, an endpoint with and without
  surrounding blanks, with a slash, and another one.  `MaxEdits = 3` covers a
  target moved with its digest and its name; the theorem has no bound.  The
  run ends when the edits are used up, hence `CHECK_DEADLOCK FALSE`.

- `MCLoader` takes four-bit integers for `int64`, limits below, at and above
  zero, and contents up to 5 bytes, one more than the cap reads for the default
  limit of 3.  The writers of a file are not bounded.  The theorems have no such
  bounds; `MCWrap` has the largest limit, which section 6 is about.
- `MCDrift` has two checks: one with every status, two severities and a family
  id's two verdicts in either order, one that passes, fails or is absent; a
  missing score and another rubric.  Series are not bounded.
- `MCSchema` has, besides the real types, every table of three structs with two
  fields each in two of them, over pointers, slices and maps of each other,
  hidden and fixed fields and a type without a schema.  `MaxDepth = 12` is
  more than the structs there are, and so out of reach by `DepthSuffices`, which
  is proved.  The generator stops, and the documents are used up, hence `CHECK_DEADLOCK FALSE`.
  There are 648 statements: everything that omitempty treats on its own, in
  all combinations, with and without subject, rubric, score and plan; and for
  three more, every document that differs from theirs in one member, at any
  depth: left out, null, of another type, spelled otherwise, or added, under an
  unknown name or a field's in another case.
  Formats are asserted, as the validator that `docs/verify.md` names asserts
  them; one that only annotates them lets any string through as a date.

## 4. Fairness

`FairProcessSpec` assumes, in `Fairness`, what Go gives its goroutines:

- weak fairness of `MainStep` and each handler: a goroutine that can run does;
- strong fairness of `TakeHangup`, `TakeTick` and `ReloaderStops`: Go's `select`
  picks at random among the ready cases, so a case that is ready again and again
  is not passed over for ever.  Weak fairness would not do, since each of them is
  disabled while another's reload runs.

What depends on the world outside is a premise of the properties that need it:

- `LoadsReturn`, weak fairness of `ReloadOn`: `LoadReturns` shows it of fetches,
  whatever the server does, and of regular files, whatever is written to them
  (a pipe without a writer would hold its load, which takes no context);
- `TickerTicks`, weak fairness of `TimerFires`, for `IntervalTakesEffect` alone.

Nothing is assumed of edits, hangups, SIGTERM, incoming calls or the listener's
failure, which may or may not come.  `CallsAnswered` is checked under
`FairServerSpec`, with fairness of the handlers alone: the reload may hang for
ever, and requests are answered all the same.

`DrainEnds` is checked without `LoadsReturn`: the calls that `GracefulStop` waits
for end by their handlers alone, however long the reload hangs.  `ShutsDown`
needs it, since `run` joins the reloader.

`HangupTakesEffect` is about a last edit that a hangup follows: from some moment
on the table in service says what the files say, unless the process is stopping.
Any load may fail, of a file too, and is then recorded as unreadable: so each
target is judged on what its source holds, or unreadable (`InForce`), never judged
on what an earlier version held.  A configuration that does not read keeps the
previous table.  A SIGTERM while `GracefulStop` waits still lets a reload finish
or not, so the property says nothing of a process that is stopping.

`FairLoaderSpec` assumes that the goroutine that loads runs, and nothing of
servers, writers or time: in `CancelEndsFetch` only the caller's context can end
the fetch.  `LoadReturns` has the passing of time, `WF(Tick)`, for its premise.
`SchemaSpec` assumes that the generator runs.

## 5. What is proved

For every value of the constants, that is any strings, digests, statements,
configurations, number of backends, calls and edits, and any struct types.  The
theorems about the generator are of `GenSpec`, whose steps are `Generate` of the
schema run.

| Theorem | Says |
| --- | --- |
| `AttestationProofs!ValidCoversDescribes` | `Validate` and `Covers` establish `Describes` |
| `AttestationProofs!ValidCoversItsOwnOnly` | a valid statement covers its own target, up to blanks, and no other |
| `TamperingProofs!TamperingTypeCorrect`, `TamperedStillDescribed`, `ProducerAgreesWithConsumer`, `EditedCountsAccount` | types, `[]CoveredIsDescribed`, `[]CoversItsOwn`, `[]CountsAccountForVerdicts` |
| `StoreProofs!StoreTypeCorrect`, `StoreServesSound`, `StoreServesComplete`, `CancelCostsTheLast` | `[]StoreTypeOK`, `[]SnapshotSound`, `[]SnapshotComplete`, `[]CancelBlamesLast` |
| `StoreProofs!ReloadsMoveOn` | `ReloadMovesOn`: a build keeps to its configuration and is done after two steps for each target and one more |
| `ServerProofs!ServerTypeCorrect`, `CallsPassedAreEarned` | `[]ServerTypeOK`, `[]PassedAreEarned` |
| `ServerProofs!ServerImplementsGate`, `ServerImplementsStore` | `ServerSpec => GateSpec`, `ServerSpec => StoreSpec` |
| `ServerProofs!CallsGetOn` | `CallsMoveOn`: a call is answered after as many steps of its handler as it names backends and three more |
| `ServerProofs!AskingLessPasses` | a table whose policy asks less of the same entries passes what passed before, also for fewer backends and in any order |
| `ProcessProofs!ProcessImplementsServer`, `ProcessImplementsGate` | `ProcessSpec => ServerSpec`, and so `GateSpec` |
| `ProcessProofs!CommandServesSound`, `CommandBlamesLast`, `CommandPassesEarned` | `[]SnapshotSound`, `[]SnapshotComplete`, `[]CancelBlamesLast` and `[]PassedAreEarned` of the whole command |
| `ProcessProofs!CommandReloadsMoveOn`, `CommandCallsGetOn` | `ReloadMovesOn` and `CallsMoveOn` of it |
| `ProcessProofs!NothingRunsAfterReturn`, `HangupsAreSurvived`, `NoCallFindsItEmpty`, `ProcessTypeCorrect` | `[]NothingAfterReturn`, `SurvivesHangup`, `[]NeverUnavailable`, `[]ProcessTypeOK` |
| `ProcessProofs!HangupsAreNotLost`, `WaitsAreJustified` | `[]NoHangupLost`, `[]NobodyWaitsInVain` |
| `SpecGenProofs!GeneratorTypes`, `GeneratorNeverReenters`, `GeneratorDepthBounded` | `[]GenTypeOK`, `[]NeverReentered`, `[]DepthBounded` |
| `SpecGenProofs!GeneratorResolves`, `GeneratorDefinesReached`, `GeneratorDescribes` | `[]ReferencesResolve`, `[]DefinesWhatIsReached`, `[]DefinitionsAreTheirTypes` |
| `SpecGenProofs!GeneratorMoves`, `GeneratorDepthSuffices` | `GeneratorGetsOn`: every step leaves less to do; `[]DepthSuffices`: the bound on the depth refuses nothing |
| `DriftProofs!DriftTypeCorrect`, `DriftDoesNotGoUnreported`, `NewFailuresAreReported`, `QuietSeriesEndsWhereItBegan`, `DirectionsAgree` | `[]DriftTypeOK`, `[]DriftIsReported`, `[]NewFailuresReported`, `[]QuietSeriesUnchanged`, `[]OppositeDeltas` |
| `LoaderProofs!LoaderTypeCorrect`, `LoadedIsWhole`, `LoadReadsLittle`, `LoadLeavesNothingOpen`, `LateFetchesFail`, `FetchesAreGivenTime` | `[]LoaderTypeOK`, `[]LoadedWhole`, `[]ReadIsBounded`, `[]NothingLeftOpen`, `[]LateFetchFails`, `[]GivenItsTime` |
| `LoaderProofs!FetchesAreTimed`, `LoadsMoveOn` | `[]FetchIsTimed`: a fetch under way has its deadline; `LoadMovesOn`: a load is done after five steps of its own and one for each byte up to the one past the limit |
| `LoaderProofs!LoaderImplementsSource` | `LoaderSpec => SourceSpec`, with limits below the largest integer |

Assumptions: those named in the modules.  `TextAssumption` and
`DigestAssumption` (above), `DecodeAssumption` (a decoded file has the shape of
the Go type), `PolicyAssumption` (so has a decoded configuration; the special
values are not ordinary ones), `StoreAssumption` (a failed load is no contents, and a configuration
has finitely many targets),
`ServerAssumption` (requests carry lists of names), `TamperingAssumption`,
`DriftAssumption` (statements have the shape `Compare` reads),
`LoaderAssumption` (the defaults are positive and fit), `SpecGenAssumption`
(finitely many struct types, closed under their fields, no two fields of one
with the same JSON name; a constant or an enumeration is not a reference).  TLC
evaluates all of them in the runs.

The argument:

- *Statements.*  `Covers` only compares digests.  `Validate` makes the digest
  that of the predicate's target and the displayed name that target's endpoint;
  with an injective digest both then are the covered server's, and a server with
  another descriptor is not covered.
- *Store.*  `SnapshotSound` and `SnapshotComplete` are not inductive: `Install`
  puts whatever was built into service.  `StoreInvariant` adds what holds of the
  table under construction: its target is one its configuration has
  (`CurrentConfigured`, which even the type needs, as `FinishTarget` looks the
  target up), its configuration is valid, its usable entries vouch, and it has
  entries for exactly the targets that are neither waiting nor under
  verification (`TableUnderConstruction`).  Edits do not touch it since it
  refers to the configuration that was read.
- *Blame.*  `CancelBlamesLast` needs the order of the names in the table under
  construction (`BlameInOrder`): what is recorded comes before what is not, and
  once an entry blames the context it is the last one recorded and no target is
  being verified, as `NextTarget` asks for a live context.  `verify` blames it
  only for a fetch (`BlamedFetch`): no source holds `Cancelled`.
- *Termination, the part that is safety.*  Calls, builds, loads and the
  generator each have a count of what is left (`Remaining`, `BuildStepsLeft`,
  `StepsLeft`, and `Unbegun` with the depth and `FieldsLeft`) that their own steps
  lower and nothing else raises: no retry, no starting over, no circle.  The
  counts are bounded below by the invariants above: `Progress` bounds `next`,
  `CurrentConfigured` the targets, `ReadIsBounded` the bytes, `GenInvariant` the
  fields; a struct that is begun is a type not begun before (`RoomForOneMore`).
- *Service.*  `ServerInvariant` adds `Progress` of each call under way: the
  snapshot it holds is `Trustworthy`, which is a fact about the snapshot alone
  and so outlives every reload, the backends before `next` are allowed by it, and
  `scores` is the union of theirs.  `AllowedIsEarned` and `EarnedIsAllowed` take
  `Evaluate` apart, one for each direction.
- *Refinement.*  `PassAllAnswer` and `DenyAnswer` say that the loop's end is the
  `Answer` of the held snapshot; so the loop's steps change nothing the gate
  sees, `TakeSnapshot` and the two early answers are `DecideCall`, and `Install`
  is `Publish`.

- *Command.*  What surrounds the server only ends its context, so the command
  is a server and inherits the above (`CommandServesSound`,
  `CommandPassesEarned`).  `Life` ties `main`, `handler`, `reloader`
  and `build` together: SIGHUP is handled in every phase from `armed` to the
  join, the reloader lives within that time, and a reload is run's first or the
  reloader's; `NothingAfterReturn` and `SurvivesHangup` follow.  `Loaded` says
  that from the first reload's success on, and whenever a call is in progress,
  there is a table.

- *Drift.*  The invariants of a series are about its two ends, so each step
  needs what the series reported so far: for every check, either its outcome now
  is no worse than on admission or something was reported; one comparison's
  switch, taken apart in `DriftProofs`, carries that over a step.
- *Loads.*  `LoadedWhole` needs that a source that is `complete` is in `whole`
  as it is, that a file which is open and was not written to is complete, and that
  `Bound` is one more than `Limit` (`LimitFacts`, where the largest integer is
  excluded); `NothingLeftOpen`, that what is open has had its `Close` deferred
  and what runs its `cancel`; `GivenItsTime`, that a timer which has run out
  has run; `LateFetchFails`, that a fetch called too late is stopped before it
  waits.  The refinement adds that a load has no result before it returns
  (`PathInv`); then every return is `Give`, and the steps between are stutters.

- *Hangups.*  `NoHangupLost` is not inductive: of a reload under way it says
  nothing, and the step that ends one has to leave what the files say in service.
  `HangupKept` adds that a reload which took the last hangup is up to date in
  each of its stages (`UpToDate`): it has yet to read the configuration, or holds
  the one on disk, and what it has recorded of the files it read is what they
  still say.  An edit clears `asked` and so releases it; a hangup that meets a
  reload is in the channel, where it stays until that reload is over.
- *Waits.*  `Waits` is the inductive form: the reloader is born before `run` can
  wait for it and never goes away unnoticed, since it stops only once its context
  has ended, and `Drained` and `ServeFails` end that context before the join.
- *Generator.*  `GenInvariant` says of the calls under way that no two are in
  one struct, that exactly the structs they are in are reserved (`ReservedOnStack`),
  that every struct begun can be reached (`Begun`), and that the first `next - 1`
  fields of each are described by their types, with every struct these lead to
  begun (`FramesGood`); of what is stored, the same of all fields (`DoneWhole`).
  `DepthBounded` counts the names of the stack.  When the stack is empty the
  definitions are a closed set, hence contain `Reached`.  No induction over data
  is needed for this: being reachable is being in every closed set.

Proved, and no property of a run by themselves: `StoreTypeOK` and `ServerTypeOK`
(parts of `ProcessTypeOK`, which the process run checks), `LoaderTypeOK`,
`DriftTypeOK` and `GenTypeOK`; `DepthBounded` (what `NeverReentered` means for
the depth of the calls) and `DepthSuffices`; `FetchIsTimed`; the action
properties `CallsMoveOn`, `ReloadMovesOn` and `GeneratorGetsOn`; and
`AskingLessPasses`, which is about two tables rather than one behaviour.

Model-checked only:

- the liveness properties `HangupTakesEffect`, `IntervalTakesEffect`,
  `DrainEnds`, `ShutsDown`, `CallsAnswered`, `LoadReturns`, `CancelEndsFetch` and
  `GeneratorEnds`, since liveness under fairness is out of the proof system's
  reach.  What is safety in them is proved: `NoHangupLost` of the first,
  `CallsMoveOn` of the third and the fifth, `NobodyWaitsInVain` of the fourth, `FetchIsTimed`
  and `LoadMovesOn` of those about loads, `GeneratorGetsOn` and `DepthSuffices`
  of the last.  What is left to fairness is that a goroutine which can run does,
  and that time passes;
- `PlainStatementsConform`, `MarshalRoundTrips` and `PlainlyConformingDecodes`: Go
  values, documents and their decoding are trees, and what a recursive definition
  computes of them cannot be proved without induction over data.

## 6. Where code and comments disagree

- **cancel** (`processor/store.go:119`).  `Build` "fails only when ctx ends; a
  target's own problems are recorded".  The context is checked before a target,
  not after: one that ends during the last target's fetch is recorded as that
  target's problem, and the table is installed.  It goes no further than that
  target: `CancelBlamesLast` is checked and proved.  Calls that `GracefulStop` still
  waits for are then decided without that target's statement.
- **plan** (`scripts/specgen/main.go:122`).  `json.RawMessage` is a slice of
  bytes to reflection, so the schema wants an array of integers where
  `Marshal` writes the run specification: a valid statement with a plan is
  refused by schema and accepted by `Parse`, against `SECURITY.md:42-44`.
- **wrap** (`processor/load.go:101`).  With the largest int64 as `-max-bytes`,
  which the flag takes, `limit+1` wraps, nothing is read, and empty contents are
  returned as a success, against the comment on `capped` that it reads "in full,
  refusing anything past MaxBytes rather than silently truncating it".
  `LoadedWhole` and `SourceSpec` are stated below that one value.

Others show in properties that hold, and have no run of their own:

- The comment on `Covers` (`attestation/verify.go:165-167`) has it that a recomputed
  digest, unlike a string comparison, does not answer "no" for an endpoint that
  differs only in its trailing slash.  The digest is taken of the trimmed string,
  so it does: by `CoversItsOwn` a valid statement covers one endpoint, blanks apart.
- `docs/verify.md:32-34` tells a consumer who validates by schema to hash transport,
  newline and endpoint and compare with the subject's digest.  By the same property
  the package takes the endpoint without the blanks around it: a statement that
  has some is valid by the package and forged by the recipe.
- "Integer" is a matter of value to JSON Schema and of spelling to `encoding/json`
  (`scripts/specgen/main.go:119`): a count of `7.0`, or one beyond int64, conforms
  and does not decode, against `SECURITY.md:42-44`; so do a float beyond float64,
  a member of the wrong type under a field's name in another case, and a leap
  second.  `PlainlyConformingDecodes` shows that of the documents of the run no
  others do.

Limits that the properties step around:

- A missing or null member is its zero value to `Parse` and an error to the
  schema (`attestation/verify.go:19`), so documents that `Marshal` did not write
  may pass one reader alone; `PlainStatementsConform` is about those it wrote.
- `json.Decoder.Decode` stops after the first JSON value
  (`processor/config.go:95`): a configuration file with bytes after it is
  accepted, which `ReadsConfig` models and the store's run includes.

## 7. What is not modelled

- **What a file that is written to in place may give.**  `Load` takes no lock,
  and `io.ReadAll` of a file that is cut, overwritten or added to meanwhile may
  give a part of it or a mix of two versions.  `Loader` has those writes, and
  the properties about contents stop at `written`; what protects the consumer then
  is that the mix has to parse, validate and cover its server (`SnapshotSound`).
  A mix that does is not told apart, by the code or here.  In `Store` a file's
  contents are those between two edits, a mix being one more identifier.
- Of two members read into one field the one in another case is taken to be the
  later, and only members without members of their own are given another case.  A
  struct's value has no cycles.  Strings are valid UTF-8.  `Marshal`'s error, for
  a score that is not a number or a plan that is not JSON, is left out.
- Redirects, connections and TLS of a fetch: `net/http` as `Load` sees it.
- Writing and comparing the schema file, and its embedding in package `spec`.
- The wording of reasons, logs and errors; evidence, documentation and other
  fields no operation reads.
- Score values are integers: the code compares floating-point numbers, and
  neither adds nor rounds them.
- grpc and the runtime are modelled as the code uses them: calls are dispatched
  while the server serves, `GracefulStop` returns when none is pending, a signal
  without a handler kills.
- Generated bindings, shell and documentation scripts, the completion script, the
  example: single passes without state of their own.

## 8. Plan

Done, in this order: `Attestation`, `Tampering`; `Policy`; `Store`; `Gate`,
`Server`; `Process`; `Drift`; `Loader` and `Source`; `SpecGen` and `Schema`; the
proofs of all but the last.

What could follow:

1. A context for reading files, should `read` be given one: `LoadReturns` would
   then hold of pipes too, and `CancelEndsFetch` of every load.
2. Should `typeSchema` learn of types with a JSON encoding of their own:
   `ValidStatementsConform` as an invariant of the schema run.
3. Trimmed and untrimmed categories in `denyFailIn`: one with blanks around it
   is accepted and matches no verdict; no document says which it should be.
