# A TLA+ model of zensu-monitoring-agent

The agent runs inside a Kubernetes cluster, finds the Deployments that carry a
Zensu service annotation, and sends one batch of heartbeats per interval to
Zensu. Each heartbeat may carry CPU and memory, read from `metrics.k8s.io` or
from the Prometheus exposition of a collector. This directory models that
program in TLA+, checks small instances with TLC and proves the properties that
hold for every instance with TLAPS. Paths below are relative to the repository.

## 1. Inventory

| Component | State it keeps | Operations | What makes it correct |
|---|---|---|---|
| Heartbeat loop, `internal/agent/agent.go` | ticker, duplicate-slug latch and its overflow flag; per tick: claimed slugs, entries | `Run`, `Tick`, `Collect`, `collectSamples`, `warnDuplicateSlug` | a batch covers every configured namespace and names each slug once; a failing call never ends the loop and a signal always does; warnings stay within a budget |
| Sources, `internal/agent/source.go` | `switched`, `switchedAt`, the "API missing" latch | `metricsServerSource.Samples`, `autoSource.Samples`, `Name` | the name on the gauge is the source that served; a primary that answered nothing is not credited; it is returned to once it is back; one log line per outage |
| Exposition source, `internal/agent/exposition.go` | a rater, some ten warning latches per role, the withheld sets | `Samples`, `rateCounters`, `reduce`, `reportWithheld`, `newSlugIndex`, `resolve` | a sum leaves out no row that led to its service, and no counter is in it that was not seen twice; nothing but a first observation costs a tick; a withheld service is named once; no role is lost silently; rows go to their own service |
| Counter rating, `internal/scrape/rate.go` | predecessor per series, `refused` | `NewRater`, `Observe`, `RefusedSeries` | an absolute ceiling; a flood does not displace established series; predecessors are of the previous scrape |
| Selection and row policy, `internal/scrape/resolve.go` | none (pure) | `NormalizeName`, `candidates`, `Select`, `matchFamily`, `summable` | row and family order do not matter; a pod is counted once; what is dropped for its shape is named |
| Scrape client, `internal/scrape/scrape.go` | none between calls | `Fetch`, `readLimit`, `ceiling`, `decode`, `seriesFromFamily` | all or nothing; never a truncated body; retention within a budget at every row |
| Cluster adapter, `internal/agent/k8s.go` | none | `NewInClusterLister`, `ListDeployments`, `ListPods`, `PodMetricsForSelector`, `MapDeployment` | errors keep their class (API absent, or any other) |
| Reporter, `internal/agent/reporter.go` | HTTP client | `Send` | accepted or an error; no retry, yet Zensu ends up with the present state |
| Self-metrics, `internal/metrics/metrics.go` | gauges and counters, the `/metrics` server | `Set...`, `Serve` | a gauge says what its tick saw; the server's failures stay its own |
| Start-up, `cmd/zensu-monitoring-agent/main.go` | none | `main`, `run`, `requiredConfig`, environment readers | what starts can run; a refusal leaves nothing behind; a rollout logs no error |
| Redaction, wire types, Helm chart, CI | none | | |

**Interaction.** `run` builds a source and the agent and calls `Run`. Each tick,
`Collect` lists the Deployments of one namespace after the other, maps each,
lists its pods, and hands the collected targets to the source; mode `auto` tries
metrics-server and falls back to the exposition, which calls the scrape client,
the resolver and the rater. `Collect` then reads the source's name and sets
gauges; `Tick` posts the batch. The metrics server runs in a goroutine of its
own and is scraped at any time.

**What is hard.** Everything is one goroutine apart from the metrics server and
signal delivery, so the difficulty is not locking. It is the world changing
between two calls of one tick (annotations, the metrics API, reachability, the
signal); state that spans ticks (rater, latches, cooldown) under long sequences
of partly failing ticks; a peer that chooses row order, labels, sizes and
spellings; and limits (table ceiling, sample budget, byte cap, latch cap) at
their boundary. `PROJECT.json` lists these hazards line by line with the
properties that cover them.

## 2. Modules

```
Rater  <--refines-- RaterLoops  <-- RaterProofs           scrape/rate.go
  ^ instance
ExpositionSource                <-- ExpositionSourceProofs  agent/exposition.go
RowPolicy                       <-- RowPolicyProofs         summable, slugIndex
Resolver <-- ScrapeClient       <-- ScrapeClientProofs      scrape/resolve.go, scrape.go
AutoSource                      <-- AutoSourceProofs        agent/source.go
HeartbeatLoop <--refines-- Agent <-- AgentProofs            agent/agent.go
  ^ instance
Process --> Startup             <-- ProcessProofs         cmd/.../main.go, metrics.go,
                                                          reporter.go, wire types
Filtering                       <-- FilteringProofs       the "append if keep" loop
MC*                                                       TLC instances
```

Resolver, Startup and ExpositionSource extend Filtering; ScrapeClientProofs,
ProcessProofs and ExpositionSourceProofs extend FilteringProofs.

A definition that starts with the comment "A slip:" is a plausible mistake in
the code beside it (a dropped guard, an off-by-one). It is used by no
specification. Each property is known to fail when one of them replaces the
definition that follows it; `PROJECT.json` pairs them.

**Rater** is the abstract specification of one `Observe`: which tables and rates
it may leave behind, without saying how the rows are visited. A series is its
fingerprint and a rate is the pair (difference, elapsed time) it is the quotient
of. **RaterLoops** is the method itself, one action per iteration of its three
loops (`Carry*`, `Admit*`, `Rate*`), between `Enter` and `Return`; `next`, `out`
and `i` are its locals. A scrape is a sequence, since a peer may repeat a series.
The clock handed to `Observe` is monotonic and may stand still.

**AutoSource** models `metricsServerSource.Samples` read by read, because the API
can go away between two reads, and `autoSource` around it. `age` stands for
`clock() - switchedAt`; the comparison uses wall-clock readings, so it can be set
back (`ClockSetBack`, bounded by `MaxSlips`). `lines` counts the log lines of the
running outage. The fallback appears as its result.

**ExpositionSource** is one `Samples` call per action, with the rater as an
instance of Rater. `resolve` looks up each row on its own: a row has a `Key`, the
slug or the pod its labels name, and a key that is known `Leads` to a service.
`found` is the set of keys the index of this tick holds, any subset of those the
rows ask for, because the pods are listed before the scrape: a pod created in
between, a listing that failed or a label that is missing make a row lead nowhere,
and it is dropped alone while the other rows of its service are summed. A sample
is the set of rows it sums, so a row left out is visible as a wrong set; a sum
that overflows to infinity, which `reduce` drops, is a service in `huge`. Warning
latches are a set of pairs `<<condition, role>>`; `Evaluated` says which of them a
call looks at (an early return leaves the others alone) and `Found` which
conditions hold. `said` is what the call logged, `gauge` is
`resource_roles_withheld`, `tick` is a history of what the call saw, and `told` of
the services the last line about a role named.

**RowPolicy** is `summable`, its two loops, followed by `newSlugIndex` and
`resolve`. Loops visit rows and targets in any order. A row records what it
measures and, separately, which labels the collector projected; the code sees
only the labels, the properties speak about what is measured.

**Resolver** is the choice of a family as pure operators; a metric name is the
sequence of its base and suffixes, so that `NormalizeName` really strips.
**ScrapeClient** is one `Fetch`: the cap, the body, families in any order, rows
one by one against the budget. Integers wrap past `MaxInt`. **Filtering** is the loop
`for _, x := range xs { if keep(x) { out = append(out, x) } }` as one recursive
function, shared by `matchFamily`, `envList` and the rows handed to the rater.

**HeartbeatLoop** is the promise of `Run` and of `run` around it, in four
actions: tick after tick until the signal, a failed tick fatal in one-shot mode
only, what the signal interrupts never a failure.

**Agent** is `Run`, `Tick` and `Collect`, one action per call to the cluster, the
source or Zensu, and one per write of `SetResourceSource`, because a scrape of
`/metrics` can fall between two. The ticker is a channel of one. A call whose
context is cancelled fails; otherwise it may fail only while `healthy` is false.
A pod listing may fail at any time. `exit` is the status `run` returns.

**Startup** is `main` and `run` up to the call of `Agent.Run`, one action per
stage that can refuse: `ReadConfig` (`requiredConfig` and the readers),
`NewLister`, `BuildSource` (`NewMetricSource`, the one-shot caveat), `Launch`
(the goroutine of the metrics server, the check of the interval). A variable is
unset, a text its reader rejects, or a value; a URL is what `url.Parse` finds in
it.

**Process** composes Startup, HeartbeatLoop, `metrics.Serve` and `Reporter.Send`.
A tick is followed for one Deployment, from what `ListDeployments` sees through
`MapDeployment` and `DeriveStatus` to what Zensu stores. The API server may fail
or hang, Zensu may reject or stay silent, and a POST that was given up on is
still under way (`late`): it may arrive after a newer one, or never. `Serve` and
its listener are two goroutines that nobody waits for.

### Refinement

- ExpositionSource implements Rater too, as its only client: every call of
  `Samples` is one `Observe` under a clock that does not go back, or leaves the
  rater alone. Theorem `DrivesRater`; with `LoopsImplementPromise` it closes the
  gap between the loops of `rate.go` and the samples of `exposition.go`.
- RaterLoops implements Rater with the identity on `prev`, `rated`, `reported`
  and `lastAt`: every step but `Return` is a stutter. Run `rater_loops`, theorem
  `LoopsImplementPromise`.
- Agent implements HeartbeatLoop: `once <- mode = "once"`, and `RunPhase` maps
  the program counter to ticking, waiting or stopped, so that a whole `Collect`
  is a stutter. Run `agent`, theorem `LoopImplemented`.

Process takes the loop's steps from HeartbeatLoop itself, so nothing is to be shown
there: what its other parts may do to the loop is what `CleanRollout` and
`ZensuCatchesUp` are about.

## 3. What is checked

Runs that pass:

| Run | Instance | States | Shows |
|---|---|---|---|
| `rater_loops` | 3 series, ceiling 2, scrapes of up to 3 rows, values 0..1 | 124,591 | `CeilingAbsolute`, `PredecessorsAreConsecutive`, `EstablishedSurvive`, and the refinement `Spec` |
| `auto_source` | 3 services, cooldown 2, 2 clock slips | 4,428 | `NameTellsWhoServed`, `PrimaryServedMeansAnswered`, `OneLinePerOutage`, and the liveness property `ReturnsToPrimary` |
| `exposition_rates` | a service of 2 pods, each of which may be listed or not, beside an untracked row, ceiling 2 | 7,396 | the action properties `WholeAndSeenTwice` and `NoSecondTickLost` |
| `exposition_warnings` | 2 services, ceiling 1, CPU as gauge or counter, memory missing or cumulative, with and without ambiguous pods, a sum that may be infinite | 7,965 | `StaleGaugeExplained`, `NoSilentLoss`, the action property `WithheldToldOnce` |
| `row_policy` | 2 rows of one pod name in 2 namespaces, every label set and slug label, 2 services | 631,800 | `OrderDoesNotMatter`, `DoubledOnlyByNamedTotal`, `LostPodsAreNamed`, `AttributedToOwnPods` |
| `scrape_client` | bodies of 2 families out of 6 spellings, overrides, 5-bit integers, caps from -1 to the largest integer | 911,656 | `NeverTruncated`, `AllOrNothing`, `RetentionBounded`, `FilterHidesNothing`, `OrderOnlyAmongAliases` |
| `agent` | 2 Deployments in 2 namespaces, 2 slugs, a latch for 1 pair | 2,588,436 | `BatchIsComplete`, `ShadowsNamedWithinBudget`, `SourceSeriesSettles`, `OnlySignalStops`, the refinement `ImplementsLoop` |
| `agent_live` | as above, 1 slug | 77,744 | `SignalStops`, `HeartbeatsContinue` |
| `startup` | every combination of unset, unreadable, edge and good settings, with and without `-once` | 349,056 | `ConfigIsUsable`, `CaveatMatchesSource`, `RefusalStartsNothing` |
| `process` | 3 environments, a Deployment in 3 states, up to 2 abandoned POSTs | 48,948 | `CleanRollout` and the liveness properties `ExitsWhenSignalled` and `ZensuCatchesUp` |

The type invariants of RaterLoops, AutoSource, ExpositionSource, Agent and, with
Startup's in it, Process are checked too. RowPolicy and ScrapeClient have none of
their own: the former's sets are given exactly by `PolicyInv`, which is proved, and
`AllOrNothing` says which series the latter returns.

**Bounds.** Each is the smallest at which the interesting case occurs: the
ceiling lies below the number of series, so the table is full and refuses;
3 rows allow a repeated row beside one that is refused; one pod name in
two namespaces is what makes pods indistinguishable by name, and two rows are a
total and the container row that does or does not supersede it (the theorems of
RowPolicyProofs cover families of any size); a cooldown of 2 leaves a moment
inside it; two slips make the age negative; a 5-bit integer makes `limit + 1`
wrap at a cap a user may configure; a budget of 3 samples is exceeded within one
family and by two. A latch of one pair overflows with the second slug. Two
abandoned POSTs (`MaxLate`) are two states that may overtake each other and a
newer one. The bounds only limit the inputs; no specification stops because of
one, except that `ClockSetBack` ends after `MaxSlips` and that a POST beyond
`MaxLate` is rejected rather than abandoned. Deadlock is checked everywhere but
where the process is meant to end (Agent, Startup, Process).

**Symmetry** is used for interchangeable series (`rater_loops`) and the two pods
of one service, each with its row (`exposition_rates`), in runs without liveness properties. The
peer's row order, a `CHOOSE` in ExpositionSource, does not break it: the promise
of Rater that it is handed to does not depend on the order.

**Fairness.** AutoSource: ticks go on for as long as the process runs, a started
call ends, time passes. Agent: `WF(Tick)` says that every call to the cluster or
to Zensu returns; there it is an assumption about the API server, because the
Kubernetes reads carry only the process context. `WF(Fire)` is the ticker.
Process drops that assumption: `WF(Tick /\ Ends)` lets a read hang for as long as
the API server is down, and obliges it to end only when the server answers or the
signal cancels the context; a POST ends by the client's timeout. Start-up asks no
one, so `WF(Start)`; a packet does not travel for ever, so `WF(Network)`. Nothing
is assumed of the metrics server. `SF(Done)` in both: `select` picks at random
among ready cases, so a case that is ready again and again is taken; with weak
fairness a tick that is always due could be preferred for ever. Nothing obliges
the environment to recover: `HeartbeatsContinue`, `ReturnsToPrimary` and
`ZensuCatchesUp` are conditional on it.

Runs in which TLC refutes what a comment or a log line says; in each the code is
the reference and the text is what the property states:

| Run | Text | Code |
|---|---|---|
| `all_dropped_warning` | "every row was discarded" | also said when a row was attributed but had no rate yet |
| `pod_counted_twice` | a pod-level row beside container rows is skipped | not if it names a namespace and they do not |

Smaller disagreements met while modelling, visible in the actions and not given
a run of their own:

- `README.md` says that auto falls through *only* when the API is absent, while
  `AllReadsFailed` switches too (`source.go:139`), and that the fallthrough is
  "one-way", while it returns after the cooldown (`ReturnsToPrimary`).
- `resource_roles_withheld` "is set on every tick" (`exposition.go:374`,
  `metrics.go:97`): the early returns of `Samples` and `reduce` leave the old
  number. `StaleGaugeExplained` says what holds instead.
- "A partial reading is withheld rather than reported" (`README.md:80`) is so for a
  row without a rate. A row whose labels lead to no service (of a pod created after
  the pods were listed, or with labels missing or ambiguous) is only counted as
  dropped (`exposition.go:259`), and what is left of its service is reported.
  `WholeAndSeenTwice` therefore speaks of the rows that led to the service.
- "exactly one series is always 1" (`metrics.go:187`) does not hold between the
  writes of `SetResourceSource`, which is why `SourceSeriesSettles` excludes them.
- `services_reported` is 0 after a tick that sent no batch (`NothingToSend`,
  against the help text at `metrics.go:80`), and `resource_services_mapped` keeps
  an earlier number when a listing fails (`ListFails`, `metrics.go:93`).
- `agent.go:233` says that the interval variable can produce a non-positive interval,
  which `envDuration` never returns (`DurationPositive` in ProcessProofs).
- The list of namespaces is not deduplicated: one configured twice makes each of
  its Deployments a duplicate of itself (`agent.go:93`).
- An interval below a second is accepted and reported as 0 seconds.

## 4. What is proved

Eight modules hold theorems, checked by TLAPS for every value of the constants.
Every invariant and every action property of the runs is among them.

**FilteringProofs** says what the sequences contain that loops build: `Subsequence`
keeps the elements at the chosen places, no other, and repeats none
(`SubsequenceMembers`); `AppendRange`, `ConcatRange`, `AppendDistinct`,
`ConcatDistinct` and `DistinctCount` do the same for `append`. The induction over
the places of a sequence is done with sets: strict inclusion is well-founded on
finite sets, hence a set of naturals has a smallest member (`Smallest`), hence a
set that holds 0 and every successor holds every natural (`Inductively`), and the
recursive function itself exists (`CollectedExists`).

**RaterProofs** (assumptions: values and times are naturals, the ceiling is
positive, `MaxRows` is a natural; the set of series may be infinite).
`InvariantHolds` shows `LoopInv`. Neither the ceiling nor survival is inductive
alone: survival needs to know that the first loop never runs out of room, which
holds because it only carries series of a table that was itself within the
ceiling (`CarryInv` and the lemma `FullIsEverything`: a subset as large as a
bound on the whole is the whole); the refinement needs what each loop has
established so far (`AdmitInv`, `RateInv`, `RefusedHonestly`). From it follow
`TypeCorrect`, `CeilingHolds`, `ConsecutiveHolds`, `SurvivalHolds` (an action
property) and `LoopsImplementPromise`.

**AutoSourceProofs** (the cooldown is positive, the number of slips a natural).
`SourceInv` adds to the three properties that the latch counts the lines, that an
unavailable primary carries an error, and that the fallback is only asked once
`switched` is set. From it `NameHolds`, `AnsweredHolds`, `OneLineHolds`, and
with the types of the locals `TypeCorrect`.

**RowPolicyProofs** (the absent label and the pause name are no ordinary names).
`PolicyInv` says that the three sets of the first loop are exactly those of the
rows it has passed, hence complete when the second loop starts, which is why
order cannot matter. From it `OrderHolds`; from that and the policy
`DoubledHolds` and `LostHolds`, for families of any size. `IndexInv` relates the
two maps of `newSlugIndex` to the targets they were built from: a pod's
namespaced entry is a service that has it, and a bare name that is not marked
ambiguous belongs to the one service that has a pod of that name among those
indexed so far, which are all of them once rows are attributed. From it
`AttributionHolds`.

**AgentProofs** (namespaces are a sequence, the latch cap is a natural, metrics on
or off; any cluster, which may change at every step). One invariant per question:
`WaitsClean` (a waiting loop has status 0), which is all that the refinement
`LoopImplemented` needs; `WarnInv`, in which every line but one is paid for by a
remembered pair, for `ShadowsHold`; `GaugeInv`, which says what the series
already written are while the others are still to come, for `SourceSeriesHold`;
`CollectInv` for `BatchHolds`, in which the slugs claimed, the entries and the
slugs met so far are one set, in bijection, and the namespaces listed are those
before `nth`; `StopInv` for `OnlySignalHolds`; `TypeInv` for `TypeCorrect`.

**ProcessProofs** (defaults are positive, a set list is a sequence of texts; any
environment). `StageInv` records what each stage of start-up has established: the
last refusal of `run`, on the interval, would come after the goroutine was
started, and is dead because `EnvDuration` never returns a number that is not
positive. From it `CaveatHolds` and `RefusalHolds`. `UsableInv` says that past
`ReadConfig` the configuration is the one read from the environment and was
accepted; with what `EnvList` keeps of a list (`ListUsable`) it gives
`UsableHolds`. `RolloutHolds` needs `CleanInv`: as
long as nothing failed before the signal, a listener that failed did so after it,
and no status but 0 is on its way. `TypeCorrect` is inductive, one lemma per group
of variables; it assumes that a mapped Deployment differs from no heartbeat.

**ScrapeClientProofs** (naturals for the limits, the cap that may be configured
lies below the largest integer; bodies of any size). `RetentionInv` says that what
is kept stays within the budget between families, so that a row is converted only
while there is room (`RetentionHolds`). `FilterHolds` needs no induction: whatever
`matchFamily` can choose, the retention filter keeps. `WholeBodyHolds` rests on
`NoWrap`: for every cap and heap limit `ReadLimit + 1` stays an integer, so that
one byte too many is always seen. For `AllOrNothingHolds`, `DecodeInv` says that
the result so far is, without repetition, the series of the families dealt with
(`Passed`), and the local result those of the rows dealt with (`Upto`); counting
a sequence without repetition turns both into statements about the whole body, and
the series that does not fit any more into one about the budget. From the same
invariant `OrderHolds`: the candidate that is settled on does not depend on the
order (`ReversedMatches`), nor does its family when its own spelling is there
(`WinnerIsSpelled`). `SuffixDoesNotMatter` and `NormalizeIdempotent` are facts
about `NormalizeName` for names of any length, from the normal form that its
recursion computes (`NormalForm`, `StripPointUnique`).

**ExpositionSourceProofs** (finite sets of rows that fit into a scrape, a key for
each and a service or nobody for each key, times are naturals). `CallInv` is
`StaleGaugeExplained` and `NoSilentLoss` with the shape of the history; the work is
in one step: what each way through `Samples` leaves in the latches, the withheld
sets and the samples, given only what Rater promises. `WithheldHolds` needs
`ToldInv`: what the signature remembers is what the last line named, through every
tick that failed or skipped the role. `WholeHolds` and `NoSecondTickHolds` need
what no single call shows, that the table holds nothing but the last scrape that
was rated, at the last time, and all of it unless some was refused (`SeenInv`), and
that the rows handed over contain every series of the family, in whatever order
(`RowsOfScrape`). The proof showed that `NoSecondTickLost` has to except a sum that
is not finite, which `reduce` drops and warns of in every tick. `DrivesRater` rests
on `RateObserves`: what `rateCounters` does with the rows of a family is an
`Observe` of Rater. `TypeCorrect` completes it.

Only model-checked: the liveness properties (`ReturnsToPrimary`, `SignalStops`,
`HeartbeatsContinue`, `ExitsWhenSignalled`, `ZensuCatchesUp`), out of reach of the
prover as is `ENABLED`.

## 5. What is not modelled

- The text parser (`expfmt`), HTTP, client-go: libraries, modelled by outcomes.
- Floating point beyond "infinite or not": scaling to millicores and bytes.
- The sums over the containers of a pod and restart counts in `k8s.go`, the JSON
  of a request in `reporter.go`: data without a decision.
- Counters and histograms of `metrics.go` that only grow, and
  `resource_samples` by role.
- `envLogLevel`, on which no other state depends.
- Redaction: string clean-up of log lines that no state depends on.
- Helm chart and CI, which have no behaviour of the program.

## 6. Plan

Done: the rater and its refinement, the sources, the exposition source, the row
policy, selection and scraping, the heartbeat loop and its abstract
specification, start-up, the process with its metrics server and a late network;
eight proof modules.

Left, in this order:

1. An abstract specification of a metric source ("answers under the name it
   served from") implemented by AutoSource and used by Agent, in place of the
   nondeterministic source Agent has now, with the refinement proved.
2. Lemmas towards the liveness properties that are not temporal: from which
   states a tick cannot fail to go on.
3. The sums and restart counts of `k8s.go` as folds against reference
   definitions.
