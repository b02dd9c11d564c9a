------------------------------- MODULE Agent --------------------------------
(***************************************************************************)
(* internal/agent/agent.go: Run, Tick and Collect, the batch they send, the*)
(* gauges of internal/metrics they set, and the exit status of cmd's run.  *)
(* One action per call to the cluster, the metric source or Zensu, because *)
(* Deployments come and go between two of them and SIGTERM may arrive at   *)
(* any of them; one action per gauge write, because a Prometheus scrape of *)
(* the agent may fall between two.                                         *)
(*                                                                         *)
(* A Deployment is a model value with a namespace; the metric source is    *)
(* the set of services it answers for and the name it answers under        *)
(* (modules AutoSource and ExpositionSource).  Run implements the loop of  *)
(* module HeartbeatLoop.                                                   *)
(***************************************************************************)
EXTENDS Integers, Sequences, FiniteSets

CONSTANTS Deployments, Slugs,
          NamespaceOf,    \* Deployment -> namespace
          Namespaces,     \* Config.Namespaces, in the configured order
          MaxPairs,       \* MaxWarnedSlugPairs
          MetricsOn,      \* METRICS_ENABLED, true unless it is turned off
          Unannotated     \* what a Deployment without the annotation carries

ASSUME ClusterAssumption ==
  /\ Namespaces \in Seq({NamespaceOf[d] : d \in Deployments})
  /\ Unannotated \notin Slugs
ASSUME MaxPairsAssumption == MaxPairs \in Nat
ASSUME MetricsAssumption == MetricsOn \in BOOLEAN

VARIABLES
  annotation,     \* the cluster: Deployment -> slug or Unannotated
  healthy,        \* whether cluster and Zensu answer without errors
  cancelled,      \* ctx is done: SIGTERM or SIGINT was received
  ticker,         \* "off" before NewTicker, then "quiet" or "fired"
  mode,           \* "once" or "loop"
  pc, exit,       \* where Run is, and the exit status
  nth,            \* index into Namespaces, later into ResourceSources
  pending,        \* Deployments of the current list still to be mapped
  listed,         \* namespaces listed in this tick (history)
  found,          \* slugs met in this tick (history)
  claimed, out,   \* Collect's locals: slug -> Deployment, and the entries
  active,         \* what source.Name() returns
  warnedSlugs, warnedOverflow,   \* the duplicate-slug latch
  lines,          \* duplicate-slug lines logged so far (history)
  shadows,        \* pairs <<slug, shadowed>> met so far (history)
  sourceGauge,    \* resource_source: the names whose series is 1
  mappedGauge,    \* resource_services_mapped and resource_samples
  reportedGauge,  \* services_reported
  lastBatch       \* size of the last batch Zensu accepted (history)

envVars   == <<annotation, healthy, cancelled>>
runVars   == <<ticker, mode, pc, exit>>
tickVars  == <<nth, pending, listed, found, claimed, out>>
warnVars  == <<warnedSlugs, warnedOverflow, lines, shadows>>
gaugeVars == <<sourceGauge, mappedGauge, reportedGauge, lastBatch>>
vars == <<envVars, runVars, tickVars, active, warnVars, gaugeVars>>

ResourceSources == <<"metrics-server", "exposition", "none", "unknown">>

Empty == [x \in {} |-> Unannotated]

(* Whether run constructs the metrics: they can be turned off, and are off in
   one-shot mode.  Their methods do nothing on the nil they are otherwise. *)
Instrumented == MetricsOn /\ mode = "loop"

Init ==
  /\ annotation \in [Deployments -> Slugs \cup {Unannotated}]
  /\ healthy = TRUE /\ cancelled = FALSE
  /\ ticker = "off" /\ mode \in {"once", "loop"} /\ pc = "tick" /\ exit = 0
  /\ nth = 1 /\ pending = Empty /\ listed = {} /\ found = {}
  /\ claimed = Empty /\ out = {}
  /\ active \in {"metrics-server", "none"}
  /\ warnedSlugs = {} /\ warnedOverflow = FALSE /\ lines = 0 /\ shadows = {}
  /\ sourceGauge = {} /\ mappedGauge = 0 /\ reportedGauge = 0 /\ lastBatch = 0

-----------------------------------------------------------------------------
(* The surroundings: the cluster, its health, the signal, the clock. *)
ClusterChanges ==
  /\ \E d \in Deployments, s \in Slugs \cup {Unannotated} :
        annotation' = [annotation EXCEPT ![d] = s]
  /\ UNCHANGED <<healthy, cancelled, runVars, tickVars, active, warnVars, gaugeVars>>

HealthChanges ==
  /\ healthy' = ~healthy
  /\ UNCHANGED <<annotation, cancelled, runVars, tickVars, active, warnVars, gaugeVars>>

Signal ==
  /\ ~cancelled
  /\ cancelled' = TRUE
  /\ UNCHANGED <<annotation, healthy, runVars, tickVars, active, warnVars, gaugeVars>>

(* time.Ticker: a channel of one, a tick that finds it full is dropped. *)
Fire ==
  /\ ticker = "quiet"
  /\ ticker' = "fired"
  /\ UNCHANGED <<envVars, mode, pc, exit, tickVars, active, warnVars, gaugeVars>>

(* A call whose context is done fails; one that is not may. *)
CanSucceed == ~cancelled
CanFail    == cancelled \/ ~healthy

-----------------------------------------------------------------------------
TickEnds(stops, failed) ==
  /\ pc' = IF stops THEN "stopped" ELSE "wait"
  /\ exit' = IF stops /\ failed /\ ~cancelled THEN 1 ELSE 0
  /\ ticker' = IF mode = "loop" /\ ticker = "off" THEN "quiet" ELSE ticker

(* A slip: a failed tick ends the loop. *)
EndTickFatal(failed) == TickEnds(mode = "once" \/ failed, failed)

(* Tick returned: one-shot mode exits with its error unless it is the
   shutdown's; the loop logs it and creates its ticker after the first tick. *)
EndTick(failed) == TickEnds(mode = "once", failed)

BeginTick ==
  /\ pc = "tick"
  /\ pc' = "list"
  /\ nth' = 1 /\ pending' = Empty /\ listed' = {} /\ found' = {}
  /\ claimed' = Empty /\ out' = {}
  /\ UNCHANGED <<envVars, ticker, mode, exit, active, warnVars, gaugeVars>>

InNamespace(k) == {d \in Deployments : NamespaceOf[d] = Namespaces[k]}

Listed(D) ==
  /\ pc = "list" /\ nth <= Len(Namespaces)
  /\ CanSucceed
  /\ pending' = [d \in D |-> annotation[d]]
  /\ listed' = listed \cup {Namespaces[nth]}
  /\ nth' = nth + 1
  /\ pc' = "map"
  /\ UNCHANGED <<envVars, ticker, mode, exit, found, claimed, out, active, warnVars, gaugeVars>>

(* A slip: a Deployment without the annotation is mapped too. *)
ListDeploymentsUnfiltered == Listed(InNamespace(nth))

(* ListDeployments: the annotated Deployments of this namespace as they are
   at this moment. *)
ListDeployments == Listed({d \in InNamespace(nth) : annotation[d] # Unannotated})

(* One namespace that cannot be listed fails the whole tick. *)
ListFails ==
  /\ pc = "list" /\ nth <= Len(Namespaces)
  /\ CanFail
  /\ EndTick(TRUE)
  /\ UNCHANGED <<envVars, mode, tickVars, active, warnVars, gaugeVars>>

-----------------------------------------------------------------------------
Mapped(d) ==
  /\ pc = "map" /\ d \in DOMAIN pending
  /\ pending' = [x \in DOMAIN pending \ {d} |-> pending[x]]
  /\ found' = found \cup {pending[d]}

Claimed(d, podsListed, entries) ==
  /\ Mapped(d)
  /\ pending[d] \notin DOMAIN claimed
  /\ podsListed => CanSucceed
  /\ claimed' = [s \in DOMAIN claimed \cup {pending[d]} |-> IF s = pending[d] THEN d ELSE claimed[s]]
  /\ out' = out \cup entries
  /\ UNCHANGED <<envVars, runVars, nth, listed, active, warnVars, gaugeVars>>

Entry(d, podsListed) == [slug |-> pending[d], deployment |-> d, restarts |-> podsListed]

(* A slip: a Deployment whose pods cannot be listed is left out. *)
ClaimWithPods(d, podsListed) ==
  Claimed(d, podsListed, IF podsListed THEN {Entry(d, TRUE)} ELSE {})

(* The first Deployment with a slug is reported; having no selector, or failing
   to list its pods, costs the restart count only. *)
Claim(d, podsListed) == Claimed(d, podsListed, {Entry(d, podsListed)})

Warned(pair, repeats) ==
  LET room == Cardinality(warnedSlugs) < MaxPairs
      new  == pair \notin warnedSlugs
  IN  /\ warnedSlugs' = IF room THEN warnedSlugs \cup {pair} ELSE warnedSlugs
      /\ warnedOverflow' = (warnedOverflow \/ (new /\ ~room))
      /\ lines' = IF new /\ (room \/ ~warnedOverflow \/ repeats) THEN lines + 1 ELSE lines

(* A slip: past the cap the overflow line is repeated. *)
WarnDuplicateSlugRepeating(pair) == Warned(pair, TRUE)

(* warnDuplicateSlug, one critical section: a pair is named once, and the first
   pair beyond the cap is answered by one line for all that follow. *)
WarnDuplicateSlug(pair) == Warned(pair, FALSE)

(* A later one is shadowed, and the operator is told. *)
Shadow(d) ==
  /\ Mapped(d)
  /\ pending[d] \in DOMAIN claimed
  /\ WarnDuplicateSlug(<<pending[d], d>>)
  /\ shadows' = shadows \cup {<<pending[d], d>>}
  /\ UNCHANGED <<envVars, runVars, nth, listed, claimed, out, active, gaugeVars>>

NextNamespace ==
  /\ pc = "map" /\ pending = Empty
  /\ pc' = "list"
  /\ UNCHANGED <<envVars, ticker, mode, exit, tickVars, active, warnVars, gaugeVars>>

-----------------------------------------------------------------------------
(* collectSamples, folded into the entries: the source answers for some of the
   services, or for none, under the name it is on; it is not asked when there
   is no target, and noneSource answers for nobody.  A nil *Metrics ignores
   the gauge. *)
CollectSamples(S, name) ==
  /\ pc = "list" /\ nth > Len(Namespaces)
  /\ S \subseteq {e.slug : e \in out}
  /\ out = {} => name = active
  /\ (active = "none") = (name = "none")
  /\ name = "none" => S = {}
  /\ active' = name
  /\ mappedGauge' = IF Instrumented THEN Cardinality(S) ELSE mappedGauge
  /\ pc' = IF Instrumented THEN "gauge" ELSE "send"
  /\ nth' = 1
  /\ UNCHANGED <<envVars, ticker, mode, exit, pending, listed, found, claimed, out, warnVars,
                 sourceGauge, reportedGauge, lastBatch>>

WriteSeries(series) ==
  /\ pc = "gauge"
  /\ sourceGauge' = series
  /\ nth' = nth + 1
  /\ pc' = IF nth = Len(ResourceSources) THEN "send" ELSE "gauge"
  /\ UNCHANGED <<envVars, ticker, mode, exit, pending, listed, found, claimed, out, active, warnVars,
                 mappedGauge, reportedGauge, lastBatch>>

(* A slip: the series of the active source set, the others left as they are. *)
SetResourceSourceOnly == WriteSeries(sourceGauge \cup ({ResourceSources[nth]} \cap {active}))

(* SetResourceSource: one Set per name, in the order of ResourceSources. *)
SetResourceSource ==
  WriteSeries(IF ResourceSources[nth] = active THEN sourceGauge \cup {ResourceSources[nth]}
                                               ELSE sourceGauge \ {ResourceSources[nth]})

NothingToSend ==
  /\ pc = "send" /\ out = {}
  /\ reportedGauge' = IF Instrumented THEN 0 ELSE reportedGauge
  /\ EndTick(FALSE)
  /\ UNCHANGED <<envVars, mode, tickVars, active, warnVars, sourceGauge, mappedGauge, lastBatch>>

Send ==
  /\ pc = "send" /\ out # {}
  /\ CanSucceed
  /\ lastBatch' = Cardinality(out)
  /\ reportedGauge' = IF Instrumented THEN Cardinality(out) ELSE reportedGauge
  /\ EndTick(FALSE)
  /\ UNCHANGED <<envVars, mode, tickVars, active, warnVars, sourceGauge, mappedGauge>>

(* A rejected, failed or interrupted POST: there is no retry. *)
SendFails ==
  /\ pc = "send" /\ out # {}
  /\ CanFail
  /\ EndTick(TRUE)
  /\ UNCHANGED <<envVars, mode, tickVars, active, warnVars, gaugeVars>>

-----------------------------------------------------------------------------
(* The select of Run; when both cases are ready Go picks either. *)
TakeTick ==
  /\ pc = "wait" /\ ticker = "fired"
  /\ ticker' = "quiet"
  /\ pc' = "tick"
  /\ UNCHANGED <<envVars, mode, exit, tickVars, active, warnVars, gaugeVars>>

Leave ==
  /\ pc = "wait" /\ cancelled
  /\ pc' = "stopped" /\ exit' = 0
  /\ UNCHANGED <<envVars, ticker, mode, tickVars, active, warnVars, gaugeVars>>

(* A slip: a tick that is due is always taken first. *)
DoneWhenQuiet == ticker = "quiet" /\ Leave

(* ctx.Done: run maps ctx.Err() to a clean exit. *)
Done == Leave

Tick ==
  \/ BeginTick \/ ListDeployments \/ ListFails
  \/ \E d \in Deployments : Shadow(d) \/ \E podsListed \in BOOLEAN : Claim(d, podsListed)
  \/ NextNamespace
  \/ \E S \in SUBSET Slugs, name \in {"metrics-server", "exposition", "none"} : CollectSamples(S, name)
  \/ SetResourceSource
  \/ NothingToSend \/ Send \/ SendFails

Environment == ClusterChanges \/ HealthChanges \/ Signal \/ Fire

Next == Tick \/ TakeTick \/ Done \/ Environment

Spec == Init /\ [][Next]_vars

(* The heartbeat goroutine runs, and every call it makes returns: reads and
   posts carry ctx, and the POST a timeout.  The ticker fires.  The select
   picks at random, so a case that is ready again and again is taken. *)
FairSpec == Spec /\ WF_vars(Tick) /\ WF_vars(TakeTick) /\ WF_vars(Fire) /\ SF_vars(Done)

-----------------------------------------------------------------------------
TypeOK ==
  /\ annotation \in [Deployments -> Slugs \cup {Unannotated}]
  /\ healthy \in BOOLEAN /\ cancelled \in BOOLEAN
  /\ ticker \in {"off", "quiet", "fired"} /\ mode \in {"once", "loop"}
  /\ pc \in {"tick", "list", "map", "gauge", "send", "wait", "stopped"} /\ exit \in {0, 1}
  /\ nth \in Nat \ {0}
  /\ DOMAIN pending \subseteq Deployments
  /\ DOMAIN claimed \subseteq Slugs /\ \A s \in DOMAIN claimed : claimed[s] \in Deployments
  /\ \A e \in out : e.slug \in Slugs /\ e.deployment \in Deployments
  /\ warnedSlugs \subseteq Slugs \X Deployments /\ warnedOverflow \in BOOLEAN
  /\ active \in {"metrics-server", "exposition", "none"}
  /\ sourceGauge \subseteq {ResourceSources[k] : k \in 1..Len(ResourceSources)}
  /\ {mappedGauge, reportedGauge, lastBatch, lines} \subseteq Nat

(* A batch is about every configured namespace and every annotated slug met in
   them, each once, as reported for the Deployment that claimed it: neither an
   unlistable pod set nor a Deployment that moves between two listings drops
   or doubles a service, and a namespace that cannot be listed sends nothing
   (Collect, Tick). *)
BatchIsComplete ==
  pc = "send" =>
    /\ listed = {Namespaces[k] : k \in 1..Len(Namespaces)}
    /\ {e.slug : e \in out} = found
    /\ \A e \in out : claimed[e.slug] = e.deployment
    /\ Cardinality(out) = Cardinality(found)

(* Every shadowed Deployment was named to the operator or answered by the
   overflow line, and all of it cost at most one line per remembered pair and
   one more, however the cluster churns (warnDuplicateSlug). *)
ShadowsNamedWithinBudget ==
  /\ shadows \subseteq warnedSlugs \/ warnedOverflow
  /\ Cardinality(warnedSlugs) <= MaxPairs
  /\ lines <= MaxPairs + 1

(* "exactly one series is always 1": true of every moment but those between the
   writes of SetResourceSource.  When the heartbeat is sent the series at 1 is
   the source that served this tick, and through failed and empty ticks it
   stays the one that served last, or none before the first (SetResourceSource,
   Collect). *)
SourceSeriesSettles ==
  /\ pc = "send" /\ Instrumented => sourceGauge = {active}
  /\ pc # "gauge" => sourceGauge \in {{}, {active}}

(* "Tick errors are logged, not fatal": nothing but the signal ends the loop,
   and a one-shot run that exits with 0 and was not interrupted has delivered
   its batch or had none to deliver (Run, cmd's run). *)
OnlySignalStops ==
  pc = "stopped" =>
    /\ mode = "loop" => cancelled /\ exit = 0
    /\ mode = "once" /\ exit = 0 /\ ~cancelled => lastBatch = Cardinality(out)

RunPhase == IF pc = "stopped" THEN "stopped" ELSE IF pc = "wait" THEN "waiting" ELSE "ticking"

Loop == INSTANCE HeartbeatLoop WITH once <- mode = "once", phase <- RunPhase

(* Run implements the heartbeat loop: whatever fails in a tick, and wherever in
   it the signal arrives, each step of Run, Tick and Collect is a step of
   HeartbeatLoop or none (Run, tickOnce, cmd's run). *)
ImplementsLoop == Loop!Spec

(* Once the process is signalled Run returns, whatever it was doing. *)
SignalStops == cancelled ~> pc = "stopped"

(* While the cluster and Zensu stay reachable and one Deployment of a configured
   namespace stays annotated, heartbeats keep being accepted.  (That at every
   moment SOME Deployment is annotated is not enough: a service that moves
   between two namespaces can be missed by both listings of every tick.) *)
HeartbeatsContinue ==
  \A d \in {d \in Deployments : \E k \in 1..Len(Namespaces) : NamespaceOf[d] = Namespaces[k]} :
     mode = "loop" /\ [](~cancelled) /\ <>[](healthy /\ annotation[d] # Unannotated)
     => []<><<Send>>_vars
=============================================================================
