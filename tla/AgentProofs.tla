---------------------------- MODULE AgentProofs -----------------------------
(***************************************************************************)
(* Theorems about module Agent, for any cluster, any namespaces and any    *)
(* cap of the duplicate-slug latch.                                        *)
(***************************************************************************)
EXTENDS Agent, FiniteSetTheorems, TLAPS

-----------------------------------------------------------------------------
(* Run implements HeartbeatLoop.  The abstract Stop leaves the exit status
   alone where Done sets it to 0: a loop that waits has exit status 0. *)
WaitsClean == pc = "wait" => exit = 0

LEMMA InitWaitsClean == Init => WaitsClean
  BY DEF Init, WaitsClean

LEMMA NextWaitsClean == WaitsClean /\ [Next]_vars => WaitsClean'
<1> SUFFICES ASSUME WaitsClean, [Next]_vars PROVE WaitsClean'
  OBVIOUS
<1> USE DEF WaitsClean
<1>2. CASE ListFails
  BY <1>2 DEF ListFails, EndTick, TickEnds
<1>3. CASE NothingToSend
  BY <1>3 DEF NothingToSend, EndTick, TickEnds
<1>4. CASE Send
  BY <1>4 DEF Send, EndTick, TickEnds
<1>5. CASE SendFails
  BY <1>5 DEF SendFails, EndTick, TickEnds
<1>6. CASE BeginTick \/ ListDeployments \/ NextNamespace \/ SetResourceSource
  BY <1>6 DEF BeginTick, ListDeployments, Listed, NextNamespace, SetResourceSource, WriteSeries
<1>7. ASSUME NEW d \in Deployments, Shadow(d) PROVE WaitsClean'
  BY <1>7 DEF Shadow, runVars
<1>8. ASSUME NEW d \in Deployments, NEW p \in BOOLEAN, Claim(d, p) PROVE WaitsClean'
  BY <1>8 DEF Claim, Claimed, runVars
<1>9. ASSUME NEW S \in SUBSET Slugs, NEW name, CollectSamples(S, name) PROVE WaitsClean'
  BY <1>9 DEF CollectSamples
<1>10. CASE TakeTick \/ Done
  BY <1>10 DEF TakeTick, Done, Leave
<1>11. CASE Environment
  BY <1>11 DEF Environment, ClusterChanges, HealthChanges, Signal, Fire, runVars
<1>12. CASE UNCHANGED vars
  BY <1>12 DEF vars, runVars
<1> QED
  BY <1>2, <1>3, <1>4, <1>5, <1>6, <1>7, <1>8, <1>9, <1>10, <1>11, <1>12 DEF Next, Tick

(* The end of a tick, from any of its calls. *)
LEMMA EndTickMaps ==
  ASSUME NEW failed \in BOOLEAN, pc \in {"list", "send"}, EndTick(failed), UNCHANGED <<mode, cancelled>>
  PROVE  Loop!EndTick(failed)
  BY DEF Loop!EndTick, EndTick, TickEnds, RunPhase

LEMMA NextMaps ==
  WaitsClean /\ [Next]_vars => [Loop!Next]_(Loop!loopVars)
<1> SUFFICES ASSUME WaitsClean, [Next]_vars PROVE [Loop!Next]_(Loop!loopVars)
  OBVIOUS
<1> DEFINE Quiet == UNCHANGED <<mode, cancelled, exit>> /\ RunPhase' = RunPhase
<1>q. Quiet => UNCHANGED (Loop!loopVars)
  BY DEF Loop!loopVars
<1>e. ASSUME NEW failed \in BOOLEAN, Loop!EndTick(failed) PROVE Loop!Next
  BY <1>e DEF Loop!Next
<1>1. CASE ListFails
  BY <1>1, <1>e, EndTickMaps DEF ListFails, envVars
<1>2. CASE NothingToSend
  BY <1>2, <1>e, EndTickMaps DEF NothingToSend, envVars
<1>3. CASE Send
  BY <1>3, <1>e, EndTickMaps DEF Send, envVars
<1>4. CASE SendFails
  BY <1>4, <1>e, EndTickMaps DEF SendFails, envVars
<1>5. CASE BeginTick \/ ListDeployments \/ NextNamespace \/ SetResourceSource
  <2>1. Quiet
    BY <1>5 DEF BeginTick, ListDeployments, Listed, NextNamespace, SetResourceSource, WriteSeries,
                envVars, RunPhase
  <2> QED
    BY <2>1, <1>q
<1>6. ASSUME NEW d \in Deployments, Shadow(d) PROVE Quiet
  BY <1>6 DEF Shadow, runVars, envVars, RunPhase
<1>7. ASSUME NEW d \in Deployments, NEW p \in BOOLEAN, Claim(d, p) PROVE Quiet
  BY <1>7 DEF Claim, Claimed, runVars, envVars, RunPhase
<1>8. ASSUME NEW S \in SUBSET Slugs, NEW name, CollectSamples(S, name) PROVE Quiet
  BY <1>8 DEF CollectSamples, envVars, RunPhase
<1>9. CASE TakeTick
  <2>1. Loop!NextTick
    BY <1>9 DEF TakeTick, Loop!NextTick, RunPhase, envVars
  <2> QED
    BY <2>1 DEF Loop!Next
<1>10. CASE Done
  <2>1. Loop!Stop
    BY <1>10 DEF Done, Leave, WaitsClean, Loop!Stop, RunPhase, envVars
  <2> QED
    BY <2>1 DEF Loop!Next
<1>11. CASE Signal
  <2>1. Loop!Signal
    BY <1>11 DEF Signal, Loop!Signal, RunPhase, runVars
  <2> QED
    BY <2>1 DEF Loop!Next
<1>12. CASE ClusterChanges \/ HealthChanges \/ Fire \/ UNCHANGED vars
  <2>1. Quiet
    BY <1>12 DEF ClusterChanges, HealthChanges, Fire, RunPhase, runVars, envVars, vars
  <2> QED
    BY <2>1, <1>q
<1> QED
  BY <1>1, <1>2, <1>3, <1>4, <1>5, <1>6, <1>7, <1>8, <1>9, <1>10, <1>11, <1>12, <1>q
     DEF Next, Tick, Environment

(* Whatever fails in a tick, and wherever in it the signal arrives, Run goes
   from tick to tick as HeartbeatLoop says. *)
THEOREM LoopImplemented == Spec => ImplementsLoop
<1>1. Init => Loop!Init
  BY DEF Init, Loop!Init, RunPhase
<1> QED
  BY <1>1, InitWaitsClean, NextWaitsClean, NextMaps, PTL DEF Spec, ImplementsLoop, Loop!Spec

-----------------------------------------------------------------------------
(* The duplicate-slug latch: each line but one is paid for by a remembered
   pair. *)
WarnInv ==
  /\ IsFiniteSet(warnedSlugs) /\ Cardinality(warnedSlugs) <= MaxPairs
  /\ warnedOverflow \in BOOLEAN /\ lines \in Nat
  /\ shadows \subseteq warnedSlugs \/ warnedOverflow
  /\ lines <= Cardinality(warnedSlugs) + (IF warnedOverflow THEN 1 ELSE 0)

LEMMA InitWarnInv == Init => WarnInv
<1> SUFFICES ASSUME Init PROVE WarnInv
  OBVIOUS
<1>1. warnedSlugs = {} /\ warnedOverflow = FALSE /\ lines = 0 /\ shadows = {}
  BY DEF Init
<1>2. IsFiniteSet(warnedSlugs) /\ Cardinality(warnedSlugs) = 0
  BY <1>1, FS_EmptySet
<1>3. shadows \subseteq warnedSlugs
  BY <1>1
<1>4. lines <= Cardinality(warnedSlugs) + (IF warnedOverflow THEN 1 ELSE 0)
  BY <1>1, <1>2
<1>5. Cardinality(warnedSlugs) <= MaxPairs /\ lines \in Nat
  BY <1>1, <1>2, MaxPairsAssumption
<1>6. warnedOverflow \in BOOLEAN
  BY <1>1
<1> QED
  BY <1>2, <1>3, <1>4, <1>5, <1>6 DEF WarnInv

LEMMA ShadowWarnInv == ASSUME WarnInv, NEW d, Shadow(d) PROVE WarnInv'
<1> DEFINE pair == <<pending[d], d>>
           n == Cardinality(warnedSlugs)
<1>1. /\ warnedSlugs' = IF n < MaxPairs THEN warnedSlugs \cup {pair} ELSE warnedSlugs
      /\ warnedOverflow' = (warnedOverflow \/ (pair \notin warnedSlugs /\ ~(n < MaxPairs)))
      /\ lines' = IF pair \notin warnedSlugs /\ (n < MaxPairs \/ ~warnedOverflow) THEN lines + 1 ELSE lines
      /\ shadows' = shadows \cup {pair}
  BY DEF Shadow, WarnDuplicateSlug, Warned
<1>2. n \in Nat
  BY FS_CardinalityType DEF WarnInv
<1>3. /\ IsFiniteSet(warnedSlugs \cup {pair})
      /\ Cardinality(warnedSlugs \cup {pair}) = IF pair \in warnedSlugs THEN n ELSE n + 1
  BY FS_AddElement DEF WarnInv
<1> HIDE DEF n, pair
<1>4. CASE pair \in warnedSlugs
  <2>1. warnedSlugs' = warnedSlugs /\ lines' = lines /\ warnedOverflow' = warnedOverflow
    BY <1>1, <1>4 DEF WarnInv
  <2> QED
    BY <2>1, <1>1, <1>4 DEF WarnInv
<1>5. CASE pair \notin warnedSlugs /\ n < MaxPairs
  <2>1. warnedSlugs' = warnedSlugs \cup {pair} /\ lines' = lines + 1 /\ warnedOverflow' = warnedOverflow
    BY <1>1, <1>5 DEF WarnInv
  <2>2. Cardinality(warnedSlugs') = n + 1 /\ IsFiniteSet(warnedSlugs')
    BY <2>1, <1>3, <1>5
  <2> QED
    BY <2>1, <2>2, <1>1, <1>2, <1>5, MaxPairsAssumption DEF WarnInv, n
<1>6. CASE pair \notin warnedSlugs /\ ~(n < MaxPairs)
  <2>1. /\ warnedSlugs' = warnedSlugs /\ warnedOverflow' = TRUE
        /\ lines' = IF ~warnedOverflow THEN lines + 1 ELSE lines
    BY <1>1, <1>6
  <2> QED
    BY <2>1, <1>2, <1>6, MaxPairsAssumption DEF WarnInv, n
<1> QED
  BY <1>4, <1>5, <1>6

LEMMA NextWarnInv == WarnInv /\ [Next]_vars => WarnInv'
<1> SUFFICES ASSUME WarnInv, [Next]_vars PROVE WarnInv'
  OBVIOUS
<1>1. ASSUME NEW d \in Deployments, Shadow(d) PROVE WarnInv'
  BY <1>1, ShadowWarnInv
<1>2. ASSUME UNCHANGED warnVars PROVE WarnInv'
  BY <1>2 DEF WarnInv, warnVars
<1>3. CASE \/ BeginTick \/ ListDeployments \/ ListFails \/ NextNamespace \/ SetResourceSource
           \/ NothingToSend \/ Send \/ SendFails \/ TakeTick \/ Done \/ UNCHANGED vars
  BY <1>2, <1>3 DEF BeginTick, ListDeployments, Listed, ListFails, NextNamespace, SetResourceSource,
     WriteSeries, NothingToSend, Send, SendFails, TakeTick, Done, Leave, vars
<1>4. ASSUME NEW d \in Deployments, NEW p \in BOOLEAN, Claim(d, p) PROVE WarnInv'
  BY <1>2, <1>4 DEF Claim, Claimed
<1>5. ASSUME NEW S \in SUBSET Slugs, NEW name, CollectSamples(S, name) PROVE WarnInv'
  BY <1>2, <1>5 DEF CollectSamples
<1>6. CASE Environment
  BY <1>2, <1>6 DEF Environment, ClusterChanges, HealthChanges, Signal, Fire
<1> QED
  BY <1>1, <1>3, <1>4, <1>5, <1>6 DEF Next, Tick

(* However the cluster churns, a shadowed Deployment is named or covered by the
   overflow line, within the budget of warnDuplicateSlug. *)
THEOREM ShadowsHold == Spec => []ShadowsNamedWithinBudget
<1>1. WarnInv => ShadowsNamedWithinBudget
  <2> SUFFICES ASSUME WarnInv PROVE ShadowsNamedWithinBudget
    OBVIOUS
  <2>1. Cardinality(warnedSlugs) \in Nat
    BY FS_CardinalityType DEF WarnInv
  <2> QED
    BY <2>1, MaxPairsAssumption DEF WarnInv, ShadowsNamedWithinBudget
<1> QED
  BY <1>1, InitWarnInv, NextWarnInv, PTL DEF Spec

-----------------------------------------------------------------------------
(* The resource_source gauge: while it is being written, the series of the names
   already passed are right and no name but theirs is at 1. *)
Names == {ResourceSources[k] : k \in 1..Len(ResourceSources)}

GaugeInv ==
  /\ active \in {"metrics-server", "exposition", "none"}
  /\ sourceGauge \subseteq Names
  /\ ~Instrumented => sourceGauge = {}
  /\ pc = "gauge" =>
       /\ Instrumented /\ nth \in 1..4
       /\ \A k \in 1..(nth - 1) : ResourceSources[k] \in sourceGauge <=> ResourceSources[k] = active
  /\ SourceSeriesSettles

LEMMA WriteGaugeInv == GaugeInv /\ SetResourceSource => GaugeInv'
<1> SUFFICES ASSUME GaugeInv, SetResourceSource PROVE GaugeInv'
  OBVIOUS
<1> DEFINE name == ResourceSources[nth]
<1>1. /\ pc = "gauge" /\ Instrumented /\ nth \in 1..4
      /\ active' = active /\ mode' = mode /\ nth' = nth + 1
      /\ pc' = IF nth = 4 THEN "send" ELSE "gauge"
      /\ sourceGauge' = IF name = active THEN sourceGauge \cup {name} ELSE sourceGauge \ {name}
  BY DEF GaugeInv, SetResourceSource, WriteSeries, ResourceSources
<1>2. \A k \in 1..4 : k # nth => ResourceSources[k] # name
  BY <1>1 DEF ResourceSources
<1>3. \A k \in 1..nth : ResourceSources[k] \in sourceGauge' <=> ResourceSources[k] = active
  BY <1>1, <1>2 DEF GaugeInv
<1>4. sourceGauge' \subseteq Names
  BY <1>1 DEF GaugeInv, Names, ResourceSources
<1>5. CASE nth = 4
  <2>1. sourceGauge' = {active}
    BY <1>3, <1>4, <1>5 DEF GaugeInv, Names, ResourceSources
  <2> QED
    BY <2>1, <1>1, <1>4, <1>5 DEF GaugeInv, SourceSeriesSettles, Instrumented
<1>6. CASE nth # 4
  <2>1. nth' \in 1..4 /\ 1..(nth' - 1) = 1..nth
    BY <1>1, <1>6
  <2> QED
    BY <2>1, <1>1, <1>3, <1>4, <1>6 DEF GaugeInv, SourceSeriesSettles, Instrumented
<1> QED
  BY <1>5, <1>6

LEMMA NextGaugeInv == GaugeInv /\ [Next]_vars => GaugeInv'
<1> SUFFICES ASSUME GaugeInv, [Next]_vars PROVE GaugeInv'
  OBVIOUS
<1> DEFINE Kept == UNCHANGED <<active, mode, sourceGauge>> /\ pc' # "gauge" /\ pc # "gauge"
                   /\ (pc' = "send" => pc = "send")
<1>k. Kept => GaugeInv'
  BY DEF GaugeInv, SourceSeriesSettles, Instrumented
<1>s. ASSUME UNCHANGED <<active, mode, sourceGauge, pc, nth>> PROVE GaugeInv'
  BY <1>s DEF GaugeInv, SourceSeriesSettles, Instrumented
<1>1. CASE BeginTick \/ ListDeployments \/ NextNamespace
  BY <1>1, <1>k DEF BeginTick, ListDeployments, Listed, NextNamespace, gaugeVars
<1>2. CASE ListFails \/ SendFails
  BY <1>2, <1>k DEF ListFails, SendFails, EndTick, TickEnds, gaugeVars
<1>3. CASE NothingToSend \/ Send
  BY <1>3, <1>k DEF NothingToSend, Send, EndTick, TickEnds
<1>4. CASE TakeTick \/ Done
  BY <1>4, <1>k DEF TakeTick, Done, Leave, gaugeVars
<1>5. ASSUME NEW d \in Deployments, Shadow(d) PROVE GaugeInv'
  BY <1>5, <1>s DEF Shadow, Mapped, runVars, gaugeVars
<1>6. ASSUME NEW d \in Deployments, NEW p \in BOOLEAN, Claim(d, p) PROVE GaugeInv'
  BY <1>6, <1>s DEF Claim, Claimed, runVars, gaugeVars
<1>7. ASSUME NEW S \in SUBSET Slugs, NEW name \in {"metrics-server", "exposition", "none"},
             CollectSamples(S, name)
      PROVE  GaugeInv'
  <2>1. /\ active' = name /\ mode' = mode /\ nth' = 1 /\ sourceGauge' = sourceGauge
        /\ pc' = IF Instrumented THEN "gauge" ELSE "send"
    BY <1>7 DEF CollectSamples
  <2>2. CASE Instrumented
    BY <2>1, <2>2 DEF GaugeInv, SourceSeriesSettles, Instrumented
  <2>3. CASE ~Instrumented
    BY <2>1, <2>3 DEF GaugeInv, SourceSeriesSettles, Instrumented
  <2> QED
    BY <2>2, <2>3
<1>8. CASE Environment \/ UNCHANGED vars
  BY <1>8, <1>s DEF Environment, ClusterChanges, HealthChanges, Signal, Fire, vars, runVars,
     tickVars, gaugeVars
<1> QED
  BY <1>1, <1>2, <1>3, <1>4, <1>5, <1>6, <1>7, <1>8, WriteGaugeInv DEF Next, Tick

(* When a heartbeat is sent, exactly the series of the source that served the
   tick is at 1, and between ticks no other ever is. *)
THEOREM SourceSeriesHold == Spec => []SourceSeriesSettles
<1>1. Init => GaugeInv
  BY DEF Init, GaugeInv, SourceSeriesSettles
<1>2. GaugeInv => SourceSeriesSettles
  BY DEF GaugeInv
<1> QED
  BY <1>1, <1>2, NextGaugeInv, PTL DEF Spec

-----------------------------------------------------------------------------
(* Collect: the entries, the slugs met and the claims grow together, one at a
   time, and the namespaces are listed in their order. *)
Collecting == pc \in {"list", "map", "gauge", "send"}

CollectInv ==
  Collecting =>
    /\ {e.slug : e \in out} = found /\ DOMAIN claimed = found
    /\ \A e \in out : claimed[e.slug] = e.deployment
    /\ IsFiniteSet(out) /\ IsFiniteSet(found) /\ Cardinality(out) = Cardinality(found)
    /\ pc \in {"list", "map"} =>
         nth \in 1..(Len(Namespaces) + 1) /\ listed = {Namespaces[k] : k \in 1..(nth - 1)}
    /\ pc \in {"gauge", "send"} => listed = {Namespaces[k] : k \in 1..Len(Namespaces)}

LEMMA LenNamespaces == Len(Namespaces) \in Nat
  BY ClusterAssumption

LEMMA BeginCollectInv == BeginTick => CollectInv'
<1> SUFFICES ASSUME BeginTick PROVE CollectInv'
  OBVIOUS
<1>1. pc' = "list" /\ nth' = 1 /\ listed' = {} /\ found' = {} /\ out' = {} /\ claimed' = Empty
  BY DEF BeginTick
<1>2. IsFiniteSet({}) /\ DOMAIN claimed' = {}
  BY <1>1, FS_EmptySet DEF Empty
<1>3. nth' \in 1..(Len(Namespaces) + 1) /\ 1..(nth' - 1) = {}
  BY <1>1, LenNamespaces
<1> QED
  BY <1>1, <1>2, <1>3 DEF CollectInv, Collecting

LEMMA ListCollectInv == CollectInv /\ ListDeployments => CollectInv'
<1> SUFFICES ASSUME CollectInv, ListDeployments PROVE CollectInv'
  OBVIOUS
<1>1. /\ pc = "list" /\ pc' = "map" /\ nth <= Len(Namespaces) /\ nth' = nth + 1
      /\ listed' = listed \cup {Namespaces[nth]}
      /\ UNCHANGED <<found, claimed, out>>
  BY DEF ListDeployments, Listed
<1>2. nth \in 1..(Len(Namespaces) + 1) /\ listed = {Namespaces[k] : k \in 1..(nth - 1)}
  BY <1>1 DEF CollectInv, Collecting
<1>3. nth' \in 1..(Len(Namespaces) + 1) /\ 1..(nth' - 1) = 1..(nth - 1) \cup {nth}
  BY <1>1, <1>2, LenNamespaces
<1>4. listed' = {Namespaces[k] : k \in 1..(nth' - 1)}
  BY <1>1, <1>2, <1>3
<1> QED
  BY <1>1, <1>3, <1>4 DEF CollectInv, Collecting

LEMMA ClaimCollectInv ==
  ASSUME CollectInv, NEW d \in Deployments, NEW p \in BOOLEAN, Claim(d, p) PROVE CollectInv'
<1> DEFINE slug == pending[d]
           entry == [slug |-> slug, deployment |-> d, restarts |-> p]
<1>1. /\ pc = "map" /\ slug \notin DOMAIN claimed
      /\ UNCHANGED <<pc, nth, listed>>
      /\ claimed' = [s \in DOMAIN claimed \cup {slug} |-> IF s = slug THEN d ELSE claimed[s]]
      /\ out' = out \cup {entry} /\ found' = found \cup {slug}
  BY DEF Claim, Claimed, Entry, Mapped, runVars
<1>2. slug \notin found /\ entry \notin out
  BY <1>1 DEF CollectInv, Collecting
<1>3. /\ IsFiniteSet(out') /\ Cardinality(out') = Cardinality(out) + 1
      /\ IsFiniteSet(found') /\ Cardinality(found') = Cardinality(found) + 1
  BY <1>1, <1>2, FS_AddElement DEF CollectInv, Collecting
<1>4. {e.slug : e \in out'} = found' /\ DOMAIN claimed' = found'
  <2>1. {e.slug : e \in out} = found /\ DOMAIN claimed = found
    BY <1>1 DEF CollectInv, Collecting
  <2>2. entry.slug = slug
    OBVIOUS
  <2> HIDE DEF entry, slug
  <2>3. {e.slug : e \in out \cup {entry}} = {e.slug : e \in out} \cup {entry.slug}
    OBVIOUS
  <2>4. DOMAIN claimed' = DOMAIN claimed \cup {slug}
    BY <1>1
  <2> QED
    BY <1>1, <2>1, <2>2, <2>3, <2>4
<1>5. \A e \in out' : claimed'[e.slug] = e.deployment
  BY <1>1, <1>2 DEF CollectInv, Collecting
<1> QED
  BY <1>1, <1>3, <1>4, <1>5 DEF CollectInv, Collecting

LEMMA NextCollectInv == CollectInv /\ [Next]_vars => CollectInv'
<1> SUFFICES ASSUME CollectInv, [Next]_vars PROVE CollectInv'
  OBVIOUS
<1>s. ASSUME UNCHANGED <<pc, nth, listed, found, claimed, out>> PROVE CollectInv'
  BY <1>s DEF CollectInv, Collecting
<1>o. ASSUME pc' \in {"tick", "wait", "stopped"} PROVE CollectInv'
  BY <1>o DEF CollectInv, Collecting
<1>1. CASE ListFails \/ NothingToSend \/ Send \/ SendFails
  BY <1>1, <1>o DEF ListFails, NothingToSend, Send, SendFails, EndTick, TickEnds
<1>2. CASE TakeTick \/ Done
  BY <1>2, <1>o DEF TakeTick, Done, Leave
<1>3. ASSUME NEW d \in Deployments, Shadow(d) PROVE CollectInv'
  <2>1. /\ pc = "map" /\ pending[d] \in DOMAIN claimed /\ found' = found \cup {pending[d]}
        /\ UNCHANGED <<pc, nth, listed, claimed, out>>
    BY <1>3 DEF Shadow, Mapped, runVars
  <2>2. found' = found
    BY <2>1 DEF CollectInv, Collecting
  <2> QED
    BY <2>1, <2>2, <1>s
<1>4. CASE NextNamespace
  BY <1>4 DEF NextNamespace, tickVars, CollectInv, Collecting
<1>5. ASSUME NEW S \in SUBSET Slugs, NEW name, CollectSamples(S, name) PROVE CollectInv'
  <2>1. /\ pc = "list" /\ nth > Len(Namespaces) /\ pc' \in {"gauge", "send"}
        /\ UNCHANGED <<listed, found, claimed, out>>
    BY <1>5 DEF CollectSamples
  <2>2. nth \in 1..(Len(Namespaces) + 1) /\ listed = {Namespaces[k] : k \in 1..(nth - 1)}
    BY <2>1 DEF CollectInv, Collecting
  <2>3. 1..(nth - 1) = 1..Len(Namespaces)
    BY <2>1, <2>2, LenNamespaces
  <2> QED
    BY <2>1, <2>2, <2>3 DEF CollectInv, Collecting
<1>6. CASE SetResourceSource
  BY <1>6 DEF SetResourceSource, WriteSeries, CollectInv, Collecting
<1>7. CASE Environment \/ UNCHANGED vars
  BY <1>7, <1>s DEF Environment, ClusterChanges, HealthChanges, Signal, Fire, vars, runVars, tickVars
<1> QED
  BY <1>1, <1>2, <1>3, <1>4, <1>5, <1>6, <1>7, BeginCollectInv, ListCollectInv, ClaimCollectInv
     DEF Next, Tick

(* Whatever moves or fails between two listings, a batch that is sent covers
   every namespace and every slug met in them, once each. *)
THEOREM BatchHolds == Spec => []BatchIsComplete
<1>1. Init => CollectInv
  BY DEF Init, CollectInv, Collecting
<1>2. CollectInv => BatchIsComplete
  BY DEF CollectInv, Collecting, BatchIsComplete
<1> QED
  BY <1>1, <1>2, NextCollectInv, PTL DEF Spec

-----------------------------------------------------------------------------
(* How Run ends: a one-shot run has one tick, so it sends at most one batch, and
   a loop waits between ticks with status 0. *)
StopInv ==
  /\ mode \in {"once", "loop"}
  /\ mode = "once" => pc # "wait" /\ (pc # "stopped" => lastBatch = 0)
  /\ pc = "wait" => exit = 0
  /\ OnlySignalStops

LEMMA NextStopInv == StopInv /\ [Next]_vars => StopInv'
<1> SUFFICES ASSUME StopInv, [Next]_vars PROVE StopInv'
  OBVIOUS
<1>s. ASSUME UNCHANGED <<mode, pc, exit, lastBatch, out>>, cancelled => cancelled' PROVE StopInv'
  BY <1>s DEF StopInv, OnlySignalStops
<1>t. ASSUME UNCHANGED <<mode, lastBatch>>, pc' \notin {"wait", "stopped"}, pc # "stopped" PROVE StopInv'
  BY <1>t DEF StopInv, OnlySignalStops
<1>1. CASE BeginTick \/ ListDeployments \/ NextNamespace \/ SetResourceSource
  BY <1>1, <1>t DEF BeginTick, ListDeployments, Listed, NextNamespace, SetResourceSource, WriteSeries,
     gaugeVars
<1>2. ASSUME NEW d \in Deployments, Shadow(d) PROVE StopInv'
  BY <1>2, <1>t DEF Shadow, Mapped, runVars, gaugeVars
<1>3. ASSUME NEW d \in Deployments, NEW p \in BOOLEAN, Claim(d, p) PROVE StopInv'
  BY <1>3, <1>t DEF Claim, Claimed, Mapped, runVars, gaugeVars
<1>4. ASSUME NEW S \in SUBSET Slugs, NEW name, CollectSamples(S, name) PROVE StopInv'
  BY <1>4, <1>t DEF CollectSamples
<1>5. CASE ListFails
  BY <1>5 DEF ListFails, EndTick, TickEnds, StopInv, OnlySignalStops, envVars, tickVars, gaugeVars
<1>6. CASE SendFails
  BY <1>6 DEF SendFails, EndTick, TickEnds, StopInv, OnlySignalStops, envVars, tickVars, gaugeVars
<1>7. CASE NothingToSend
  <2>1. Cardinality({}) = 0
    BY FS_EmptySet
  <2> QED
    BY <1>7, <2>1 DEF NothingToSend, EndTick, TickEnds, StopInv, OnlySignalStops, envVars, tickVars
<1>8. CASE Send
  BY <1>8 DEF Send, EndTick, TickEnds, StopInv, OnlySignalStops, envVars, tickVars
<1>9. CASE TakeTick
  BY <1>9, <1>t DEF TakeTick, gaugeVars
<1>10. CASE Done
  BY <1>10 DEF Done, Leave, StopInv, OnlySignalStops, envVars, tickVars, gaugeVars
<1>11. CASE Environment \/ UNCHANGED vars
  BY <1>11, <1>s DEF Environment, ClusterChanges, HealthChanges, Signal, Fire, vars, envVars,
     runVars, tickVars, gaugeVars
<1> QED
  BY <1>1, <1>2, <1>3, <1>4, <1>5, <1>6, <1>7, <1>8, <1>9, <1>10, <1>11 DEF Next, Tick

(* Nothing but the signal ends the loop, and a one-shot run that reports success
   delivered what it had. *)
THEOREM OnlySignalHolds == Spec => []OnlySignalStops
<1>1. Init => StopInv
  BY DEF Init, StopInv, OnlySignalStops
<1>2. StopInv => OnlySignalStops
  BY DEF StopInv
<1> QED
  BY <1>1, <1>2, NextStopInv, PTL DEF Spec

-----------------------------------------------------------------------------
(* Type correctness; what is counted is finite because Collect's entries are. *)
TypeInv == TypeOK /\ \A d \in DOMAIN pending : pending[d] \in Slugs

LEMMA NextTypeInv == TypeInv /\ CollectInv /\ GaugeInv /\ [Next]_vars => TypeInv'
<1> SUFFICES ASSUME TypeInv, CollectInv, GaugeInv, [Next]_vars PROVE TypeInv'
  OBVIOUS
<1> USE DEF TypeInv, TypeOK
<1>1. CASE BeginTick
  BY <1>1 DEF BeginTick, Empty, envVars, warnVars, gaugeVars
<1>2. CASE ListDeployments
  BY <1>2 DEF ListDeployments, Listed, InNamespace, envVars, warnVars, gaugeVars
<1>3. ASSUME NEW d \in Deployments, Shadow(d) PROVE TypeInv'
  <2>1. Mapped(d) /\ pending[d] \in Slugs
    BY <1>3 DEF Shadow, Mapped
  <2>2. warnedSlugs' \subseteq Slugs \X Deployments /\ warnedOverflow' \in BOOLEAN /\ lines' \in Nat
    BY <1>3, <2>1 DEF Shadow, WarnDuplicateSlug, Warned
  <2> QED
    BY <1>3, <2>1, <2>2 DEF Shadow, Mapped, envVars, runVars, gaugeVars
<1>4. ASSUME NEW d \in Deployments, NEW p \in BOOLEAN, Claim(d, p) PROVE TypeInv'
  BY <1>4 DEF Claim, Claimed, Entry, Mapped, envVars, runVars, warnVars, gaugeVars
<1>5. CASE NextNamespace
  BY <1>5 DEF NextNamespace, envVars, tickVars, warnVars, gaugeVars
<1>6. ASSUME NEW S \in SUBSET Slugs, NEW name \in {"metrics-server", "exposition", "none"},
             CollectSamples(S, name)
      PROVE  TypeInv'
  <2>1. S \subseteq found /\ IsFiniteSet(found)
    BY <1>6 DEF CollectSamples, CollectInv, Collecting
  <2>2. Cardinality(S) \in Nat
    BY <2>1, FS_Subset, FS_CardinalityType
  <2> QED
    BY <1>6, <2>2 DEF CollectSamples, envVars, warnVars
<1>7. CASE SetResourceSource
  <2>1. sourceGauge' \subseteq {ResourceSources[k] : k \in 1..Len(ResourceSources)}
    BY <1>7, WriteGaugeInv DEF GaugeInv, Names
  <2> QED
    BY <1>7, <2>1 DEF SetResourceSource, WriteSeries, envVars, warnVars
<1>8. CASE ListFails
  BY <1>8 DEF ListFails, EndTick, TickEnds, envVars, tickVars, warnVars, gaugeVars
<1>9. CASE SendFails
  BY <1>9 DEF SendFails, EndTick, TickEnds, envVars, tickVars, warnVars, gaugeVars
<1>10. CASE NothingToSend
  BY <1>10 DEF NothingToSend, EndTick, TickEnds, envVars, tickVars, warnVars
<1>11. CASE Send
  <2>1. Cardinality(out) \in Nat
    BY <1>11, FS_CardinalityType DEF Send, CollectInv, Collecting
  <2> QED
    BY <1>11, <2>1 DEF Send, EndTick, TickEnds, envVars, tickVars, warnVars
<1>12. CASE TakeTick \/ Done
  BY <1>12 DEF TakeTick, Done, Leave, envVars, tickVars, warnVars, gaugeVars
<1>13. CASE ClusterChanges
  BY <1>13 DEF ClusterChanges, runVars, tickVars, warnVars, gaugeVars
<1>14. CASE HealthChanges
  <2>1. healthy' \in BOOLEAN
    BY <1>14 DEF HealthChanges
  <2> QED
    BY <1>14, <2>1 DEF HealthChanges, runVars, tickVars, warnVars, gaugeVars
<1>15. CASE Signal
  <2>1. cancelled' \in BOOLEAN
    BY <1>15 DEF Signal
  <2> QED
    BY <1>15, <2>1 DEF Signal, runVars, tickVars, warnVars, gaugeVars
<1>16. CASE Fire \/ UNCHANGED vars
  BY <1>16 DEF Fire, vars, envVars, runVars, tickVars, warnVars, gaugeVars
<1> HIDE DEF TypeInv
<1> QED
  BY <1>1, <1>2, <1>3, <1>4, <1>5, <1>6, <1>7, <1>8, <1>9, <1>10, <1>11, <1>12, <1>13, <1>14,
     <1>15, <1>16 DEF Next, Tick, Environment

(* Type correctness of the heartbeat loop, for any cluster. *)
THEOREM TypeCorrect == Spec => []TypeOK
<1>1. Init => TypeInv /\ CollectInv /\ GaugeInv
  <2>1. Init => TypeInv
    <3> SUFFICES ASSUME Init PROVE TypeInv
      OBVIOUS
    <3>1. /\ healthy \in BOOLEAN /\ cancelled \in BOOLEAN /\ warnedOverflow \in BOOLEAN
          /\ annotation \in [Deployments -> Slugs \cup {Unannotated}]
      BY DEF Init
    <3>2. DOMAIN pending = {} /\ DOMAIN claimed = {} /\ out = {} /\ warnedSlugs = {} /\ sourceGauge = {}
      BY DEF Init, Empty
    <3>3. /\ ticker = "off" /\ mode \in {"once", "loop"} /\ pc = "tick" /\ exit = 0 /\ nth = 1
          /\ active \in {"metrics-server", "none"}
          /\ {mappedGauge, reportedGauge, lastBatch, lines} \subseteq Nat
      BY DEF Init
    <3> QED
      BY <3>1, <3>2, <3>3 DEF TypeInv, TypeOK
  <2>2. Init => CollectInv
    BY DEF Init, CollectInv, Collecting
  <2>3. Init => GaugeInv
    BY DEF Init, GaugeInv, SourceSeriesSettles
  <2> QED
    BY <2>1, <2>2, <2>3
<1>2. TypeInv => TypeOK
  BY DEF TypeInv
<1> QED
  BY <1>1, <1>2, NextTypeInv, NextCollectInv, NextGaugeInv, PTL DEF Spec
=============================================================================
