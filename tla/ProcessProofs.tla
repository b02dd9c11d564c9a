--------------------------- MODULE ProcessProofs ----------------------------
(***************************************************************************)
(* Theorems about module Startup, for any environment the process may be   *)
(* started in, whatever texts the variables hold; and about module         *)
(* Process, for any Deployment and any number of POSTs still under way.    *)
(***************************************************************************)
EXTENDS Process, FilteringProofs

-----------------------------------------------------------------------------
(* Startup. *)

LEMMA DurationPositive == \A raw : EnvDuration(raw, DefaultInterval) > 0
  BY DefaultsAssumption DEF EnvDuration

(* The source that is built can scrape exactly if the configuration can. *)
LEMMA SourceMatchesConfig ==
  ASSUME NEW c, NewMetricSource(c) # "refused"
  PROVE  NewMetricSource(c) \in {"auto", "exposition"} <=> ExpositionReachable(c)
  BY DEF NewMetricSource, ExpositionReachable

(* What each stage has established. *)
StageInv ==
  /\ stage \in {"config", "lister", "source"} => "caveat" \notin lines
  /\ stage \in {"lister", "source", "launch", "running"} => cfg.interval > 0
  /\ stage \in {"launch", "running"} =>
       ("caveat" \in lines <=> once /\ source \in {"auto", "exposition"})
  /\ stage \in {"config", "lister", "source", "launch"} => ~server
  /\ RefusalStartsNothing

LEMMA InitStageInv == StartInit => StageInv
  BY DEF StartInit, StageInv, RefusalStartsNothing

LEMMA NextStageInv == StageInv /\ [StartNext]_startVars => StageInv'
<1> SUFFICES ASSUME StageInv, [StartNext]_startVars PROVE StageInv'
  OBVIOUS
<1>1. CASE ReadConfig
  <2>1. CASE RequiredConfig(env)
    <3>1. cfg' = ConfigOf(env) /\ stage' = "lister" /\ UNCHANGED <<lines, status, once, source, server>>
      BY <1>1, <2>1 DEF ReadConfig
    <3>2. cfg'.interval > 0
      BY <3>1, DurationPositive DEF ConfigOf
    <3> QED
      BY <1>1, <3>1, <3>2 DEF ReadConfig, StageInv, RefusalStartsNothing
  <2>2. CASE ~RequiredConfig(env)
    BY <1>1, <2>2 DEF ReadConfig, Refuse, StageInv, RefusalStartsNothing
  <2> QED
    BY <2>1, <2>2
<1>2. ASSUME NEW mounted \in BOOLEAN, NewLister(mounted) PROVE StageInv'
  BY <1>2 DEF NewLister, Refuse, StageInv, RefusalStartsNothing
<1>3. CASE BuildSource
  <2>1. CASE NewMetricSource(cfg) = "refused"
    BY <1>3, <2>1 DEF BuildSource, Refuse, StageInv, RefusalStartsNothing
  <2>2. CASE NewMetricSource(cfg) # "refused"
    <3>1. /\ stage = "source" /\ stage' = "launch" /\ UNCHANGED <<once, cfg, server>>
          /\ source' = NewMetricSource(cfg)
          /\ lines' = IF once /\ ExpositionReachable(cfg) THEN lines \cup {"caveat"} ELSE lines
      BY <1>3, <2>2 DEF BuildSource
    <3>2. source' \in {"auto", "exposition"} <=> ExpositionReachable(cfg)
      BY <2>2, <3>1, SourceMatchesConfig
    <3>3. "caveat" \in lines' <=> once' /\ source' \in {"auto", "exposition"}
      BY <3>1, <3>2 DEF StageInv
    <3> QED
      BY <3>1, <3>3 DEF StageInv, RefusalStartsNothing
  <2> QED
    BY <2>1, <2>2
<1>4. CASE Launch
  BY <1>4 DEF Launch, Refuse, StageInv, RefusalStartsNothing
<1>5. CASE UNCHANGED startVars
  BY <1>5 DEF startVars, StageInv, RefusalStartsNothing
<1> QED
  BY <1>1, <1>2, <1>3, <1>4, <1>5 DEF StartNext

(* The operator is warned in exactly the one-shot runs whose source can come to
   scrape. *)
THEOREM CaveatHolds == StartSpec => []CaveatMatchesSource
<1>1. StageInv => CaveatMatchesSource
  BY DEF StageInv, CaveatMatchesSource
<1> QED
  BY <1>1, InitStageInv, NextStageInv, PTL DEF StartSpec

(* No refusal comes after the goroutine of the metrics server was started. *)
THEOREM RefusalHolds == StartSpec => []RefusalStartsNothing
<1>1. StageInv => RefusalStartsNothing
  BY DEF StageInv
<1> QED
  BY <1>1, InitStageInv, NextStageInv, PTL DEF StartSpec

(* A list that is read has an element, and no blank one. *)
LEMMA ListUsable ==
  ASSUME NEW raw, raw = Unset \/ raw \in Seq(STRING)
  PROVE  LET list == EnvList(raw, <<"default">>)
         IN  list # << >> /\ \A k \in DOMAIN list : list[k] # ""
<1> DEFINE kept == IF raw = Unset THEN << >> ELSE Subsequence(raw, NotBlank(raw))
<1>1. EnvList(raw, <<"default">>) = IF kept = << >> THEN <<"default">> ELSE kept
  BY DEF EnvList
<1>2. CASE kept = << >>
  <2>1. EnvList(raw, <<"default">>) = <<"default">>
    BY <1>1, <1>2
  <2>2. DOMAIN <<"default">> = {1} /\ <<"default">>[1] # "" /\ 1 \notin DOMAIN << >>
    OBVIOUS
  <2> QED
    BY <2>1, <2>2
<1>3. CASE kept # << >>
  <2>1. raw \in Seq(STRING) /\ kept = Subsequence(raw, NotBlank(raw))
    BY <1>3
  <2>2. Range(kept) = {raw[k] : k \in NotBlank(raw) \cap DOMAIN raw}
    <3> HIDE DEF kept
    <3> QED
      BY <2>1, SubsequenceMembers
  <2>3. \A k \in DOMAIN kept : kept[k] # ""
    <3> HIDE DEF kept
    <3> QED
      BY <2>2 DEF Range, NotBlank
  <2> HIDE DEF kept
  <2> QED
    BY <1>1, <1>3, <2>3
<1> QED
  BY <1>2, <1>3

(* From its first stage on the process is configured by its environment, which
   requiredConfig let pass. *)
UsableInv ==
  /\ env \in Environments
  /\ stage \in {"lister", "source", "launch", "running"} =>
       cfg = ConfigOf(env) /\ RequiredConfig(env)

LEMMA NextUsableInv == UsableInv /\ [StartNext]_startVars => UsableInv'
<1> SUFFICES ASSUME UsableInv, [StartNext]_startVars PROVE UsableInv'
  OBVIOUS
<1>1. CASE ReadConfig
  BY <1>1 DEF ReadConfig, Refuse, UsableInv
<1>2. ASSUME NEW mounted \in BOOLEAN, NewLister(mounted) PROVE UsableInv'
  BY <1>2 DEF NewLister, Refuse, UsableInv
<1>3. CASE BuildSource
  BY <1>3 DEF BuildSource, Refuse, UsableInv
<1>4. CASE Launch
  BY <1>4 DEF Launch, Refuse, UsableInv
<1>5. CASE UNCHANGED startVars
  BY <1>5 DEF startVars, UsableInv
<1> QED
  BY <1>1, <1>2, <1>3, <1>4, <1>5 DEF StartNext

(* What starts can run, whatever texts the variables hold. *)
THEOREM UsableHolds == StartSpec => []ConfigIsUsable
<1>1. StartInit => UsableInv
  BY DEF StartInit, UsableInv
<1>2. ASSUME UsableInv PROVE ConfigIsUsable
  <2> SUFFICES ASSUME stage \in {"launch", "running"}
               PROVE  /\ cfg.namespaces # << >>
                      /\ \A k \in DOMAIN cfg.namespaces : cfg.namespaces[k] # ""
                      /\ cfg.interval > 0 /\ cfg.timeout > 0 /\ cfg.maxBytes >= 0
                      /\ \A u \in {env.apiURL, env.scrapeURL} \ {Unset} : ValidURL(u)
    BY DEF ConfigIsUsable
  <2>1. cfg = ConfigOf(env) /\ RequiredConfig(env) /\ env \in Environments
    BY <1>2 DEF UsableInv
  <2>2. /\ cfg.namespaces # << >>
        /\ \A k \in DOMAIN cfg.namespaces : cfg.namespaces[k] # ""
    BY <2>1, ListUsable, ListsAssumption DEF ConfigOf
  <2>3. cfg.interval > 0 /\ cfg.timeout > 0
    BY <2>1, DefaultsAssumption DEF ConfigOf, EnvDuration
  <2>4. cfg.maxBytes >= 0
    BY <2>1 DEF ConfigOf, EnvInt64
  <2>5. \A u \in {env.apiURL, env.scrapeURL} \ {Unset} : ValidURL(u)
    BY <2>1 DEF RequiredConfig
  <2> QED
    BY <2>2, <2>3, <2>4, <2>5
<1> QED
  BY <1>1, <1>2, NextUsableInv, PTL DEF StartSpec

-----------------------------------------------------------------------------
(* Process. *)

(* The ways a tick ends. *)
LEMMA TickEndsInLoop ==
  ASSUME ListEmpty \/ ListFails \/ PostAccepted \/ PostRejected \/ PostAbandoned
  PROVE  \E failed \in BOOLEAN : TickReturns(failed)
  BY DEF ListEmpty, ListFails, PostAccepted, PostRejected, PostAbandoned

-----------------------------------------------------------------------------
(* While nothing failed before the signal: no status but 0 is on its way, and a
   listener that failed did so after the signal. *)
CleanInv ==
  ~faulted => /\ "error" \notin lines /\ status = 0 /\ exit = 0
              /\ listener = "failed" => cancelled

LEMMA NextCleanInv == CleanInv /\ [Next]_vars => CleanInv'
<1> SUFFICES ASSUME CleanInv, [Next]_vars, ~faulted' PROVE CleanInv'
  BY DEF CleanInv
<1>1. CASE Start
  <2>1. ~faulted /\ stage' # "refused"
    BY <1>1 DEF Start
  <2>2. StartNext /\ listener' # "failed" /\ exit' = exit
    BY <1>1 DEF Start, loopVars
  <2>3. lines' \in {lines, lines \cup {"caveat"}} /\ status' = status
    BY <2>1, <2>2 DEF StartNext, ReadConfig, NewLister, BuildSource, Launch, Refuse
  <2> QED
    BY <2>1, <2>2, <2>3 DEF CleanInv
<1>2. CASE ListEmpty \/ ListFails \/ PostAccepted \/ PostRejected \/ PostAbandoned
  <2>1. PICK failed \in BOOLEAN : TickReturns(failed)
    BY <1>2, TickEndsInLoop
  <2> QED
    BY <2>1 DEF TickReturns, L!EndTick, LogUnlessDone, Fault, CleanInv, serveVars
<1>3. CASE BeginTick \/ ListFound \/ PodsRead
  BY <1>3 DEF BeginTick, ListFound, PodsRead, Waits, CleanInv, startVars, loopVars, serveVars
<1>4. CASE TakeTick \/ Done
  BY <1>4 DEF TakeTick, Done, L!NextTick, L!Stop, CleanInv, serveVars
<1>5. CASE Exit
  BY <1>5 DEF Exit, CleanInv, loopVars, serveVars
<1>6. CASE ListenOpens \/ ServeCloses \/ ServeReturns
  BY <1>6 DEF ListenOpens, ServeCloses, ServeReturns, CleanInv, startVars, loopVars
<1>7. CASE ListenFails
  BY <1>7 DEF ListenFails, Fault, CleanInv, startVars, loopVars
<1>8. CASE ServeFails
  BY <1>8 DEF ServeFails, LogUnlessDone, CleanInv, loopVars
<1>9. CASE Network
  BY <1>9 DEF Network, LateArrives, LateLost, CleanInv, startVars, loopVars, serveVars
<1>10. CASE WorldChanges \/ UNCHANGED vars
  BY <1>10 DEF WorldChanges, vars, CleanInv, startVars, loopVars, serveVars
<1>11. CASE Signal
  BY <1>11 DEF Signal, L!Signal, CleanInv, startVars, serveVars
<1> QED
  BY <1>1, <1>2, <1>3, <1>4, <1>5, <1>6, <1>7, <1>8, <1>9, <1>10, <1>11 DEF Next, Tick, Server

(* A signal alone causes neither an ERROR line nor an exit status other than 0,
   wherever it arrives. *)
THEOREM RolloutHolds == Spec => []CleanRollout
<1>1. Init => CleanInv
  BY DEF Init, StartInit, L!Init, CleanInv
<1>2. CleanInv => CleanRollout
  BY DEF CleanInv, CleanRollout
<1> QED
  BY <1>1, <1>2, NextCleanInv, PTL DEF Spec

-----------------------------------------------------------------------------
(* What start-up leaves in its variables. *)
LEMMA StartTypes == ASSUME StartTypeOK, StartNext PROVE StartTypeOK'
<1>1. CASE ReadConfig
  BY <1>1 DEF ReadConfig, Refuse, StartTypeOK, ConfigOf, NoConfig
<1>2. ASSUME NEW mounted \in BOOLEAN, NewLister(mounted) PROVE StartTypeOK'
  BY <1>2 DEF NewLister, Refuse, StartTypeOK
<1>3. CASE BuildSource
  <2>1. source' \in {"none", "metrics-server", "auto", "exposition", "refused"}
    BY <1>3 DEF BuildSource, NewMetricSource
  <2>2. lines' \subseteq {"error", "caveat"} /\ status' \in {0, 1}
    BY <1>3 DEF BuildSource, Refuse, StartTypeOK
  <2>3. stage' \in {"launch", "refused"} /\ UNCHANGED <<env, once, cfg, server>>
    BY <1>3 DEF BuildSource, Refuse
  <2> QED
    BY <2>1, <2>2, <2>3 DEF StartTypeOK
<1>4. CASE Launch
  <2>1. server' \in BOOLEAN
    BY <1>4, Zenon DEF Launch, MetricsEnabled, EnvBool
  <2> QED
    BY <1>4, <2>1 DEF Launch, Refuse, StartTypeOK
<1> QED
  BY <1>1, <1>2, <1>3, <1>4 DEF StartNext

(* The type invariant, in the parts that the steps of the process write. *)
LoopTypes == cancelled \in BOOLEAN /\ phase \in {"ticking", "waiting", "stopped"} /\ exit \in {0, 1}
WorldTypes == cluster \in Workloads /\ kube \in {"up", "down"} /\ zensu \in {"up", "down"}
TickTypes ==
  /\ call \in {"none", "list", "pods", "post"}
  /\ entry \in (IF call \in {"pods", "post"} THEN Heartbeats \ {Nothing} ELSE {Nothing})
  /\ acked \in Heartbeats
WireTypes == stored \in Heartbeats /\ late \subseteq Heartbeats \ {Nothing}
ServeTypes ==
  /\ serve \in {"off", "serving", "closing", "returned"}
  /\ listener \in {"off", "opening", "open", "failed", "closed"}
  /\ faulted \in BOOLEAN

LEMMA FaultTyped == ASSUME ServeTypes, LoopTypes, Fault PROVE faulted' \in BOOLEAN
  BY Zenon DEF Fault, ServeTypes, LoopTypes

(* Whatever a tick came to, it leaves the loop and its lines as typed. *)
LEMMA TickReturnsTyped ==
  ASSUME StartTypeOK, LoopTypes, WorldTypes, ServeTypes, NEW failed \in BOOLEAN, TickReturns(failed)
  PROVE  /\ StartTypeOK' /\ LoopTypes' /\ WorldTypes' /\ ServeTypes'
         /\ call' = "none" /\ entry' = Nothing
<1>1. faulted' \in BOOLEAN
  BY FaultTyped DEF TickReturns, ServeTypes
<1>2. StartTypeOK'
  BY DEF TickReturns, L!EndTick, LogUnlessDone, StartTypeOK
<1>3. LoopTypes'
  BY DEF TickReturns, L!EndTick, LoopTypes
<1>4. WorldTypes' /\ ServeTypes' /\ call' = "none" /\ entry' = Nothing
  BY <1>1 DEF TickReturns, WorldTypes, ServeTypes, worldVars, serveVars
<1> QED
  BY <1>1, <1>2, <1>3, <1>4

LEMMA NextTypes == TypeOK /\ [Next]_vars => TypeOK'
<1> SUFFICES ASSUME StartTypeOK, LoopTypes, WorldTypes, TickTypes, WireTypes, ServeTypes,
                    [Next]_vars
             PROVE  StartTypeOK' /\ LoopTypes' /\ WorldTypes' /\ TickTypes' /\ WireTypes' /\ ServeTypes'
  BY DEF TypeOK, LoopTypes, WorldTypes, TickTypes, WireTypes, ServeTypes
<1>s. ASSUME UNCHANGED startVars PROVE StartTypeOK'
  BY <1>s DEF startVars, StartTypeOK
<1>l. ASSUME UNCHANGED loopVars PROVE LoopTypes'
  BY <1>l DEF loopVars, LoopTypes
<1>w. ASSUME UNCHANGED worldVars PROVE WorldTypes'
  BY <1>w DEF worldVars, WorldTypes
<1>t. ASSUME UNCHANGED tickVars PROVE TickTypes'
  BY <1>t DEF tickVars, TickTypes
<1>r. ASSUME UNCHANGED wireVars PROVE WireTypes'
  BY <1>r DEF wireVars, WireTypes
<1>v. ASSUME UNCHANGED <<serveVars, faulted>> PROVE ServeTypes'
  BY <1>v DEF serveVars, ServeTypes
<1>1. CASE Start
  <2>1. serve' \in {"serving", "off"} /\ listener' \in {"opening", "off"}
    BY <1>1 DEF Start
  <2>2. faulted' \in BOOLEAN
    BY <1>1, Zenon DEF Start, ServeTypes
  <2>3. StartTypeOK'
    BY <1>1, StartTypes DEF Start
  <2>4. ServeTypes'
    BY <2>1, <2>2 DEF ServeTypes
  <2> QED
    BY <1>1, <2>3, <2>4, <1>l, <1>w, <1>t, <1>r DEF Start
<1>2. CASE ListEmpty \/ ListFails \/ PostRejected
  <2>1. PICK failed \in BOOLEAN : TickReturns(failed)
    BY <1>2 DEF ListEmpty, ListFails, PostRejected
  <2>2. acked' = acked /\ UNCHANGED wireVars
    BY <1>2 DEF ListEmpty, ListFails, PostRejected
  <2>3. TickTypes'
    BY <2>1, <2>2, TickReturnsTyped DEF TickTypes
  <2> QED
    BY <2>1, <2>2, <2>3, TickReturnsTyped, <1>r
<1>3. CASE BeginTick \/ PodsRead
  <2>1. call' \in {"list", "post"} /\ UNCHANGED <<entry, acked>>
    BY <1>3 DEF BeginTick, PodsRead, Waits
  <2>2. (call = "none" /\ call' = "list") \/ (call = "pods" /\ call' = "post")
    BY <1>3 DEF BeginTick, PodsRead, Waits, Ticking
  <2>3. entry' \in (IF call' \in {"pods", "post"} THEN Heartbeats \ {Nothing} ELSE {Nothing})
    BY <2>1, <2>2 DEF TickTypes
  <2>4. TickTypes'
    BY <2>1, <2>3 DEF TickTypes, Heartbeats
  <2>5. UNCHANGED <<startVars, loopVars, worldVars, wireVars, serveVars, faulted>>
    BY <1>3 DEF BeginTick, PodsRead, Waits
  <2> QED
    BY <2>5, <2>4, <1>s, <1>l, <1>w, <1>r, <1>v
<1>4. CASE ListFound
  <2>1. entry' = MapDeployment(cluster) /\ call' = "pods" /\ acked' = acked
    BY <1>4 DEF ListFound, Waits
  <2>2. MapDeployment(cluster) \in Heartbeats \ {Nothing}
    BY <1>4, NothingAssumption DEF ListFound, WorldTypes, Heartbeats
  <2>3. TickTypes'
    BY <2>1, <2>2 DEF TickTypes
  <2>4. UNCHANGED <<startVars, loopVars, worldVars, wireVars, serveVars, faulted>>
    BY <1>4 DEF ListFound, Waits
  <2> QED
    BY <2>3, <2>4, <1>s, <1>l, <1>w, <1>r, <1>v
<1>5. CASE PostAccepted
  <2>1. TickReturns(FALSE) /\ stored' = entry /\ acked' = entry /\ late' = late /\ call = "post"
    BY <1>5 DEF PostAccepted, Ticking
  <2>2. TickTypes' /\ WireTypes'
    BY <2>1, TickReturnsTyped DEF TickTypes, WireTypes
  <2> QED
    BY <2>1, <2>2, TickReturnsTyped
<1>6. CASE PostAbandoned
  <2>1. /\ TickReturns(TRUE) /\ late' = late \cup {entry} /\ call = "post"
        /\ UNCHANGED <<acked, stored>>
    BY <1>6 DEF PostAbandoned, Ticking
  <2>2. TickTypes' /\ WireTypes'
    BY <2>1, TickReturnsTyped DEF TickTypes, WireTypes
  <2> QED
    BY <2>1, <2>2, TickReturnsTyped
<1>7. CASE TakeTick \/ Done
  <2>1. LoopTypes' /\ once' = once
    BY <1>7 DEF TakeTick, Done, L!NextTick, L!Stop, LoopTypes
  <2>2. StartTypeOK'
    BY <1>7, <2>1 DEF TakeTick, Done, StartTypeOK
  <2>3. UNCHANGED <<worldVars, tickVars, wireVars, serveVars, faulted>>
    BY <1>7 DEF TakeTick, Done
  <2> QED
    BY <2>1, <2>2, <2>3, <1>w, <1>t, <1>r, <1>v
<1>8. CASE Exit
  <2>1. StartTypeOK'
    BY <1>8 DEF Exit, StartTypeOK, LoopTypes
  <2> QED
    BY <1>8, <2>1, <1>l, <1>w, <1>t, <1>r, <1>v DEF Exit
<1>9. CASE ListenOpens \/ ListenFails \/ ServeCloses \/ ServeReturns
  <2>1. faulted' \in BOOLEAN
    BY <1>9, FaultTyped DEF ListenOpens, ListenFails, ServeCloses, ServeReturns, ServeTypes
  <2>2. ServeTypes'
    BY <1>9, <2>1 DEF ListenOpens, ListenFails, ServeCloses, ServeReturns, ServeTypes
  <2>3. UNCHANGED <<startVars, loopVars, worldVars, tickVars, wireVars>>
    BY <1>9 DEF ListenOpens, ListenFails, ServeCloses, ServeReturns
  <2> QED
    BY <2>2, <2>3, <1>s, <1>l, <1>w, <1>t, <1>r
<1>10. CASE ServeFails
  <2>1. UNCHANGED <<loopVars, worldVars, tickVars, wireVars>>
    BY <1>10 DEF ServeFails, loopVars
  <2>2. StartTypeOK' /\ ServeTypes'
    BY <1>10 DEF ServeFails, LogUnlessDone, StartTypeOK, ServeTypes
  <2> QED
    BY <2>1, <2>2, <1>l, <1>w, <1>t, <1>r
<1>11. CASE Network
  <2>1. WireTypes'
    BY <1>11 DEF Network, LateArrives, LateLost, WireTypes
  <2>2. UNCHANGED <<startVars, loopVars, worldVars, tickVars, serveVars, faulted>>
    BY <1>11 DEF Network, LateArrives, LateLost
  <2> QED
    BY <2>1, <2>2, <1>s, <1>l, <1>w, <1>t, <1>v
<1>12. CASE WorldChanges
  <2>1. WorldTypes'
    BY <1>12 DEF WorldChanges, WorldTypes
  <2> QED
    BY <1>12, <2>1, <1>s, <1>l, <1>t, <1>r, <1>v DEF WorldChanges
<1>13. CASE Signal
  <2>1. LoopTypes'
    BY <1>13 DEF Signal, L!Signal, LoopTypes
  <2> QED
    BY <1>13, <2>1, <1>s, <1>w, <1>t, <1>r, <1>v DEF Signal
<1>14. CASE UNCHANGED vars
  BY <1>14, <1>s, <1>l, <1>w, <1>t, <1>r, <1>v DEF vars
<1> QED
  BY <1>1, <1>2, <1>3, <1>4, <1>5, <1>6, <1>7, <1>8, <1>9, <1>10, <1>11, <1>12, <1>13, <1>14
     DEF Next, Tick, Server

(* The process keeps its types, and has a heartbeat in hand exactly while it
   reads pods or posts. *)
THEOREM TypeCorrect == Spec => []TypeOK
<1>1. Init => TypeOK
  BY DEF Init, StartInit, L!Init, TypeOK, StartTypeOK, NoConfig, Heartbeats
<1> QED
  BY <1>1, NextTypes, PTL DEF Spec
=============================================================================
