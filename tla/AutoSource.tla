----------------------------- MODULE AutoSource -----------------------------
(***************************************************************************)
(* internal/agent/source.go: the composite resource source of mode "auto"  *)
(* (autoSource) over the metrics-server source (metricsServerSource).  One *)
(* action per pod-metrics read, because every target is read on its own    *)
(* and the API may come or go between two reads of one tick.  The          *)
(* exposition behind the composite is its outcome here; module             *)
(* ExpositionSource models it.                                             *)
(*                                                                         *)
(* The cooldown compares two wall-clock readings (UnixNano drops Go's      *)
(* monotonic reading), so age, the difference of the two, grows as time    *)
(* passes and shrinks when the wall clock is set back.                     *)
(***************************************************************************)
EXTENDS Integers, FiniteSets

CONSTANTS Slugs,      \* services of the cluster
          Cooldown,   \* autoRetryInterval, in units of the model's clock
          MaxSlips    \* bound: how often the wall clock is set back

ASSUME CooldownAssumption == Cooldown \in Nat \ {0}
ASSUME MaxSlipsAssumption == MaxSlips \in Nat

VARIABLES api,        \* metrics.k8s.io: "up", or "failing" in any way
          age,        \* clock() - switchedAt, capped at Cooldown
          slips,      \* how often the wall clock was set back
          switched,   \* autoSource.switched
          warned,     \* metricsServerSource.warned
          pc,         \* where Samples is: idle, read, unavailable, fallback
          todo,       \* targets still to be read
          attempted, answered, err,  \* locals of metricsServerSource.Samples
          out,        \* the services the last Samples returned values for
          served,     \* which source answered the last call (history)
          lines       \* "API not available" lines of this outage (history)

clockVars == <<age, slips>>
callVars  == <<pc, todo, attempted, answered, err, out>>
vars == <<api, age, slips, switched, warned, pc, todo, attempted, answered, err, out, served, lines>>

Sources == {"metrics-server", "exposition"}

(* autoSource.Name: what Collect puts on the resource_source gauge. *)
Name == IF switched THEN "exposition" ELSE "metrics-server"

(* A switchedAt of zero, before any failed probe, counts as due. *)
DueForRetry == age >= Cooldown

Init ==
  /\ api \in {"up", "failing"}
  /\ age = Cooldown /\ slips = 0
  /\ switched = FALSE /\ warned = FALSE
  /\ pc = "idle" /\ todo = {}
  /\ attempted = FALSE /\ answered = FALSE /\ err = "none"
  /\ out = {} /\ served = "nobody" /\ lines = 0

-----------------------------------------------------------------------------
(* The cluster and the clock. *)
ApiChanges ==
  /\ api' \in {"up", "failing"} \ {api}
  /\ UNCHANGED <<clockVars, switched, warned, callVars, served, lines>>

(* Time passes; past the cooldown the age no longer matters and is not counted
   on, so being set back from there may or may not re-open the cooldown. *)
Elapse ==
  /\ age < Cooldown
  /\ age' = age + 1
  /\ UNCHANGED <<api, slips, switched, warned, callVars, served, lines>>

ClockSetBack ==
  /\ slips < MaxSlips
  /\ slips' = slips + 1
  /\ age' = age - 1
  /\ UNCHANGED <<api, switched, warned, callVars, served, lines>>

-----------------------------------------------------------------------------
StayUntil(since) ==
  /\ pc = "idle"
  /\ switched /\ ~DueForRetry
  /\ pc' = "fallback"
  /\ age' = since
  /\ UNCHANGED <<api, slips, switched, warned, todo, attempted, answered, err, out, served, lines>>

(* A slip: the cooldown restarted by every tick the fallback serves. *)
StayOnFallbackRestarting == StayUntil(0)

(* Samples while the cooldown runs: the primary is not asked. *)
StayOnFallback == StayUntil(age)

(* Otherwise metricsServerSource.Samples begins.  Targets without a selector
   are skipped, so a call for none but those reads nothing. *)
ReadPrimary(targets) ==
  /\ pc = "idle"
  /\ ~switched \/ DueForRetry
  /\ pc' = "read"
  /\ todo' = targets
  /\ attempted' = FALSE /\ answered' = FALSE /\ err' = "none"
  /\ out' = {}
  /\ UNCHANGED <<api, clockVars, switched, warned, served, lines>>

Answered(t, available, latch) ==
  /\ pc = "read" /\ t \in todo
  /\ todo' = todo \ {t}
  /\ attempted' = TRUE /\ answered' = TRUE
  /\ out' = IF available THEN out \cup {t} ELSE out
  /\ warned' = latch
  /\ UNCHANGED <<api, clockVars, switched, pc, err, served, lines>>

(* A slip: the latch re-armed by each answered target instead of by the
   whole call. *)
ReadAnsweredRearming(t, available) == Answered(t, available, FALSE)

(* PodMetricsForSelector without an error; an empty list is an answer that
   carries no values. *)
ReadAnswered(t, available) == Answered(t, available, warned)

(* Any error but an absent API skips this one target. *)
ReadFailed(t) ==
  /\ pc = "read" /\ t \in todo
  /\ api = "failing"
  /\ todo' = todo \ {t}
  /\ attempted' = TRUE
  /\ UNCHANGED <<api, clockVars, switched, warned, pc, answered, err, out, served, lines>>

(* An absent API ends the call at once and is logged by whoever sets the
   latch: return nil, ErrMetricsAPIUnavailable. *)
ReadMissing(t) ==
  /\ pc = "read" /\ t \in todo
  /\ api = "failing"
  /\ todo' = {}
  /\ attempted' = TRUE
  /\ lines' = IF warned THEN lines ELSE lines + 1
  /\ warned' = TRUE
  /\ out' = {}
  /\ err' = "apiUnavailable"
  /\ pc' = "unavailable"
  /\ UNCHANGED <<api, clockVars, switched, answered, served>>

(* The end of the loop: an answered call ends the outage. *)
EndOfReads ==
  /\ pc = "read" /\ todo = {}
  /\ warned' = (warned /\ ~answered)
  /\ lines' = IF answered THEN 0 ELSE lines
  /\ UNCHANGED <<api, clockVars, todo, attempted, answered>>

NoneAnswered == EndOfReads /\ attempted /\ ~answered

(* A slip: a call in which no read succeeded taken for a healthy one. *)
AllReadsFailedIgnored ==
  /\ NoneAnswered
  /\ switched' = FALSE /\ served' = "metrics-server" /\ pc' = "idle"
  /\ UNCHANGED <<err, out>>

(* A slip: an error that does not wrap ErrSourceUnavailable, so the composite
   hands it on. *)
AllReadsFailedUnwrapped ==
  /\ NoneAnswered
  /\ err' = "notWrapped" /\ out' = {} /\ pc' = "idle"
  /\ UNCHANGED <<switched, served>>

AllReadsFailed ==
  /\ NoneAnswered
  /\ err' = "readsAllFailed" /\ out' = {} /\ pc' = "unavailable"
  /\ UNCHANGED <<switched, served>>

PrimaryAnswers(still) ==
  /\ EndOfReads
  /\ ~(attempted /\ ~answered)
  /\ switched' = still
  /\ served' = "metrics-server"
  /\ pc' = "idle"
  /\ UNCHANGED <<err, out>>

(* A slip: the answer returned without clearing switched. *)
PrimaryServesStillSwitched == PrimaryAnswers(switched)

(* metricsServerSource returned without an error: the composite is back on, or
   still on, its primary. *)
PrimaryServes == PrimaryAnswers(FALSE)

(* Either error wraps ErrSourceUnavailable: stamp the probe, switch, and ask
   the fallback. *)
SwitchToFallback ==
  /\ pc = "unavailable"
  /\ age' = 0
  /\ switched' = TRUE
  /\ pc' = "fallback"
  /\ UNCHANGED <<api, slips, warned, todo, attempted, answered, err, out, served, lines>>

(* fallback.Samples returns values for some services, or fails and returns
   none. *)
FallbackServes(S) ==
  /\ pc = "fallback"
  /\ out' = S
  /\ served' = "exposition"
  /\ pc' = "idle"
  /\ UNCHANGED <<api, clockVars, switched, warned, todo, attempted, answered, err, lines>>

Start == StayOnFallback \/ \E T \in SUBSET Slugs : ReadPrimary(T)

Continue ==
  \/ \E t \in Slugs : \/ \E available \in BOOLEAN : ReadAnswered(t, available)
                      \/ ReadFailed(t)
                      \/ ReadMissing(t)
  \/ AllReadsFailed \/ PrimaryServes \/ SwitchToFallback
  \/ \E S \in SUBSET Slugs : FallbackServes(S)

Next == Start \/ Continue \/ ApiChanges \/ Elapse \/ ClockSetBack

Spec == Init /\ [][Next]_vars

(* The heartbeat loop ticks for as long as the process runs, a call it began is
   carried to its end, and time passes. *)
FairSpec == Spec /\ WF_vars(Start) /\ WF_vars(Continue) /\ WF_vars(Elapse)

-----------------------------------------------------------------------------
TypeOK ==
  /\ api \in {"up", "failing"}
  /\ age \in Int /\ age <= Cooldown
  /\ slips \in 0..MaxSlips
  /\ switched \in BOOLEAN /\ warned \in BOOLEAN
  /\ pc \in {"idle", "read", "unavailable", "fallback"}
  /\ todo \subseteq Slugs /\ out \subseteq Slugs
  /\ attempted \in BOOLEAN /\ answered \in BOOLEAN
  /\ err \in {"none", "apiUnavailable", "readsAllFailed"}
  /\ served \in Sources \cup {"nobody"}
  /\ lines \in Nat

(* SetResourceSource "records which source served the last tick": between two
   calls Name() is the source the last one was answered from, across every
   switch and every return (source.go, Name and Samples). *)
NameTellsWhoServed == pc = "idle" /\ served # "nobody" => Name = served

(* "a primary that answered nothing served nothing": a tick is never put down
   to metrics-server when it made reads and all of them failed. *)
PrimaryServedMeansAnswered ==
  pc = "idle" /\ served = "metrics-server" => answered \/ ~attempted

(* The warning is "logged once per OUTAGE rather than once per tick": never
   twice before a call in which some read answered and none found the API
   absent, and always once a read has found it absent. *)
OneLinePerOutage ==
  /\ lines <= 1
  /\ pc = "unavailable" /\ err = "apiUnavailable" => lines = 1

(* "Re-probing on a cooldown keeps that recovery": once metrics.k8s.io answers
   for good the agent is back on it and stays there, without a restart. *)
ReturnsToPrimary == <>[](api = "up") => <>[](Name = "metrics-server")
=============================================================================
