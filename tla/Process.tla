------------------------------ MODULE Process -------------------------------
(***************************************************************************)
(* The whole process: run of cmd/zensu-monitoring-agent/main.go from its   *)
(* start-up (module Startup) to its exit, the heartbeat loop (module       *)
(* HeartbeatLoop, which Agent implements), the goroutine of metrics.Serve  *)
(* beside it, and Reporter.Send towards a Zensu that may be slow.          *)
(*                                                                         *)
(* A tick is followed for one Deployment: how it is read, what is made of  *)
(* it (MapDeployment, DeriveStatus) and what Zensu ends up knowing.  The   *)
(* reads of pods and resource samples are one call here, of which only the *)
(* time it takes matters; modules Agent, AutoSource and ExpositionSource   *)
(* say what they contribute.                                               *)
(***************************************************************************)
EXTENDS Startup, FiniteSets

CONSTANTS Workloads,   \* states the Deployment may be in
          Nothing,     \* no heartbeat: none sent, none known
          MaxLate      \* bound: abandoned POSTs still under way at one time

ASSUME MaxLateAssumption == MaxLate \in Nat

VARIABLES cancelled, phase, exit,   \* the loop
          cluster,    \* the Deployment as the API server has it
          kube,       \* the API server: "up", or "down" (it fails or hangs)
          zensu,      \* Zensu: "up", or "down" (it rejects or stays silent)
          call,       \* what the tick waits for: none, list, pods, post
          entry,      \* the heartbeat this tick is about
          acked,      \* the heartbeat last_success is about
          stored,     \* the heartbeat Zensu knows
          late,       \* POSTs given up by the agent that may still arrive
          serve,      \* Serve: off, serving, closing, returned
          listener,   \* ListenAndServe: off, opening, open, failed, closed
          faulted     \* something failed before the signal (history)

loopVars  == <<cancelled, phase, exit>>
worldVars == <<cluster, kube, zensu>>
tickVars  == <<call, entry, acked>>
wireVars  == <<stored, late>>
serveVars == <<serve, listener>>
vars == <<startVars, loopVars, worldVars, tickVars, wireVars, serveVars, faulted>>

L == INSTANCE HeartbeatLoop

-----------------------------------------------------------------------------
DeriveStatus(ready, desired) ==
  IF desired <= 0 \/ ready <= 0 THEN "down" ELSE IF ready >= desired THEN "up" ELSE "degraded"

(* A Deployment without spec.replicas, or without the annotation. *)
MapDeployment(w) ==
  LET desired == EnvOr(w.replicas, 0)
  IN  IF w.annotated
      THEN [status |-> DeriveStatus(w.ready, desired), ready |-> w.ready, desired |-> desired]
      ELSE Nothing

(* An entry is told from none. *)
ASSUME NothingAssumption == \A w \in Workloads : w.annotated => MapDeployment(w) # Nothing

Heartbeats == {MapDeployment(w) : w \in Workloads} \cup {Nothing}

Init ==
  /\ StartInit /\ L!Init
  /\ cluster \in Workloads /\ kube = "up" /\ zensu = "up"
  /\ call = "none" /\ entry = Nothing
  /\ acked = Nothing /\ stored = Nothing /\ late = {}
  /\ serve = "off" /\ listener = "off" /\ faulted = FALSE

(* A failure the signal has nothing to do with. *)
Fault == faulted' = (faulted \/ ~cancelled)

-----------------------------------------------------------------------------
(* The surroundings. *)
WorldChanges ==
  /\ \/ cluster' \in Workloads \ {cluster} /\ UNCHANGED <<kube, zensu>>
     \/ kube' \in {"up", "down"} \ {kube} /\ UNCHANGED <<cluster, zensu>>
     \/ zensu' \in {"up", "down"} \ {zensu} /\ UNCHANGED <<cluster, kube>>
  /\ UNCHANGED <<startVars, loopVars, tickVars, wireVars, serveVars, faulted>>

Signal ==
  /\ stage # "exited" /\ L!Signal
  /\ UNCHANGED <<startVars, worldVars, tickVars, wireVars, serveVars, faulted>>

(* A POST the agent gave up on is dropped, or reaches Zensu after all: it is
   stored, whatever Zensu has been told since. *)
LateArrives(h) ==
  /\ h \in late
  /\ late' = late \ {h} /\ stored' = h
  /\ UNCHANGED <<startVars, loopVars, worldVars, tickVars, serveVars, faulted>>

LateLost(h) ==
  /\ h \in late
  /\ late' = late \ {h}
  /\ UNCHANGED <<startVars, loopVars, worldVars, tickVars, stored, serveVars, faulted>>

-----------------------------------------------------------------------------
(* Start-up; the goroutine of Serve begins to listen. *)
Start ==
  /\ StartNext
  /\ serve' = IF server' THEN "serving" ELSE "off"
  /\ listener' = IF server' THEN "opening" ELSE "off"
  /\ faulted' = (faulted \/ stage' = "refused")
  /\ UNCHANGED <<loopVars, worldVars, tickVars, wireVars>>

-----------------------------------------------------------------------------
(* One tick.  A call whose context is done returns with an error. *)
Ticking(c) == stage = "running" /\ phase = "ticking" /\ call = c

(* A slip: an error logged whether or not ctx is done. *)
LogAlways(failed) == lines' = IF failed THEN lines \cup {"error"} ELSE lines

(* tickOnce, main and the goroutine of Serve: an error is logged unless ctx is
   done. *)
LogUnlessDone(failed) == lines' = IF failed /\ ~cancelled THEN lines \cup {"error"} ELSE lines

(* Tick returns to Run. *)
TickReturns(failed) ==
  /\ L!EndTick(failed)
  /\ call' = "none" /\ entry' = Nothing
  /\ LogUnlessDone(failed)
  /\ IF failed THEN Fault ELSE UNCHANGED faulted
  /\ UNCHANGED <<env, stage, cfg, source, server, status, worldVars, serveVars>>

Waits(c) ==
  /\ call' = c
  /\ UNCHANGED <<startVars, loopVars, worldVars, wireVars, serveVars, faulted>>

BeginTick == Ticking("none") /\ Waits("list") /\ UNCHANGED <<entry, acked>>

(* A slip: an entry for every Deployment that is listed. *)
ListFoundAny ==
  /\ Ticking("list") /\ kube = "up" /\ ~cancelled
  /\ entry' = MapDeployment(cluster)
  /\ Waits("pods")
  /\ UNCHANGED acked

(* ListDeployments; without an annotated workload nothing is sent. *)
ListFound ==
  /\ Ticking("list") /\ kube = "up" /\ ~cancelled
  /\ cluster.annotated
  /\ entry' = MapDeployment(cluster)
  /\ Waits("pods")
  /\ UNCHANGED acked

ListEmpty ==
  /\ Ticking("list") /\ kube = "up" /\ ~cancelled
  /\ ~cluster.annotated
  /\ TickReturns(FALSE)
  /\ UNCHANGED <<acked, wireVars>>

ListFails ==
  /\ Ticking("list") /\ (kube = "down" \/ cancelled)
  /\ TickReturns(TRUE)
  /\ UNCHANGED <<acked, wireVars>>

(* A slip: a heartbeat that was acknowledged is not sent again. *)
PodsReadUnlessSent ==
  /\ Ticking("pods")
  /\ IF entry = acked THEN TickReturns(FALSE) /\ UNCHANGED wireVars
                      ELSE Waits("post") /\ UNCHANGED entry
  /\ UNCHANGED acked

(* The reads of pods and samples; an error of theirs is not the tick's. *)
PodsRead == Ticking("pods") /\ Waits("post") /\ UNCHANGED <<entry, acked>>

(* Reporter.Send: answered below 300, and recorded as a success. *)
PostAccepted ==
  /\ Ticking("post") /\ zensu = "up" /\ ~cancelled
  /\ stored' = entry /\ acked' = entry
  /\ TickReturns(FALSE)
  /\ UNCHANGED late

(* Answered with 300 or above (no redirect is followed), or not connected. *)
PostRejected ==
  /\ Ticking("post") /\ (zensu = "down" \/ cancelled)
  /\ TickReturns(TRUE)
  /\ UNCHANGED <<acked, wireVars>>

(* The client's timeout or the signal ends the wait; the request may be on its
   way, or stored with the answer lost.  There is no retry. *)
PostAbandoned ==
  /\ Ticking("post") /\ (zensu = "down" \/ cancelled)
  /\ Cardinality(late \cup {entry}) <= MaxLate
  /\ late' = late \cup {entry}
  /\ TickReturns(TRUE)
  /\ UNCHANGED <<acked, stored>>

-----------------------------------------------------------------------------
(* The select of Run, and the end of main: every goroutine ends with it. *)
TakeTick ==
  /\ stage = "running" /\ L!NextTick
  /\ UNCHANGED <<env, stage, cfg, source, server, lines, status,
                 worldVars, tickVars, wireVars, serveVars, faulted>>

Done ==
  /\ stage = "running" /\ L!Stop
  /\ UNCHANGED <<env, stage, cfg, source, server, lines, status,
                 worldVars, tickVars, wireVars, serveVars, faulted>>

Exit ==
  /\ stage = "running" /\ phase = "stopped"
  /\ stage' = "exited" /\ status' = exit
  /\ UNCHANGED <<env, once, cfg, source, server, lines, loopVars,
                 worldVars, tickVars, wireVars, serveVars, faulted>>

-----------------------------------------------------------------------------
(* metrics.Serve and the goroutine that listens for it. *)
Serving(s) == stage = "running" /\ serve = s

ListenOpens ==
  /\ Serving("serving") /\ listener = "opening"
  /\ listener' = "open"
  /\ UNCHANGED <<startVars, loopVars, worldVars, tickVars, wireVars, serve, faulted>>

(* The address is taken, or accepting fails; the error waits in errCh. *)
ListenFails ==
  /\ Serving("serving") /\ listener \in {"opening", "open"}
  /\ listener' = "failed"
  /\ Fault
  /\ UNCHANGED <<startVars, loopVars, worldVars, tickVars, wireVars, serve>>

(* Serve returns the error to its goroutine, which ends; the loop goes on. *)
ServeFails ==
  /\ Serving("serving") /\ listener = "failed"
  /\ serve' = "returned"
  /\ LogUnlessDone(TRUE)
  /\ UNCHANGED <<env, once, stage, cfg, source, server, status, loopVars,
                 worldVars, tickVars, wireVars, listener, faulted>>

(* ctx is done: Shutdown closes the listener and waits, for 5 s at most. *)
ServeCloses ==
  /\ Serving("serving") /\ cancelled
  /\ serve' = "closing"
  /\ listener' = IF listener = "failed" THEN listener ELSE "closed"
  /\ UNCHANGED <<startVars, loopVars, worldVars, tickVars, wireVars, faulted>>

ServeReturns ==
  /\ Serving("closing")
  /\ serve' = "returned"
  /\ UNCHANGED <<startVars, loopVars, worldVars, tickVars, wireVars, listener, faulted>>

-----------------------------------------------------------------------------
Tick ==
  \/ BeginTick \/ ListFound \/ ListEmpty \/ ListFails \/ PodsRead
  \/ PostAccepted \/ PostRejected \/ PostAbandoned

Server == ListenOpens \/ ListenFails \/ ServeFails \/ ServeCloses \/ ServeReturns

Network == \E h \in late : LateArrives(h) \/ LateLost(h)

Next == Start \/ Tick \/ TakeTick \/ Done \/ Exit \/ Server \/ Network \/ WorldChanges \/ Signal

Spec == Init /\ [][Next]_vars

(* A slip: a read that is not tied to the process context. *)
EndsWithoutContext == call \in {"list", "pods"} => kube = "up"

(* What the code and its libraries bring to an end: start-up asks no one; a POST
   has a timeout; a read is answered by an API server that is up and ended by
   the signal, but may hang while the API server is down; a packet does not
   travel for ever.  The select picks at random among its ready cases. *)
Ends == call \in {"list", "pods"} => kube = "up" \/ cancelled

FairSpec ==
  /\ Spec
  /\ WF_vars(Start) /\ WF_vars(Tick /\ Ends) /\ WF_vars(TakeTick) /\ SF_vars(Done) /\ WF_vars(Exit)
  /\ WF_vars(Network)

-----------------------------------------------------------------------------
TypeOK ==
  /\ StartTypeOK
  /\ cancelled \in BOOLEAN /\ phase \in {"ticking", "waiting", "stopped"} /\ exit \in {0, 1}
  /\ cluster \in Workloads /\ kube \in {"up", "down"} /\ zensu \in {"up", "down"}
  /\ call \in {"none", "list", "pods", "post"}
  /\ entry \in (IF call \in {"pods", "post"} THEN Heartbeats \ {Nothing} ELSE {Nothing})
  /\ acked \in Heartbeats /\ stored \in Heartbeats /\ late \subseteq Heartbeats \ {Nothing}
  /\ serve \in {"off", "serving", "closing", "returned"}
  /\ listener \in {"off", "opening", "open", "failed", "closed"}
  /\ faulted \in BOOLEAN

(* "a rollout does not emit an ERROR for the request SIGTERM interrupted": in a
   process in which nothing failed before the signal, neither the request it
   interrupts, nor the metrics server it closes, nor the order in which the two
   end, causes an ERROR line or an exit status other than 0 (tickOnce, Serve's
   goroutine, run). *)
CleanRollout == ~faulted => "error" \notin lines /\ status = 0

(* A signalled process ends, in start-up as in a tick, even if the API server
   hangs and Zensu does not answer (the contexts of Collect and Send, Run). *)
ExitsWhenSignalled == cancelled ~> stage \in {"exited", "refused"}

(* Zensu comes to know what is: once the Deployment rests and both ends are
   reachable, the last thing stored is its state, for good, although abandoned
   POSTs with older states may arrive in between, unordered and unmarked
   (Tick sends every time, whatever was acknowledged; Send). *)
ZensuCatchesUp ==
  \A w \in {w \in Workloads : w.annotated} :
     /\ []~cancelled /\ <>(stage = "running" /\ ~once)
     /\ <>[](cluster = w /\ kube = "up" /\ zensu = "up")
     => <>[](stored = MapDeployment(w))
=============================================================================
