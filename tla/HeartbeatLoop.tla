--------------------------- MODULE HeartbeatLoop ----------------------------
(***************************************************************************)
(* What Agent.Run, and cmd's run around it, promise of the heartbeat loop, *)
(* without saying what a tick does: the loop goes from tick to tick until  *)
(* the process is signalled, a failed tick is fatal in one-shot mode only, *)
(* and what the signal interrupts is never a failure.  Module Agent        *)
(* implements this with the ticks of agent.go; module Process runs it      *)
(* beside the metrics server.                                              *)
(***************************************************************************)
VARIABLES once,        \* the -once flag
          cancelled,   \* ctx is done: SIGTERM or SIGINT was received
          phase,       \* "ticking", "waiting" in the select, or "stopped"
          exit         \* the exit status run's result leads to

loopVars == <<once, cancelled, phase, exit>>

Init == once \in BOOLEAN /\ cancelled = FALSE /\ phase = "ticking" /\ exit = 0

Signal ==
  /\ ~cancelled
  /\ cancelled' = TRUE
  /\ UNCHANGED <<once, phase, exit>>

(* Tick returned.  run turns a one-shot error into status 1 unless ctx is done;
   tickOnce only logs it. *)
EndTick(failed) ==
  /\ phase = "ticking"
  /\ phase' = IF once THEN "stopped" ELSE "waiting"
  /\ exit' = IF once /\ failed /\ ~cancelled THEN 1 ELSE 0
  /\ UNCHANGED <<once, cancelled>>

(* The two cases of the select. *)
NextTick ==
  /\ phase = "waiting"
  /\ phase' = "ticking"
  /\ UNCHANGED <<once, cancelled, exit>>

Stop ==
  /\ phase = "waiting" /\ cancelled
  /\ phase' = "stopped"
  /\ UNCHANGED <<once, cancelled, exit>>

Next == Signal \/ (\E failed \in BOOLEAN : EndTick(failed)) \/ NextTick \/ Stop

Spec == Init /\ [][Next]_loopVars
=============================================================================
