----------------------------- MODULE RaterLoops -----------------------------
(***************************************************************************)
(* Rater.Observe of internal/scrape/rate.go, one action per iteration of   *)
(* its three loops: carry the established series into the new table, admit *)
(* new ones while there is room, then difference.  The table being built   *)
(* and the method's locals are variables of their own; prev is replaced    *)
(* when the method returns.                                                *)
(***************************************************************************)
EXTENDS Rater

VARIABLES pc,       \* the loop the method is in, or "idle" between calls
          i,        \* the loop index
          rows, at, \* the argument, and the clock read on entry
          next,     \* the table being built
          out,      \* the rates computed so far
          refused   \* Rater.refused

localVars == <<pc, i, rows, at, next, out, refused>>
loopVars  == <<prev, rated, reported, lastAt, pc, i, rows, at, next, out, refused>>

Put(m, k, v) == [x \in DOMAIN m \cup {k} |-> IF x = k THEN v ELSE m[x]]

Observed(row) == [value |-> row.value, at |-> at]

Full == Cardinality(DOMAIN next) >= Ceiling

More == i <= Len(rows)

LoopInit ==
  /\ Init
  /\ pc = "idle"
  /\ i = 1
  /\ rows = << >>
  /\ at = 0
  /\ next = NoEntries
  /\ out = NoEntries
  /\ refused = FALSE

-----------------------------------------------------------------------------
(* Entry of Observe: read the clock, size nothing yet, clear refused.  The
   clock of the process never runs backwards, but may not have advanced. *)
Enter ==
  /\ pc = "idle"
  /\ \E r \in Scrapes, t \in Times :
        /\ t >= lastAt
        /\ rows' = r
        /\ at' = t
  /\ next' = NoEntries
  /\ out' = NoEntries
  /\ refused' = FALSE
  /\ i' = 1
  /\ pc' = "carry"
  /\ UNCHANGED promiseVars

(* First loop: "break" once the table is full, "continue" past a series that
   has no predecessor, otherwise carry it. *)
CarryEstablished ==
  /\ pc = "carry" /\ More /\ ~Full
  /\ rows[i].fp \in DOMAIN prev
  /\ next' = Put(next, rows[i].fp, Observed(rows[i]))
  /\ i' = i + 1
  /\ UNCHANGED <<promiseVars, pc, rows, at, out, refused>>

CarrySkip ==
  /\ pc = "carry" /\ More /\ ~Full
  /\ rows[i].fp \notin DOMAIN prev
  /\ i' = i + 1
  /\ UNCHANGED <<promiseVars, pc, rows, at, next, out, refused>>

(* A slip: the first pass dropped, so the peer's row order decides. *)
CarryDoneAtOnce ==
  /\ pc = "carry"
  /\ i' = 1
  /\ pc' = "admit"
  /\ UNCHANGED <<promiseVars, rows, at, next, out, refused>>

CarryDone ==
  /\ pc = "carry" /\ (~More \/ Full)
  /\ i' = 1
  /\ pc' = "admit"
  /\ UNCHANGED <<promiseVars, rows, at, next, out, refused>>

(* Second loop: skip what was carried, refuse what no longer fits. *)
AdmitCarried ==
  /\ pc = "admit" /\ More
  /\ rows[i].fp \in DOMAIN next
  /\ i' = i + 1
  /\ UNCHANGED <<promiseVars, pc, rows, at, next, out, refused>>

AdmitRefuse ==
  /\ pc = "admit" /\ More
  /\ rows[i].fp \notin DOMAIN next /\ Full
  /\ refused' = TRUE
  /\ i' = i + 1
  /\ UNCHANGED <<promiseVars, pc, rows, at, next, out>>

(* A slip: the ceiling compared with > instead of >=. *)
AdmitNewOffByOne ==
  /\ pc = "admit" /\ More
  /\ rows[i].fp \notin DOMAIN next /\ Cardinality(DOMAIN next) <= Ceiling
  /\ next' = Put(next, rows[i].fp, Observed(rows[i]))
  /\ i' = i + 1
  /\ UNCHANGED <<promiseVars, pc, rows, at, out, refused>>

AdmitNew ==
  /\ pc = "admit" /\ More
  /\ rows[i].fp \notin DOMAIN next /\ ~Full
  /\ next' = Put(next, rows[i].fp, Observed(rows[i]))
  /\ i' = i + 1
  /\ UNCHANGED <<promiseVars, pc, rows, at, out, refused>>

AdmitDone ==
  /\ pc = "admit" /\ ~More
  /\ i' = 1
  /\ pc' = "rate"
  /\ UNCHANGED <<promiseVars, rows, at, next, out, refused>>

-----------------------------------------------------------------------------
(* Third loop: a series is rated when it was admitted and has a predecessor
   that the clock and the counter have both moved on from. *)
Rateable ==
  /\ rows[i].fp \in DOMAIN next
  /\ Usable(rows, i, at)

(* A slip: a counter reset differenced like any other pair. *)
RateSeriesAcrossReset ==
  /\ pc = "rate" /\ More
  /\ rows[i].fp \in DOMAIN next
  /\ rows[i].fp \in DOMAIN prev
  /\ at > prev[rows[i].fp].at
  /\ out' = Put(out, rows[i].fp, RateOf(rows, i, at))
  /\ i' = i + 1
  /\ UNCHANGED <<promiseVars, pc, rows, at, next, refused>>

RateSeries ==
  /\ pc = "rate" /\ More
  /\ Rateable
  /\ out' = Put(out, rows[i].fp, RateOf(rows, i, at))
  /\ i' = i + 1
  /\ UNCHANGED <<promiseVars, pc, rows, at, next, refused>>

RateSkip ==
  /\ pc = "rate" /\ More
  /\ ~Rateable
  /\ i' = i + 1
  /\ UNCHANGED <<promiseVars, pc, rows, at, next, out, refused>>

(* A slip: the new table merged over the old one instead of replacing it, so
   a vanished series keeps its predecessor. *)
ReturnMerged ==
  /\ pc = "rate" /\ ~More
  /\ prev' = [f \in DOMAIN prev \cup DOMAIN next |->
                IF f \in DOMAIN next THEN next[f] ELSE prev[f]]
  /\ rated' = out
  /\ reported' = refused
  /\ lastAt' = at
  /\ pc' = "idle"
  /\ i' = 1 /\ rows' = << >> /\ at' = 0
  /\ next' = NoEntries /\ out' = NoEntries
  /\ UNCHANGED refused

(* r.prev = next; the caller then reads RefusedSeries().  The locals go out of
   scope: they return to their initial values. *)
Return ==
  /\ pc = "rate" /\ ~More
  /\ prev' = next
  /\ rated' = out
  /\ reported' = refused
  /\ lastAt' = at
  /\ pc' = "idle"
  /\ i' = 1 /\ rows' = << >> /\ at' = 0
  /\ next' = NoEntries /\ out' = NoEntries
  /\ UNCHANGED refused

Loop ==
  \/ CarryEstablished \/ CarrySkip \/ CarryDone
  \/ AdmitCarried \/ AdmitRefuse \/ AdmitNew \/ AdmitDone
  \/ RateSeries \/ RateSkip \/ Return

LoopNext == Enter \/ Loop

LoopSpec == LoopInit /\ [][LoopNext]_loopVars

-----------------------------------------------------------------------------
MapsTyped ==
  /\ IsMap(prev, Fingerprints, Observation)
  /\ IsMap(rated, Fingerprints, Rate)
  /\ IsMap(next, Fingerprints, Observation)
  /\ IsMap(out, Fingerprints, Rate)

LocalsTyped ==
  /\ reported \in BOOLEAN /\ refused \in BOOLEAN
  /\ lastAt \in Times /\ at \in Times
  /\ pc \in {"idle", "carry", "admit", "rate"}
  /\ i \in Nat \ {0}
  /\ rows \in Scrapes

(* Every map holds well-formed entries; in particular every rate ever handed
   out is a non-negative difference over a positive time. *)
LoopTypeOK == MapsTyped /\ LocalsTyped

(* "its ceiling is absolute": neither the table a call leaves behind nor the
   one it is building ever outgrows the ceiling, whatever the peer exposes
   (rate.go, the comment on Observe). *)
CeilingAbsolute ==
  /\ Cardinality(DOMAIN prev) <= Ceiling
  /\ Cardinality(DOMAIN next) <= Ceiling

(* Every remembered predecessor was seen by the call before this one, so a
   rate never spans a scrape in which its series was absent ("State for
   fingerprints absent from this scrape is dropped"). *)
PredecessorsAreConsecutive ==
  \A f \in DOMAIN prev : prev[f].at = lastAt

(* "a flood cannot displace the series that are actually reporting": a
   series that was tracked and is exposed again is still tracked when the
   call returns, however many new series came before it. *)
EstablishedSurvive ==
  [][prev' # prev => DOMAIN prev \cap FpsOf(rows) \subseteq DOMAIN prev']_loopVars
=============================================================================
