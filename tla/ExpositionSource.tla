-------------------------- MODULE ExpositionSource --------------------------
(***************************************************************************)
(* internal/agent/exposition.go: one call of expositionSource.Samples per  *)
(* action, over the rater that module Rater specifies.  A scrape offers    *)
(* each role one family (what Resolver.Select picked) or none; its rows    *)
(* are attributed to services, counters are rated, and each role is        *)
(* reduced to one sample per service.                                      *)
(*                                                                         *)
(* A row is its fingerprint.  Its labels say what it is looked up by, its  *)
(* key: a slug label, or a pod.  A tick's index holds a key or does not,   *)
(* row by row: the pods are listed before the scrape, so a pod may be      *)
(* missing from it while the rest of its service is there.  A sample is    *)
(* the set of rows it is the sum of.  The warnings are latched per role,   *)
(* so the latches are one set of pairs.                                    *)
(***************************************************************************)
EXTENDS Filtering, FiniteSets

CONSTANTS Slugs, Nobody,           \* services, and a non-service
          CpuRows, MemoryRows,     \* fingerprints a peer may expose
          Keys,                    \* what rows are looked up by: slug labels, pods
          Key,                     \* row -> its key
          Leads,                   \* key -> the service it belongs to, or Nobody
          CpuKinds, MemoryKinds,   \* bound: kinds of family a peer may offer
          Ambiguity,               \* bound: whether a selection may be Ambiguous
          HugeSums,                \* bound: services whose sum may be infinite
          Values, Times, Ceiling, MaxRows   \* as in Rater

ASSUME RowsAssumption ==
  /\ IsFiniteSet(CpuRows) /\ IsFiniteSet(MemoryRows)
  /\ CpuRows \cap MemoryRows = {}
  /\ Key \in [CpuRows \cup MemoryRows -> Keys]
  /\ Leads \in [Keys -> Slugs \cup {Nobody}]
  /\ Nobody \notin Slugs
  /\ 0 \in Values /\ 0 \in Times /\ Times \subseteq Nat
  /\ CpuKinds \cup MemoryKinds \subseteq {"gauge", "counter"}
  /\ HugeSums \subseteq SUBSET Slugs
  /\ MaxRows \in Nat /\ Cardinality(CpuRows) <= MaxRows

VARIABLES prev, rated, reported, lastAt,   \* the rater
          latched,    \* the warn latches that are set: <<condition, role>>
          withheld,   \* cpuWithheld, memoryWithheld: the set last reported
          gauge,      \* resource_roles_withheld
          said,       \* the lines the last call logged
          out,        \* the samples the last call returned
          told,       \* what log and gauge have told of services withheld (history)
          tick        \* what the last call saw (history)

raterVars == <<prev, rated, reported, lastAt>>
vars == <<prev, rated, reported, lastAt, latched, withheld, gauge, said, out, told, tick>>

Fingerprints == CpuRows
R == INSTANCE Rater

Roles == {"cpu", "memory"}
RowsOf(r) == IF r = "cpu" THEN CpuRows ELSE MemoryRows

Owner == [f \in CpuRows \cup MemoryRows |-> Leads[Key[f]]]

(* The rows of F that lead to service s by the keys an index holds. *)
LedTo(F, s, found) == {f \in F : Owner[f] = s /\ Key[f] \in found}

-----------------------------------------------------------------------------
(* The inputs.  Only a counter's values matter: gauges are all zero here. *)
Absent == [kind |-> "absent", rows |-> R!NoEntries, ambiguous |-> FALSE, huge |-> {}]

Counters(F) == UNION {[S -> Values] : S \in SUBSET F}
Gauges(F)   == {[f \in S |-> 0] : S \in SUBSET F}

(* A pod is only ever ambiguous next to container rows that are summable; a sum
   is only ever infinite over rows that are summed.  Of a family that is refused
   no row is looked at, so one with all its rows stands for each. *)
FamiliesOf(r, kinds) ==
  {Absent} \cup
  {x \in [kind : kinds \cap {"gauge"}, rows : Gauges(RowsOf(r)), ambiguous : Ambiguity,
          huge : HugeSums]
         \cup [kind : kinds \cap {"counter"}, ambiguous : Ambiguity, huge : HugeSums,
               rows : IF r = "cpu" THEN Counters(CpuRows) ELSE Gauges(MemoryRows)] :
     /\ x.ambiguous => DOMAIN x.rows # {}
     /\ x.huge \subseteq {Owner[f] : f \in DOMAIN x.rows}
     /\ r = "memory" /\ x.kind = "counter" =>
          x.huge = {} /\ ~x.ambiguous /\ DOMAIN x.rows = MemoryRows}

Expositions == [cpu : FamiliesOf("cpu", CpuKinds), memory : FamiliesOf("memory", MemoryKinds)]

(* The rows handed to Observe, in the order the peer writes its series. *)
PeerOrder ==
  CHOOSE s \in [1..Cardinality(CpuRows) -> CpuRows] : \A f \in CpuRows : \E j \in DOMAIN s : s[j] = f

AsRows(m) ==
  LET fps == Subsequence(PeerOrder, {j \in DOMAIN PeerOrder : PeerOrder[j] \in DOMAIN m})
  IN  [j \in 1..Len(fps) |-> [fp |-> fps[j], value |-> m[fps[j]]]]

-----------------------------------------------------------------------------
Resolved(e) == {r \in Roles : e[r].kind # "absent"}

(* Selection.Rateable: only CPU may be differenced. *)
Rateable(e, r) == e[r].kind = "counter" /\ r = "cpu"

Unrateable(e, r) == e[r].kind = "counter" /\ ~Rateable(e, r)

(* The roles whose rows are summed at all. *)
Reduced(e) == {r \in Resolved(e) : ~Unrateable(e, r)}

(* What the rows of a scrape look up that newSlugIndex could hold: the slugs of
   the targets, and such of their pods as were listed. *)
Lookups(e) ==
  {k \in Keys : Leads[k] # Nobody /\ \E r \in Reduced(e) : \E f \in DOMAIN e[r].rows : Key[f] = k}

(* slugIndex.resolve, row by row; a row that leads nowhere is dropped alone. *)
Attributed(e, r, found) == {f \in DOMAIN e[r].rows : Key[f] \in found}

(* Rows with a value to add: those the rater answered for, or any gauge row. *)
Valued(e, r, found, rates) ==
  {f \in Attributed(e, r, found) : Rateable(e, r) => f \in DOMAIN rates}

OwnersOf(F) == {Owner[f] : f \in F}

Sample(r, s, valued) == [role |-> r, slug |-> s, rows |-> {f \in valued : Owner[f] = s}]

(* A slip: whatever was rated is summed, complete or not. *)
SamplesOfPartial(r, attributed, valued) ==
  {Sample(r, s, valued) : s \in OwnersOf(valued)}

(* A slip: every tracked service that is not incomplete gets a sample, a zero
   where the scrape had no row of it. *)
SamplesOfEvery(r, attributed, valued) ==
  {Sample(r, s, valued) : s \in Slugs \ OwnersOf(attributed \ valued)}

(* "A counter selection is all-or-nothing per service": incomplete services
   are left out. *)
SamplesOf(r, attributed, valued) ==
  {Sample(r, s, valued) : s \in OwnersOf(valued) \ OwnersOf(attributed \ valued)}

-----------------------------------------------------------------------------
(* Which latches a call looks at, and which conditions it finds. *)
Evaluated(e) ==
  {<<"unmatched", "any">>}
  \cup {<<"unresolved", r>> : r \in Roles}
  \cup {<<"unrateable", r>> : r \in Resolved(e)}
  \cup {<<c, r>> : c \in {"allDropped", "ambiguous"}, r \in Reduced(e)}
  \cup (IF Rateable(e, "cpu") THEN {<<"raterFull", "any">>} ELSE {})

(* Some rows were dropped and none contributed. *)
NothingContributed(e, attributed, valued) ==
  {r \in Reduced(e) : attributed[r] # DOMAIN e[r].rows /\ valued[r] = {}}

(* What is found in the families there are.  (Alone it is a slip: a role the
   exposition never supplied would go unmentioned while the other resolves.) *)
FoundInFamilies(e, attributed, valued, refused) ==
  (IF Resolved(e) = {} THEN {<<"unmatched", "any">>} ELSE {})
  \cup {<<"unrateable", r>> : r \in {r \in Roles : Unrateable(e, r)}}
  \cup {<<"allDropped", r>> : r \in NothingContributed(e, attributed, valued)}
  \cup {<<"ambiguous", r>> : r \in {r \in Reduced(e) : e[r].ambiguous}}
  \cup (IF Rateable(e, "cpu") /\ refused THEN {<<"raterFull", "any">>} ELSE {})

Found(e, attributed, valued, refused) ==
  FoundInFamilies(e, attributed, valued, refused)
  \cup {<<"unresolved", r>> : r \in Roles \ Resolved(e)}

(* A slip: the withheld report kept as a flag, set until nothing is withheld. *)
ReportFlagged(r, now, first) ==
  IF now = {} THEN {} ELSE IF first \/ withheld[r] # {} THEN withheld[r] ELSE now

(* reportWithheld: the slot holds the set last named, and is emptied by a tick
   that withholds nothing; the first observation is not reported. *)
Report(r, now, first) ==
  IF now = {} THEN {} ELSE IF first THEN withheld[r] ELSE now

(* A slip: the gauge set past the test for an empty set. *)
GaugeKept(r, now) == IF now = {} THEN gauge[r] ELSE Cardinality(now)

(* SetRolesWithheld, first observation or not. *)
Gauge(r, now) == Cardinality(now)

(* A line names the services withheld; a gauge at 0 takes it back. *)
Told(r, held) ==
  IF gauge'[r] = 0 THEN {} ELSE IF <<"withheld", r>> \in said' THEN held ELSE told[r]

-----------------------------------------------------------------------------
Init ==
  /\ R!Init
  /\ latched = {}
  /\ withheld = [r \in Roles |-> {}]
  /\ gauge = [r \in Roles |-> 0]
  /\ said = {}
  /\ out = {}
  /\ told = [r \in Roles |-> {}]
  /\ tick = [ok |-> FALSE, first |-> FALSE, found |-> {}, exposed |-> [r \in Roles |-> {}],
             kind |-> [r \in Roles |-> "absent"], held |-> [r \in Roles |-> {}],
             seen |-> R!NoEntries]

(* What a call meets: a scrape, and the keys of its rows that the index holds. *)
Calls == UNION {{<<e, found>> : found \in SUBSET Lookups(e)} : e \in Expositions}

(* Fetch returned an error: no state but the scrape counter is touched. *)
FetchFails ==
  /\ out' = {}
  /\ said' = {}
  /\ tick' = [tick EXCEPT !.ok = FALSE, !.exposed = [r \in Roles |-> {}],
                          !.held = [r \in Roles |-> {}]]
  /\ UNCHANGED <<raterVars, latched, withheld, gauge, told>>

(* One Observe of these rows: it satisfies R!Observe, and is what TLC computes. *)
Rate(m, at) ==
  LET rows == AsRows(m)
  IN  /\ \E kept \in SUBSET DOMAIN m : /\ R!Admissible(kept, rows)
                                     /\ prev' = [f \in kept |-> [value |-> m[f], at |-> at]]
      /\ rated' = [f \in {f \in DOMAIN prev' : \E j \in DOMAIN rows :
                            rows[j].fp = f /\ R!Usable(rows, j, at)} |->
                     [delta |-> m[f] - prev[f].value, elapsed |-> at - prev[f].at]]
      /\ reported' = (DOMAIN prev' # DOMAIN m)
      /\ lastAt' = at

(* A slip: only the rows that lead to a service are handed to the rater. *)
RateCountersAttributed(e, found, at) ==
  Rate([f \in Attributed(e, "cpu", found) |-> e["cpu"].rows[f]], at)

(* rateCounters with a rateable selection: every summable row of it is handed
   to Observe in one pass, attributed or not. *)
RateCounters(e, found, at) == Rate(e["cpu"].rows, at)

(* Fetch succeeded.  Without a rateable selection the rater is not touched. *)
Scraped(e, found) ==
  /\ IF Rateable(e, "cpu")
     THEN \E at \in Times : at >= lastAt /\ RateCounters(e, found, at)
     ELSE UNCHANGED raterVars
  /\ LET first      == DOMAIN prev = {}
         attributed == [r \in Roles |-> Attributed(e, r, found)]
         valued     == [r \in Roles |-> Valued(e, r, found, rated')]
         held       == [r \in Roles |-> IF r \in Reduced(e)
                                        THEN OwnersOf(attributed[r] \ valued[r]) ELSE {}]
         conditions == Found(e, attributed, valued, reported')
         totals(r)  == SamplesOf(r, attributed[r], valued[r])
         finite(r)  == {x \in totals(r) : x.slug \notin e[r].huge}
     IN  /\ latched' = (latched \ Evaluated(e)) \cup conditions
         /\ withheld' = [r \in Roles |-> IF r \in Reduced(e) THEN Report(r, held[r], first)
                                                             ELSE withheld[r]]
         /\ gauge' = [r \in Roles |-> IF r \in Reduced(e) THEN Gauge(r, held[r]) ELSE gauge[r]]
         /\ said' = (conditions \ latched)
                    \cup {<<"nonFinite", r>> : r \in {r \in Reduced(e) : totals(r) # finite(r)}}
                    \cup {<<"withheld", r>> : r \in {r \in Roles : /\ withheld'[r] # withheld[r]
                                                                  /\ withheld'[r] # {}}}
         /\ told' = [r \in Roles |-> Told(r, held[r])]
         /\ out' = UNION {finite(r) : r \in Reduced(e)}
         /\ tick' = [ok |-> TRUE, first |-> first, found |-> found,
                     exposed |-> [r \in Roles |-> DOMAIN e[r].rows],
                     kind |-> [r \in Roles |-> e[r].kind], held |-> held,
                     seen |-> IF Rateable(e, "cpu") THEN e["cpu"].rows ELSE tick.seen]

Next ==
  \/ FetchFails
  \/ \E c \in Calls : Scraped(c[1], c[2])

Spec == Init /\ [][Next]_vars

-----------------------------------------------------------------------------
Lines == ({"unresolved", "unrateable", "allDropped", "ambiguous", "withheld",
           "nonFinite"} \X Roles)
         \cup ({"unmatched", "raterFull"} \X {"any"})

TypeOK ==
  /\ DOMAIN prev \subseteq CpuRows /\ DOMAIN rated \subseteq DOMAIN prev
  /\ reported \in BOOLEAN /\ lastAt \in Times
  /\ latched \subseteq Lines /\ said \subseteq Lines
  /\ withheld \in [Roles -> SUBSET Slugs] /\ told \in [Roles -> SUBSET Slugs]
  /\ gauge \in [Roles -> Nat]
  /\ \A x \in out : x.role \in Roles /\ x.slug \in Slugs /\ x.rows # {}

(* "A service therefore reports no CPU until every one of its pods has been seen
   twice": a sample is the sum of every row of its service that was looked up
   with success, none left out for want of a rate; and a rated one is of rows
   that were all in the scrape rated before, at an earlier time, and have not
   been reset since, whatever failed, vanished or was refused in between.  (Rows
   whose labels lead nowhere are not part of it: rateCounters, reduce.) *)
WholeAndSeenTwice ==
  [][\A x \in out' :
       LET mine == LedTo(tick'.exposed[x.role], x.slug, tick'.found)
       IN  /\ x.rows = mine
           /\ tick'.kind[x.role] = "counter" =>
                /\ lastAt' > lastAt
                /\ \A f \in mine : f \in DOMAIN tick.seen /\ tick'.seen[f] >= tick.seen[f]]_vars

(* Nothing but what the code names costs a second tick: a service whose counter
   rows, as far as they lead to it, were in the last rated scrape and are back,
   not reset, with the clock advanced and no row ever refused, gets its CPU
   sample, even if the ticks between failed, resolved no counter, or could not
   list its pods; a sum that is not finite is the one thing that withholds it
   then, and is warned of (rateCounters, reduce). *)
NoSecondTickLost ==
  [][\A s \in Slugs :
       LET mine == LedTo(DOMAIN tick'.seen, s, tick'.found)
       IN  /\ lastAt' > lastAt
           /\ mine # {}
           /\ mine \subseteq DOMAIN tick.seen
           /\ \A f \in mine : tick'.seen[f] >= tick.seen[f]
           /\ ~reported /\ ~reported'
           => \/ \E x \in out' : x.role = "cpu" /\ x.slug = s
              \/ <<"nonFinite", "cpu">> \in said']_vars

(* "Comparing the set re-arms on any change": past the first observation the
   services withheld are exactly those the last line about the role named, if
   the gauge has not read 0 since, whichever of them came and went and however
   many ticks failed or skipped the role in between; and no line repeats what
   still stands (reportWithheld). *)
WithheldToldOnce ==
  [][\A r \in Roles :
       /\ tick'.held[r] # {} /\ ~tick'.first => told'[r] = tick'.held[r]
       /\ <<"withheld", r>> \in said' => told[r] # tick'.held[r]]_vars

(* "The gauge is set on every tick" is not quite so: Samples and reduce return
   early for a role that is missing or cumulative, and leave the number of an
   earlier tick.  A number that is not that of the last successful scrape only
   ever stands beside a warning that its role has no samples (Samples, reduce,
   reportWithheld). *)
StaleGaugeExplained ==
  tick.ok =>
    \A r \in Roles :
       \/ gauge[r] = Cardinality(tick.held[r])
       \/ \E c \in {"unresolved", "unrateable"} : <<c, r>> \in latched

(* Every failure mode is per role and none is silent: when a successful scrape
   yields no sample at all for a role, although it carried rows for it or no
   family, a warning about that role stands, or is given in every tick if its
   sums are not finite, except in the first observation of a counter
   (warnRoleUnresolved, reduce). *)
NoSilentLoss ==
  tick.ok /\ ~tick.first =>
    \A r \in Roles :
       (tick.kind[r] = "absent" \/ tick.exposed[r] # {}) /\ (\A x \in out : x.role # r)
       => \/ withheld[r] # {}
          \/ <<"nonFinite", r>> \in said
          \/ \E c \in {"unresolved", "unrateable", "allDropped"} : <<c, r>> \in latched

-----------------------------------------------------------------------------
(* exposition.go: "Every row was discarded and none contributed": the warning
   that every row mapped to no tracked service is only given when it did. *)
AllDroppedMeansAllDropped ==
  \A r \in Roles :
     <<"allDropped", r>> \in said => \A f \in tick.exposed[r] : Key[f] \notin tick.found
=============================================================================
