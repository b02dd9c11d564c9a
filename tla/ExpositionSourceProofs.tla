----------------------- MODULE ExpositionSourceProofs -----------------------
(***************************************************************************)
(* Theorems about module ExpositionSource, for any rows, services and      *)
(* kinds of family, and any sequence of scrapes.                           *)
(***************************************************************************)
EXTENDS ExpositionSource, FilteringProofs

(* What one call of Samples knows of a role: the rows that lead to a service,
   those of them with a value, the services withheld, the sums. *)
Att(e, found, r)    == Attributed(e, r, found)
Val(e, found, r)    == Valued(e, r, found, rated')
Held(e, found, r)   == IF r \in Reduced(e) THEN OwnersOf(Att(e, found, r) \ Val(e, found, r)) ELSE {}
Totals(e, found, r) == SamplesOf(r, Att(e, found, r), Val(e, found, r))
Finite(e, found, r) == {x \in Totals(e, found, r) : x.slug \notin e[r].huge}

(* The conjuncts of a successful call, role by role. *)
LEMMA ScrapedFacts ==
  ASSUME NEW e, NEW found, Scraped(e, found)
  PROVE  LET first == DOMAIN prev = {}
         IN  /\ \A r \in Roles : withheld'[r] = IF r \in Reduced(e)
                                                THEN Report(r, Held(e, found, r), first)
                                                ELSE withheld[r]
             /\ \A r \in Roles : gauge'[r] = IF r \in Reduced(e)
                                             THEN Cardinality(Held(e, found, r)) ELSE gauge[r]
             /\ \A r \in Roles : told'[r] = Told(r, Held(e, found, r))
             /\ \A r \in Reduced(e) : Totals(e, found, r) # Finite(e, found, r)
                                      => <<"nonFinite", r>> \in said'
             /\ out' = UNION {Finite(e, found, r) : r \in Reduced(e)}
             /\ tick'.ok /\ tick'.first = first
             /\ \A r \in Roles : tick'.exposed[r] = DOMAIN e[r].rows
             /\ tick'.found = found /\ \A r \in Roles : tick'.kind[r] = e[r].kind
             /\ \A r \in Roles : tick'.held[r] = Held(e, found, r)
  BY DEF Scraped, Held, Totals, Finite, Att, Val, Reduced, Resolved, Roles, Gauge

(* Which latches are set after it. *)
LEMMA ScrapedLatches ==
  ASSUME NEW e, NEW found, Scraped(e, found)
  PROVE  /\ \A r \in Roles \ Resolved(e) : <<"unresolved", r>> \in latched'
         /\ \A r \in Roles : Unrateable(e, r) => <<"unrateable", r>> \in latched'
         /\ \A r \in Reduced(e) :
              Att(e, found, r) # DOMAIN e[r].rows /\ Val(e, found, r) = {}
              => <<"allDropped", r>> \in latched'
<1> DEFINE attributed == [r \in Roles |-> Attributed(e, r, found)]
           valued == [r \in Roles |-> Valued(e, r, found, rated')]
<1>1. latched' = (latched \ Evaluated(e)) \cup Found(e, attributed, valued, reported')
  BY DEF Scraped
<1>2. \A r \in Roles : attributed[r] = Att(e, found, r) /\ valued[r] = Val(e, found, r)
  BY DEF Att, Val
<1>3. Reduced(e) \subseteq Roles
  BY DEF Reduced, Resolved
<1> HIDE DEF attributed, valued
<1>4. Found(e, attributed, valued, reported') \subseteq latched'
  BY <1>1
<1> QED
  BY <1>2, <1>3, <1>4 DEF Found, FoundInFamilies, NothingContributed

-----------------------------------------------------------------------------
LEMMA ReducedRoles == \A e : Reduced(e) \subseteq Resolved(e) /\ Resolved(e) \subseteq Roles
  BY DEF Reduced, Resolved

LEMMA CallsAre ==
  ASSUME NEW c \in Calls PROVE c[1] \in Expositions /\ c[2] \in SUBSET Lookups(c[1])
  BY DEF Calls

(* A number the call did not set is of a role that is missing or cumulative. *)
LEMMA ScrapedGauge == ASSUME NEW e, NEW found, Scraped(e, found) PROVE StaleGaugeExplained'
<1> SUFFICES ASSUME NEW r \in Roles
             PROVE  \/ gauge'[r] = Cardinality(tick'.held[r])
                    \/ \E c \in {"unresolved", "unrateable"} : <<c, r>> \in latched'
  BY DEF StaleGaugeExplained
<1>1. CASE r \in Reduced(e)
  BY <1>1, ScrapedFacts
<1>2. CASE r \notin Resolved(e)
  BY <1>2, ScrapedLatches
<1>3. CASE r \in Resolved(e) /\ Unrateable(e, r)
  BY <1>3, ScrapedLatches
<1> QED
  BY <1>1, <1>2, <1>3 DEF Reduced

LEMMA ScrapedNotSilent == ASSUME NEW e, NEW found, Scraped(e, found) PROVE NoSilentLoss'
<1> SUFFICES ASSUME ~tick'.first, NEW r \in Roles,
                    tick'.kind[r] = "absent" \/ tick'.exposed[r] # {},
                    \A x \in out' : x.role # r
             PROVE  \/ withheld'[r] # {}
                    \/ <<"nonFinite", r>> \in said'
                    \/ \E c \in {"unresolved", "unrateable", "allDropped"} : <<c, r>> \in latched'
  BY DEF NoSilentLoss
<1> DEFINE A == Att(e, found, r)
           V == Val(e, found, r)
           W == Held(e, found, r)
<1>1. CASE r \notin Resolved(e)
  BY <1>1, ScrapedLatches
<1>2. CASE r \in Resolved(e) /\ Unrateable(e, r)
  BY <1>2, ScrapedLatches
<1>3. CASE r \in Resolved(e) /\ ~Unrateable(e, r)
  <2>1. r \in Reduced(e)
    BY <1>3 DEF Reduced
  <2>2. DOMAIN e[r].rows # {}
    BY <1>3, ScrapedFacts DEF Resolved
  <2>3. W # {} => withheld'[r] = W
    BY <2>1, ScrapedFacts DEF Report
  <2>4. W = OwnersOf(A \ V) /\ V \subseteq A
    BY <2>1 DEF Held, Att, Val, Valued
  <2>5. CASE W # {}
    BY <2>3, <2>5
  <2>6. CASE W = {} /\ V = {}
    <3>1. A \ V = {}
      BY <2>4, <2>6 DEF OwnersOf
    <3>2. A # DOMAIN e[r].rows
      BY <3>1, <2>2, <2>6
    <3> QED
      BY <3>2, <2>1, <2>6, ScrapedLatches
  <2>7. CASE W = {} /\ V # {}
    <3>1. PICK s : s \in OwnersOf(V)
      BY <2>7 DEF OwnersOf
    <3>2. Sample(r, s, V) \in Totals(e, found, r) /\ Sample(r, s, V).role = r
      BY <3>1, <2>4, <2>7 DEF Totals, SamplesOf, Sample
    <3>3. Sample(r, s, V) \notin Finite(e, found, r)
      BY <3>2, <2>1, ScrapedFacts
    <3> QED
      BY <3>2, <3>3, <2>1, ScrapedFacts
  <2> QED
    BY <2>5, <2>6, <2>7
<1> QED
  BY <1>1, <1>2, <1>3

(* The record of the last call has its fields, so that a failed one clears them. *)
Fields == {"ok", "first", "found", "exposed", "kind", "held", "seen"}

CallInv ==
  /\ DOMAIN tick = Fields
  /\ StaleGaugeExplained /\ NoSilentLoss

LEMMA NextCallInv == CallInv /\ [Next]_vars => CallInv'
<1> SUFFICES ASSUME CallInv, [Next]_vars PROVE CallInv'
  OBVIOUS
<1>1. CASE FetchFails
  <2>1. out' = {} /\ tick' = [tick EXCEPT !.ok = FALSE, !.exposed = [r \in Roles |-> {}],
                                         !.held = [r \in Roles |-> {}]]
    BY <1>1 DEF FetchFails
  <2>2. DOMAIN tick' = Fields /\ tick'.ok = FALSE
    BY <2>1 DEF CallInv, Fields
  <2> QED
    BY <2>1, <2>2 DEF CallInv, StaleGaugeExplained, NoSilentLoss
<1>2. ASSUME NEW e \in Expositions, NEW found \in SUBSET Lookups(e), Scraped(e, found)
      PROVE  CallInv'
  <2>1. DOMAIN tick' = Fields
    BY <1>2 DEF Scraped, Fields
  <2> QED
    BY <1>2, <2>1, ScrapedGauge, ScrapedNotSilent DEF CallInv
<1>3. CASE UNCHANGED vars
  BY <1>3 DEF vars, CallInv, StaleGaugeExplained, NoSilentLoss
<1> QED
  BY <1>1, <1>2, <1>3, CallsAre DEF Next

LEMMA InitCallInv == Init => CallInv
<1> SUFFICES ASSUME Init PROVE CallInv
  OBVIOUS
<1>1. DOMAIN tick = Fields /\ tick.ok = FALSE /\ out = {}
  BY DEF Init, Fields
<1> QED
  BY <1>1 DEF CallInv, StaleGaugeExplained, NoSilentLoss

LEMMA CallInvHolds == Spec => []CallInv
  BY InitCallInv, NextCallInv, PTL DEF Spec

(* A withheld gauge that is out of date stands beside a warning. *)
THEOREM StaleGaugeHolds == Spec => []StaleGaugeExplained
<1>1. CallInv => StaleGaugeExplained
  BY DEF CallInv
<1> QED
  BY <1>1, CallInvHolds, PTL

(* No role is lost without a word. *)
THEOREM NoSilentLossHolds == Spec => []NoSilentLoss
<1>1. CallInv => NoSilentLoss
  BY DEF CallInv
<1> QED
  BY <1>1, CallInvHolds, PTL

-----------------------------------------------------------------------------
(* The rows handed to the rater are the series exposed, each in its place. *)
LEMMA PeerOrderIsAll ==
  /\ PeerOrder \in Seq(CpuRows) /\ IsInjective(PeerOrder)
  /\ \A f \in CpuRows : \E j \in DOMAIN PeerOrder : PeerOrder[j] = f
<1> DEFINE n == Cardinality(CpuRows)
           Orders == [1..n -> CpuRows]
           Covers(s) == \A f \in CpuRows : \E j \in DOMAIN s : s[j] = f
<1>1. n \in Nat /\ ExistsBijection(1..n, CpuRows)
  BY FS_CardinalityType, RowsAssumption
<1>2. PICK s \in Bijection(1..n, CpuRows) : TRUE
  BY <1>1 DEF ExistsBijection
<1>3. s \in Orders /\ Covers(s)
  BY <1>2 DEF Bijection, Surjection
<1>4. PeerOrder \in Orders /\ Covers(PeerOrder)
  BY <1>3 DEF PeerOrder
<1>5. IsFiniteSet(1..n) /\ Cardinality(1..n) = n
  BY <1>1, FS_Interval
<1>6. PeerOrder \in Injection(1..n, CpuRows)
  <2>1. PeerOrder \in Surjection(1..n, CpuRows)
    BY <1>4 DEF Surjection
  <2> QED
    BY <1>5, <2>1, FS_Surjection
<1>7. IsInjective(PeerOrder)
  BY <1>4, <1>6 DEF Injection, IsInjective
<1> QED
  BY <1>1, <1>4, <1>7

LEMMA RowsOfScrape ==
  ASSUME NEW m, DOMAIN m \subseteq CpuRows
  PROVE  \A f \in DOMAIN m : \E j \in DOMAIN AsRows(m) :
           AsRows(m)[j] = [fp |-> f, value |-> m[f]]
<1> DEFINE K == {j \in DOMAIN PeerOrder : PeerOrder[j] \in DOMAIN m}
           fps == Subsequence(PeerOrder, K)
<1>1. fps \in Seq(CpuRows) /\ Range(fps) = {PeerOrder[j] : j \in K \cap DOMAIN PeerOrder}
  BY PeerOrderIsAll, SubsequenceMembers
<1>2. AsRows(m) = [j \in 1..Len(fps) |-> [fp |-> fps[j], value |-> m[fps[j]]]]
  BY DEF AsRows
<1> SUFFICES ASSUME NEW f \in DOMAIN m
             PROVE  \E j \in DOMAIN AsRows(m) : AsRows(m)[j] = [fp |-> f, value |-> m[f]]
  OBVIOUS
<1>3. f \in Range(fps)
  BY <1>1, PeerOrderIsAll
<1> HIDE DEF fps
<1>4. PICK j \in 1..Len(fps) : fps[j] = f
  BY <1>1, <1>3 DEF Range
<1> QED
  BY <1>2, <1>4

LEMMA RowValues ==
  ASSUME NEW m, NEW j \in DOMAIN AsRows(m) PROVE AsRows(m)[j].value = m[AsRows(m)[j].fp]
  BY DEF AsRows

(* Of a selection that is rated, every row is a CPU row. *)
LEMMA RatedRows ==
  ASSUME NEW e \in Expositions, Rateable(e, "cpu")
  PROVE  DOMAIN e["cpu"].rows \subseteq CpuRows
<1>1. e["cpu"] \in FamiliesOf("cpu", CpuKinds) /\ e["cpu"].kind = "counter"
  BY DEF Expositions, Rateable
<1>2. e["cpu"].rows \in Counters(CpuRows)
  BY <1>1 DEF FamiliesOf, Absent
<1> QED
  BY <1>2 DEF Counters

(* What every observation does to the rater, and the series it answers for. *)
LEMMA RatedTable ==
  ASSUME NEW e, NEW found, NEW at, RateCounters(e, found, at)
  PROVE  /\ DOMAIN prev' \subseteq DOMAIN e["cpu"].rows
         /\ \A f \in DOMAIN prev' : prev'[f] = [value |-> e["cpu"].rows[f], at |-> at]
         /\ reported' \in BOOLEAN /\ (reported' <=> DOMAIN prev' # DOMAIN e["cpu"].rows)
         /\ lastAt' = at
  BY DEF RateCounters, Rate

LEMMA RatedSeries ==
  ASSUME NEW e, NEW found, NEW at, RateCounters(e, found, at)
  PROVE  LET rows == AsRows(e["cpu"].rows)
         IN  DOMAIN rated' = {f \in DOMAIN prev' : \E j \in DOMAIN rows :
                                rows[j].fp = f /\ R!Usable(rows, j, at)}
  BY DEF RateCounters, Rate

(* Every row of a role is of finitely many, so those withheld are counted. *)
LEMMA RowsFinite ==
  ASSUME NEW e \in Expositions, NEW r \in Roles
  PROVE  IsFiniteSet(DOMAIN e[r].rows) /\ DOMAIN e[r].rows \subseteq RowsOf(r)
<1> DEFINE kinds == IF r = "cpu" THEN CpuKinds ELSE MemoryKinds
<1>1. e[r] \in FamiliesOf(r, kinds)
  BY DEF Expositions, Roles
<1>2. \A x \in FamiliesOf(r, kinds) : DOMAIN x.rows \subseteq RowsOf(r)
  <2> SUFFICES ASSUME NEW x \in FamiliesOf(r, kinds) PROVE DOMAIN x.rows \subseteq RowsOf(r)
    OBVIOUS
  <2>1. CASE x = Absent
    BY <2>1 DEF Absent, R!NoEntries
  <2>2. CASE x.rows \in Gauges(RowsOf(r))
    BY <2>2 DEF Gauges
  <2>3. CASE r = "cpu" /\ x.rows \in Counters(CpuRows)
    BY <2>3 DEF Counters, RowsOf
  <2>4. CASE r = "memory" /\ x.rows \in Gauges(MemoryRows)
    BY <2>4 DEF Gauges, RowsOf
  <2> QED
    BY <2>1, <2>2, <2>3, <2>4 DEF FamiliesOf, Roles
<1>3. IsFiniteSet(RowsOf(r))
  BY RowsAssumption DEF RowsOf
<1> QED
  BY <1>1, <1>2, <1>3, FS_Subset

(* A row that is looked up with success leads to a service. *)
LEMMA FoundRowsLead ==
  ASSUME NEW e \in Expositions, NEW found \in SUBSET Lookups(e), NEW r \in Roles,
         NEW f \in Att(e, found, r)
  PROVE  Owner[f] \in Slugs
<1>1. f \in DOMAIN e[r].rows /\ Key[f] \in Lookups(e)
  BY DEF Att, Attributed
<1>2. f \in CpuRows \cup MemoryRows
  BY <1>1, RowsFinite DEF RowsOf
<1>3. Key[f] \in Keys /\ Leads[Key[f]] # Nobody
  BY <1>1 DEF Lookups
<1> QED
  BY <1>2, <1>3, RowsAssumption DEF Owner

LEMMA OwnersFinite ==
  ASSUME NEW F, IsFiniteSet(F) PROVE IsFiniteSet(OwnersOf(F))
<1> DEFINE f == [x \in F |-> Owner[x]]
<1>1. f \in Surjection(F, OwnersOf(F))
  BY DEF Surjection, OwnersOf
<1> QED
  BY <1>1, FS_Surjection

LEMMA HeldServices ==
  ASSUME NEW e \in Expositions, NEW found \in SUBSET Lookups(e), NEW r \in Roles
  PROVE  Held(e, found, r) \subseteq Slugs /\ IsFiniteSet(Held(e, found, r))
<1> DEFINE F == Att(e, found, r) \ Val(e, found, r)
<1>1. F \subseteq DOMAIN e[r].rows /\ \A f \in F : Owner[f] \in Slugs
  BY FoundRowsLead DEF Att, Attributed
<1>2. IsFiniteSet(F)
  BY <1>1, RowsFinite, FS_Subset
<1>3. OwnersOf(F) \subseteq Slugs /\ IsFiniteSet(OwnersOf(F))
  <2> HIDE DEF F
  <2> QED
    BY <1>1, <1>2, OwnersFinite DEF OwnersOf
<1>4. Held(e, found, r) = {} \/ Held(e, found, r) = OwnersOf(F)
  BY DEF Held
<1>5. IsFiniteSet({})
  BY FS_EmptySet
<1> HIDE DEF F
<1> QED
  BY <1>3, <1>4, <1>5

LEMMA HeldCounted ==
  ASSUME NEW e \in Expositions, NEW found \in SUBSET Lookups(e), NEW r \in Roles
  PROVE  /\ Cardinality(Held(e, found, r)) \in Nat
         /\ Cardinality(Held(e, found, r)) = 0 <=> Held(e, found, r) = {}
  BY HeldServices, FS_CardinalityType, FS_EmptySet

-----------------------------------------------------------------------------
LEMMA FoundLines ==
  ASSUME NEW e, NEW attributed, NEW valued, NEW refused
  PROVE  Found(e, attributed, valued, refused) \subseteq Lines
  BY ReducedRoles DEF Found, FoundInFamilies, NothingContributed, Lines, Roles

LEMMA ScrapedLines ==
  ASSUME NEW e, NEW found, Scraped(e, found), TypeOK
  PROVE  latched' \subseteq Lines /\ said' \subseteq Lines
<1> DEFINE attributed == [r \in Roles |-> Attributed(e, r, found)]
           valued == [r \in Roles |-> Valued(e, r, found, rated')]
           conditions == Found(e, attributed, valued, reported')
<1>1. conditions \subseteq Lines
  BY FoundLines
<1>2. latched' = (latched \ Evaluated(e)) \cup conditions
  BY DEF Scraped
<1>3. \A x \in said' : \/ x \in conditions \ latched
                       \/ \E r \in Roles : x = <<"nonFinite", r>> \/ x = <<"withheld", r>>
  BY ReducedRoles DEF Scraped
<1> HIDE DEF conditions
<1>4. \A r \in Roles : <<"nonFinite", r>> \in Lines /\ <<"withheld", r>> \in Lines
  BY DEF Lines
<1> QED
  BY <1>1, <1>2, <1>3, <1>4 DEF TypeOK

LEMMA ScrapedSamples ==
  ASSUME NEW e \in Expositions, NEW found \in SUBSET Lookups(e), Scraped(e, found)
  PROVE  \A x \in out' : x.role \in Roles /\ x.slug \in Slugs /\ x.rows # {}
<1> SUFFICES ASSUME NEW x \in out' PROVE x.role \in Roles /\ x.slug \in Slugs /\ x.rows # {}
  OBVIOUS
<1>1. PICK r \in Reduced(e) : x \in Finite(e, found, r)
  BY ScrapedFacts
<1> DEFINE V == Val(e, found, r)
<1>2. PICK s \in OwnersOf(V) : x = Sample(r, s, V)
  BY <1>1 DEF Finite, Totals, SamplesOf
<1>3. \A f \in V : Owner[f] \in Slugs
  BY FoundRowsLead, ReducedRoles DEF Att, Val, Valued
<1> HIDE DEF V
<1>4. PICK f \in V : Owner[f] = s
  BY <1>2 DEF OwnersOf
<1> QED
  BY <1>2, <1>3, <1>4, ReducedRoles DEF Sample

LEMMA ScrapedTyped ==
  ASSUME NEW e \in Expositions, NEW found \in SUBSET Lookups(e), Scraped(e, found), TypeOK
  PROVE  TypeOK'
<1>1. /\ DOMAIN prev' \subseteq CpuRows /\ DOMAIN rated' \subseteq DOMAIN prev'
      /\ reported' \in BOOLEAN /\ lastAt' \in Times
  <2>1. CASE Rateable(e, "cpu")
    <3>1. PICK at \in Times : RateCounters(e, found, at)
      BY <2>1 DEF Scraped
    <3> QED
      BY <2>1, <3>1, RatedTable, RatedSeries, RatedRows
  <2>2. CASE ~Rateable(e, "cpu")
    BY <2>2 DEF Scraped, raterVars, TypeOK
  <2> QED
    BY <2>1, <2>2
<1>2. withheld' \in [Roles -> SUBSET Slugs]
  <2>1. \A r \in Roles : withheld'[r] = IF r \in Reduced(e)
                                        THEN Report(r, Held(e, found, r), DOMAIN prev = {})
                                        ELSE withheld[r]
    BY ScrapedFacts
  <2>2. withheld' = [r \in Roles |-> withheld'[r]]
    BY DEF Scraped
  <2>3. ASSUME NEW r \in Roles PROVE withheld'[r] \in SUBSET Slugs
    BY <2>1, HeldServices DEF TypeOK, Report
  <2> QED
    BY <2>2, <2>3
<1>3. gauge' \in [Roles -> Nat]
  <2>1. \A r \in Roles : gauge'[r] = Cardinality(Held(e, found, r)) \/ gauge'[r] = gauge[r]
    BY ScrapedFacts
  <2>2. gauge' = [r \in Roles |-> gauge'[r]]
    BY DEF Scraped
  <2>3. ASSUME NEW r \in Roles PROVE gauge'[r] \in Nat
    BY <2>1, HeldCounted DEF TypeOK
  <2> QED
    BY <2>2, <2>3
<1>4. told' \in [Roles -> SUBSET Slugs]
  <2>1. \A r \in Roles : told'[r] = Told(r, Held(e, found, r))
    BY ScrapedFacts
  <2>2. told' = [r \in Roles |-> told'[r]]
    BY DEF Scraped
  <2>3. ASSUME NEW r \in Roles PROVE told'[r] \in SUBSET Slugs
    <3>1. Held(e, found, r) \in SUBSET Slugs /\ told[r] \in SUBSET Slugs
      BY HeldServices DEF TypeOK
    <3>2. told'[r] \in {{}, Held(e, found, r), told[r]}
      BY <2>1 DEF Told
    <3> QED
      BY <3>1, <3>2
  <2> QED
    BY <2>2, <2>3
<1> QED
  BY <1>1, <1>2, <1>3, <1>4, ScrapedLines, ScrapedSamples DEF TypeOK

LEMMA InitTyped == Init => TypeOK
<1> SUFFICES ASSUME Init PROVE TypeOK
  OBVIOUS
<1>1. DOMAIN prev = {} /\ DOMAIN rated = {} /\ reported = FALSE /\ lastAt = 0
  BY DEF Init, R!Init, R!NoEntries
<1>2. /\ latched = {} /\ said = {} /\ out = {}
      /\ withheld = [r \in Roles |-> {}] /\ told = [r \in Roles |-> {}]
      /\ gauge = [r \in Roles |-> 0]
  BY DEF Init
<1> QED
  BY <1>1, <1>2, RowsAssumption DEF TypeOK

LEMMA NextTyped == TypeOK /\ [Next]_vars => TypeOK'
<1> SUFFICES ASSUME TypeOK, [Next]_vars PROVE TypeOK'
  OBVIOUS
<1>1. CASE FetchFails
  BY <1>1 DEF FetchFails, raterVars, TypeOK
<1>2. ASSUME NEW e \in Expositions, NEW found \in SUBSET Lookups(e), Scraped(e, found)
      PROVE  TypeOK'
  BY <1>2, ScrapedTyped
<1>3. CASE UNCHANGED vars
  BY <1>3 DEF vars, TypeOK
<1> QED
  BY <1>1, <1>2, <1>3, CallsAre DEF Next

(* The state keeps its types: the rater tracks CPU series and rates tracked
   ones, the warnings are the documented ones, services withheld are services
   and are counted, and a sample names a role and a service and sums something. *)
THEOREM TypeCorrect == Spec => []TypeOK
  BY InitTyped, NextTyped, PTL DEF Spec

-----------------------------------------------------------------------------
(* The slot of a role holds what the operator has been told: the set named last,
   unless the gauge has read 0 since. *)
ToldInv ==
  \A r \in Roles : told[r] = withheld[r] /\ (gauge[r] = 0 => withheld[r] = {})

(* A line about services withheld is one that changes the slot. *)
LEMMA WithheldLine ==
  ASSUME NEW e, NEW found, Scraped(e, found), NEW r \in Roles
  PROVE  <<"withheld", r>> \in said' <=> withheld'[r] # withheld[r] /\ withheld'[r] # {}
<1> DEFINE attributed == [q \in Roles |-> Attributed(e, q, found)]
           valued == [q \in Roles |-> Valued(e, q, found, rated')]
           conditions == Found(e, attributed, valued, reported')
<1>1. <<"withheld", r>> \notin conditions
  BY DEF Found, FoundInFamilies
<1>2. \A x : x \in said' <=>
        \/ x \in conditions \ latched
        \/ \E q \in Reduced(e) : x = <<"nonFinite", q>> /\ Totals(e, found, q) # Finite(e, found, q)
        \/ \E q \in Roles : x = <<"withheld", q>> /\ withheld'[q] # withheld[q] /\ withheld'[q] # {}
  BY ReducedRoles DEF Scraped, Totals, Finite, Att, Val
<1> HIDE DEF conditions
<1> QED
  BY <1>1, <1>2

LEMMA ScrapedTold ==
  ASSUME ToldInv, NEW e \in Expositions, NEW found \in SUBSET Lookups(e), Scraped(e, found),
         NEW r \in Roles
  PROVE  /\ told'[r] = withheld'[r] /\ (gauge'[r] = 0 => withheld'[r] = {})
         /\ tick'.held[r] # {} /\ ~tick'.first => told'[r] = tick'.held[r]
         /\ <<"withheld", r>> \in said' => told[r] # tick'.held[r]
<1> DEFINE W == Held(e, found, r)
           first == DOMAIN prev = {}
<1>1. /\ withheld'[r] = IF r \in Reduced(e) THEN Report(r, W, first) ELSE withheld[r]
      /\ gauge'[r] = IF r \in Reduced(e) THEN Cardinality(W) ELSE gauge[r]
      /\ told'[r] = Told(r, W)
      /\ tick'.held[r] = W /\ tick'.first = first
  BY ScrapedFacts
<1>2. Cardinality(W) = 0 <=> W = {}
  BY HeldCounted
<1>3. r \notin Reduced(e) => W = {}
  BY DEF Held
<1>4. <<"withheld", r>> \in said' <=> withheld'[r] # withheld[r] /\ withheld'[r] # {}
  BY WithheldLine
<1>5. told[r] = withheld[r] /\ (gauge[r] = 0 => withheld[r] = {})
  BY DEF ToldInv
<1> HIDE DEF W, first
<1> QED
  BY <1>1, <1>2, <1>3, <1>4, <1>5 DEF Report, Told

LEMMA NextToldInv == ToldInv /\ [Next]_vars => ToldInv'
<1> SUFFICES ASSUME ToldInv, [Next]_vars PROVE ToldInv'
  OBVIOUS
<1>1. CASE FetchFails
  BY <1>1 DEF FetchFails, ToldInv
<1>2. ASSUME NEW e \in Expositions, NEW found \in SUBSET Lookups(e), Scraped(e, found)
      PROVE  ToldInv'
  BY <1>2, ScrapedTold DEF ToldInv
<1>3. CASE UNCHANGED vars
  BY <1>3 DEF vars, ToldInv
<1> QED
  BY <1>1, <1>2, <1>3, CallsAre DEF Next

(* The services withheld are the ones the operator was last told of, and no line
   says again what still stands, after any sequence of scrapes. *)
THEOREM WithheldHolds == Spec => WithheldToldOnce
<1> DEFINE Once ==
      \A r \in Roles :
        /\ tick'.held[r] # {} /\ ~tick'.first => told'[r] = tick'.held[r]
        /\ <<"withheld", r>> \in said' => told[r] # tick'.held[r]
<1>1. CallInv /\ ToldInv /\ [Next]_vars => [Once]_vars
  <2> SUFFICES ASSUME CallInv, ToldInv, [Next]_vars PROVE [Once]_vars
    OBVIOUS
  <2>1. CASE FetchFails
    BY <2>1 DEF FetchFails, CallInv, Fields
  <2>2. ASSUME NEW e \in Expositions, NEW found \in SUBSET Lookups(e), Scraped(e, found)
        PROVE  Once
    BY <2>2, ScrapedTold
  <2> QED
    BY <2>1, <2>2, CallsAre DEF Next
<1>2. Init => ToldInv
  BY DEF Init, ToldInv
<1> QED
  BY <1>1, <1>2, NextToldInv, CallInvHolds, PTL DEF Spec, WithheldToldOnce

-----------------------------------------------------------------------------
(* The rater remembers exactly the last scrape it was given, unless it refused
   some of it: ticks that failed or resolved no counter change neither. *)
SeenInv ==
  /\ DOMAIN tick = Fields
  /\ DOMAIN prev \subseteq DOMAIN tick.seen
  /\ ~reported => DOMAIN prev = DOMAIN tick.seen
  /\ \A f \in DOMAIN prev : prev[f] = [value |-> tick.seen[f], at |-> lastAt]

LEMMA ScrapedSeen ==
  ASSUME NEW e, NEW found, Scraped(e, found)
  PROVE  /\ DOMAIN tick' = Fields /\ tick'.found = found
         /\ IF Rateable(e, "cpu")
            THEN tick'.seen = e["cpu"].rows /\ \E at \in Times : RateCounters(e, found, at)
            ELSE tick'.seen = tick.seen /\ UNCHANGED raterVars
  BY DEF Scraped, Fields

LEMMA InitSeenInv == Init => SeenInv
<1> SUFFICES ASSUME Init PROVE SeenInv
  OBVIOUS
<1>1. DOMAIN prev = {}
  BY DEF Init, R!Init, R!NoEntries
<1>2. DOMAIN tick = Fields /\ DOMAIN tick.seen = {}
  BY DEF Init, Fields, R!NoEntries
<1> QED
  BY <1>1, <1>2 DEF SeenInv

LEMMA NextSeenInv == SeenInv /\ [Next]_vars => SeenInv'
<1> SUFFICES ASSUME SeenInv, [Next]_vars PROVE SeenInv'
  OBVIOUS
<1>1. CASE FetchFails
  <2>1. /\ tick' = [tick EXCEPT !.ok = FALSE, !.exposed = [r \in Roles |-> {}],
                                !.held = [r \in Roles |-> {}]]
        /\ UNCHANGED <<prev, reported, lastAt>>
    BY <1>1 DEF FetchFails, raterVars
  <2>2. DOMAIN tick' = Fields /\ tick'.seen = tick.seen
    BY <2>1 DEF SeenInv, Fields
  <2> QED
    BY <2>1, <2>2 DEF SeenInv
<1>2. ASSUME NEW e \in Expositions, NEW found \in SUBSET Lookups(e), Scraped(e, found)
      PROVE  SeenInv'
  <2>1. CASE Rateable(e, "cpu")
    <3>1. tick'.seen = e["cpu"].rows /\ DOMAIN tick' = Fields
      BY <1>2, <2>1, ScrapedSeen
    <3>2. PICK at : RateCounters(e, found, at)
      BY <1>2, <2>1, ScrapedSeen
    <3> QED
      BY <3>1, <3>2, RatedTable DEF SeenInv
  <2>2. CASE ~Rateable(e, "cpu")
    BY <1>2, <2>2, ScrapedSeen DEF SeenInv, raterVars
  <2> QED
    BY <2>1, <2>2
<1>3. CASE UNCHANGED vars
  BY <1>3 DEF vars, SeenInv
<1> QED
  BY <1>1, <1>2, <1>3, CallsAre DEF Next

LEMMA SeenInvHolds == Spec => []SeenInv
  BY InitSeenInv, NextSeenInv, PTL DEF Spec

(* A series with a rate was in the scrape rated before, at an earlier time and
   with a value that is not larger. *)
LEMMA RatedWasSeen ==
  ASSUME SeenInv, NEW e, NEW found, NEW at, RateCounters(e, found, at), NEW f \in DOMAIN rated'
  PROVE  /\ lastAt' > lastAt
         /\ f \in DOMAIN tick.seen /\ e["cpu"].rows[f] >= tick.seen[f]
<1> DEFINE m == e["cpu"].rows
           rows == AsRows(m)
<1>1. PICK j \in DOMAIN rows : rows[j].fp = f /\ R!Usable(rows, j, at)
  BY RatedSeries
<1>2. rows[j].value = m[f]
  BY <1>1, RowValues
<1>3. f \in DOMAIN prev /\ at > prev[f].at /\ m[f] >= prev[f].value
  BY <1>1, <1>2 DEF R!Usable
<1>4. prev[f].value = tick.seen[f] /\ prev[f].at = lastAt /\ f \in DOMAIN tick.seen
  BY <1>3 DEF SeenInv
<1>5. lastAt' = at
  BY RatedTable
<1> HIDE DEF m
<1> QED
  BY <1>3, <1>4, <1>5 DEF m

(* The rows of a sample: all of its service that were looked up with success,
   and, where they are rated, all seen before. *)
LEMMA ScrapedWhole ==
  ASSUME SeenInv, NEW e, NEW found, Scraped(e, found), NEW x \in out'
  PROVE  LET mine == LedTo(tick'.exposed[x.role], x.slug, tick'.found)
         IN  /\ x.rows = mine
             /\ tick'.kind[x.role] = "counter" =>
                  /\ lastAt' > lastAt
                  /\ \A f \in mine : f \in DOMAIN tick.seen /\ tick'.seen[f] >= tick.seen[f]
<1>1. PICK r \in Reduced(e) : x \in Finite(e, found, r)
  BY ScrapedFacts
<1>2. /\ r \in Roles /\ tick'.exposed[r] = DOMAIN e[r].rows
      /\ tick'.found = found /\ tick'.kind[r] = e[r].kind
  BY ScrapedFacts, ReducedRoles
<1> DEFINE A == Att(e, found, r)
           V == Val(e, found, r)
           mine == LedTo(DOMAIN e[r].rows, x.slug, found)
<1>3. PICK s \in OwnersOf(V) \ OwnersOf(A \ V) : x = Sample(r, s, V)
  BY <1>1 DEF Finite, Totals, SamplesOf
<1>4. x.role = r /\ x.slug = s /\ x.rows = {f \in V : Owner[f] = s}
  BY <1>3 DEF Sample
<1>5. V \subseteq A /\ A = {f \in DOMAIN e[r].rows : Key[f] \in found}
  BY DEF Att, Val, Valued, Attributed
<1>6. Rateable(e, r) => V \subseteq DOMAIN rated'
  BY DEF Val, Valued
<1> HIDE DEF A, V
<1>7. x.rows = mine /\ mine # {} /\ mine \subseteq V
  BY <1>3, <1>4, <1>5 DEF OwnersOf, LedTo
<1> HIDE DEF mine
<1>8. ASSUME e[r].kind = "counter"
      PROVE  /\ lastAt' > lastAt
             /\ \A f \in mine : f \in DOMAIN tick.seen /\ tick'.seen[f] >= tick.seen[f]
  <2>1. Rateable(e, r) /\ r = "cpu"
    BY <1>8 DEF Reduced, Unrateable, Rateable
  <2>2. PICK at : RateCounters(e, found, at)
    BY <2>1, ScrapedSeen
  <2>3. tick'.seen = e["cpu"].rows
    BY <2>1, ScrapedSeen
  <2>4. mine \subseteq DOMAIN rated'
    BY <1>6, <1>7, <2>1
  <2> QED
    BY <1>7, <2>2, <2>3, <2>4, RatedWasSeen
<1> QED
  BY <1>2, <1>4, <1>7, <1>8 DEF mine

(* A sample is whole as far as its rows lead anywhere, and a rated one is of
   series that were all seen before, after any sequence of scrapes. *)
THEOREM WholeHolds == Spec => WholeAndSeenTwice
<1> DEFINE Whole ==
      \A x \in out' :
        LET mine == LedTo(tick'.exposed[x.role], x.slug, tick'.found)
        IN  /\ x.rows = mine
            /\ tick'.kind[x.role] = "counter" =>
                 /\ lastAt' > lastAt
                 /\ \A f \in mine : f \in DOMAIN tick.seen /\ tick'.seen[f] >= tick.seen[f]
<1>1. SeenInv /\ [Next]_vars => [Whole]_vars
  <2> SUFFICES ASSUME SeenInv, [Next]_vars PROVE [Whole]_vars
    OBVIOUS
  <2>1. CASE FetchFails
    BY <2>1 DEF FetchFails
  <2>2. ASSUME NEW e, NEW found, Scraped(e, found) PROVE Whole
    BY <2>2, ScrapedWhole
  <2> QED
    BY <2>1, <2>2, CallsAre DEF Next
<1> QED
  BY <1>1, SeenInvHolds, PTL DEF Spec, WholeAndSeenTwice

LEMMA ScrapedNotLost ==
  ASSUME TypeOK, SeenInv,
         NEW e \in Expositions, NEW found \in SUBSET Lookups(e), Scraped(e, found),
         NEW s \in Slugs,
         lastAt' > lastAt,
         LedTo(DOMAIN tick'.seen, s, tick'.found) # {},
         \A f \in LedTo(DOMAIN tick'.seen, s, tick'.found) :
            f \in DOMAIN tick.seen /\ tick'.seen[f] >= tick.seen[f],
         ~reported, ~reported'
  PROVE  (\E x \in out' : x.role = "cpu" /\ x.slug = s) \/ <<"nonFinite", "cpu">> \in said'
<1> DEFINE m == e["cpu"].rows
           rows == AsRows(m)
           A == Att(e, found, "cpu")
           V == Val(e, found, "cpu")
           mine == LedTo(DOMAIN m, s, found)
<1>2. Rateable(e, "cpu")
  <2> SUFFICES ASSUME ~Rateable(e, "cpu") PROVE FALSE
    OBVIOUS
  <2>1. lastAt' = lastAt
    BY ScrapedSeen DEF raterVars
  <2>2. lastAt \in Nat
    BY RowsAssumption DEF TypeOK
  <2> QED
    BY <2>1, <2>2
<1>3. tick'.seen = m /\ LedTo(DOMAIN tick'.seen, s, tick'.found) = mine
  BY <1>2, ScrapedSeen
<1>4. PICK at : RateCounters(e, found, at)
  BY <1>2, ScrapedSeen
<1>5. /\ DOMAIN rated' = {f \in DOMAIN prev' : \E j \in DOMAIN rows :
                            rows[j].fp = f /\ R!Usable(rows, j, at)}
      /\ DOMAIN prev' = DOMAIN m /\ lastAt' = at
  BY <1>4, RatedTable, RatedSeries
<1>6. \A f \in DOMAIN m : \E j \in DOMAIN rows : rows[j] = [fp |-> f, value |-> m[f]]
  BY <1>2, RatedRows, RowsOfScrape
<1>7. "cpu" \in Reduced(e)
  BY <1>2 DEF Reduced, Resolved, Unrateable, Rateable, Roles
<1>8. /\ A = {f \in DOMAIN m : Key[f] \in found}
      /\ mine = {f \in A : Owner[f] = s}
      /\ V = {f \in A : f \in DOMAIN rated'}
  BY <1>2 DEF Att, Val, Valued, Attributed, LedTo
<1> HIDE DEF m, rows, A, V, mine
<1>9. \A f \in mine : f \in DOMAIN rated'
  <2> SUFFICES ASSUME NEW f \in mine PROVE f \in DOMAIN rated'
    OBVIOUS
  <2>m. f \in DOMAIN m
    BY <1>8
  <2>1. f \in DOMAIN tick.seen /\ m[f] >= tick.seen[f]
    BY <1>3
  <2>2. f \in DOMAIN prev /\ prev[f] = [value |-> tick.seen[f], at |-> lastAt]
    BY <2>1 DEF SeenInv
  <2>3. PICK j \in DOMAIN rows : rows[j] = [fp |-> f, value |-> m[f]]
    BY <1>6, <2>m
  <2>4. rows[j].fp = f /\ rows[j].value = m[f] /\ prev[f].value = tick.seen[f] /\ prev[f].at = lastAt
    BY <2>2, <2>3
  <2>5. R!Usable(rows, j, at)
    BY <1>5, <2>1, <2>2, <2>4 DEF R!Usable
  <2> QED
    BY <1>5, <2>m, <2>4, <2>5
<1>10. s \in OwnersOf(V) /\ s \notin OwnersOf(A \ V)
  BY <1>3, <1>8, <1>9 DEF OwnersOf
<1>11. Sample("cpu", s, V) \in Totals(e, found, "cpu")
  BY <1>10 DEF Totals, SamplesOf, A, V
<1>12. Sample("cpu", s, V).role = "cpu" /\ Sample("cpu", s, V).slug = s
  BY DEF Sample
<1>13. CASE Sample("cpu", s, V) \in Finite(e, found, "cpu")
  BY <1>7, <1>12, <1>13, ScrapedFacts
<1>14. CASE Sample("cpu", s, V) \notin Finite(e, found, "cpu")
  BY <1>7, <1>11, <1>14, ScrapedFacts
<1> QED
  BY <1>13, <1>14

(* A service whose counters are all back gets its rate, whatever happened in
   between: the table holds the last rated scrape and nothing else. *)
THEOREM NoSecondTickHolds == Spec => NoSecondTickLost
<1> DEFINE NotLost ==
      \A s \in Slugs :
        LET mine == LedTo(DOMAIN tick'.seen, s, tick'.found)
        IN  /\ lastAt' > lastAt
            /\ mine # {}
            /\ mine \subseteq DOMAIN tick.seen
            /\ \A f \in mine : tick'.seen[f] >= tick.seen[f]
            /\ ~reported /\ ~reported'
            => \/ \E x \in out' : x.role = "cpu" /\ x.slug = s
               \/ <<"nonFinite", "cpu">> \in said'
<1>1. TypeOK /\ SeenInv /\ [Next]_vars => [NotLost]_vars
  <2> SUFFICES ASSUME TypeOK, SeenInv, [Next]_vars PROVE [NotLost]_vars
    OBVIOUS
  <2>1. CASE FetchFails
    <3>1. lastAt' = lastAt
      BY <2>1 DEF FetchFails, raterVars
    <3>2. lastAt \in Nat
      BY RowsAssumption DEF TypeOK
    <3> QED
      BY <3>1, <3>2
  <2>2. ASSUME NEW e \in Expositions, NEW found \in SUBSET Lookups(e), Scraped(e, found)
        PROVE  NotLost
    BY <2>2, ScrapedNotLost
  <2> QED
    BY <2>1, <2>2, CallsAre DEF Next
<1> QED
  BY <1>1, SeenInvHolds, TypeCorrect, PTL DEF Spec, NoSecondTickLost

-----------------------------------------------------------------------------
LEMMA RatedValues ==
  ASSUME NEW e \in Expositions, Rateable(e, "cpu")
  PROVE  e["cpu"].rows \in [DOMAIN e["cpu"].rows -> Values]
<1>1. e["cpu"] \in FamiliesOf("cpu", CpuKinds) /\ e["cpu"].kind = "counter"
  BY DEF Expositions, Rateable
<1>2. e["cpu"].rows \in Counters(CpuRows)
  BY <1>1 DEF FamiliesOf, Absent
<1> QED
  BY <1>2 DEF Counters

LEMMA ScrapeWithinBound ==
  ASSUME NEW m, DOMAIN m \subseteq CpuRows, m \in [DOMAIN m -> Values]
  PROVE  AsRows(m) \in R!Scrapes
<1> DEFINE K == {j \in DOMAIN PeerOrder : PeerOrder[j] \in DOMAIN m}
           fps == Subsequence(PeerOrder, K)
<1>1. /\ fps \in Seq(CpuRows) /\ IsInjective(fps)
      /\ Range(fps) = {PeerOrder[j] : j \in K \cap DOMAIN PeerOrder}
  BY PeerOrderIsAll, SubsequenceMembers
<1>2. AsRows(m) = [j \in 1..Len(fps) |-> [fp |-> fps[j], value |-> m[fps[j]]]]
  BY DEF AsRows
<1>3. Range(fps) \subseteq DOMAIN m
  BY <1>1
<1> HIDE DEF fps
<1>4. Len(fps) \in 0..MaxRows
  <2>1. Len(fps) = Cardinality(Range(fps))
    BY <1>1, DistinctCount
  <2>2. Cardinality(Range(fps)) <= Cardinality(CpuRows) /\ Cardinality(CpuRows) \in Nat
    <3>1. Range(fps) \in SUBSET CpuRows
      BY <1>3
    <3> QED
      BY <3>1, RowsAssumption, FS_Subset, FS_CardinalityType
  <2>3. Len(fps) \in Nat
    BY <1>1
  <2> QED
    BY <2>1, <2>2, <2>3, RowsAssumption
<1>5. \A j \in 1..Len(fps) : fps[j] \in CpuRows /\ m[fps[j]] \in Values
  BY <1>1, <1>3 DEF Range
<1>6. AsRows(m) \in [1..Len(fps) -> R!Rows]
  BY <1>2, <1>5 DEF R!Rows, Fingerprints
<1> QED
  BY <1>4, <1>6 DEF R!Scrapes

(* The fingerprints handed over are those of the family. *)
LEMMA FpsOfScrape ==
  ASSUME NEW m, DOMAIN m \subseteq CpuRows
  PROVE  /\ DOMAIN AsRows(m) = 1..Len(AsRows(m))
         /\ R!FpsOf(AsRows(m)) = DOMAIN m
<1> DEFINE K == {j \in DOMAIN PeerOrder : PeerOrder[j] \in DOMAIN m}
           fps == Subsequence(PeerOrder, K)
           rows == AsRows(m)
<1>1. fps \in Seq(CpuRows) /\ Range(fps) \subseteq DOMAIN m
  BY PeerOrderIsAll, SubsequenceMembers
<1>2. rows = [j \in 1..Len(fps) |-> [fp |-> fps[j], value |-> m[fps[j]]]]
  BY DEF AsRows
<1> HIDE DEF fps, rows
<1>3. DOMAIN rows = 1..Len(rows)
  <2>1. Len(fps) \in Nat
    BY <1>1
  <2>2. rows \in Seq({rows[j] : j \in 1..Len(fps)})
    BY <1>2, <2>1
  <2> QED
    BY <2>2
<1>4. \A j \in DOMAIN rows : rows[j].fp \in DOMAIN m
  BY <1>1, <1>2 DEF Range
<1>5. \A f \in DOMAIN m : \E j \in DOMAIN rows : rows[j].fp = f
  <2>1. \A f \in DOMAIN m : \E j \in DOMAIN rows : rows[j] = [fp |-> f, value |-> m[f]]
    BY RowsOfScrape DEF rows
  <2> QED
    BY <2>1
<1>6. R!FpsOf(rows) = DOMAIN m
  BY <1>3, <1>4, <1>5 DEF R!FpsOf
<1> QED
  BY <1>3, <1>6 DEF rows

(* What the source computes is an Observe of the rows it hands over. *)
LEMMA RateObserves ==
  ASSUME NEW m, DOMAIN m \subseteq CpuRows, NEW at, Rate(m, at)
  PROVE  R!Observe(AsRows(m), at)
<1> DEFINE rows == AsRows(m)
<1>1. DOMAIN rows = 1..Len(rows) /\ R!FpsOf(rows) = DOMAIN m
  BY FpsOfScrape
<1>2. \A f \in DOMAIN m : \E j \in DOMAIN rows : rows[j].fp = f /\ rows[j].value = m[f]
  BY RowsOfScrape
<1>3. \A j \in DOMAIN rows : rows[j].value = m[rows[j].fp]
  BY RowValues
<1>4. PICK kept \in SUBSET DOMAIN m :
        R!Admissible(kept, rows) /\ prev' = [f \in kept |-> [value |-> m[f], at |-> at]]
  BY DEF Rate
<1>5. /\ rated' = [f \in {f \in DOMAIN prev' : \E j \in DOMAIN rows :
                             rows[j].fp = f /\ R!Usable(rows, j, at)} |->
                      [delta |-> m[f] - prev[f].value, elapsed |-> at - prev[f].at]]
      /\ reported' = (DOMAIN prev' # DOMAIN m) /\ lastAt' = at
  BY DEF Rate
<1> HIDE DEF rows
<1>6. DOMAIN prev' = kept /\ R!Admissible(DOMAIN prev', rows)
  BY <1>4
<1>7. \A f \in DOMAIN prev' : \E j \in 1..Len(rows) :
         rows[j].fp = f /\ prev'[f] = [value |-> rows[j].value, at |-> at]
  BY <1>1, <1>2, <1>4, <1>6
<1>8. DOMAIN rated' = {f \in DOMAIN prev' : \E j \in 1..Len(rows) :
                         rows[j].fp = f /\ R!Usable(rows, j, at)}
  BY <1>1, <1>5
<1>9. ASSUME NEW f \in DOMAIN rated'
      PROVE  \E j \in 1..Len(rows) : /\ rows[j].fp = f
                                     /\ R!Usable(rows, j, at)
                                     /\ rated'[f] = R!RateOf(rows, j, at)
  <2>1. PICK j \in 1..Len(rows) : rows[j].fp = f /\ R!Usable(rows, j, at)
    BY <1>8
  <2>2. rated'[f] = [delta |-> m[f] - prev[f].value, elapsed |-> at - prev[f].at]
    BY <1>5
  <2>3. rows[j].value = m[f]
    BY <1>1, <1>3, <2>1
  <2> QED
    BY <2>1, <2>2, <2>3 DEF R!RateOf
<1> QED
  BY <1>1, <1>5, <1>6, <1>7, <1>8, <1>9 DEF R!Observe, rows

(* The rater is only ever driven as it promises to work: whatever the sequence
   of scrapes, the table moves by whole calls of Observe on rows that are each
   of one CPU series, under a clock that does not go back, and by nothing else;
   so what is proved of the rater holds within the source (Samples,
   rateCounters). *)
THEOREM DrivesRater == Spec => R!Spec
<1>1. Init => R!Init
  BY DEF Init
<1>2. [Next]_vars => [R!Next]_(R!promiseVars)
  <2> SUFFICES ASSUME [Next]_vars PROVE R!Next \/ UNCHANGED raterVars
    BY DEF R!promiseVars, raterVars
  <2>1. CASE FetchFails
    BY <2>1 DEF FetchFails
  <2>2. ASSUME NEW e \in Expositions, NEW found \in SUBSET Lookups(e), Scraped(e, found)
        PROVE  R!Next \/ UNCHANGED raterVars
    <3>1. CASE Rateable(e, "cpu")
      <4>1. PICK at \in Times : at >= lastAt /\ RateCounters(e, found, at)
        BY <2>2, <3>1 DEF Scraped
      <4>2. R!Observe(AsRows(e["cpu"].rows), at)
        BY <3>1, <4>1, RatedRows, RateObserves DEF RateCounters
      <4>3. AsRows(e["cpu"].rows) \in R!Scrapes
        BY <3>1, RatedRows, RatedValues, ScrapeWithinBound
      <4> QED
        BY <4>1, <4>2, <4>3 DEF R!Next
    <3>2. CASE ~Rateable(e, "cpu")
      BY <2>2, <3>2 DEF Scraped
    <3> QED
      BY <3>1, <3>2
  <2>3. CASE UNCHANGED vars
    BY <2>3 DEF vars, raterVars
  <2> QED
    BY <2>1, <2>2, <2>3, CallsAre DEF Next
<1> QED
  BY <1>1, <1>2, PTL DEF Spec, R!Spec
=============================================================================
