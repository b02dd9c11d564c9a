---------------------------- MODULE RaterProofs -----------------------------
(***************************************************************************)
(* Proofs about RaterLoops: the inductive invariant LoopInv, the safety    *)
(* properties it implies, and that the loops of Observe implement the      *)
(* promise of module Rater.  Nothing is assumed of Fingerprints: it may be *)
(* infinite, as the set of all label sets a peer can expose is.            *)
(***************************************************************************)
EXTENDS RaterLoops, FiniteSetTheorems, TLAPS

-----------------------------------------------------------------------------
(* The parts of the inductive invariant: what each loop has established. *)

TablesBounded ==
  /\ IsFiniteSet(DOMAIN prev) /\ IsFiniteSet(DOMAIN next)
  /\ CeilingAbsolute

(* Whatever is in the new table was read from a row of this scrape. *)
NextFromRows ==
  \A f \in DOMAIN next :
     \E j \in 1..Len(rows) : rows[j].fp = f /\ next[f] = Observed(rows[j])

CallInProgress ==
  IF pc = "idle" THEN next = NoEntries
  ELSE at >= lastAt

CarryInv ==
  pc = "carry" =>
    /\ DOMAIN next \subseteq DOMAIN prev
    /\ \A j \in 1..(i-1) : rows[j].fp \in DOMAIN prev => rows[j].fp \in DOMAIN next
    /\ out = NoEntries /\ ~refused

EstablishedCarried ==
  pc \in {"admit", "rate"} => DOMAIN prev \cap FpsOf(rows) \subseteq DOMAIN next

RefusedHonestly ==
  pc \in {"admit", "rate"} =>
    (refused => /\ Cardinality(DOMAIN next) = Ceiling
                /\ \E j \in 1..Len(rows) : rows[j].fp \notin DOMAIN next)

AdmitInv ==
  pc = "admit" =>
    /\ \A j \in 1..(i-1) : rows[j].fp \in DOMAIN next \/ refused
    /\ out = NoEntries

RateInv ==
  pc = "rate" =>
    /\ \A j \in 1..Len(rows) : rows[j].fp \in DOMAIN next \/ refused
    /\ DOMAIN out = {f \in DOMAIN next : \E j \in 1..(i-1) :
                                            rows[j].fp = f /\ Usable(rows, j, at)}
    /\ \A f \in DOMAIN out :
          \E j \in 1..Len(rows) : /\ rows[j].fp = f
                                  /\ Usable(rows, j, at)
                                  /\ out[f] = RateOf(rows, j, at)

(* The inductive invariant of the loops of Observe: bounded tables built from
   this scrape only, the established series carried before any new one, a
   refusal recorded exactly when a row found no room, and the rates of the
   rows differenced so far. *)
LoopInv ==
  /\ LoopTypeOK
  /\ TablesBounded
  /\ PredecessorsAreConsecutive
  /\ NextFromRows
  /\ CallInProgress
  /\ CarryInv
  /\ EstablishedCarried
  /\ RefusedHonestly
  /\ AdmitInv
  /\ RateInv

-----------------------------------------------------------------------------

(* A scrape is a sequence of rows. *)
LEMMA ScrapeIsSequence ==
  ASSUME NEW r \in Scrapes
  PROVE  /\ r \in Seq(Rows)
         /\ Len(r) \in Nat
         /\ \A j \in 1..Len(r) : /\ r[j] \in Rows
                                 /\ r[j].fp \in Fingerprints
                                 /\ r[j].value \in Values
<1>1. PICK n \in 0..MaxRows : r \in [1..n -> Rows]
  BY DEF Scrapes
<1>2. n \in Nat
  BY MaxRowsAssumption
<1>3. r \in Seq(Rows) /\ Len(r) = n
  BY <1>1, <1>2
<1> QED
  BY <1>1, <1>2, <1>3 DEF Rows

(* A table with room for one more stays within the ceiling. *)
LEMMA RoomForOne ==
  ASSUME NEW S, IsFiniteSet(S), Cardinality(S) <= Ceiling,
         ~(Cardinality(S) >= Ceiling), NEW k
  PROVE  IsFiniteSet(S \cup {k}) /\ Cardinality(S \cup {k}) <= Ceiling
<1>1. Cardinality(S) \in Nat
  BY FS_CardinalityType
<1>2. /\ IsFiniteSet(S \cup {k})
      /\ Cardinality(S \cup {k}) = Cardinality(S) \/ Cardinality(S \cup {k}) = Cardinality(S) + 1
  BY FS_AddElement
<1> QED
  BY <1>1, <1>2, CeilingAssumption

(* A full table whose keys were all tracked before is the whole of the old
   table: the "break" of the first loop loses nothing. *)
LEMMA FullIsEverything ==
  ASSUME NEW S, NEW T, IsFiniteSet(T), S \subseteq T,
         Cardinality(T) <= Ceiling, Cardinality(S) >= Ceiling
  PROVE  S = T
<1>1. /\ IsFiniteSet(S)
      /\ Cardinality(S) <= Cardinality(T)
      /\ (Cardinality(S) = Cardinality(T)) => S = T
  BY FS_Subset
<1>2. Cardinality(S) \in Nat /\ Cardinality(T) \in Nat
  BY <1>1, FS_CardinalityType
<1> QED
  BY <1>1, <1>2, CeilingAssumption

(* The first index of a loop. *)
LEMMA One == 1 \in Nat \ {0}
  OBVIOUS

LEMMA EmptyTable ==
  /\ \A K, V : IsMap(NoEntries, K, V)
  /\ DOMAIN NoEntries = {}
  /\ IsFiniteSet(DOMAIN NoEntries)
  /\ Cardinality(DOMAIN NoEntries) <= Ceiling
<1>1. DOMAIN NoEntries = {}
  BY DEF NoEntries
<1>2. \A K, V : IsMap(NoEntries, K, V)
  BY DEF NoEntries, IsMap
<1> QED
  BY <1>1, <1>2, FS_EmptySet, CeilingAssumption

-----------------------------------------------------------------------------
(* NewRater establishes the invariant. *)
LEMMA InitEstablishes == LoopInit => LoopInv
<1> SUFFICES ASSUME LoopInit PROVE LoopInv
  OBVIOUS
<1>1. LoopTypeOK
  <2>1. IsMap(NoEntries, Fingerprints, Observation) /\ IsMap(NoEntries, Fingerprints, Rate)
    BY EmptyTable
  <2>2. MapsTyped
    BY <2>1 DEF LoopInit, Init, MapsTyped
  <2>3. << >> \in Scrapes
    BY MaxRowsAssumption DEF Scrapes
  <2>4. LocalsTyped
    BY <2>3, One, TimesAssumption DEF LoopInit, Init, LocalsTyped
  <2> QED
    BY <2>2, <2>4 DEF LoopTypeOK
<1>2. TablesBounded
  BY EmptyTable DEF LoopInit, Init, TablesBounded, CeilingAbsolute
<1>3. PredecessorsAreConsecutive /\ NextFromRows
  BY EmptyTable DEF LoopInit, Init, PredecessorsAreConsecutive, NextFromRows
<1>4. CallInProgress /\ CarryInv /\ EstablishedCarried
  BY DEF LoopInit, CallInProgress, CarryInv, EstablishedCarried
<1>5. RefusedHonestly /\ AdmitInv /\ RateInv
  BY DEF LoopInit, RefusedHonestly, AdmitInv, RateInv
<1> QED
  BY <1>1, <1>2, <1>3, <1>4, <1>5 DEF LoopInv

(* While a call is in progress the current row is a row, and the clock and
   the predecessors are numbers. *)
LEMMA CurrentRow ==
  ASSUME LoopInv, pc # "idle"
  PROVE  /\ rows \in Scrapes /\ Len(rows) \in Nat /\ i \in Nat \ {0}
         /\ at \in Nat
         /\ \A j \in 1..Len(rows) : rows[j].fp \in Fingerprints /\ rows[j].value \in Nat
         /\ \A j \in 1..Len(rows) : Observed(rows[j]) \in Observation
         /\ \A f \in DOMAIN prev : prev[f].value \in Nat /\ prev[f].at \in Nat
         /\ More => i \in 1..Len(rows)
<1>1. rows \in Scrapes /\ i \in Nat \ {0} /\ at \in Times /\ IsMap(prev, Fingerprints, Observation)
  BY DEF LoopInv, LoopTypeOK, MapsTyped, LocalsTyped
<1>2. /\ Len(rows) \in Nat
      /\ \A j \in 1..Len(rows) : rows[j].fp \in Fingerprints /\ rows[j].value \in Values
  BY <1>1, ScrapeIsSequence
<1>3. \A j \in 1..Len(rows) : Observed(rows[j]) \in Observation
  BY <1>1, <1>2 DEF Observed, Observation
<1>4. \A f \in DOMAIN prev : prev[f].value \in Nat /\ prev[f].at \in Nat
  BY <1>1, ValuesAssumption, TimesAssumption DEF IsMap, Observation
<1>5. at \in Nat /\ \A j \in 1..Len(rows) : rows[j].value \in Nat
  BY <1>1, <1>2, ValuesAssumption, TimesAssumption
<1>6. More => i \in 1..Len(rows)
  BY <1>1, <1>2 DEF More
<1> QED
  BY <1>1, <1>2, <1>3, <1>4, <1>5, <1>6

(* Recording the current row in a table that has room. *)
LEMMA RecordRow ==
  ASSUME LoopInv, pc # "idle", More, ~Full, UNCHANGED <<rows, at>>,
         next' = Put(next, rows[i].fp, Observed(rows[i]))
  PROVE  /\ IsMap(next', Fingerprints, Observation)
         /\ DOMAIN next' = DOMAIN next \cup {rows[i].fp}
         /\ IsFiniteSet(DOMAIN next') /\ Cardinality(DOMAIN next') <= Ceiling
         /\ NextFromRows'
<1>1. /\ i \in 1..Len(rows)
      /\ rows[i].fp \in Fingerprints /\ Observed(rows[i]) \in Observation
  BY CurrentRow
<1>2. IsMap(next, Fingerprints, Observation)
  BY DEF LoopInv, LoopTypeOK, MapsTyped
<1>3. /\ IsMap(next', Fingerprints, Observation)
      /\ DOMAIN next' = DOMAIN next \cup {rows[i].fp}
      /\ next'[rows[i].fp] = Observed(rows[i])
      /\ \A x \in DOMAIN next : x # rows[i].fp => next'[x] = next[x]
  BY <1>1, <1>2 DEF IsMap, Put
<1>a. IsFiniteSet(DOMAIN next) /\ Cardinality(DOMAIN next) <= Ceiling
  BY DEF LoopInv, TablesBounded, CeilingAbsolute
<1>b. ~(Cardinality(DOMAIN next) >= Ceiling)
  BY DEF Full
<1>c. /\ IsFiniteSet(DOMAIN next \cup {rows[i].fp})
      /\ Cardinality(DOMAIN next \cup {rows[i].fp}) <= Ceiling
  BY <1>a, <1>b, RoomForOne
<1>4. IsFiniteSet(DOMAIN next') /\ Cardinality(DOMAIN next') <= Ceiling
  BY <1>3, <1>c
<1>5. NextFromRows'
  BY <1>1, <1>3 DEF LoopInv, NextFromRows, Observed
<1> QED
  BY <1>3, <1>4, <1>5

(* Entering Observe starts from empty tables and an unset refused. *)
LEMMA EnterPreserves == LoopInv /\ Enter => LoopInv'
<1> SUFFICES ASSUME LoopInv, Enter PROVE LoopInv'
  OBVIOUS
<1>1. rows' \in Scrapes /\ at' \in Times /\ at' >= lastAt
  BY DEF Enter
<1>2. LoopTypeOK'
  <2>1. IsMap(NoEntries, Fingerprints, Observation) /\ IsMap(NoEntries, Fingerprints, Rate)
    BY EmptyTable
  <2>2. MapsTyped'
    BY <2>1 DEF Enter, LoopInv, LoopTypeOK, MapsTyped, promiseVars
  <2>3. LocalsTyped'
    BY <1>1, One DEF Enter, LoopInv, LoopTypeOK, LocalsTyped, promiseVars
  <2> QED
    BY <2>2, <2>3 DEF LoopTypeOK
<1>3. TablesBounded' /\ PredecessorsAreConsecutive' /\ NextFromRows'
  BY EmptyTable DEF Enter, LoopInv, TablesBounded, CeilingAbsolute,
                    PredecessorsAreConsecutive, NextFromRows, promiseVars
<1>4. CallInProgress' /\ CarryInv'
  BY <1>1, EmptyTable DEF Enter, CallInProgress, CarryInv, promiseVars
<1>5. EstablishedCarried' /\ RefusedHonestly' /\ AdmitInv' /\ RateInv'
  BY DEF Enter, EstablishedCarried, RefusedHonestly, AdmitInv, RateInv
<1> QED
  BY <1>2, <1>3, <1>4, <1>5 DEF LoopInv

(* The first loop adds established series only. *)
LEMMA CarryPreserves ==
  LoopInv /\ (CarryEstablished \/ CarrySkip \/ CarryDone) => LoopInv'
<1> SUFFICES ASSUME LoopInv, CarryEstablished \/ CarrySkip \/ CarryDone PROVE LoopInv'
  OBVIOUS
<1>pc. pc = "carry"
  BY DEF CarryEstablished, CarrySkip, CarryDone
<1>row. /\ rows \in Scrapes /\ Len(rows) \in Nat /\ i \in Nat \ {0}
        /\ \A j \in 1..Len(rows) : rows[j].fp \in Fingerprints
        /\ \A j \in 1..Len(rows) : Observed(rows[j]) \in Observation
        /\ More => i \in 1..Len(rows)
  BY <1>pc, CurrentRow
<1>1. CASE CarryEstablished
  <2>1. i \in 1..Len(rows) /\ rows[i].fp \in DOMAIN prev
    BY <1>1, <1>row DEF CarryEstablished
  <2>2. /\ IsMap(next', Fingerprints, Observation)
        /\ DOMAIN next' = DOMAIN next \cup {rows[i].fp}
        /\ IsFiniteSet(DOMAIN next') /\ Cardinality(DOMAIN next') <= Ceiling
        /\ NextFromRows'
    BY <1>1, <1>pc, RecordRow DEF CarryEstablished
  <2>3. LoopTypeOK'
    BY <1>1, <1>row, <2>2 DEF CarryEstablished, LoopInv, LoopTypeOK, MapsTyped, LocalsTyped, promiseVars
  <2>4. TablesBounded'
    BY <1>1, <2>2 DEF CarryEstablished, LoopInv, TablesBounded, CeilingAbsolute, promiseVars
  <2>5. PredecessorsAreConsecutive' /\ CallInProgress'
    BY <1>1, <1>pc DEF CarryEstablished, LoopInv, PredecessorsAreConsecutive, CallInProgress, promiseVars
  <2>7. CarryInv'
    BY <1>1, <1>pc, <1>row, <2>1, <2>2 DEF CarryEstablished, LoopInv, CarryInv, promiseVars
  <2>8. EstablishedCarried' /\ RefusedHonestly' /\ AdmitInv' /\ RateInv'
    BY <1>1, <1>pc DEF CarryEstablished, EstablishedCarried, RefusedHonestly, AdmitInv, RateInv
  <2> QED
    BY <2>2, <2>3, <2>4, <2>5, <2>7, <2>8 DEF LoopInv
<1>2. CASE CarrySkip
  <2>1. LoopTypeOK' /\ TablesBounded' /\ PredecessorsAreConsecutive' /\ CallInProgress'
    BY <1>2, <1>pc, <1>row DEF CarrySkip, LoopInv, LoopTypeOK, MapsTyped, LocalsTyped, TablesBounded, CeilingAbsolute,
                    PredecessorsAreConsecutive, CallInProgress, promiseVars
  <2>2. NextFromRows'
    BY <1>2 DEF CarrySkip, LoopInv, NextFromRows, Observed, promiseVars
  <2>3. CarryInv'
    BY <1>2, <1>pc, <1>row DEF CarrySkip, LoopInv, CarryInv, promiseVars
  <2>4. EstablishedCarried' /\ RefusedHonestly' /\ AdmitInv' /\ RateInv'
    BY <1>2, <1>pc DEF CarrySkip, EstablishedCarried, RefusedHonestly, AdmitInv, RateInv
  <2> QED
    BY <2>1, <2>2, <2>3, <2>4 DEF LoopInv
<1>3. CASE CarryDone
  <2>1. LoopTypeOK' /\ TablesBounded' /\ PredecessorsAreConsecutive' /\ CallInProgress'
    BY <1>3, <1>pc DEF CarryDone, LoopInv, LoopTypeOK, MapsTyped, LocalsTyped, TablesBounded, CeilingAbsolute,
                    PredecessorsAreConsecutive, CallInProgress, promiseVars
  <2>2. NextFromRows'
    BY <1>3 DEF CarryDone, LoopInv, NextFromRows, Observed, promiseVars
  <2>3. DOMAIN prev \cap FpsOf(rows) \subseteq DOMAIN next
    <3>1. CASE Full
      <4>1. DOMAIN next = DOMAIN prev
        BY <1>pc, <3>1, FullIsEverything DEF Full, LoopInv, TablesBounded, CeilingAbsolute, CarryInv
      <4> QED
        BY <4>1
    <3>2. CASE ~More
      BY <1>pc, <1>row, <3>2 DEF More, FpsOf, LoopInv, CarryInv
    <3> QED
      BY <1>3, <3>1, <3>2 DEF CarryDone
  <2>4. EstablishedCarried'
    BY <1>3, <2>3 DEF CarryDone, EstablishedCarried, promiseVars
  <2>5. CarryInv' /\ RefusedHonestly' /\ AdmitInv' /\ RateInv'
    BY <1>3, <1>pc DEF CarryDone, LoopInv, CarryInv, RefusedHonestly, AdmitInv, RateInv
  <2> QED
    BY <2>1, <2>2, <2>4, <2>5 DEF LoopInv
<1> QED
  BY <1>1, <1>2, <1>3

(* The second loop skips, refuses, or admits into the room that is left. *)
LEMMA AdmitPreserves ==
  LoopInv /\ (AdmitCarried \/ AdmitRefuse \/ AdmitNew \/ AdmitDone) => LoopInv'
<1> SUFFICES ASSUME LoopInv, AdmitCarried \/ AdmitRefuse \/ AdmitNew \/ AdmitDone
             PROVE  LoopInv'
  OBVIOUS
<1>pc. pc = "admit"
  BY DEF AdmitCarried, AdmitRefuse, AdmitNew, AdmitDone
<1>row. Len(rows) \in Nat /\ i \in Nat \ {0} /\ (More => i \in 1..Len(rows))
  BY <1>pc, CurrentRow
<1>same. /\ UNCHANGED <<promiseVars, rows, at, out>>
         /\ i' \in Nat \ {0}
         /\ pc' \in {"admit", "rate"}
  BY <1>pc, <1>row DEF AdmitCarried, AdmitRefuse, AdmitNew, AdmitDone
<1>bool. refused' \in BOOLEAN
  BY DEF AdmitCarried, AdmitRefuse, AdmitNew, AdmitDone, LoopInv, LoopTypeOK, LocalsTyped
<1>locals. LocalsTyped'
  BY <1>same, <1>bool DEF LoopInv, LoopTypeOK, LocalsTyped, promiseVars
<1>calls. PredecessorsAreConsecutive' /\ CallInProgress' /\ CarryInv'
  BY <1>pc, <1>same DEF LoopInv, PredecessorsAreConsecutive, CallInProgress, CarryInv, promiseVars
<1>table. ASSUME UNCHANGED next
          PROVE  MapsTyped' /\ TablesBounded' /\ NextFromRows' /\ EstablishedCarried'
  BY <1>table, <1>same, <1>pc DEF LoopInv, LoopTypeOK, MapsTyped, TablesBounded, CeilingAbsolute,
                     NextFromRows, EstablishedCarried, Observed, promiseVars
<1>1. CASE AdmitCarried
  <2>1. RefusedHonestly' /\ AdmitInv' /\ RateInv'
    BY <1>1, <1>pc, <1>row DEF AdmitCarried, LoopInv, RefusedHonestly, AdmitInv, RateInv
  <2> QED
    BY <1>1, <1>locals, <1>calls, <1>table, <2>1 DEF AdmitCarried, LoopInv, LoopTypeOK
<1>2. CASE AdmitRefuse
  <2>1. Cardinality(DOMAIN next) = Ceiling
    <3>1. Cardinality(DOMAIN next) \in Nat
      BY FS_CardinalityType DEF LoopInv, TablesBounded
    <3> QED
      BY <1>2, <3>1, CeilingAssumption DEF AdmitRefuse, Full, LoopInv, TablesBounded, CeilingAbsolute
  <2>2. RefusedHonestly' /\ AdmitInv' /\ RateInv'
    BY <1>2, <1>pc, <1>row, <2>1 DEF AdmitRefuse, LoopInv, RefusedHonestly, AdmitInv, RateInv
  <2> QED
    BY <1>2, <1>locals, <1>calls, <1>table, <2>2 DEF AdmitRefuse, LoopInv, LoopTypeOK
<1>3. CASE AdmitNew
  <2>1. /\ IsMap(next', Fingerprints, Observation)
        /\ DOMAIN next' = DOMAIN next \cup {rows[i].fp}
        /\ IsFiniteSet(DOMAIN next') /\ Cardinality(DOMAIN next') <= Ceiling
        /\ NextFromRows'
    BY <1>3, <1>pc, RecordRow DEF AdmitNew
  <2>2. MapsTyped' /\ TablesBounded'
    BY <1>same, <2>1 DEF LoopInv, LoopTypeOK, MapsTyped, TablesBounded, CeilingAbsolute, promiseVars
  <2>3. EstablishedCarried'
    BY <1>pc, <1>same, <2>1 DEF LoopInv, EstablishedCarried, promiseVars
  <2>4. ~refused
    BY <1>3, <1>pc, CeilingAssumption DEF AdmitNew, Full, LoopInv, RefusedHonestly
  <2>5. RefusedHonestly' /\ AdmitInv' /\ RateInv'
    BY <1>3, <1>pc, <1>row, <2>1, <2>4 DEF AdmitNew, LoopInv, RefusedHonestly, AdmitInv, RateInv
  <2> QED
    BY <1>locals, <1>calls, <2>1, <2>2, <2>3, <2>5 DEF LoopInv, LoopTypeOK
<1>4. CASE AdmitDone
  <2>1. RefusedHonestly' /\ AdmitInv'
    BY <1>4, <1>pc DEF AdmitDone, LoopInv, RefusedHonestly, AdmitInv
  <2>2. \A j \in 1..Len(rows) : rows[j].fp \in DOMAIN next \/ refused
    BY <1>4, <1>pc, <1>row DEF AdmitDone, More, LoopInv, AdmitInv
  <2>3. i' = 1 /\ DOMAIN out' = {}
    BY <1>4, <1>pc, EmptyTable DEF AdmitDone, LoopInv, AdmitInv
  <2>4. RateInv'
    BY <1>4, <1>same, <2>2, <2>3 DEF AdmitDone, RateInv
  <2> QED
    BY <1>4, <1>locals, <1>calls, <1>table, <2>1, <2>4 DEF AdmitDone, LoopInv, LoopTypeOK
<1> QED
  BY <1>1, <1>2, <1>3, <1>4

(* The third loop writes out[fp] for exactly the rows it can difference. *)
LEMMA RatePreserves == LoopInv /\ (RateSeries \/ RateSkip) => LoopInv'
<1> SUFFICES ASSUME LoopInv, RateSeries \/ RateSkip PROVE LoopInv'
  OBVIOUS
<1>pc. pc = "rate" /\ pc' = "rate" /\ i' = i + 1
  BY DEF RateSeries, RateSkip
<1>row. /\ Len(rows) \in Nat /\ i \in Nat \ {0} /\ i \in 1..Len(rows) /\ at \in Nat
        /\ \A j \in 1..Len(rows) : rows[j].fp \in Fingerprints /\ rows[j].value \in Nat
        /\ \A f \in DOMAIN prev : prev[f].value \in Nat /\ prev[f].at \in Nat
  BY <1>pc, CurrentRow DEF RateSeries, RateSkip
<1>same. UNCHANGED <<promiseVars, rows, at, next, refused>>
  BY DEF RateSeries, RateSkip
<1>locals. LocalsTyped'
  BY <1>pc, <1>row, <1>same DEF LoopInv, LoopTypeOK, LocalsTyped, promiseVars
<1>tables. TablesBounded' /\ NextFromRows' /\ EstablishedCarried' /\ PredecessorsAreConsecutive'
  BY <1>pc, <1>same DEF LoopInv, TablesBounded, CeilingAbsolute, NextFromRows, EstablishedCarried,
                        PredecessorsAreConsecutive, Observed, promiseVars
<1>phase. CallInProgress' /\ CarryInv' /\ RefusedHonestly' /\ AdmitInv'
  BY <1>pc, <1>same DEF LoopInv, CallInProgress, CarryInv, RefusedHonestly, AdmitInv, promiseVars
<1>inv. /\ \A j \in 1..Len(rows) : rows[j].fp \in DOMAIN next \/ refused
        /\ DOMAIN out = {f \in DOMAIN next : \E j \in 1..(i-1) :
                                                rows[j].fp = f /\ Usable(rows, j, at)}
        /\ \A f \in DOMAIN out :
              \E j \in 1..Len(rows) : /\ rows[j].fp = f
                                      /\ Usable(rows, j, at)
                                      /\ out[f] = RateOf(rows, j, at)
  BY <1>pc DEF LoopInv, RateInv
<1>frame. \A j : /\ Usable(rows, j, at)' = Usable(rows, j, at)
                 /\ RateOf(rows, j, at)' = RateOf(rows, j, at)
  BY <1>same DEF Usable, RateOf, promiseVars
<1>1. CASE RateSeries
  <2>1. rows[i].fp \in DOMAIN next /\ Usable(rows, i, at)
    BY <1>1 DEF RateSeries, Rateable
  <2>2. RateOf(rows, i, at) \in Rate
    BY <1>row, <2>1 DEF Usable, RateOf, Rate
  <2>3. IsMap(out, Fingerprints, Rate)
    BY DEF LoopInv, LoopTypeOK, MapsTyped
  <2>4. rows[i].fp \in Fingerprints /\ out' = Put(out, rows[i].fp, RateOf(rows, i, at))
    BY <1>1, <1>row DEF RateSeries
  <2>5. /\ IsMap(out', Fingerprints, Rate)
        /\ DOMAIN out' = DOMAIN out \cup {rows[i].fp}
        /\ out'[rows[i].fp] = RateOf(rows, i, at)
        /\ \A x \in DOMAIN out : x # rows[i].fp => out'[x] = out[x]
    BY <2>2, <2>3, <2>4 DEF IsMap, Put
  <2>6. MapsTyped'
    BY <1>same, <2>5 DEF LoopInv, LoopTypeOK, MapsTyped, promiseVars
  <2>7. DOMAIN out' = {f \in DOMAIN next : \E j \in 1..((i+1)-1) :
                                              rows[j].fp = f /\ Usable(rows, j, at)}
    BY <1>row, <1>inv, <2>1, <2>5
  <2>8. \A f \in DOMAIN out' :
           \E j \in 1..Len(rows) : /\ rows[j].fp = f
                                   /\ Usable(rows, j, at)
                                   /\ out'[f] = RateOf(rows, j, at)
    BY <1>row, <1>inv, <2>1, <2>5
  <2>9. RateInv'
    BY <1>pc, <1>same, <1>inv, <1>frame, <2>7, <2>8 DEF RateInv
  <2> QED
    BY <1>locals, <1>tables, <1>phase, <2>6, <2>9 DEF LoopInv, LoopTypeOK
<1>2. CASE RateSkip
  <2>1. UNCHANGED out /\ ~(rows[i].fp \in DOMAIN next /\ Usable(rows, i, at))
    BY <1>2 DEF RateSkip, Rateable
  <2>2. MapsTyped'
    BY <1>same, <2>1 DEF LoopInv, LoopTypeOK, MapsTyped, promiseVars
  <2>3. DOMAIN out' = {f \in DOMAIN next : \E j \in 1..((i+1)-1) :
                                              rows[j].fp = f /\ Usable(rows, j, at)}
    BY <1>row, <1>inv, <2>1
  <2>4. RateInv'
    BY <1>pc, <1>same, <1>inv, <1>frame, <2>1, <2>3 DEF RateInv
  <2> QED
    BY <1>locals, <1>tables, <1>phase, <2>2, <2>4 DEF LoopInv, LoopTypeOK
<1> QED
  BY <1>1, <1>2

(* Returning replaces the table: every entry of it bears this call's time. *)
LEMMA ReturnPreserves == LoopInv /\ Return => LoopInv'
<1> SUFFICES ASSUME LoopInv, Return PROVE LoopInv'
  OBVIOUS
<1>1. LoopTypeOK'
  <2>1. IsMap(NoEntries, Fingerprints, Observation) /\ IsMap(NoEntries, Fingerprints, Rate)
    BY EmptyTable
  <2>2. MapsTyped'
    BY <2>1 DEF Return, LoopInv, LoopTypeOK, MapsTyped
  <2>3. << >> \in Scrapes
    BY MaxRowsAssumption DEF Scrapes
  <2>4. LocalsTyped'
    BY <2>3, One, TimesAssumption DEF Return, LoopInv, LoopTypeOK, LocalsTyped
  <2> QED
    BY <2>2, <2>4 DEF LoopTypeOK
<1>2. TablesBounded'
  BY EmptyTable DEF Return, LoopInv, TablesBounded, CeilingAbsolute
<1>3. PredecessorsAreConsecutive'
  BY DEF Return, LoopInv, NextFromRows, PredecessorsAreConsecutive, Observed
<1>4. NextFromRows' /\ CallInProgress'
  BY EmptyTable DEF Return, NextFromRows, CallInProgress
<1>5. CarryInv' /\ EstablishedCarried' /\ RefusedHonestly' /\ AdmitInv' /\ RateInv'
  BY DEF Return, CarryInv, EstablishedCarried, RefusedHonestly, AdmitInv, RateInv
<1> QED
  BY <1>1, <1>2, <1>3, <1>4, <1>5 DEF LoopInv

(* Every step of Observe preserves the invariant. *)
LEMMA StepPreserves == LoopInv /\ [LoopNext]_loopVars => LoopInv'
<1> SUFFICES ASSUME LoopInv, [LoopNext]_loopVars PROVE LoopInv'
  OBVIOUS
<1>1. CASE UNCHANGED loopVars
  BY <1>1 DEF loopVars, LoopInv, LoopTypeOK, MapsTyped, LocalsTyped, TablesBounded, CeilingAbsolute,
     PredecessorsAreConsecutive, NextFromRows, CallInProgress, CarryInv, EstablishedCarried,
     RefusedHonestly, AdmitInv, RateInv, Observed, Usable, RateOf
<1>2. CASE LoopNext
  BY <1>2, EnterPreserves, CarryPreserves, AdmitPreserves, RatePreserves, ReturnPreserves
     DEF LoopNext, Loop
<1> QED
  BY <1>1, <1>2

(* The invariant of the loops of Observe holds for every set of series, every
   ceiling and every scrape length. *)
THEOREM InvariantHolds == LoopSpec => []LoopInv
  BY InitEstablishes, StepPreserves, PTL DEF LoopSpec

(* Type correctness of rate.go's state: in particular no negative difference
   and no zero elapsed time ever reaches a caller. *)
THEOREM TypeCorrect == LoopSpec => []LoopTypeOK
<1>1. LoopInv => LoopTypeOK
  BY DEF LoopInv
<1> QED
  BY <1>1, InvariantHolds, PTL

(* The tracking table never outgrows the ceiling. *)
THEOREM CeilingHolds == LoopSpec => []CeilingAbsolute
<1>1. LoopInv => CeilingAbsolute
  BY DEF LoopInv, TablesBounded
<1> QED
  BY <1>1, InvariantHolds, PTL

(* A rate is only ever taken between consecutive scrapes. *)
THEOREM ConsecutiveHolds == LoopSpec => []PredecessorsAreConsecutive
<1>1. LoopInv => PredecessorsAreConsecutive
  BY DEF LoopInv
<1> QED
  BY <1>1, InvariantHolds, PTL

-----------------------------------------------------------------------------
(* Only Return changes what the caller and the next call can see. *)
LEMMA OnlyReturnShows == LoopNext => Return \/ UNCHANGED promiseVars
  BY DEF LoopNext, Loop, Enter, CarryEstablished, CarrySkip, CarryDone,
         AdmitCarried, AdmitRefuse, AdmitNew, AdmitDone, RateSeries, RateSkip

(* A flood of new series cannot displace one that is reporting. *)
THEOREM SurvivalHolds == LoopSpec => EstablishedSurvive
<1>1. ASSUME LoopInv, [LoopNext]_loopVars
      PROVE  [prev' # prev => DOMAIN prev \cap FpsOf(rows) \subseteq DOMAIN prev']_loopVars
  <2>1. CASE Return
    BY <1>1, <2>1 DEF Return, LoopInv, EstablishedCarried
  <2>2. CASE UNCHANGED prev
    BY <2>2
  <2> QED
    BY <1>1, <2>1, <2>2, OnlyReturnShows DEF promiseVars, loopVars
<1> QED
  BY <1>1, InvariantHolds, PTL DEF LoopSpec, EstablishedSurvive

(* What a call returns is what module Rater promises of it. *)
LEMMA ReturnIsObserve == LoopInv /\ Return => Next
<1> SUFFICES ASSUME LoopInv, Return PROVE Next
  OBVIOUS
<1>pc. pc = "rate" /\ ~More
  BY DEF Return
<1>row. Len(rows) \in Nat /\ i \in Nat \ {0}
  BY <1>pc, CurrentRow
<1>ret. prev' = next /\ rated' = out /\ reported' = refused /\ lastAt' = at
  BY DEF Return
<1>1. rows \in Scrapes /\ at \in Times /\ at >= lastAt
  BY <1>pc DEF LoopInv, LoopTypeOK, LocalsTyped, CallInProgress
<1>2. DOMAIN next \subseteq FpsOf(rows)
  BY DEF LoopInv, NextFromRows, FpsOf
<1>3. refused <=> DOMAIN next # FpsOf(rows)
  <2>1. refused => \E j \in 1..Len(rows) : rows[j].fp \notin DOMAIN next
    BY <1>pc DEF LoopInv, RefusedHonestly
  <2>2. \A j \in 1..Len(rows) : rows[j].fp \in DOMAIN next \/ refused
    BY <1>pc DEF LoopInv, RateInv
  <2> QED
    BY <1>2, <2>1, <2>2 DEF FpsOf
<1>4. Admissible(DOMAIN prev', rows)
  BY <1>pc, <1>ret, <1>2, <1>3
     DEF Admissible, LoopInv, EstablishedCarried, RefusedHonestly, TablesBounded, CeilingAbsolute
<1>5. \A f \in DOMAIN prev' :
        \E j \in 1..Len(rows) :
           rows[j].fp = f /\ prev'[f] = [value |-> rows[j].value, at |-> at]
  BY <1>ret DEF LoopInv, NextFromRows, Observed
<1>6. reported' = (DOMAIN prev' # FpsOf(rows))
  <2>1. refused \in BOOLEAN
    BY DEF LoopInv, LoopTypeOK, LocalsTyped
  <2> QED
    BY <1>ret, <1>3, <2>1
<1>7. DOMAIN rated' =
        {f \in DOMAIN prev' : \E j \in 1..Len(rows) :
                                 rows[j].fp = f /\ Usable(rows, j, at)}
  <2>1. \A j \in 1..Len(rows) : j \in 1..(i-1)
    BY <1>row, <1>pc DEF More
  <2>2. /\ DOMAIN out = {f \in DOMAIN next : \E j \in 1..(i-1) :
                                                rows[j].fp = f /\ Usable(rows, j, at)}
        /\ \A f \in DOMAIN out :
              \E j \in 1..Len(rows) : rows[j].fp = f /\ Usable(rows, j, at)
    BY <1>pc DEF LoopInv, RateInv
  <2> QED
    BY <1>ret, <2>1, <2>2
<1>8. \A f \in DOMAIN rated' :
        \E j \in 1..Len(rows) : /\ rows[j].fp = f
                                /\ Usable(rows, j, at)
                                /\ rated'[f] = RateOf(rows, j, at)
  BY <1>pc, <1>ret DEF LoopInv, RateInv
<1>9. Observe(rows, at)
  BY <1>ret, <1>4, <1>5, <1>6, <1>7, <1>8 DEF Observe
<1> QED
  BY <1>1, <1>9 DEF Next

(* The three loops of Observe implement the one-step promise of module Rater:
   which series are kept, that RefusedSeries() is true exactly when one was
   turned away, and which rates come back, whatever the order of the rows. *)
THEOREM LoopsImplementPromise == LoopSpec => Spec
<1>1. LoopInit => Init
  BY DEF LoopInit
<1>2. LoopInv /\ [LoopNext]_loopVars => [Next]_promiseVars
  BY ReturnIsObserve, OnlyReturnShows DEF loopVars, promiseVars
<1> QED
  BY <1>1, <1>2, InvariantHolds, PTL DEF LoopSpec, Spec
=============================================================================
