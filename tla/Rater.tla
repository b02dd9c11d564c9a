------------------------------- MODULE Rater --------------------------------
(***************************************************************************)
(* What internal/scrape/rate.go promises of one call of Rater.Observe: the *)
(* table of predecessors it leaves behind and the rates it answers with,   *)
(* whatever order the scraped peer wrote its rows in.  RaterLoops models   *)
(* the three loops of the method and implements this specification.       *)
(*                                                                         *)
(* A series is its fingerprint (Series.Fingerprint is injective, so a      *)
(* fingerprint is a model value); a counter value and a time are naturals; *)
(* a rate is the pair it is the quotient of, so no division is modelled.   *)
(***************************************************************************)
EXTENDS Integers, Sequences, FiniteSets

CONSTANTS Fingerprints,   \* identities of counter series
          Values,         \* cumulative counter values
          Times,          \* readings of the clock Observe is given
          Ceiling,        \* RaterOptions.MaxTracked, else MaxTrackedSeries
          MaxRows         \* bound: rows of one scrape

ASSUME ValuesAssumption  == Values \subseteq Nat
ASSUME TimesAssumption   == Times \subseteq Nat /\ 0 \in Times
ASSUME CeilingAssumption == Ceiling \in Nat \ {0}
ASSUME MaxRowsAssumption == MaxRows \in Nat

VARIABLES prev,     \* Rater.prev: fingerprint -> observation
          rated,    \* the rates the last Observe returned
          reported, \* what RefusedSeries() said after it
          lastAt    \* time of the last completed Observe (history)

promiseVars == <<prev, rated, reported, lastAt>>

Rows        == [fp : Fingerprints, value : Values]
Observation == [value : Values, at : Times]
Rate        == [delta : Nat, elapsed : Nat \ {0}]

(* A Go map is a function whose domain is the set of its keys. *)
IsMap(m, K, V) == DOMAIN m \subseteq K /\ m \in [DOMAIN m -> V]

NoEntries == [f \in {} |-> 0]

(* The inputs: sequences, because a peer may repeat a series in a scrape. *)
Scrapes == UNION {[1..n -> Rows] : n \in 0..MaxRows}

FpsOf(rows) == {rows[j].fp : j \in 1..Len(rows)}

-----------------------------------------------------------------------------
(* NewRater: no predecessor, nothing refused. *)
Init ==
  /\ prev = NoEntries
  /\ rated = NoEntries
  /\ reported = FALSE
  /\ lastAt = 0

(* Row j of the scrape is a usable successor of what prev remembers. *)
Usable(rows, j, at) ==
  /\ rows[j].fp \in DOMAIN prev
  /\ at > prev[rows[j].fp].at
  /\ rows[j].value >= prev[rows[j].fp].value

RateOf(rows, j, at) == [delta   |-> rows[j].value - prev[rows[j].fp].value,
                        elapsed |-> at - prev[rows[j].fp].at]

(* The fingerprints tracked afterwards: every established one that is still
   exposed, then new ones for as long as there is room. *)
Admissible(kept, rows) ==
  /\ kept \subseteq FpsOf(rows)
  /\ DOMAIN prev \cap FpsOf(rows) \subseteq kept
  /\ Cardinality(kept) <= Ceiling
  /\ kept # FpsOf(rows) => Cardinality(kept) = Ceiling

Observe(rows, at) ==
  /\ lastAt' = at
  /\ Admissible(DOMAIN prev', rows)
  /\ \A f \in DOMAIN prev' :
        \E j \in 1..Len(rows) :
           rows[j].fp = f /\ prev'[f] = [value |-> rows[j].value, at |-> at]
  /\ reported' = (DOMAIN prev' # FpsOf(rows))
  /\ DOMAIN rated' =
        {f \in DOMAIN prev' : \E j \in 1..Len(rows) :
                                 rows[j].fp = f /\ Usable(rows, j, at)}
  /\ \A f \in DOMAIN rated' :
        \E j \in 1..Len(rows) : /\ rows[j].fp = f
                                /\ Usable(rows, j, at)
                                /\ rated'[f] = RateOf(rows, j, at)

Next ==
  \E rows \in Scrapes, at \in Times : at >= lastAt /\ Observe(rows, at)

Spec == Init /\ [][Next]_promiseVars
=============================================================================
