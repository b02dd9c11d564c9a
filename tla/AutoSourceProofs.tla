-------------------------- MODULE AutoSourceProofs --------------------------
(***************************************************************************)
(* Proofs about AutoSource, for every set of services, every cooldown and  *)
(* every number of clock corrections.  SourceInv is inductive as it is.    *)
(***************************************************************************)
EXTENDS AutoSource, TLAPS

(* The inductive invariant behind the three: the latch counts the lines, an
   unavailable primary is told apart by its error, and only a switched
   composite asks its fallback (metricsServerSource and autoSource.Samples). *)
SourceInv ==
  /\ TypeOK
  /\ lines = IF warned THEN 1 ELSE 0
  /\ pc = "unavailable" => err # "none" /\ (err = "apiUnavailable" => warned)
  /\ pc = "fallback" => switched
  /\ NameTellsWhoServed
  /\ PrimaryServedMeansAnswered

(* A source just built satisfies the invariant. *)
LEMMA InitEstablishes == Init => SourceInv
<1> SUFFICES ASSUME Init PROVE SourceInv
  OBVIOUS
<1>1. TypeOK
  <2>1. Cooldown \in Int /\ Cooldown <= Cooldown /\ 0 \in 0..MaxSlips /\ 0 \in Nat
    BY CooldownAssumption, MaxSlipsAssumption
  <2> QED
    BY <2>1, Zenon DEF Init, TypeOK
<1> QED
  BY <1>1 DEF Init, SourceInv, NameTellsWhoServed, PrimaryServedMeansAnswered

(* What the cluster and the clock do is invisible to the source's state. *)
LEMMA EnvironmentPreserves ==
  SourceInv /\ (ApiChanges \/ Elapse \/ ClockSetBack) => SourceInv'
<1> SUFFICES ASSUME SourceInv, ApiChanges \/ Elapse \/ ClockSetBack PROVE SourceInv'
  OBVIOUS
<1> USE DEF SourceInv, NameTellsWhoServed, PrimaryServedMeansAnswered, Name, callVars, clockVars
<1>1. CASE ApiChanges
  BY <1>1 DEF ApiChanges, TypeOK
<1>2. CASE Elapse
  BY <1>2, CooldownAssumption DEF Elapse, TypeOK
<1>3. CASE ClockSetBack
  BY <1>3, CooldownAssumption, MaxSlipsAssumption DEF ClockSetBack, TypeOK
<1> QED
  BY <1>1, <1>2, <1>3

(* Beginning a call, on either source. *)
LEMMA StartPreserves == SourceInv /\ Start => SourceInv'
<1> SUFFICES ASSUME SourceInv, Start PROVE SourceInv'
  OBVIOUS
<1> USE DEF SourceInv, NameTellsWhoServed, PrimaryServedMeansAnswered, Name, clockVars
<1>1. CASE StayOnFallback
  BY <1>1 DEF StayOnFallback, StayUntil, TypeOK
<1>2. ASSUME NEW T \in SUBSET Slugs, ReadPrimary(T)
      PROVE  SourceInv'
  BY <1>2 DEF ReadPrimary, TypeOK
<1> QED
  BY <1>1, <1>2 DEF Start

(* One read of one target. *)
LEMMA ReadPreserves ==
  ASSUME SourceInv, NEW t \in Slugs,
         (\E available \in BOOLEAN : ReadAnswered(t, available)) \/ ReadFailed(t) \/ ReadMissing(t)
  PROVE  SourceInv'
<1> USE DEF SourceInv, NameTellsWhoServed, PrimaryServedMeansAnswered, Name, clockVars
<1>1. CASE \E available \in BOOLEAN : ReadAnswered(t, available)
  BY <1>1 DEF ReadAnswered, Answered, TypeOK
<1>2. CASE ReadFailed(t)
  BY <1>2 DEF ReadFailed, TypeOK
<1>3. CASE ReadMissing(t)
  BY <1>3 DEF ReadMissing, TypeOK
<1> QED
  BY <1>1, <1>2, <1>3

(* The ways a call ends. *)
LEMMA EndPreserves ==
  SourceInv /\ (AllReadsFailed \/ PrimaryServes) => SourceInv'
<1> SUFFICES ASSUME SourceInv, AllReadsFailed \/ PrimaryServes PROVE SourceInv'
  OBVIOUS
<1>1. EndOfReads
  BY DEF AllReadsFailed, NoneAnswered, PrimaryServes, PrimaryAnswers
<1>2. lines' = IF warned' THEN 1 ELSE 0
  <2>1. CASE answered
    BY <1>1, <2>1 DEF EndOfReads, SourceInv
  <2>2. CASE ~answered
    BY <1>1, <2>2 DEF EndOfReads, SourceInv, TypeOK
  <2> QED
    BY <2>1, <2>2
<1>3. TypeOK'
  <2>1. warned' \in BOOLEAN /\ switched' \in BOOLEAN
    BY <1>1, Zenon DEF AllReadsFailed, NoneAnswered, PrimaryServes, PrimaryAnswers, EndOfReads, SourceInv, TypeOK
  <2>2. lines' \in Nat
    BY <1>2
  <2> QED
    BY <1>1, <2>1, <2>2, Zenon
       DEF AllReadsFailed, NoneAnswered, PrimaryServes, PrimaryAnswers, EndOfReads, SourceInv, TypeOK, Sources, clockVars
<1>4. NameTellsWhoServed' /\ PrimaryServedMeansAnswered'
  BY <1>1 DEF AllReadsFailed, NoneAnswered, PrimaryServes, PrimaryAnswers, EndOfReads, NameTellsWhoServed,
              PrimaryServedMeansAnswered, Name
<1>5. /\ pc' = "unavailable" => err' # "none" /\ (err' = "apiUnavailable" => warned')
      /\ pc' = "fallback" => switched'
  BY DEF AllReadsFailed, NoneAnswered, PrimaryServes, PrimaryAnswers
<1> QED
  BY <1>2, <1>3, <1>4, <1>5 DEF SourceInv

(* The fallback is asked only by a switched composite, and is then the source
   the name tells. *)
LEMMA FallbackPreserves ==
  SourceInv /\ (SwitchToFallback \/ \E S \in SUBSET Slugs : FallbackServes(S)) => SourceInv'
<1> SUFFICES ASSUME SourceInv, SwitchToFallback \/ \E S \in SUBSET Slugs : FallbackServes(S)
             PROVE  SourceInv'
  OBVIOUS
<1> USE DEF SourceInv, NameTellsWhoServed, PrimaryServedMeansAnswered, Name, clockVars
<1>1. CASE SwitchToFallback
  BY <1>1, CooldownAssumption DEF SwitchToFallback, TypeOK
<1>2. ASSUME NEW S \in SUBSET Slugs, FallbackServes(S)
      PROVE  SourceInv'
  BY <1>2 DEF FallbackServes, TypeOK, Sources
<1> QED
  BY <1>1, <1>2

(* Every step preserves the invariant. *)
LEMMA StepPreserves == SourceInv /\ [Next]_vars => SourceInv'
<1> SUFFICES ASSUME SourceInv, [Next]_vars PROVE SourceInv'
  OBVIOUS
<1>1. CASE UNCHANGED vars
  BY <1>1 DEF vars, SourceInv, TypeOK, NameTellsWhoServed, PrimaryServedMeansAnswered, Name
<1>2. CASE Next
  BY <1>2, EnvironmentPreserves, StartPreserves, ReadPreserves, EndPreserves, FallbackPreserves
     DEF Next, Continue
<1> QED
  BY <1>1, <1>2

(* The invariant of the composite source, for every cluster and cooldown. *)
THEOREM InvariantHolds == Spec => []SourceInv
  BY InitEstablishes, StepPreserves, PTL DEF Spec

(* Type correctness of the composite source. *)
THEOREM TypeCorrect == Spec => []TypeOK
<1>1. SourceInv => TypeOK
  BY DEF SourceInv
<1> QED
  BY <1>1, InvariantHolds, PTL

(* The source the gauge names is the one the last tick was served from. *)
THEOREM NameHolds == Spec => []NameTellsWhoServed
<1>1. SourceInv => NameTellsWhoServed
  BY DEF SourceInv
<1> QED
  BY <1>1, InvariantHolds, PTL

(* A tick is never put down to a primary all of whose reads failed. *)
THEOREM AnsweredHolds == Spec => []PrimaryServedMeansAnswered
<1>1. SourceInv => PrimaryServedMeansAnswered
  BY DEF SourceInv
<1> QED
  BY <1>1, InvariantHolds, PTL

(* One warning for every outage, and only one. *)
THEOREM OneLineHolds == Spec => []OneLinePerOutage
<1>1. SourceInv => OneLinePerOutage
  BY DEF SourceInv, OneLinePerOutage
<1> QED
  BY <1>1, InvariantHolds, PTL
=============================================================================
