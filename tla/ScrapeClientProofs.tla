------------------------- MODULE ScrapeClientProofs -------------------------
(***************************************************************************)
(* Theorems about module ScrapeClient, for any body a peer may send and    *)
(* any configuration.                                                      *)
(***************************************************************************)
EXTENDS ScrapeClient, FilteringProofs

(* What is kept and what is being converted are sequences within the budget. *)
RetentionInv ==
  /\ \E T : out \in Seq(T) /\ rows \in Seq(T)
  /\ RetentionBounded
  /\ Len(out) <= MaxSamples

LEMMA NextRetentionInv == RetentionInv /\ [Next]_vars => RetentionInv'
<1> SUFFICES ASSUME RetentionInv, [Next]_vars PROVE RetentionInv'
  OBVIOUS
<1>0. MaxSamples \in Nat
  BY LimitsAssumption
<1>1. PICK T : out \in Seq(T) /\ rows \in Seq(T)
  BY DEF RetentionInv
<1>2. Len(out) \in Nat /\ Len(rows) \in Nat
  BY <1>1
<1>e. << >> \in Seq(T) /\ Len(<< >>) = 0
  OBVIOUS
<1>s. ASSUME UNCHANGED <<out, rows, current>> PROVE RetentionInv'
  BY <1>s DEF RetentionInv, RetentionBounded
<1>3. CASE RequestFails \/ BodyTooLarge \/ BodyRead \/ Done \/ DropRow \/ Returned \/ UNCHANGED vars
  BY <1>3, <1>s DEF RequestFails, BodyTooLarge, BodyRead, Done, DropRow, Returned, vars
<1>4. ASSUME NEW k \in todo, SkipFamily(k) PROVE RetentionInv'
  BY <1>4, <1>s DEF SkipFamily
<1>5. CASE DecodeFails \/ TooManySamples
  <2>1. out' = << >> /\ rows' = rows /\ current' = 0
    BY <1>5 DEF DecodeFails, TooManySamples, Decoding
  <2> QED
    BY <2>1, <1>0, <1>1, <1>e DEF RetentionInv, RetentionBounded
<1>6. ASSUME NEW k \in todo, BeginFamily(k) PROVE RetentionInv'
  <2>1. out' = out /\ rows' = << >>
    BY <1>6 DEF BeginFamily
  <2> QED
    BY <2>1, <1>0, <1>1, <1>2, <1>e DEF RetentionInv, RetentionBounded
<1>7. CASE ConvertRow
  <2> DEFINE s == SeriesOf(current, row)
  <2>1. current # 0 /\ out' = out /\ rows' = Append(rows, s) /\ Len(rows) < MaxSamples - Len(out)
    BY <1>7 DEF ConvertRow, Convert, Finite, Converting, Budget
  <2> HIDE DEF s
  <2>2. out' \in Seq(T \cup {s}) /\ rows' \in Seq(T \cup {s}) /\ Len(rows') = Len(rows) + 1
    BY <2>1, <1>1
  <2> QED
    BY <2>1, <2>2, <1>0, <1>2 DEF RetentionInv, RetentionBounded
<1>8. CASE EndFamily
  <2>1. current # 0 /\ current' = 0 /\ rows' = rows /\ out' = out \o rows
    BY <1>8 DEF EndFamily
  <2>2. out' \in Seq(T) /\ Len(out') = Len(out) + Len(rows)
    BY <2>1, <1>1
  <2> QED
    BY <2>1, <2>2, <1>0, <1>1, <1>2 DEF RetentionInv, RetentionBounded
<1> QED
  BY <1>3, <1>4, <1>5, <1>6, <1>7, <1>8 DEF Next

LEMMA RetentionInvHolds == Spec => []RetentionInv
<1>1. Init => RetentionInv
  BY LimitsAssumption DEF Init, RetentionInv, RetentionBounded
<1> QED
  BY <1>1, NextRetentionInv, PTL DEF Spec

(* Whatever a peer sends, and in however large a family, never more series than
   the budget exist. *)
THEOREM RetentionHolds == Spec => []RetentionBounded
<1>1. RetentionInv => RetentionBounded
  BY DEF RetentionInv
<1> QED
  BY <1>1, RetentionInvHolds, PTL

-----------------------------------------------------------------------------
(* A name a candidate matches, verbatim or not, is one the filter lets through. *)
LEMMA MatchedIsCandidate ==
  ASSUME NEW res, NEW role \in Roles, NEW j \in DOMAIN Candidates(res, role), NEW name,
         Matches(Candidates(res, role)[j], name)
  PROVE  NormalizeName(name) \in CandidateNames(res)
<1> DEFINE c == Candidates(res, role)[j]
<1>1. NormalizeName(name) = NormalizeName(c.name)
  BY DEF Matches
<1>2. NormalizeName(c.name) \in CandidateNames(res)
  BY DEF CandidateNames
<1> QED
  BY <1>1, <1>2

(* The retention filter hides no series a role could be read from, for any
   overrides. *)
THEOREM FilterHolds == Spec => []FilterHidesNothing
<1>1. FilterHidesNothing
  <2> SUFFICES ASSUME NEW role \in Roles, NEW j \in DOMAIN Candidates(resolver, role),
                      NEW s \in AllSeriesOf(body) \ KeptSeries,
                      Matches(Candidates(resolver, role)[j], s.name)
               PROVE  FALSE
    BY DEF FilterHidesNothing
  <2>1. NormalizeName(s.name) \in CandidateNames(resolver)
    BY MatchedIsCandidate
  <2> QED
    BY <2>1 DEF KeptSeries
<1> QED
  BY <1>1, PTL

-----------------------------------------------------------------------------
(* The cap on the body. *)

LEMMA WithinDivision ==
  ASSUME NEW a \in Int, NEW b \in Int, NEW c \in Nat \ {0}, a <= b \div c
  PROVE  a * c <= b
<1>1. b \div c \in Int /\ (b \div c) * c <= b
  OBVIOUS
<1>2. \A d \in Int : a <= d => a * c <= d * c
  OBVIOUS
<1> QED
  BY <1>1, <1>2

(* A size that an integer can hold does not wrap. *)
LEMMA NoWrap ==
  ASSUME NEW n \in 0..MaxInt
  PROVE  Wrap(n) = n
<1> DEFINE M == 2 * (MaxInt + 1)
           a == n + MaxInt + 1
<1>1. MaxInt \in Nat
  BY LimitsAssumption
<1>2. a \in Nat /\ M \in Nat /\ a < M
  BY <1>1
<1>3. \A i, j \in Nat : i < j => i % j = i
  OBVIOUS
<1>4. Wrap(n) = (a % M) - (MaxInt + 1)
  BY DEF Wrap
<1>5. a % M = a
  <2> HIDE DEF a, M
  <2> QED
    BY <1>2, <1>3
<1> QED
  BY <1>1, <1>4, <1>5

(* What is configured, and what the peer has to send, does not change. *)
SettingsInv ==
  /\ maxBytes \in CapSettings /\ memLimit \in MemLimits
  /\ size \in BodySizes /\ body \in Bodies

(* However the cap and the heap limit are set, the cap is one the heap limit
   affords, or the default. *)
LEMMA LimitAffordable ==
  ASSUME SettingsInv
  PROVE  /\ ReadLimit \in 1..MaxConfigurableBytes
         /\ ReadLimit <= DefaultMaxBytes \/ ReadLimit * ExpansionFactor <= memLimit
<1> DEFINE derived == memLimit \div ExpansionFactor
<1>1. /\ maxBytes \in Int /\ memLimit \in Int /\ ExpansionFactor \in Nat \ {0}
      /\ DefaultMaxBytes \in Nat /\ MaxConfigurableBytes \in Nat
      /\ 0 < DefaultMaxBytes /\ DefaultMaxBytes <= MaxConfigurableBytes
  BY LimitsAssumption DEF SettingsInv
<1>2. derived \in Int
  BY <1>1
<1>3. CapCeiling = IF derived < DefaultMaxBytes THEN DefaultMaxBytes
                   ELSE IF derived > MaxConfigurableBytes THEN MaxConfigurableBytes ELSE derived
  BY DEF CapCeiling
<1> HIDE DEF derived
<1>4. /\ CapCeiling \in DefaultMaxBytes..MaxConfigurableBytes
      /\ CapCeiling <= DefaultMaxBytes \/ CapCeiling <= derived
  BY <1>1, <1>2, <1>3
<1>5. /\ ReadLimit \in 1..MaxConfigurableBytes
      /\ ReadLimit <= DefaultMaxBytes \/ ReadLimit <= derived
  BY <1>1, <1>2, <1>4 DEF ReadLimit
<1>6. ReadLimit <= derived => ReadLimit * ExpansionFactor <= memLimit
  BY <1>1, <1>5, WithinDivision DEF derived
<1> QED
  BY <1>5, <1>6

(* One byte more than the cap is asked for, and had it come the body would not
   be decoded. *)
LEMMA ReadToItsEnd ==
  ASSUME SettingsInv, BodyRead
  PROVE  got' = size
<1>1. /\ ReadLimit \in Nat /\ ReadLimit + 1 \in 0..MaxInt /\ size \in Nat
  BY LimitAffordable, LimitsAssumption DEF SettingsInv
<1>2. got' = BytesWithin(ReadLimit + 1) /\ got' <= ReadLimit
  BY <1>1, NoWrap DEF BodyRead
<1> HIDE DEF ReadLimit
<1> QED
  BY <1>1, <1>2 DEF BytesWithin

ReadInv == SettingsInv /\ (pc = "decode" => got = size)

LEMMA NextReadInv == ReadInv /\ [Next]_vars => ReadInv'
<1> SUFFICES ASSUME ReadInv, [Next]_vars PROVE ReadInv'
  OBVIOUS
<1>1. UNCHANGED confVars
  BY DEF Next, RequestFails, BodyTooLarge, BodyRead, DecodeFails, Done, SkipFamily, BeginFamily,
         DropRow, ConvertRow, Convert, TooManySamples, EndFamily, Returned, vars, confVars
<1>2. SettingsInv'
  BY <1>1 DEF ReadInv, SettingsInv, confVars
<1>3. CASE BodyRead
  BY <1>1, <1>2, <1>3, ReadToItsEnd DEF ReadInv, confVars
<1>4. CASE ~BodyRead
  <2>1. pc' = "decode" => pc = "decode" /\ got' = got
    BY <1>4 DEF Next, RequestFails, BodyTooLarge, DecodeFails, Done, SkipFamily, BeginFamily,
                DropRow, ConvertRow, Convert, TooManySamples, EndFamily, Returned, vars, Fail,
                Decoding, Converting, Finite
  <2> QED
    BY <1>1, <1>2, <2>1 DEF ReadInv, confVars
<1> QED
  BY <1>3, <1>4

(* Only a body that was read to its end is decoded, whatever the peer sends,
   whatever cap and heap limit are configured. *)
THEOREM WholeBodyHolds == Spec => []NeverTruncated
<1>1. Init => ReadInv
  BY DEF Init, ReadInv, SettingsInv
<1>2. ASSUME ReadInv PROVE NeverTruncated
  <2>1. ReadLimit \in 1..MaxConfigurableBytes /\ MaxConfigurableBytes \in Nat
    BY <1>2, LimitAffordable, LimitsAssumption DEF ReadInv
  <2>2. 0 < ReadLimit /\ ReadLimit <= MaxConfigurableBytes
    <3> HIDE DEF ReadLimit
    <3> QED
      BY <2>1
  <2> QED
    BY <1>2, <2>2, LimitAffordable DEF ReadInv, NeverTruncated
<1> QED
  BY <1>1, <1>2, NextReadInv, PTL DEF Spec

-----------------------------------------------------------------------------
(* All or nothing. *)

(* The series of a family's first n rows, and of whole families. *)
Upto(k, n) == {SeriesOf(k, r) : r \in {r \in 1..n : body[k].rows[r] = "finite"}}
Whole(k)   == Upto(k, Len(body[k].rows))

Kept(k) ==
  KindOf(body[k].type) # "unsupported" /\ NormalizeName(body[k].name) \in CandidateNames(resolver)

SeriesIn(D) == UNION {Whole(k) : k \in {k \in D : Kept(k)}}

(* The families that are dealt with. *)
Passed == DOMAIN body \ (todo \cup {current})

(* While a body is decoded: the family under way is a kept one, and what it gave
   are the finite ones of its rows so far. *)
ConvertingInv ==
  current # 0 =>
    /\ current \in DOMAIN body \ todo /\ Kept(current)
    /\ row \in 1..(Len(body[current].rows) + 1)
    /\ Range(rows) = Upto(current, row - 1)

(* The inductive invariant: what is returned are the series of the families
   dealt with, and no series is in it twice. *)
DecodeInv ==
  /\ body \in Bodies
  /\ out \in Seq(KeptSeries) /\ IsInjective(out)
  /\ rows \in Seq(KeptSeries) /\ IsInjective(rows)
  /\ pc \in {"request", "decode", "returned"}
  /\ pc # "returned" => err = "none"
  /\ pc = "request" => current = 0 /\ out = << >>
  /\ pc = "decode" => /\ todo \subseteq DOMAIN body
                      /\ Range(out) = SeriesIn(Passed)
                      /\ ConvertingInv
  /\ AllOrNothing

(* The body is a sequence of families whose rows are sequences. *)
LEMMA BodyTypes ==
  ASSUME body \in Bodies
  PROVE  /\ \E n \in Nat : DOMAIN body = 1..n
         /\ \A k \in DOMAIN body : /\ Len(body[k].rows) \in Nat
                                   /\ DOMAIN body[k].rows = 1..Len(body[k].rows)
<1>1. PICK n \in 0..MaxFamilies : body \in [1..n -> Families]
  BY DEF Bodies
<1>2. n \in Nat
  BY BodiesAssumption
<1>3. \A k \in DOMAIN body : body[k].rows \in Seq(STRING)
  BY <1>1, BodiesAssumption DEF Families
<1> QED
  BY <1>1, <1>2, <1>3

(* The series to be kept are those of the families the decoder keeps. *)
LEMMA KeptSeriesAre ==
  ASSUME body \in Bodies
  PROVE  KeptSeries = SeriesIn(DOMAIN body)
<1>1. \A k \in DOMAIN body :
        Whole(k) = {SeriesOf(k, r) : r \in {r \in DOMAIN body[k].rows : body[k].rows[r] = "finite"}}
  BY BodyTypes DEF Whole, Upto
<1>2. \A k, r : SeriesOf(k, r).name = body[k].name
  BY DEF SeriesOf
<1>3. \A k : \A x \in Whole(k) : x.name = body[k].name
  BY <1>2 DEF Whole, Upto
<1>4. AllSeriesOf(body) =
        UNION {Whole(k) : k \in {k \in DOMAIN body : KindOf(body[k].type) # "unsupported"}}
  BY <1>1 DEF AllSeriesOf
<1> QED
  BY <1>3, <1>4 DEF KeptSeries, SeriesIn, Kept

LEMMA UptoFinite ==
  ASSUME NEW k, NEW n \in Nat
  PROVE  IsFiniteSet(Upto(k, n))
<1> DEFINE places == {r \in 1..n : body[k].rows[r] = "finite"}
           f == [r \in places |-> SeriesOf(k, r)]
<1>1. IsFiniteSet(places)
  <2>1. IsFiniteSet(1..n) /\ places \subseteq 1..n
    BY FS_Interval
  <2> QED
    BY <2>1, FS_Subset
<1>2. f \in Surjection(places, Upto(k, n))
  BY DEF Upto, Surjection
<1> HIDE DEF places, f
<1> QED
  BY <1>1, <1>2, FS_Surjection

LEMMA KeptFinite ==
  ASSUME body \in Bodies
  PROVE  IsFiniteSet(KeptSeries)
<1> DEFINE K == {k \in DOMAIN body : Kept(k)}
           W == {Whole(k) : k \in K}
           f == [k \in K |-> Whole(k)]
<1>1. IsFiniteSet(K)
  <2>1. PICK n \in Nat : DOMAIN body = 1..n
    BY BodyTypes
  <2>2. IsFiniteSet(1..n) /\ K \subseteq 1..n
    BY <2>1, FS_Interval
  <2> QED
    BY <2>2, FS_Subset
<1>2. f \in Surjection(K, W)
  BY DEF Surjection
<1>3. \A S \in W : IsFiniteSet(S)
  BY BodyTypes, UptoFinite DEF Whole
<1>4. KeptSeries = UNION W
  BY KeptSeriesAre DEF SeriesIn
<1> HIDE DEF K, W, f
<1>5. IsFiniteSet(W)
  BY <1>1, <1>2, FS_Surjection
<1> QED
  BY <1>3, <1>4, <1>5, FS_UNION

(* One more row of a family is one more series, unless it is dropped. *)
LEMMA UptoGrows ==
  ASSUME NEW k, NEW n \in Nat
  PROVE  /\ Upto(k, 0) = {}
         /\ Upto(k, n + 1) = IF body[k].rows[n + 1] = "finite"
                             THEN Upto(k, n) \cup {SeriesOf(k, n + 1)} ELSE Upto(k, n)
         /\ SeriesOf(k, n + 1) \notin Upto(k, n)
<1>1. 1..(n + 1) = 1..n \cup {n + 1} /\ n + 1 \notin 1..n
  OBVIOUS
<1>2. \A r : SeriesOf(k, r).row = r
  BY DEF SeriesOf
<1>3. Upto(k, 0) = {}
  BY DEF Upto
<1>4. Upto(k, n + 1) = IF body[k].rows[n + 1] = "finite"
                       THEN Upto(k, n) \cup {SeriesOf(k, n + 1)} ELSE Upto(k, n)
  BY <1>1 DEF Upto
<1>5. SeriesOf(k, n + 1) \notin Upto(k, n)
  BY <1>1, <1>2 DEF Upto
<1> QED
  BY <1>3, <1>4, <1>5

(* No series belongs to two families. *)
LEMMA FamilyOfSeries ==
  ASSUME NEW k, NEW n, NEW x \in Upto(k, n)
  PROVE  x.family = k
  BY DEF Upto, SeriesOf

LEMMA SameBody ==
  ASSUME UNCHANGED <<body, resolver>>
  PROVE  /\ KeptSeries' = KeptSeries
         /\ \A k, n : Upto(k, n)' = Upto(k, n)
         /\ \A k : Kept(k)' = Kept(k)
         /\ \A D : SeriesIn(D)' = SeriesIn(D)
<1>1. \A k, r : SeriesOf(k, r)' = SeriesOf(k, r)
  BY DEF SeriesOf
<1>2. \A k, n : Upto(k, n)' = Upto(k, n)
  BY <1>1 DEF Upto
<1>3. \A k : Kept(k)' = Kept(k) /\ Whole(k)' = Whole(k)
  BY <1>2 DEF Kept, Whole
<1>4. \A D : SeriesIn(D)' = SeriesIn(D)
  BY <1>3 DEF SeriesIn
<1>5. KeptSeries' = KeptSeries
  BY <1>1 DEF KeptSeries, AllSeriesOf
<1> QED
  BY <1>2, <1>3, <1>4, <1>5

LEMMA SeriesInOneMore ==
  ASSUME NEW D, NEW k
  PROVE  /\ SeriesIn({}) = {}
         /\ SeriesIn(D \cup {k}) = IF Kept(k) THEN SeriesIn(D) \cup Whole(k) ELSE SeriesIn(D)
  BY DEF SeriesIn

(* A scrape that fails, but not for the budget, returns nothing. *)
LEMMA FailStep ==
  ASSUME DecodeInv, UNCHANGED <<body, resolver>>, NEW reason \in {"request", "bodyTooLarge", "decode"},
         Fail(reason), rows' = rows, out' \in {out, << >>}
  PROVE  DecodeInv'
<1>1. pc' = "returned" /\ err' = reason
  BY DEF Fail
<1>2. out' \in Seq(KeptSeries) /\ IsInjective(out')
  BY EmptySequence DEF DecodeInv
<1>3. AllOrNothing'
  BY <1>1 DEF AllOrNothing, Succeeded
<1> QED
  BY <1>1, <1>2, <1>3, SameBody DEF DecodeInv

(* A step within decode. *)
LEMMA DecodeStep ==
  ASSUME DecodeInv, UNCHANGED <<body, resolver, pc, err>>, pc = "decode",
         out' \in Seq(KeptSeries), IsInjective(out'),
         rows' \in Seq(KeptSeries), IsInjective(rows'),
         todo' \subseteq todo, Range(out') = SeriesIn(Passed'), ConvertingInv'
  PROVE  DecodeInv'
<1>1. AllOrNothing'
  BY DEF AllOrNothing, Succeeded, DecodeInv
<1>2. Range(out)' = SeriesIn(Passed)'
  BY SameBody
<1> QED
  BY <1>1, <1>2, SameBody DEF DecodeInv

LEMMA BodyReadStep == ASSUME DecodeInv, BodyRead PROVE DecodeInv'
<1>1. /\ pc' = "decode" /\ todo' = DOMAIN body /\ err' = "none" /\ out' = << >> /\ rows' = rows
      /\ current' = 0 /\ UNCHANGED <<body, resolver>>
  BY DEF BodyRead, DecodeInv, confVars
<1>2. Passed' = {}
  BY <1>1 DEF Passed
<1>3. Range(out') = SeriesIn(Passed')
  BY <1>1, <1>2, SeriesInOneMore, EmptySequence
<1>4. Range(out)' = SeriesIn(Passed)'
  BY <1>1, <1>3, SameBody
<1>5. AllOrNothing' /\ ConvertingInv'
  BY <1>1 DEF AllOrNothing, Succeeded, ConvertingInv
<1>6. out' \in Seq(KeptSeries) /\ IsInjective(out')
  BY <1>1, EmptySequence
<1> QED
  BY <1>1, <1>4, <1>5, <1>6, SameBody DEF DecodeInv

LEMMA SkipStep == ASSUME DecodeInv, NEW k \in todo, SkipFamily(k) PROVE DecodeInv'
<1>1. /\ pc = "decode" /\ current = 0 /\ todo' = todo \ {k} /\ ~Kept(k)
      /\ UNCHANGED <<body, resolver, pc, err, current, out, rows>>
  BY DEF SkipFamily, Decoding, confVars, Kept
<1>2. k \in DOMAIN body /\ k # 0
  BY <1>1, BodyTypes DEF DecodeInv
<1>3. Passed' = Passed \cup {k}
  BY <1>1, <1>2 DEF Passed
<1>4. SeriesIn(Passed') = SeriesIn(Passed)
  BY <1>1, <1>3, SeriesInOneMore
<1>5. ConvertingInv'
  BY <1>1 DEF ConvertingInv
<1> QED
  BY <1>1, <1>4, <1>5, DecodeStep DEF DecodeInv

LEMMA BeginStep == ASSUME DecodeInv, NEW k \in todo, BeginFamily(k) PROVE DecodeInv'
<1>1. /\ pc = "decode" /\ current = 0 /\ current' = k /\ row' = 1 /\ rows' = << >> /\ Kept(k)
      /\ todo' = todo \ {k}
      /\ UNCHANGED <<body, resolver, pc, err, out>>
  BY DEF BeginFamily, Decoding, confVars, Kept
<1>2. k \in DOMAIN body /\ 0 \notin DOMAIN body
  BY <1>1, BodyTypes DEF DecodeInv
<1>3. Passed' = Passed
  BY <1>1, <1>2 DEF Passed
<1>4. Range(rows') = Upto(k, 0)
  BY <1>1, UptoGrows, EmptySequence
<1>5. ConvertingInv'
  <2>1. (row - 1)' = 0
    BY <1>1
  <2>2. Kept(current)' = Kept(k) /\ Range(rows)' = Upto(k, 0) /\ Upto(current, row - 1)' = Upto(k, 0)
    BY <1>1, <1>4, <2>1, SameBody
  <2>3. row' \in 1..(Len(body[k].rows) + 1)
    BY <1>1, <1>2, BodyTypes DEF DecodeInv
  <2> QED
    BY <1>1, <1>2, <2>2, <2>3 DEF ConvertingInv
<1>6. rows' \in Seq(KeptSeries) /\ IsInjective(rows')
  BY <1>1, EmptySequence
<1> QED
  BY <1>1, <1>3, <1>5, <1>6, DecodeStep DEF DecodeInv

(* Of what is returned no series is one of the family under way, and all of
   what that has given is to be kept. *)
LEMMA UnderWay ==
  ASSUME DecodeInv, pc = "decode", current # 0
  PROVE  /\ current \in DOMAIN body /\ Kept(current) /\ current \notin Passed
         /\ row \in Nat \ {0} /\ Len(body[current].rows) \in Nat
         /\ row <= Len(body[current].rows) + 1
         /\ \A x \in Range(out) : x.family # current
         /\ Upto(current, Len(body[current].rows)) \subseteq KeptSeries
<1>1. /\ current \in DOMAIN body \ todo /\ Kept(current)
      /\ row \in 1..(Len(body[current].rows) + 1)
      /\ Range(out) = SeriesIn(Passed)
  BY DEF DecodeInv, ConvertingInv
<1>2. Len(body[current].rows) \in Nat
  BY <1>1, BodyTypes DEF DecodeInv
<1>3. current \notin Passed
  BY DEF Passed
<1>4. \A k : \A x \in Whole(k) : x.family = k
  BY FamilyOfSeries DEF Whole
<1>5. \A x \in Range(out) : x.family # current
  BY <1>1, <1>3, <1>4 DEF SeriesIn
<1>6. Whole(current) \subseteq KeptSeries
  BY <1>1, KeptSeriesAre DEF DecodeInv, SeriesIn
<1> QED
  BY <1>1, <1>2, <1>3, <1>5, <1>6 DEF Whole

LEMMA DropStep == ASSUME DecodeInv, DropRow PROVE DecodeInv'
<1>1. /\ pc = "decode" /\ current # 0 /\ body[current].rows[row] # "finite" /\ row' = row + 1
      /\ row <= Len(body[current].rows)
      /\ UNCHANGED <<body, resolver, pc, err, todo, current, rows, out>>
  BY DEF DropRow, Converting, confVars
<1>2. row - 1 \in Nat /\ (row - 1) + 1 = row /\ row' - 1 = row /\ row' \in 1..(Len(body[current].rows) + 1)
  BY <1>1, UnderWay
<1>3. Upto(current, row) = Upto(current, row - 1)
  BY <1>1, <1>2, UptoGrows
<1>4. Passed' = Passed
  BY <1>1 DEF Passed
<1>5. ConvertingInv'
  <2>1. Kept(current)' = Kept(current) /\ Upto(current, row - 1)' = Upto(current, row)
    BY <1>1, <1>2, SameBody
  <2> QED
    BY <1>1, <1>2, <1>3, <2>1 DEF ConvertingInv, DecodeInv
<1> QED
  BY <1>1, <1>4, <1>5, DecodeStep DEF DecodeInv

LEMMA ConvertStep == ASSUME DecodeInv, ConvertRow PROVE DecodeInv'
<1> DEFINE s == SeriesOf(current, row)
<1>1. /\ pc = "decode" /\ current # 0 /\ body[current].rows[row] = "finite" /\ row' = row + 1
      /\ row <= Len(body[current].rows) /\ rows' = Append(rows, s)
      /\ UNCHANGED <<body, resolver, pc, err, todo, current, out>>
  BY DEF ConvertRow, Convert, Finite, Converting, confVars
<1>2. row - 1 \in Nat /\ (row - 1) + 1 = row /\ row' - 1 = row /\ row' \in 1..(Len(body[current].rows) + 1)
  BY <1>1, UnderWay
<1>3. Upto(current, row) = Upto(current, row - 1) \cup {s} /\ s \notin Upto(current, row - 1)
  <2>1. ASSUME NEW n \in Nat, n + 1 = row
        PROVE  Upto(current, row) = Upto(current, n) \cup {s} /\ s \notin Upto(current, n)
    BY <1>1, <2>1, UptoGrows
  <2> QED
    BY <1>2, <2>1
<1>4. s \in KeptSeries
  <2>1. row \in 1..Len(body[current].rows)
    BY <1>1, <1>2, UnderWay
  <2>2. s \in Upto(current, Len(body[current].rows))
    BY <1>1, <2>1 DEF Upto
  <2> QED
    BY <1>1, <2>2, UnderWay
<1>5. Range(rows) = Upto(current, row - 1) /\ rows \in Seq(KeptSeries) /\ IsInjective(rows)
  BY <1>1 DEF DecodeInv, ConvertingInv
<1> HIDE DEF s
<1>6. rows' \in Seq(KeptSeries) /\ IsInjective(rows') /\ Range(rows') = Upto(current, row)
  BY <1>1, <1>3, <1>4, <1>5, AppendRange, AppendDistinct
<1>7. Passed' = Passed
  BY <1>1 DEF Passed
<1>8. ConvertingInv'
  <2>1. Kept(current)' = Kept(current) /\ Upto(current, row - 1)' = Upto(current, row)
    BY <1>1, <1>2, SameBody
  <2> QED
    BY <1>1, <1>2, <1>6, <2>1 DEF ConvertingInv, DecodeInv
<1> QED
  BY <1>1, <1>6, <1>7, <1>8, DecodeStep DEF DecodeInv

LEMMA EndStep == ASSUME DecodeInv, EndFamily PROVE DecodeInv'
<1>1. /\ pc = "decode" /\ current # 0 /\ current' = 0 /\ out' = out \o rows
      /\ ~(row <= Len(body[current].rows))
      /\ UNCHANGED <<body, resolver, pc, err, todo, rows>>
  BY DEF EndFamily, Converting, confVars
<1>2. row - 1 = Len(body[current].rows)
  BY <1>1, UnderWay
<1>3. Range(rows) = Whole(current) /\ Range(out) = SeriesIn(Passed) /\ todo \subseteq DOMAIN body
  BY <1>1, <1>2 DEF DecodeInv, ConvertingInv, Whole
<1>4. Range(out) \cap Range(rows) = {}
  BY <1>1, <1>3, UnderWay, FamilyOfSeries DEF Whole
<1>5. /\ out' \in Seq(KeptSeries) /\ IsInjective(out')
      /\ Range(out') = Range(out) \cup Range(rows)
  BY <1>1, <1>4, ConcatRange, ConcatDistinct DEF DecodeInv
<1>6. Passed' = Passed \cup {current}
  <2>1. current \in DOMAIN body \ todo /\ 0 \notin DOMAIN body
    BY <1>1, BodyTypes DEF DecodeInv, ConvertingInv
  <2> QED
    BY <1>1, <2>1 DEF Passed
<1>7. Range(out') = SeriesIn(Passed')
  BY <1>1, <1>3, <1>5, <1>6, UnderWay, SeriesInOneMore
<1>8. ConvertingInv'
  BY <1>1 DEF ConvertingInv
<1> QED
  BY <1>1, <1>5, <1>7, <1>8, DecodeStep DEF DecodeInv

(* The budget is only exceeded by series that are there. *)
LEMMA TooManyStep == ASSUME RetentionInv, DecodeInv, TooManySamples PROVE DecodeInv'
<1> DEFINE s == SeriesOf(current, row)
           all == Append(out \o rows, s)
<1>1. /\ pc = "decode" /\ current # 0 /\ body[current].rows[row] = "finite"
      /\ row <= Len(body[current].rows) /\ Len(rows) >= MaxSamples - Len(out)
      /\ pc' = "returned" /\ err' = "tooManySamples" /\ out' = << >> /\ current' = 0
      /\ UNCHANGED <<body, resolver, rows>>
  BY DEF TooManySamples, Finite, Converting, Budget, Fail, confVars
<1>2. row - 1 \in Nat /\ (row - 1) + 1 = row /\ row \in 1..Len(body[current].rows)
  BY <1>1, UnderWay
<1>3. s \in KeptSeries /\ s.family = current /\ s \notin Range(rows)
  <2>1. s \in Upto(current, Len(body[current].rows))
    BY <1>1, <1>2 DEF Upto
  <2>2. Range(rows) = Upto(current, row - 1)
    BY <1>1 DEF DecodeInv, ConvertingInv
  <2>3. s \notin Upto(current, row - 1)
    <3>1. ASSUME NEW n \in Nat, n + 1 = row PROVE s \notin Upto(current, n)
      BY <3>1, UptoGrows
    <3> QED
      BY <1>2, <3>1
  <2> QED
    BY <1>1, <2>1, <2>2, <2>3, UnderWay, FamilyOfSeries
<1>4. /\ out \in Seq(KeptSeries) /\ IsInjective(out) /\ rows \in Seq(KeptSeries) /\ IsInjective(rows)
      /\ Range(rows) = Upto(current, row - 1)
  BY <1>1 DEF DecodeInv, ConvertingInv
<1> HIDE DEF s
<1>5. Range(out) \cap Range(rows) = {} /\ s \notin Range(out)
  BY <1>1, <1>3, <1>4, UnderWay, FamilyOfSeries
<1>6. /\ out \o rows \in Seq(KeptSeries) /\ IsInjective(out \o rows)
      /\ Range(out \o rows) = Range(out) \cup Range(rows)
      /\ Len(out \o rows) = Len(out) + Len(rows)
  BY <1>4, <1>5, ConcatRange, ConcatDistinct, ConcatProperties
<1>7. /\ all \in Seq(KeptSeries) /\ IsInjective(all) /\ Len(all) = Len(out) + Len(rows) + 1
  <2>1. ASSUME NEW q \in Seq(KeptSeries), IsInjective(q), s \notin Range(q)
        PROVE  /\ Append(q, s) \in Seq(KeptSeries) /\ IsInjective(Append(q, s))
               /\ Len(Append(q, s)) = Len(q) + 1
    BY <1>3, <2>1, AppendRange, AppendDistinct, AppendProperties
  <2>2. s \notin Range(out \o rows)
    BY <1>3, <1>5, <1>6
  <2> QED
    BY <1>6, <2>1, <2>2
<1> HIDE DEF all
<1>8. Cardinality(KeptSeries) > MaxSamples
  <2>1. Range(all) \subseteq KeptSeries
    BY <1>7 DEF Range
  <2>2. Cardinality(Range(all)) = Len(all)
    BY <1>7, DistinctCount
  <2>3. IsFiniteSet(KeptSeries)
    BY KeptFinite DEF DecodeInv
  <2>4. Cardinality(KeptSeries) \in Nat /\ Len(all) <= Cardinality(KeptSeries)
    BY <2>1, <2>2, <2>3, FS_Subset, FS_CardinalityType
  <2>5. Len(out) \in Nat /\ Len(rows) \in Nat /\ MaxSamples \in Nat
    BY <1>4, LimitsAssumption
  <2> QED
    BY <1>1, <1>7, <2>4, <2>5
<1>9. AllOrNothing'
  BY <1>1, <1>8, SameBody DEF AllOrNothing, Succeeded
<1> QED
  BY <1>1, <1>9, EmptySequence, SameBody DEF DecodeInv

LEMMA DoneStep == ASSUME DecodeInv, Done PROVE DecodeInv'
<1>1. /\ pc = "decode" /\ current = 0 /\ todo = {} /\ pc' = "returned" /\ err' = "none"
      /\ UNCHANGED <<body, resolver, current, rows, out>>
  BY DEF Done, Decoding, confVars, DecodeInv
<1>2. Passed = DOMAIN body
  <2>1. 0 \notin DOMAIN body
    BY <1>1, BodyTypes DEF DecodeInv
  <2> QED
    BY <1>1, <2>1 DEF Passed
<1>3. Range(out) = KeptSeries
  BY <1>1, <1>2, KeptSeriesAre DEF DecodeInv
<1>4. Len(out) = Cardinality(KeptSeries)
  BY <1>3, DistinctCount DEF DecodeInv
<1>5. AllOrNothing'
  BY <1>1, <1>3, <1>4, SameBody DEF AllOrNothing, Range
<1> QED
  BY <1>1, <1>5, SameBody DEF DecodeInv

LEMMA NextDecodeInv == RetentionInv /\ DecodeInv /\ [Next]_vars => DecodeInv'
<1> SUFFICES ASSUME RetentionInv, DecodeInv, [Next]_vars PROVE DecodeInv'
  OBVIOUS
<1>1. CASE RequestFails \/ BodyTooLarge \/ DecodeFails
  BY <1>1, FailStep DEF RequestFails, BodyTooLarge, DecodeFails, confVars
<1>2. CASE BodyRead
  BY <1>2, BodyReadStep
<1>3. CASE Done
  BY <1>3, DoneStep
<1>4. ASSUME NEW k \in todo, SkipFamily(k) PROVE DecodeInv'
  BY <1>4, SkipStep
<1>5. ASSUME NEW k \in todo, BeginFamily(k) PROVE DecodeInv'
  BY <1>5, BeginStep
<1>6. CASE DropRow \/ ConvertRow \/ EndFamily
  BY <1>6, DropStep, ConvertStep, EndStep
<1>7. CASE TooManySamples
  BY <1>7, TooManyStep
<1>8. CASE UNCHANGED vars
  <2>1. UNCHANGED <<body, resolver, pc, err, todo, current, row, rows, out>>
    BY <1>8 DEF vars
  <2>2. AllOrNothing' /\ Passed' = Passed
    BY <2>1, SameBody DEF DecodeInv, AllOrNothing, Succeeded, Passed
  <2>3. Range(out)' = SeriesIn(Passed)' <=> Range(out) = SeriesIn(Passed)
    BY <2>1, <2>2, SameBody
  <2>4. ConvertingInv' <=> ConvertingInv
    BY <2>1, SameBody DEF ConvertingInv
  <2> QED
    BY <2>1, <2>2, <2>3, <2>4, SameBody DEF DecodeInv
<1> QED
  BY <1>1, <1>2, <1>3, <1>4, <1>5, <1>6, <1>7, <1>8 DEF Next, Returned

LEMMA InitDecodeInv == Init => DecodeInv
<1> SUFFICES ASSUME Init PROVE DecodeInv
  OBVIOUS
<1>1. /\ body \in Bodies /\ pc = "request" /\ err = "none" /\ current = 0
      /\ out = << >> /\ rows = << >>
  BY DEF Init
<1>2. AllOrNothing
  BY <1>1 DEF AllOrNothing, Succeeded
<1> QED
  BY <1>1, <1>2, EmptySequence DEF DecodeInv

(* A scrape that succeeds returns every series there is to keep, once, and one
   that is abandoned for the budget had more of them than the budget, for any
   body, in any order of its families. *)
THEOREM AllOrNothingHolds == Spec => []AllOrNothing
<1>1. DecodeInv => AllOrNothing
  BY DEF DecodeInv
<1> QED
  BY <1>1, InitDecodeInv, NextDecodeInv, RetentionInvHolds, PTL DEF Spec

-----------------------------------------------------------------------------
(* Selection: a role is read from one family, whose name is the winner's. *)
LEMMA MatchesRange ==
  ASSUME NEW T, NEW all \in Seq(T), NEW c
  PROVE  /\ MatchesOf(c, all) \in Seq(T)
         /\ Range(MatchesOf(c, all)) = {all[j] : j \in Matching(c, all)}
         /\ MatchesOf(c, all) # << >> <=> SpellingsOf(c, all) # {}
<1>1. Matching(c, all) \cap DOMAIN all = Matching(c, all)
  BY DEF Matching
<1>2. /\ MatchesOf(c, all) \in Seq(T)
      /\ Range(MatchesOf(c, all)) = {all[j] : j \in Matching(c, all)}
  BY <1>1, SubsequenceMembers DEF MatchesOf
<1>3. MatchesOf(c, all) = << >> <=> Range(MatchesOf(c, all)) = {}
  BY <1>2 DEF Range
<1> QED
  BY <1>2, <1>3 DEF SpellingsOf

LEMMA WinnerIsSpelled ==
  ASSUME NEW T, NEW all \in Seq(T), NEW c, SpellingsOf(c, all) # {}
  PROVE  /\ Winner(c, all) \in SpellingsOf(c, all)
         /\ c.name \in SpellingsOf(c, all) => Winner(c, all) = c.name
<1> DEFINE matched == MatchesOf(c, all)
<1>1. matched \in Seq(T) /\ matched # << >>
  BY MatchesRange
<1>2. SpellingsOf(c, all) = {matched[j].name : j \in DOMAIN matched}
  <2>1. Range(matched) = {all[j] : j \in Matching(c, all)}
    BY MatchesRange
  <2>2. SpellingsOf(c, all) = {y.name : y \in {all[j] : j \in Matching(c, all)}}
    BY DEF SpellingsOf
  <2> HIDE DEF matched
  <2>3. {y.name : y \in Range(matched)} = {matched[j].name : j \in DOMAIN matched}
    BY DEF Range
  <2> QED
    BY <2>1, <2>2, <2>3
<1>3. Winner(c, all) = IF \E j \in DOMAIN matched : matched[j].name = c.name
                       THEN c.name ELSE matched[1].name
  BY DEF Winner
<1> HIDE DEF matched
<1>4. 1 \in DOMAIN matched
  BY <1>1
<1> QED
  BY <1>2, <1>3, <1>4

LEMMA OneFamilyOnly ==
  ASSUME NEW T, NEW all \in Seq(T), NEW c, SpellingsOf(c, all) # {}
  PROVE  /\ MatchFamily(c, all) \in Seq(T) /\ MatchFamily(c, all) # << >>
         /\ \A j \in DOMAIN MatchFamily(c, all) : MatchFamily(c, all)[j].name = Winner(c, all)
<1> DEFINE w == Winner(c, all)
           family == MatchFamily(c, all)
<1>1. family \in Seq(T) /\ Range(family) = {all[j] : j \in Named(w, all) \cap DOMAIN all}
  BY SubsequenceMembers DEF MatchFamily
<1>2. PICK j \in DOMAIN all : all[j].name = w
  BY WinnerIsSpelled DEF SpellingsOf, Matching
<1> HIDE DEF family, w
<1>3. all[j] \in Range(family)
  BY <1>1, <1>2 DEF Named
<1>4. \A y \in Range(family) : y.name = w
  BY <1>1 DEF Named
<1> QED
  BY <1>1, <1>3, <1>4 DEF Range, family, w

(* Turning the series round changes neither what matches nor its spellings. *)
LEMMA ReversedMatches ==
  ASSUME NEW T, NEW all \in Seq(T)
  PROVE  /\ Reversed(all) \in Seq(T)
         /\ \A c : SpellingsOf(c, Reversed(all)) = SpellingsOf(c, all)
<1>1. Len(all) \in Nat /\ DOMAIN all = 1..Len(all) /\ DOMAIN Reversed(all) = 1..Len(all)
  BY DEF Reversed
<1>2. \A j \in 1..Len(all) : /\ Len(all) + 1 - j \in 1..Len(all)
                             /\ Len(all) + 1 - (Len(all) + 1 - j) = j
                             /\ Reversed(all)[j] = all[Len(all) + 1 - j]
  BY <1>1 DEF Reversed
<1>3. \A j \in 1..Len(all) : all[j] = Reversed(all)[Len(all) + 1 - j]
  BY <1>2
<1>4. Reversed(all) \in Seq(T)
  <2>1. \A j \in 1..Len(all) : Reversed(all)[j] \in T
    BY <1>2
  <2>2. Reversed(all) = [j \in 1..Len(all) |-> Reversed(all)[j]]
    BY <1>1 DEF Reversed
  <2> QED
    BY <1>1, <2>1, <2>2
<1>5. ASSUME NEW c PROVE SpellingsOf(c, Reversed(all)) = SpellingsOf(c, all)
  <2>1. SpellingsOf(c, all) = {all[j].name : j \in {j \in 1..Len(all) : Matches(c, all[j].name)}}
    BY <1>1 DEF SpellingsOf, Matching
  <2>2. SpellingsOf(c, Reversed(all)) =
          {Reversed(all)[j].name : j \in {j \in 1..Len(all) : Matches(c, Reversed(all)[j].name)}}
    BY <1>1 DEF SpellingsOf, Matching
  <2> QED
    BY <1>2, <1>3, <2>1, <2>2
<1> QED
  BY <1>4, <1>5

(* What Select reads a role from, by the candidate it settles on. *)
Settled(role, all) ==
  {j \in DOMAIN Candidates(resolver, role) : SpellingsOf(Candidates(resolver, role)[j], all) # {}}

First(J) == CHOOSE j \in J : \A k \in J : j <= k

LEMMA CandidatesAre ==
  ASSUME NEW role \in Roles
  PROVE  /\ DOMAIN Candidates(resolver, role) \subseteq Nat
         /\ \A j \in DOMAIN Candidates(resolver, role) :
              LET c == Candidates(resolver, role)[j]
              IN  \/ c.exact /\ \A n : Matches(c, n) <=> n = c.name
                  \/ resolver[role] = NoOverride /\ c = [name |-> c.name, exact |-> FALSE]
<1>1. CASE resolver[role] # NoOverride
  <2>1. Candidates(resolver, role) = <<[name |-> resolver[role], exact |-> TRUE]>>
    BY <1>1 DEF Candidates
  <2> QED
    BY <2>1 DEF Matches
<1>2. CASE resolver[role] = NoOverride
  <2>1. Candidates(resolver, role) =
          [j \in DOMAIN Defaults(role) |-> [name |-> Defaults(role)[j], exact |-> FALSE]]
    BY <1>2 DEF Candidates
  <2>2. DOMAIN Defaults(role) \subseteq Nat
    BY DEF Defaults
  <2> QED
    BY <1>2, <2>1, <2>2
<1> QED
  BY <1>1, <1>2

LEMMA SelectedFrom ==
  ASSUME NEW T, NEW all \in Seq(T), NEW role \in Roles
  PROVE  LET first == First(Settled(role, all))
             c == Candidates(resolver, role)[first]
         IN  IF Settled(role, all) = {} THEN Select(resolver, role, all).series = << >>
             ELSE /\ first \in Settled(role, all)
                  /\ Select(resolver, role, all).name = c.name
                  /\ Select(resolver, role, all).series[1].name = Winner(c, all)
<1> DEFINE candidates == Candidates(resolver, role)
           first == First(Settled(role, all))
           c == candidates[first]
<1>1. Settled(role, all) = {j \in DOMAIN candidates : MatchesOf(candidates[j], all) # << >>}
  BY MatchesRange DEF Settled
<1>2. CASE Settled(role, all) = {}
  BY <1>1, <1>2 DEF Select, NoSelection
<1>3. CASE Settled(role, all) # {}
  <2>1. first \in Settled(role, all)
    <3>1. Settled(role, all) \in SUBSET Nat
      BY CandidatesAre DEF Settled
    <3> QED
      BY <1>3, <3>1, Smallest DEF First
  <2>2. /\ Select(resolver, role, all).name = c.name
        /\ Select(resolver, role, all).series = MatchFamily(c, all)
    BY <1>1, <1>3 DEF Select, First
  <2>3. SpellingsOf(c, all) # {}
    BY <2>1 DEF Settled
  <2>4. MatchFamily(c, all)[1].name = Winner(c, all)
    <3> HIDE DEF c
    <3>1. /\ MatchFamily(c, all) \in Seq(T) /\ MatchFamily(c, all) # << >>
          /\ \A j \in DOMAIN MatchFamily(c, all) : MatchFamily(c, all)[j].name = Winner(c, all)
      BY <2>3, OneFamilyOnly
    <3> QED
      BY <3>1
  <2> QED
    BY <1>3, <2>1, <2>2, <2>4
<1> QED
  BY <1>2, <1>3

LEMMA TwoAtLeast ==
  ASSUME NEW S, IsFiniteSet(S), NEW a \in S, NEW b \in S, a # b
  PROVE  Cardinality(S) >= 2
<1>1. IsFiniteSet({a}) /\ Cardinality({a}) = 1
  BY FS_Singleton
<1>2. IsFiniteSet({a} \cup {b}) /\ Cardinality({a} \cup {b}) = 2
  <2>1. b \notin {a}
    OBVIOUS
  <2>2. /\ IsFiniteSet({a} \cup {b})
        /\ Cardinality({a} \cup {b}) = IF b \in {a} THEN Cardinality({a}) ELSE Cardinality({a}) + 1
    <3> DEFINE A == {a}
    <3>1. IsFiniteSet(A)
      BY <1>1
    <3> HIDE DEF A
    <3>2. /\ IsFiniteSet(A \cup {b})
          /\ Cardinality(A \cup {b}) = IF b \in A THEN Cardinality(A) ELSE Cardinality(A) + 1
      BY <3>1, FS_AddElement
    <3> QED
      BY <3>2 DEF A
  <2> QED
    BY <1>1, <2>1, <2>2
<1>3. {a} \cup {b} \subseteq S
  OBVIOUS
<1> QED
  BY <1>2, <1>3, FS_Subset, FS_CardinalityType

LEMMA SpellingsFinite ==
  ASSUME NEW T, NEW all \in Seq(T), NEW c
  PROVE  IsFiniteSet(SpellingsOf(c, all))
<1>1. IsFiniteSet(1..Len(all))
  BY FS_Interval
<1>2. Matching(c, all) \subseteq 1..Len(all)
  BY DEF Matching
<1>3. IsFiniteSet(Matching(c, all))
  BY <1>1, <1>2, FS_Subset
<1>4. SpellingsOf(c, all) = {all[j].name : j \in Matching(c, all)}
  BY DEF SpellingsOf
<1> DEFINE f == [j \in Matching(c, all) |-> all[j].name]
<1>5. f \in Surjection(Matching(c, all), SpellingsOf(c, all))
  BY <1>4 DEF Surjection
<1> QED
  BY <1>3, <1>5, FS_Surjection

(* A role reads from another family when the families come in another order
   only if a built-in candidate is spelled in two ways and neither is its own,
   whatever was decoded: the candidate settled on is the same in both orders,
   and the winner is the candidate's own spelling when that was decoded. *)
THEOREM OrderHolds == Spec => []OrderOnlyAmongAliases
<1>1. DecodeInv => OrderOnlyAmongAliases
  <2> SUFFICES ASSUME DecodeInv, NEW role \in Roles,
                      LET there == Select(resolver, role, out)
                          back  == Select(resolver, role, Reversed(out))
                      IN  there.series # << >> /\ there.series[1].name # back.series[1].name
               PROVE  LET there == Select(resolver, role, out)
                          c == [name |-> there.name, exact |-> FALSE]
                      IN  /\ resolver[role] = NoOverride
                          /\ there.name \notin SpellingsOf(c, out)
                          /\ Cardinality(SpellingsOf(c, out)) >= 2
    BY DEF OrderOnlyAmongAliases
  <2> DEFINE there == Select(resolver, role, out)
             back  == Select(resolver, role, Reversed(out))
             first == First(Settled(role, out))
             c == Candidates(resolver, role)[first]
  <2>1. out \in Seq(KeptSeries) /\ Reversed(out) \in Seq(KeptSeries)
    BY ReversedMatches DEF DecodeInv
  <2>2. \A d : SpellingsOf(d, Reversed(out)) = SpellingsOf(d, out)
    BY <2>1, ReversedMatches
  <2>3. Settled(role, Reversed(out)) = Settled(role, out)
    BY <2>2 DEF Settled
  <2>4. /\ first \in Settled(role, out) /\ there.name = c.name
        /\ there.series[1].name = Winner(c, out)
    BY <2>1, SelectedFrom
  <2>5. back.series[1].name = Winner(c, Reversed(out))
    BY <2>1, <2>3, <2>4, SelectedFrom
  <2>6. /\ SpellingsOf(c, out) # {} /\ first \in DOMAIN Candidates(resolver, role)
        /\ SpellingsOf(c, Reversed(out)) = SpellingsOf(c, out)
    BY <2>2, <2>4 DEF Settled
  <2>7. Winner(c, out) # Winner(c, Reversed(out))
    BY <2>4, <2>5
  <2>8. \/ c.exact /\ \A n : Matches(c, n) <=> n = c.name
        \/ resolver[role] = NoOverride /\ c = [name |-> c.name, exact |-> FALSE]
    BY <2>6, CandidatesAre
  <2> HIDE DEF first, c, there, back
  <2>9. /\ Winner(c, out) \in SpellingsOf(c, out)
        /\ c.name \in SpellingsOf(c, out) => Winner(c, out) = c.name
    BY <2>1, <2>6, WinnerIsSpelled
  <2>10. /\ Winner(c, Reversed(out)) \in SpellingsOf(c, out)
         /\ c.name \in SpellingsOf(c, out) => Winner(c, Reversed(out)) = c.name
    BY <2>1, <2>6, WinnerIsSpelled
  <2>11. c.name \notin SpellingsOf(c, out)
    BY <2>7, <2>9, <2>10
  <2>12. resolver[role] = NoOverride /\ c = [name |-> c.name, exact |-> FALSE]
    <3>1. ASSUME \A n : Matches(c, n) <=> n = c.name PROVE FALSE
      BY <2>6, <2>11, <3>1 DEF SpellingsOf, Matching
    <3> QED
      BY <2>8, <3>1
  <2>13. Cardinality(SpellingsOf(c, out)) >= 2
    BY <2>1, <2>7, <2>9, <2>10, SpellingsFinite, TwoAtLeast
  <2> QED
    BY <2>4, <2>11, <2>12, <2>13 DEF there
<1> QED
  BY <1>1, InitDecodeInv, NextDecodeInv, RetentionInvHolds, PTL DEF Spec

-----------------------------------------------------------------------------
(* The place NormalizeName strips a name back to, for each of its prefixes. *)
StripsTo(name, f, n) ==
  f = [k \in 1..n |-> IF k > 1 /\ name[k] \in UnitSuffixes THEN f[k - 1] ELSE k]

LEMMA StripsToExists ==
  ASSUME NEW name
  PROVE  \A n \in Nat : \E f : StripsTo(name, f, n)
<1> DEFINE B == {n \in Nat : \E f : StripsTo(name, f, n)}
<1>1. 0 \in B
  <2>1. StripsTo(name, [k \in 1..0 |-> k], 0)
    BY DEF StripsTo
  <2> QED
    BY <2>1
<1>2. ASSUME NEW n \in Nat, n \in B PROVE n + 1 \in B
  <2>1. PICK f : StripsTo(name, f, n)
    BY <1>2
  <2> DEFINE last == IF n + 1 > 1 /\ name[n + 1] \in UnitSuffixes THEN f[n] ELSE n + 1
             g == [k \in 1..(n + 1) |-> IF k = n + 1 THEN last ELSE f[k]]
             h == [k \in 1..(n + 1) |-> IF k > 1 /\ name[k] \in UnitSuffixes
                                        THEN g[k - 1] ELSE k]
  <2>2. ASSUME NEW k \in 1..(n + 1) PROVE g[k] = h[k]
    <3>1. CASE k = n + 1
      <4>1. g[k] = last
        BY <3>1
      <4>2. h[k] = IF k > 1 /\ name[k] \in UnitSuffixes THEN g[k - 1] ELSE k
        OBVIOUS
      <4>3. ASSUME k > 1 PROVE g[k - 1] = f[n]
        <5>1. k - 1 \in 1..(n + 1) /\ k - 1 = n /\ n # n + 1
          BY <3>1, <4>3
        <5> QED
          BY <5>1
      <4> HIDE DEF g, h
      <4> QED
        BY <3>1, <4>1, <4>2, <4>3
    <3>2. CASE k # n + 1
      <4>1. k \in 1..n /\ g[k] = f[k]
        BY <3>2
      <4>2. f[k] = IF k > 1 /\ name[k] \in UnitSuffixes THEN f[k - 1] ELSE k
        BY <2>1, <4>1 DEF StripsTo
      <4>3. ASSUME k > 1 PROVE g[k - 1] = f[k - 1]
        <5>1. k - 1 \in 1..(n + 1) /\ k - 1 # n + 1
          BY <4>1, <4>3
        <5> QED
          BY <5>1
      <4>4. h[k] = IF k > 1 /\ name[k] \in UnitSuffixes THEN g[k - 1] ELSE k
        OBVIOUS
      <4> HIDE DEF g, h
      <4> QED
        BY <4>1, <4>2, <4>3, <4>4
    <3> QED
      BY <3>1, <3>2
  <2>3. g = h
    BY <2>2
  <2>4. StripsTo(name, g, n + 1)
    <3> HIDE DEF last
    <3> QED
      BY <2>3 DEF StripsTo
  <2> QED
    BY <2>4
<1>3. Nat \subseteq B
  <2> HIDE DEF B
  <2> QED
    BY <1>1, <1>2, Inductively
<1> QED
  BY <1>3

(* A name is stripped back to its last place that is not a unit suffix, and to
   no less than its base. *)
StripPoint(name, k) ==
  /\ k \in 1..Len(name)
  /\ k = 1 \/ name[k] \notin UnitSuffixes
  /\ \A j \in (k + 1)..Len(name) : name[j] \in UnitSuffixes

LEMMA NormalForm ==
  ASSUME NEW T, NEW name \in Seq(T), name # << >>
  PROVE  \E k : StripPoint(name, k) /\ NormalizeName(name) = SubSeq(name, 1, k)
<1> DEFINE f == CHOOSE g : StripsTo(name, g, Len(name))
           Stripped(n) == /\ f[n] \in 1..n
                          /\ f[n] = 1 \/ name[f[n]] \notin UnitSuffixes
                          /\ \A j \in (f[n] + 1)..n : name[j] \in UnitSuffixes
           B == {n \in Nat : n \in 1..Len(name) => Stripped(n)}
<1>1. Len(name) \in Nat /\ Len(name) # 0
  OBVIOUS
<1>2. StripsTo(name, f, Len(name))
  <2>1. \E g : StripsTo(name, g, Len(name))
    BY <1>1, StripsToExists
  <2> QED
    BY <2>1
<1>3. NormalizeName(name) = SubSeq(name, 1, f[Len(name)])
  BY DEF NormalizeName, StripsTo
<1> HIDE DEF f
<1>4. \A n \in 1..Len(name) :
        f[n] = IF n > 1 /\ name[n] \in UnitSuffixes THEN f[n - 1] ELSE n
  BY <1>2 DEF StripsTo
<1>5. 0 \in B
  OBVIOUS
<1>6. ASSUME NEW n \in Nat, n \in B PROVE n + 1 \in B
  <2> SUFFICES ASSUME n + 1 \in 1..Len(name) PROVE Stripped(n + 1)
    OBVIOUS
  <2>1. CASE n + 1 > 1 /\ name[n + 1] \in UnitSuffixes
    <3>1. f[n + 1] = f[n] /\ n \in 1..Len(name)
      BY <1>1, <1>4, <2>1
    <3>2. Stripped(n)
      BY <1>6, <3>1
    <3>3. \A j \in (f[n] + 1)..(n + 1) : j \in (f[n] + 1)..n \/ j = n + 1
      BY <3>2
    <3>4. f[n] \in 1..(n + 1)
      BY <3>2
    <3> QED
      BY <2>1, <3>1, <3>2, <3>3, <3>4
  <2>2. CASE ~(n + 1 > 1 /\ name[n + 1] \in UnitSuffixes)
    <3>1. f[n + 1] = n + 1
      BY <1>4, <2>2
    <3>2. n + 1 = 1 \/ name[n + 1] \notin UnitSuffixes
      BY <2>2
    <3> QED
      BY <3>1, <3>2
  <2> QED
    BY <2>1, <2>2
<1>7. Len(name) \in B
  <2> HIDE DEF B
  <2> QED
    BY <1>1, <1>5, <1>6, Inductively
<1>8. StripPoint(name, f[Len(name)])
  BY <1>1, <1>7 DEF StripPoint
<1> QED
  BY <1>3, <1>8

(* There is one such place only. *)
LEMMA StripPointUnique ==
  ASSUME NEW name, Len(name) \in Nat, NEW j, NEW k, StripPoint(name, j), StripPoint(name, k)
  PROVE  j = k
<1>1. ASSUME NEW a \in Nat, NEW b \in Nat, StripPoint(name, a), StripPoint(name, b), a < b
      PROVE  FALSE
  <2>1. a \in 1..Len(name) /\ b \in 1..Len(name) /\ b # 1 /\ b \in (a + 1)..Len(name)
    BY <1>1 DEF StripPoint
  <2> QED
    BY <1>1, <2>1 DEF StripPoint
<1>2. j \in Nat /\ k \in Nat
  BY DEF StripPoint
<1>3. ~(j < k) /\ ~(k < j)
  BY <1>1, <1>2
<1> QED
  BY <1>2, <1>3

(* "The Prometheus exporter of a collector appends unit suffixes": a name means
   the same with and without one, however many there are, so a candidate finds
   its family under any of its spellings (NormalizeName). *)
THEOREM SuffixDoesNotMatter ==
  ASSUME NEW T, NEW name \in Seq(T), name # << >>, NEW suffix \in UnitSuffixes \cap T
  PROVE  NormalizeName(Append(name, suffix)) = NormalizeName(name)
<1> DEFINE long == Append(name, suffix)
<1>1. /\ long \in Seq(T) /\ long # << >> /\ Len(name) \in Nat /\ Len(long) = Len(name) + 1
      /\ long[Len(name) + 1] = suffix
      /\ \A j \in 1..Len(name) : long[j] = name[j]
  OBVIOUS
<1> HIDE DEF long
<1>2. PICK k : StripPoint(name, k) /\ NormalizeName(name) = SubSeq(name, 1, k)
  BY NormalForm
<1>3. PICK l : StripPoint(long, l) /\ NormalizeName(long) = SubSeq(long, 1, l)
  BY <1>1, NormalForm
<1>4. k \in 1..Len(name) /\ k \in 1..Len(long)
  BY <1>1, <1>2 DEF StripPoint
<1>5. StripPoint(long, k)
  <2>1. long[k] = name[k]
    BY <1>1, <1>4
  <2>2. ASSUME NEW j \in (k + 1)..Len(long) PROVE long[j] \in UnitSuffixes
    <3>1. j = Len(name) + 1 \/ (j \in (k + 1)..Len(name) /\ j \in 1..Len(name))
      BY <1>1, <1>4
    <3> QED
      BY <1>1, <1>2, <3>1 DEF StripPoint
  <2> QED
    BY <1>2, <1>4, <2>1, <2>2 DEF StripPoint
<1>6. l = k
  BY <1>1, <1>3, <1>5, StripPointUnique
<1>7. SubSeq(long, 1, k) = SubSeq(name, 1, k)
  <2>1. \A j \in 1..k : long[j] = name[j]
    BY <1>1, <1>4
  <2> QED
    BY <1>1, <1>4, <2>1
<1> QED
  BY <1>2, <1>3, <1>6, <1>7 DEF long

(* Stripping is done once and for all: what the agent compares is in normal
   form already (NormalizeName, CandidateNames). *)
THEOREM NormalizeIdempotent ==
  ASSUME NEW T, NEW name \in Seq(T), name # << >>
  PROVE  NormalizeName(NormalizeName(name)) = NormalizeName(name)
<1> DEFINE short == NormalizeName(name)
<1>1. PICK k : StripPoint(name, k) /\ short = SubSeq(name, 1, k)
  BY NormalForm
<1>2. k \in 1..Len(name) /\ Len(name) \in Nat
  BY <1>1 DEF StripPoint
<1> HIDE DEF short
<1>3. /\ short \in Seq(T) /\ Len(short) = k /\ short # << >>
      /\ \A j \in 1..k : short[j] = name[j]
  BY <1>1, <1>2
<1>4. StripPoint(short, k)
  BY <1>1, <1>2, <1>3 DEF StripPoint
<1>5. PICK l : StripPoint(short, l) /\ NormalizeName(short) = SubSeq(short, 1, l)
  BY <1>3, NormalForm
<1>6. l = k
  BY <1>2, <1>3, <1>4, <1>5, StripPointUnique
<1>7. SubSeq(short, 1, k) = short
  BY <1>2, <1>3
<1> QED
  BY <1>5, <1>6, <1>7 DEF short
=============================================================================
