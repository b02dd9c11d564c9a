---------------------------- MODULE ScrapeClient -----------------------------
(***************************************************************************)
(* internal/scrape/scrape.go: one Fetch, from the request to the decoded   *)
(* series, and Resolver.Select on them.  The body is read under a cap that *)
(* is itself derived and may be configured badly; its families are decoded *)
(* one by one, their rows converted one by one against a budget.           *)
(*                                                                         *)
(* A family is its name, its type and the values of its rows, "finite" or  *)
(* not.  Sizes are integers that wrap past MaxInt, as int64 does past      *)
(* 2^63 - 1.  The decoder of expfmt parses the whole body and then hands   *)
(* out the families in an order of its own.                                *)
(***************************************************************************)
EXTENDS Resolver, FiniteSets

CONSTANTS FamilyNames, Types, RowLists,   \* bound: what a peer may expose
          MaxFamilies,                    \* bound: families of one body
          Resolvers,                      \* bound: configured overrides
          MaxSamples,
          MaxInt,                         \* the largest integer
          DefaultMaxBytes, MaxConfigurableBytes, ExpansionFactor,
          CapSettings, MemLimits,         \* bound: MaxBytes and GOMEMLIMIT
          BodySizes                       \* bound: bytes the peer sends

ASSUME LimitsAssumption ==
  /\ {MaxInt, DefaultMaxBytes, MaxConfigurableBytes} \subseteq Nat
  /\ 0 < DefaultMaxBytes /\ DefaultMaxBytes <= MaxConfigurableBytes
  /\ MaxConfigurableBytes < MaxInt
  /\ ExpansionFactor \in Nat \ {0} /\ MaxSamples \in Nat
  /\ CapSettings \cup MemLimits \subseteq -MaxInt..MaxInt
  /\ BodySizes \subseteq 0..MaxInt

ASSUME BodiesAssumption ==
  /\ MaxFamilies \in Nat
  /\ \A list \in RowLists : list \in Seq(STRING)

Families == [name : FamilyNames, type : Types, rows : RowLists]

(* A body names each family once. *)
Bodies == {B \in UNION {[1..n -> Families] : n \in 0..MaxFamilies} :
             \A j, k \in DOMAIN B : B[j].name = B[k].name => j = k}

VARIABLES resolver, maxBytes, memLimit,  \* configuration
          body, size,                    \* what the peer sends
          pc, err,
          got,       \* bytes read
          todo,      \* indices of the families not yet decoded
          current,   \* the family being converted, or 0
          row,       \* its row under consideration
          rows,      \* seriesFromFamily's local result
          out        \* decode's

confVars == <<resolver, maxBytes, memLimit, body, size>>
vars == <<resolver, maxBytes, memLimit, body, size, pc, err, got, todo, current, row, rows, out>>

Init ==
  /\ resolver \in Resolvers /\ maxBytes \in CapSettings /\ memLimit \in MemLimits
  /\ body \in Bodies /\ size \in BodySizes
  /\ pc = "request" /\ err = "none" /\ got = 0
  /\ todo = {} /\ current = 0 /\ row = 1 /\ rows = << >> /\ out = << >>

-----------------------------------------------------------------------------
(* Integers wrap at their width. *)
Wrap(n) == ((n + MaxInt + 1) % (2 * (MaxInt + 1))) - (MaxInt + 1)

(* The largest cap the heap limit affords, never below the default. *)
CapCeiling ==
  LET derived == memLimit \div ExpansionFactor
  IN  IF derived < DefaultMaxBytes THEN DefaultMaxBytes
      ELSE IF derived > MaxConfigurableBytes THEN MaxConfigurableBytes ELSE derived

(* A slip: whatever is configured is honoured. *)
ReadLimitTrusting == IF maxBytes <= 0 THEN DefaultMaxBytes ELSE maxBytes

ReadLimit == IF maxBytes <= 0 \/ maxBytes > CapCeiling THEN DefaultMaxBytes ELSE maxBytes

(* io.LimitReader yields nothing for a limit that is not positive. *)
BytesWithin(limit) == IF limit <= 0 THEN 0 ELSE IF size < limit THEN size ELSE limit

Fail(reason) == pc' = "returned" /\ err' = reason

(* The request, the status or reading the body failed; a redirect is a status. *)
RequestFails ==
  /\ pc = "request"
  /\ Fail("request")
  /\ UNCHANGED <<confVars, got, todo, current, row, rows, out>>

BodyTooLarge ==
  /\ pc = "request"
  /\ got' = BytesWithin(Wrap(ReadLimit + 1))
  /\ got' > ReadLimit
  /\ Fail("bodyTooLarge")
  /\ UNCHANGED <<confVars, todo, current, row, rows, out>>

BodyRead ==
  /\ pc = "request"
  /\ got' = BytesWithin(Wrap(ReadLimit + 1))
  /\ got' <= ReadLimit
  /\ pc' = "decode"
  /\ todo' = DOMAIN body
  /\ UNCHANGED <<confVars, err, current, row, rows, out>>

-----------------------------------------------------------------------------
(* decode: one family after the other. *)
KindOf(type) ==
  CASE type \in {"gauge", "untyped"} -> "gauge"
    [] type = "counter" -> "counter"
    [] OTHER -> "unsupported"

Decoding == pc = "decode" /\ current = 0

(* A line the parser refuses. *)
DecodeFails ==
  /\ Decoding
  /\ Fail("decode")
  /\ out' = << >>
  /\ UNCHANGED <<confVars, got, todo, current, row, rows>>

SkipFamily(k) ==
  /\ Decoding /\ k \in todo
  /\ \/ NormalizeName(body[k].name) \notin CandidateNames(resolver)
     \/ KindOf(body[k].type) = "unsupported"
  /\ todo' = todo \ {k}
  /\ UNCHANGED <<confVars, pc, err, got, current, row, rows, out>>

BeginFamily(k) ==
  /\ Decoding /\ k \in todo
  /\ NormalizeName(body[k].name) \in CandidateNames(resolver)
  /\ KindOf(body[k].type) # "unsupported"
  /\ todo' = todo \ {k}
  /\ current' = k /\ row' = 1 /\ rows' = << >>
  /\ UNCHANGED <<confVars, pc, err, got, out>>

Done ==
  /\ Decoding /\ todo = {}
  /\ pc' = "returned"
  /\ UNCHANGED <<confVars, err, got, todo, current, row, rows, out>>

-----------------------------------------------------------------------------
(* seriesFromFamily: one row after the other. *)
Converting == pc = "decode" /\ current # 0 /\ row <= Len(body[current].rows)

SeriesOf(k, r) == [name |-> body[k].name, kind |-> KindOf(body[k].type), family |-> k, row |-> r]

Budget == MaxSamples - Len(out)

(* scalarOf rejects NaN and the infinities. *)
DropRow ==
  /\ Converting
  /\ body[current].rows[row] # "finite"
  /\ row' = row + 1
  /\ UNCHANGED <<confVars, pc, err, got, todo, current, rows, out>>

Finite == Converting /\ body[current].rows[row] = "finite"

Convert(room) ==
  /\ Finite
  /\ room
  /\ rows' = Append(rows, SeriesOf(current, row))
  /\ row' = row + 1
  /\ UNCHANGED <<confVars, pc, err, got, todo, current, out>>

(* A slip: the budget checked between families only. *)
ConvertRowUnchecked == Convert(Budget > 0)

ConvertRow == Convert(Len(rows) < Budget)

(* A slip: what fits is kept and the rest forgotten. *)
TooManySamplesTruncating ==
  /\ Finite /\ Len(rows) >= Budget
  /\ out' = out \o rows
  /\ pc' = "returned"
  /\ current' = 0
  /\ UNCHANGED <<confVars, err, got, todo, row, rows>>

(* The scrape is abandoned, not truncated. *)
TooManySamples ==
  /\ Finite /\ Len(rows) >= Budget
  /\ Fail("tooManySamples")
  /\ out' = << >>
  /\ current' = 0
  /\ UNCHANGED <<confVars, got, todo, row, rows>>

EndFamily ==
  /\ pc = "decode" /\ current # 0 /\ ~Converting
  /\ out' = out \o rows
  /\ current' = 0
  /\ UNCHANGED <<confVars, pc, err, got, todo, row, rows>>

(* The scrape is over. *)
Returned == pc = "returned" /\ UNCHANGED vars

Next ==
  \/ RequestFails \/ BodyTooLarge \/ BodyRead
  \/ DecodeFails \/ Done
  \/ \E k \in todo : SkipFamily(k) \/ BeginFamily(k)
  \/ DropRow \/ ConvertRow \/ TooManySamples \/ EndFamily
  \/ Returned

Spec == Init /\ [][Next]_vars

-----------------------------------------------------------------------------
(* "a truncated exposition decodes into silently incomplete series": a body is
   decoded only if it was read to its end, whatever cap and heap limit are
   configured, and the cap is never above what the heap limit affords or the
   default (Fetch, readLimit, ceiling). *)
NeverTruncated ==
  /\ pc = "decode" => got = size
  /\ 0 < ReadLimit /\ ReadLimit <= MaxConfigurableBytes
  /\ ReadLimit <= DefaultMaxBytes \/ ReadLimit * ExpansionFactor <= memLimit

(* The series a body holds for the resolver, family by family, of those that
   are kept and those that are not. *)
AllSeriesOf(B) ==
  UNION {{SeriesOf(k, r) : r \in {r \in DOMAIN B[k].rows : B[k].rows[r] = "finite"}} :
           k \in {k \in DOMAIN B : KindOf(B[k].type) # "unsupported"}}

KeptSeries == {s \in AllSeriesOf(body) : NormalizeName(s.name) \in CandidateNames(resolver)}

Succeeded == pc = "returned" /\ err = "none"

(* "nothing partial is returned": a scrape that succeeds returns every finite
   row of every kept family, each once, and one that exceeds the budget fails
   (decode, seriesFromFamily). *)
AllOrNothing ==
  /\ Succeeded => /\ {out[j] : j \in DOMAIN out} = KeptSeries
                  /\ Len(out) = Cardinality(KeptSeries)
  /\ err = "tooManySamples" => Cardinality(KeptSeries) > MaxSamples

(* "bounds what the agent RETAINS", "checked per ROW, not per family": never
   more than MaxSamples series exist, not even within one large family. *)
RetentionBounded == Len(out) + (IF current = 0 THEN 0 ELSE Len(rows)) <= MaxSamples

(* The filter is a retention bound and nothing else: had every family been
   materialised, each role would have selected the same series of the same
   family (Fetch with CandidateNames, Select). *)
FilterHidesNothing ==
  Succeeded =>
    \A role \in Roles :
       LET hidden == AllSeriesOf(body) \ KeptSeries
       IN  \A j \in DOMAIN Candidates(resolver, role) :
              \A s \in hidden : ~Matches(Candidates(resolver, role)[j], s.name)

Reversed(s) == [j \in DOMAIN s |-> s[Len(s) + 1 - j]]

SpellingsOf(candidate, all) ==
  {all[j].name : j \in Matching(candidate, all)}

(* "which is not ours to depend on": what a role is read from depends on the
   order of the families only if a built-in candidate is spelled in two ways,
   neither of them its own (matchFamily). *)
OrderOnlyAmongAliases ==
  Succeeded =>
    \A role \in Roles :
       LET there == Select(resolver, role, out)
           back  == Select(resolver, role, Reversed(out))
       IN  there.series # << >> /\ there.series[1].name # back.series[1].name
           => LET c == [name |-> there.name, exact |-> FALSE]
              IN  /\ resolver[role] = NoOverride
                  /\ there.name \notin SpellingsOf(c, out)
                  /\ Cardinality(SpellingsOf(c, out)) >= 2
=============================================================================
