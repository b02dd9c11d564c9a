------------------------------ MODULE Resolver -------------------------------
(***************************************************************************)
(* internal/scrape/resolve.go: which family of an exposition supplies a    *)
(* role.  Pure operators; module ScrapeClient runs them on what a scrape   *)
(* decoded.                                                                *)
(*                                                                         *)
(* A metric name is the sequence of a base and the suffixes after it, such *)
(* as <<"container_cpu_usage", "_seconds", "_total">>; a series is the     *)
(* name and kind of its family and its place there.                        *)
(***************************************************************************)
EXTENDS Filtering

UnitSuffixes == {"_total", "_bytes", "_seconds"}

(* Trailing unit suffixes are stripped for as long as something is left. *)
NormalizeName(name) ==
  LET keep[k \in 1..Len(name)] ==
        IF k > 1 /\ name[k] \in UnitSuffixes THEN keep[k - 1] ELSE k
  IN  SubSeq(name, 1, keep[Len(name)])

NoOverride == << >>

Defaults(role) ==
  IF role = "cpu"
  THEN <<<<"k8s_pod_cpu_usage">>, <<"k8s_pod_cpu_time">>, <<"container_cpu_usage">>>>
  ELSE <<<<"k8s_pod_memory_working_set">>, <<"container_memory_working_set">>>>

(* An override replaces the table and is matched verbatim. *)
Candidates(resolver, role) ==
  IF resolver[role] # NoOverride
  THEN <<[name |-> resolver[role], exact |-> TRUE]>>
  ELSE [j \in DOMAIN Defaults(role) |-> [name |-> Defaults(role)[j], exact |-> FALSE]]

Roles == {"cpu", "memory"}

(* A slip: the names as they are configured, not as they are compared. *)
CandidateNamesRaw(resolver) ==
  UNION {{Candidates(resolver, r)[j].name : j \in DOMAIN Candidates(resolver, r)} : r \in Roles}

CandidateNames(resolver) ==
  UNION {{NormalizeName(Candidates(resolver, r)[j].name) :
            j \in DOMAIN Candidates(resolver, r)} : r \in Roles}

Matches(candidate, name) ==
  IF candidate.exact THEN name = candidate.name
  ELSE NormalizeName(name) = NormalizeName(candidate.name)

Matching(candidate, all) == {j \in DOMAIN all : Matches(candidate, all[j].name)}

MatchesOf(candidate, all) == Subsequence(all, Matching(candidate, all))

(* A slip: the first spelling that comes by wins. *)
WinnerFirst(candidate, all) == MatchesOf(candidate, all)[1].name

(* The candidate's own spelling wins, failing that the first one met. *)
Winner(candidate, all) ==
  LET matched == MatchesOf(candidate, all)
  IN  IF \E j \in DOMAIN matched : matched[j].name = candidate.name
      THEN candidate.name ELSE matched[1].name

Named(name, all) == {j \in DOMAIN all : all[j].name = name}

(* matchFamily: every series of the one family that wins. *)
MatchFamily(candidate, all) == Subsequence(all, Named(Winner(candidate, all), all))

NoSelection == [name |-> NoOverride, kind |-> "unsupported", series |-> << >>]

(* Select: the first candidate that matches anything, before the row policy. *)
Select(resolver, role, all) ==
  LET candidates == Candidates(resolver, role)
      matching   == {j \in DOMAIN candidates : MatchesOf(candidates[j], all) # << >>}
  IN  IF matching = {} THEN NoSelection
      ELSE LET first  == CHOOSE j \in matching : \A k \in matching : j <= k
               series == MatchFamily(candidates[first], all)
           IN  [name |-> candidates[first].name, kind |-> series[Len(series)].kind, series |-> series]
=============================================================================
