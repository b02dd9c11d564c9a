------------------------------ MODULE RowPolicy ------------------------------
(***************************************************************************)
(* Which rows of the selected family are summed, and for which service:    *)
(* summable of internal/scrape/resolve.go (its two loops over the rows)    *)
(* and slugIndex of internal/agent/exposition.go (its loop over the        *)
(* targets, and resolve).  The loops visit rows and targets in any order,  *)
(* since the peer and the API choose it.                                   *)
(*                                                                         *)
(* A row is told apart by what it measures, a container or the whole of a  *)
(* pod of a namespace, and by which of its labels the collector projected; *)
(* the code sees the projected labels only, through PodLabel,              *)
(* NamespaceLabel and ContainerLabel, which read two spellings alike.      *)
(***************************************************************************)
EXTENDS Integers

CONSTANTS Namespaces, Pods,
          Containers,      \* workload containers
          Slugs,           \* tracked services
          LabelSets,       \* bound: sets of labels a collector projects
          SlugLabels,      \* bound: values the slug label may have
          NoLabel, Pause,  \* an absent label, and the container name "POD"
          MaxFamily        \* bound: rows of one family

ASSUME LabelsAssumption ==
  /\ NoLabel \notin Namespaces \cup Pods \cup Containers \cup Slugs \cup {Pause}
  /\ Pause \notin Containers
  /\ LabelSets \subseteq SUBSET {"namespace", "pod"}
  /\ MaxFamily \in Nat

Rows == [ns : Namespaces, pod : Pods, container : Containers \cup {Pause, NoLabel},
         labels : LabelSets, slug : SlugLabels]

(* A matched family has a row. *)
Families == {{f[j] : j \in 1..MaxFamily} : f \in [1..MaxFamily -> Rows]}

Targets == [Slugs -> [ns : Namespaces, pods : SUBSET Pods]]

VARIABLES rows, targets,   \* the inputs
          pc, todo,        \* the loop that runs, and what it has still to visit
          rollupNamespaced, rollupPodOnly, mixedShape,   \* locals of summable
          kept, ambiguous,                               \* its results
          byNamespacedPod, byPod,   \* slugIndex: pod -> slug, or NoLabel for ""
          attributed                \* service -> the rows summed for it

groupVars == <<rollupNamespaced, rollupPodOnly, mixedShape>>
indexVars == <<byNamespacedPod, byPod>>
vars == <<rows, targets, pc, todo, rollupNamespaced, rollupPodOnly, mixedShape, kept, ambiguous,
          byNamespacedPod, byPod, attributed>>

Empty == [x \in {} |-> NoLabel]

NamespaceLabel(row) == IF "namespace" \in row.labels THEN row.ns ELSE NoLabel
PodLabel(row)       == IF "pod" \in row.labels THEN row.pod ELSE NoLabel
ContainerLabel(row) == row.container

HasPodRef(row) == NamespaceLabel(row) # NoLabel /\ PodLabel(row) # NoLabel
PodRef(row)    == <<NamespaceLabel(row), PodLabel(row)>>

(* A row that names its pod and not its namespace. *)
NamelessPod(row) == PodLabel(row) # NoLabel /\ NamespaceLabel(row) = NoLabel

IsPauseRow(row)     == ContainerLabel(row) = Pause
IsContainerRow(row) == ContainerLabel(row) # NoLabel /\ ContainerLabel(row) # Pause
IsTotal(row)        == ContainerLabel(row) = NoLabel

Init ==
  /\ rows \in Families /\ targets \in Targets
  /\ pc = "group" /\ todo = rows
  /\ rollupNamespaced = {} /\ rollupPodOnly = {} /\ mixedShape = {}
  /\ kept = {} /\ ambiguous = {}
  /\ byNamespacedPod = Empty /\ byPod = Empty
  /\ attributed = [s \in Slugs |-> {}]

-----------------------------------------------------------------------------
(* summable, first loop. *)

GroupBy(row, isContainer, podOnly) ==
  /\ pc = "group" /\ row \in todo
  /\ todo' = todo \ {row}
  /\ rollupNamespaced' = IF isContainer /\ HasPodRef(row)
                         THEN rollupNamespaced \cup {PodRef(row)} ELSE rollupNamespaced
  /\ rollupPodOnly' = IF isContainer /\ podOnly
                      THEN rollupPodOnly \cup {PodLabel(row)} ELSE rollupPodOnly
  /\ mixedShape' = IF isContainer /\ HasPodRef(row)
                   THEN mixedShape \cup {PodLabel(row)} ELSE mixedShape
  /\ UNCHANGED <<rows, targets, pc, kept, ambiguous, indexVars, attributed>>

(* A slip: a namespaced container row registers under its namespaced key only. *)
GroupOneKey(row) == GroupBy(row, IsContainerRow(row), NamelessPod(row))

(* A slip: the pause row taken for a container row. *)
GroupPause(row) == GroupBy(row, ~IsTotal(row), PodLabel(row) # NoLabel)

(* A container row registers its pod: under both keys when it names its
   namespace, under the pod's name alone when it does not. *)
Group(row) == GroupBy(row, IsContainerRow(row), PodLabel(row) # NoLabel)

GroupDone ==
  /\ pc = "group" /\ todo = {}
  /\ pc' = "filter" /\ todo' = rows
  /\ UNCHANGED <<rows, targets, groupVars, kept, ambiguous, indexVars, attributed>>

-----------------------------------------------------------------------------
(* summable, second loop. *)

IsSupersededRollup(row) ==
  /\ IsTotal(row)
  /\ IF HasPodRef(row) THEN PodRef(row) \in rollupNamespaced
                       ELSE NamelessPod(row) /\ PodLabel(row) \in rollupPodOnly

KeepOrDrop(row) ==
  /\ pc = "filter" /\ row \in todo
  /\ todo' = todo \ {row}
  /\ kept' = IF IsPauseRow(row) \/ IsSupersededRollup(row) THEN kept ELSE kept \cup {row}
  /\ UNCHANGED <<rows, targets, pc, groupVars, indexVars, attributed>>

(* A slip: what is dropped for its shape is not remembered. *)
FilterSilent(row) == KeepOrDrop(row) /\ UNCHANGED ambiguous

Filter(row) ==
  /\ KeepOrDrop(row)
  /\ ambiguous' = IF /\ ~IsPauseRow(row) /\ IsSupersededRollup(row)
                     /\ NamespaceLabel(row) = NoLabel /\ PodLabel(row) \in mixedShape
                  THEN ambiguous \cup {PodLabel(row)} ELSE ambiguous

FilterDone ==
  /\ pc = "filter" /\ todo = {}
  /\ pc' = "index" /\ todo' = Slugs
  /\ UNCHANGED <<rows, targets, groupVars, kept, ambiguous, indexVars, attributed>>

-----------------------------------------------------------------------------
(* newSlugIndex: the targets one by one. *)

IndexAs(s, shared) ==
  /\ pc = "index" /\ s \in todo
  /\ todo' = todo \ {s}
  /\ LET mine == targets[s].pods
         refs == {targets[s].ns} \X mine
     IN  /\ byNamespacedPod' = [k \in DOMAIN byNamespacedPod \cup refs |->
                                  IF k \in refs THEN s ELSE byNamespacedPod[k]]
         /\ byPod' = [p \in DOMAIN byPod \cup mine |->
                        IF p \notin mine THEN byPod[p]
                        ELSE IF p \in DOMAIN byPod THEN shared ELSE s]
  /\ UNCHANGED <<rows, targets, pc, groupVars, kept, ambiguous, attributed>>

(* A slip: a name shared by two services goes to the later one. *)
IndexLastWins(s) == IndexAs(s, s)

(* A name shared by two services leads nowhere. *)
Index(s) == IndexAs(s, NoLabel)

IndexDone ==
  /\ pc = "index" /\ todo = {}
  /\ pc' = "attribute" /\ todo' = kept
  /\ UNCHANGED <<rows, targets, groupVars, kept, ambiguous, indexVars, attributed>>

-----------------------------------------------------------------------------
(* slugIndex.resolve: the slug label first, and alone if it is there; then the
   pod by its namespace, or by its name if it names none. *)
Resolve(row) ==
  IF row.slug # NoLabel THEN IF row.slug \in Slugs THEN row.slug ELSE NoLabel
  ELSE IF PodLabel(row) = NoLabel THEN NoLabel
  ELSE IF HasPodRef(row)
       THEN IF PodRef(row) \in DOMAIN byNamespacedPod THEN byNamespacedPod[PodRef(row)] ELSE NoLabel
       ELSE IF PodLabel(row) \in DOMAIN byPod THEN byPod[PodLabel(row)] ELSE NoLabel

(* reduce: the row is added to its service's total, or dropped. *)
Attribute(row) ==
  /\ pc = "attribute" /\ row \in todo
  /\ todo' = todo \ {row}
  /\ attributed' = [s \in Slugs |-> IF s = Resolve(row) THEN attributed[s] \cup {row}
                                                        ELSE attributed[s]]
  /\ UNCHANGED <<rows, targets, pc, groupVars, kept, ambiguous, indexVars>>

Step ==
  \/ \E row \in todo : Group(row) \/ Filter(row) \/ Attribute(row)
  \/ GroupDone \/ FilterDone \/ IndexDone
  \/ \E s \in Slugs : Index(s)

(* The call has returned. *)
Returned == pc = "attribute" /\ todo = {} /\ UNCHANGED vars

Next == Step \/ Returned

Spec == Init /\ [][Next]_vars

-----------------------------------------------------------------------------
(* What summable promises, said of the rows alone. *)
ContainersOf(F) == {r \in F : IsContainerRow(r)}

Superseded(row, F) ==
  /\ IsTotal(row)
  /\ \/ HasPodRef(row) /\ \E c \in ContainersOf(F) : HasPodRef(c) /\ PodRef(c) = PodRef(row)
     \/ NamelessPod(row) /\ \E c \in ContainersOf(F) : PodLabel(c) = PodLabel(row)

Summable(F) == {r \in F : ~IsPauseRow(r) /\ ~Superseded(r, F)}

SamePod(a, b) == a.ns = b.ns /\ a.pod = b.pod

Filtered == pc \in {"index", "attribute"}

(* Whatever order the peer writes its rows in, the two loops keep the rows the
   policy names: no pause row, and no total that container rows of its pod, as
   far as its labels tell, already cover (summable, isSupersededRollup). *)
OrderDoesNotMatter == Filtered => kept = Summable(rows)

(* A pod is counted twice in one shape of labels only: its total names its
   namespace and none of the container rows beside it does (summable; the
   comment on the bridge describes the opposite shape). *)
DoubledOnlyByNamedTotal ==
  Filtered =>
    \A t \in kept, c \in kept :
       /\ IsTotal(t) /\ IsContainerRow(c) /\ SamePod(t, c)
       /\ "pod" \in t.labels /\ "pod" \in c.labels
       => "namespace" \in t.labels /\ "namespace" \notin c.labels

(* A pod whose rows are all dropped lost a total that named no namespace to
   the container rows of a pod of the same name, and is named to the operator
   unless those rows named no namespace either (summable, Ambiguous).  A pod
   with nothing but a pause row has no usage to lose. *)
LostPodsAreNamed ==
  Filtered =>
    \A t \in rows :
       ~IsPauseRow(t) /\ (\A r \in kept : ~SamePod(r, t))
       => /\ NamelessPod(t)
          /\ \/ t.pod \in ambiguous
             \/ \E c \in ContainersOf(rows) : NamelessPod(c) /\ c.pod = t.pod

(* Only a row that summable kept is summed, and without a slug label for a
   service only if it measures one of the service's pods, or names no namespace
   and shares its pod's name with a pod of that service alone (newSlugIndex,
   resolve). *)
AttributedToOwnPods ==
  \A s \in Slugs : \A r \in attributed[s] :
     /\ r \in kept
     /\ \/ r.slug = s
        \/ /\ r.slug = NoLabel
           /\ r.pod \in targets[s].pods
           /\ IF HasPodRef(r) THEN r.ns = targets[s].ns
                              ELSE \A other \in Slugs \ {s} : r.pod \notin targets[other].pods

-----------------------------------------------------------------------------
(* README.md: the agent "skips that pod's own pod-level row, which would
   otherwise count the pod twice". *)
PodNeverCountedTwice ==
  Filtered => ~ \E t \in kept, c \in kept :
                   /\ IsTotal(t) /\ IsContainerRow(c) /\ SamePod(t, c)
                   /\ "pod" \in t.labels /\ "pod" \in c.labels
=============================================================================
