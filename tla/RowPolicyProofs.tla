--------------------------- MODULE RowPolicyProofs ---------------------------
(***************************************************************************)
(* Proofs that the row policy is what its two loops compute, whatever the  *)
(* family, its labels and the order of its rows, and what follows for a    *)
(* pod: when it may be counted twice and when it may be lost.              *)
(***************************************************************************)
EXTENDS RowPolicy, TLAPS

(* The rows a loop has passed, as far as it has come. *)
Passed(loop) == IF pc = loop THEN rows \ todo ELSE rows

NamespacedKeys(F) == {PodRef(c) : c \in {c \in ContainersOf(F) : HasPodRef(c)}}
PodOnlyKeys(F)    == {PodLabel(c) : c \in {c \in ContainersOf(F) : PodLabel(c) # NoLabel}}
MixedPods(F)      == {PodLabel(c) : c \in {c \in ContainersOf(F) : HasPodRef(c)}}

(* A total lost to container rows of a pod of its name that name a namespace,
   while it names none. *)
Ambiguous(t, F) ==
  /\ ~IsPauseRow(t) /\ Superseded(t, F)
  /\ NamespaceLabel(t) = NoLabel /\ PodLabel(t) \in MixedPods(F)

(* The inductive invariant: the three sets of the first loop are about the rows
   it has passed, so they are complete when the second begins, and the second
   has judged the rows it has passed by the whole family. *)
PolicyInv ==
  /\ rows \subseteq Rows
  /\ pc \in {"group", "filter", "index", "attribute"}
  /\ pc \in {"group", "filter"} => todo \subseteq rows
  /\ rollupNamespaced = NamespacedKeys(Passed("group"))
  /\ rollupPodOnly = PodOnlyKeys(Passed("group"))
  /\ mixedShape = MixedPods(Passed("group"))
  /\ kept = IF pc = "group" THEN {} ELSE {r \in Passed("filter") : r \in Summable(rows)}
  /\ ambiguous = IF pc = "group" THEN {}
                 ELSE {PodLabel(t) : t \in {t \in Passed("filter") : Ambiguous(t, rows)}}

-----------------------------------------------------------------------------

(* One more row passed adds its own key, or nothing. *)
LEMMA KeysGrow ==
  ASSUME NEW F, NEW row
  PROVE  /\ NamespacedKeys(F \cup {row}) =
              IF IsContainerRow(row) /\ HasPodRef(row)
              THEN NamespacedKeys(F) \cup {PodRef(row)} ELSE NamespacedKeys(F)
         /\ PodOnlyKeys(F \cup {row}) =
              IF IsContainerRow(row) /\ PodLabel(row) # NoLabel
              THEN PodOnlyKeys(F) \cup {PodLabel(row)} ELSE PodOnlyKeys(F)
         /\ MixedPods(F \cup {row}) =
              IF IsContainerRow(row) /\ HasPodRef(row)
              THEN MixedPods(F) \cup {PodLabel(row)} ELSE MixedPods(F)
<1>1. NamespacedKeys(F \cup {row}) =
              IF IsContainerRow(row) /\ HasPodRef(row)
              THEN NamespacedKeys(F) \cup {PodRef(row)} ELSE NamespacedKeys(F)
  BY DEF NamespacedKeys, ContainersOf
<1>2. PodOnlyKeys(F \cup {row}) =
              IF IsContainerRow(row) /\ PodLabel(row) # NoLabel
              THEN PodOnlyKeys(F) \cup {PodLabel(row)} ELSE PodOnlyKeys(F)
  BY DEF PodOnlyKeys, ContainersOf
<1>3. MixedPods(F \cup {row}) =
              IF IsContainerRow(row) /\ HasPodRef(row)
              THEN MixedPods(F) \cup {PodLabel(row)} ELSE MixedPods(F)
  BY DEF MixedPods, ContainersOf
<1> QED
  BY <1>1, <1>2, <1>3

(* With the keys of the whole family in hand the test of the second loop is the
   one the policy states of the rows. *)
LEMMA RollupTest ==
  ASSUME NEW row, NEW F,
         rollupNamespaced = NamespacedKeys(F), rollupPodOnly = PodOnlyKeys(F)
  PROVE  IsSupersededRollup(row) <=> Superseded(row, F)
<1>1. PodRef(row) \in rollupNamespaced
        <=> \E c \in ContainersOf(F) : HasPodRef(c) /\ PodRef(c) = PodRef(row)
  BY DEF NamespacedKeys
<1>2. NamelessPod(row) =>
        (PodLabel(row) \in rollupPodOnly
           <=> \E c \in ContainersOf(F) : PodLabel(c) = PodLabel(row))
  BY DEF PodOnlyKeys, NamelessPod
<1>3. ~(HasPodRef(row) /\ NamelessPod(row))
  BY DEF HasPodRef, NamelessPod
<1> QED
  BY <1>1, <1>2, <1>3 DEF IsSupersededRollup, Superseded

-----------------------------------------------------------------------------
LEMMA Initially == Init => PolicyInv
<1> SUFFICES ASSUME Init PROVE PolicyInv
  OBVIOUS
<1>1. rows \subseteq Rows
  <2>1. PICK f \in [1..MaxFamily -> Rows] : rows = {f[j] : j \in 1..MaxFamily}
    BY DEF Init, Families
  <2> QED
    BY <2>1
<1>2. Passed("group") = {}
  BY DEF Init, Passed
<1>3. /\ NamespacedKeys({}) = {} /\ PodOnlyKeys({}) = {} /\ MixedPods({}) = {}
  BY DEF NamespacedKeys, PodOnlyKeys, MixedPods, ContainersOf
<1> QED
  BY <1>1, <1>2, <1>3 DEF Init, PolicyInv

LEMMA GroupStep ==
  ASSUME PolicyInv, NEW row \in todo, Group(row)
  PROVE  PolicyInv'
<1>1. pc = "group" /\ pc' = "group" /\ rows' = rows /\ todo' = todo \ {row} /\ row \in rows
  BY DEF Group, GroupBy, PolicyInv
<1>2. Passed("group")' = Passed("group") \cup {row}
  BY <1>1 DEF Passed
<1>3. /\ rollupNamespaced' = NamespacedKeys(Passed("group"))'
      /\ rollupPodOnly' = PodOnlyKeys(Passed("group"))'
      /\ mixedShape' = MixedPods(Passed("group"))'
  <2>1. /\ NamespacedKeys(Passed("group"))' = NamespacedKeys(Passed("group") \cup {row})
        /\ PodOnlyKeys(Passed("group"))' = PodOnlyKeys(Passed("group") \cup {row})
        /\ MixedPods(Passed("group"))' = MixedPods(Passed("group") \cup {row})
    BY <1>2 DEF NamespacedKeys, PodOnlyKeys, MixedPods, ContainersOf
  <2> QED
    BY <2>1, KeysGrow DEF Group, GroupBy, PolicyInv
<1>4. kept' = {} /\ ambiguous' = {}
  BY <1>1 DEF Group, GroupBy, PolicyInv
<1> QED
  BY <1>1, <1>3, <1>4 DEF PolicyInv

LEMMA GroupDoneStep ==
  ASSUME PolicyInv, GroupDone
  PROVE  PolicyInv'
<1>1. /\ pc = "group" /\ todo = {} /\ pc' = "filter" /\ todo' = rows /\ rows' = rows
      /\ UNCHANGED <<rollupNamespaced, rollupPodOnly, mixedShape, kept, ambiguous>>
  BY DEF GroupDone, groupVars
<1>2. Passed("group")' = Passed("group")
  BY <1>1 DEF Passed
<1>3. Passed("filter")' = {}
  BY <1>1 DEF Passed
<1>4. kept' = {} /\ ambiguous' = {}
  BY <1>1 DEF PolicyInv
<1> QED
  BY <1>1, <1>2, <1>3, <1>4
     DEF PolicyInv, NamespacedKeys, PodOnlyKeys, MixedPods, ContainersOf

LEMMA FilterStep ==
  ASSUME PolicyInv, NEW row \in todo, Filter(row)
  PROVE  PolicyInv'
<1>1. /\ pc = "filter" /\ pc' = "filter" /\ rows' = rows /\ todo' = todo \ {row} /\ row \in rows
      /\ UNCHANGED <<rollupNamespaced, rollupPodOnly, mixedShape>>
  BY DEF Filter, KeepOrDrop, PolicyInv, groupVars
<1>2. Passed("group") = rows /\ Passed("group")' = rows
  BY <1>1 DEF Passed
<1>3. Passed("filter")' = Passed("filter") \cup {row}
  BY <1>1 DEF Passed
<1>4. IsSupersededRollup(row) <=> Superseded(row, rows)
  BY <1>2, RollupTest DEF PolicyInv
<1>5. kept' = {r \in Passed("filter")' : r \in Summable(rows)'}
  <2>1. row \in Summable(rows) <=> ~(IsPauseRow(row) \/ IsSupersededRollup(row))
    BY <1>1, <1>4 DEF Summable
  <2>2. kept' = IF row \in Summable(rows) THEN kept \cup {row} ELSE kept
    BY <2>1 DEF Filter, KeepOrDrop
  <2>3. kept = {r \in Passed("filter") : r \in Summable(rows)}
    BY <1>1 DEF PolicyInv
  <2>4. Summable(rows)' = Summable(rows)
    BY <1>1 DEF Summable, Superseded, ContainersOf
  <2> QED
    BY <1>3, <2>2, <2>3, <2>4
<1>6. ambiguous' = {PodLabel(t) : t \in {t \in Passed("filter")' : Ambiguous(t, rows)'}}
  <2>1. ambiguous' = IF Ambiguous(row, rows) THEN ambiguous \cup {PodLabel(row)} ELSE ambiguous
    BY <1>2, <1>4 DEF Filter, KeepOrDrop, Ambiguous, PolicyInv
  <2>2. ambiguous = {PodLabel(t) : t \in {t \in Passed("filter") : Ambiguous(t, rows)}}
    BY <1>1 DEF PolicyInv
  <2>3. \A t : Ambiguous(t, rows)' <=> Ambiguous(t, rows)
    BY <1>1 DEF Ambiguous, Superseded, ContainersOf, MixedPods
  <2> QED
    BY <1>3, <2>1, <2>2, <2>3
<1>7. /\ rollupNamespaced' = NamespacedKeys(Passed("group"))'
      /\ rollupPodOnly' = PodOnlyKeys(Passed("group"))'
      /\ mixedShape' = MixedPods(Passed("group"))'
  BY <1>1, <1>2 DEF PolicyInv, NamespacedKeys, PodOnlyKeys, MixedPods, ContainersOf
<1> QED
  BY <1>1, <1>5, <1>6, <1>7 DEF PolicyInv

(* No later step touches what summable returned. *)
LEMMA LaterStep ==
  ASSUME PolicyInv, Filtered',
         UNCHANGED <<rows, rollupNamespaced, rollupPodOnly, mixedShape, kept, ambiguous>>,
         Filtered \/ (pc = "filter" /\ todo = {})
  PROVE  PolicyInv'
<1>1. pc # "group" /\ pc' # "group" /\ pc' # "filter"
  BY DEF Filtered
<1>2. /\ Passed("group") = rows /\ Passed("group")' = rows
      /\ Passed("filter") = rows /\ Passed("filter")' = rows
  BY <1>1 DEF Passed, Filtered
<1>3. Summable(rows)' = Summable(rows)
  BY DEF Summable, Superseded, ContainersOf
<1>4. \A t : Ambiguous(t, rows)' <=> Ambiguous(t, rows)
  BY DEF Ambiguous, Superseded, ContainersOf, MixedPods
<1>5. /\ rollupNamespaced' = NamespacedKeys(Passed("group"))'
      /\ rollupPodOnly' = PodOnlyKeys(Passed("group"))'
      /\ mixedShape' = MixedPods(Passed("group"))'
  BY <1>2 DEF PolicyInv, NamespacedKeys, PodOnlyKeys, MixedPods, ContainersOf
<1>6. kept' = {r \in Passed("filter")' : r \in Summable(rows)'}
  BY <1>1, <1>2, <1>3 DEF PolicyInv
<1>7. ambiguous' = {PodLabel(t) : t \in {t \in Passed("filter")' : Ambiguous(t, rows)'}}
  BY <1>1, <1>2, <1>4 DEF PolicyInv
<1> QED
  BY <1>1, <1>5, <1>6, <1>7 DEF PolicyInv, Filtered

LEMMA Inductive == PolicyInv /\ [Next]_vars => PolicyInv'
<1> SUFFICES ASSUME PolicyInv, [Next]_vars PROVE PolicyInv'
  OBVIOUS
<1>1. ASSUME NEW row \in todo, Group(row) PROVE PolicyInv'
  BY <1>1, GroupStep
<1>2. CASE GroupDone
  BY <1>2, GroupDoneStep
<1>3. ASSUME NEW row \in todo, Filter(row) PROVE PolicyInv'
  BY <1>3, FilterStep
<1>4. CASE FilterDone
  BY <1>4, LaterStep DEF FilterDone, Filtered, groupVars
<1>5. ASSUME NEW s \in Slugs, Index(s) PROVE PolicyInv'
  BY <1>5, LaterStep DEF Index, IndexAs, Filtered, groupVars
<1>6. CASE IndexDone
  BY <1>6, LaterStep DEF IndexDone, Filtered, groupVars
<1>7. ASSUME NEW row \in todo, Attribute(row) PROVE PolicyInv'
  BY <1>7, LaterStep DEF Attribute, Filtered, groupVars
<1>8. CASE UNCHANGED vars
  BY <1>8 DEF vars, PolicyInv, Passed, NamespacedKeys, PodOnlyKeys, MixedPods, ContainersOf,
              Ambiguous, Summable, Superseded
<1> QED
  BY <1>1, <1>2, <1>3, <1>4, <1>5, <1>6, <1>7, <1>8 DEF Next, Step, Returned

(* The loops of summable keep to their invariant. *)
THEOREM PolicyHolds == Spec => []PolicyInv
<1> QED
  BY Initially, Inductive, PTL DEF Spec

-----------------------------------------------------------------------------
(* The rows summable returns do not depend on the order of the exposition. *)
THEOREM OrderHolds == Spec => []OrderDoesNotMatter
<1>1. PolicyInv => OrderDoesNotMatter
  BY DEF PolicyInv, OrderDoesNotMatter, Filtered, Passed, Summable
<1> QED
  BY <1>1, PolicyHolds, PTL

(* The one shape of labels in which a pod is counted twice. *)
THEOREM DoubledHolds == Spec => []DoubledOnlyByNamedTotal
<1>1. ASSUME OrderDoesNotMatter, PolicyInv PROVE DoubledOnlyByNamedTotal
  <2> SUFFICES ASSUME Filtered, NEW t \in kept, NEW c \in kept,
                      IsTotal(t), IsContainerRow(c), SamePod(t, c),
                      "pod" \in t.labels, "pod" \in c.labels
               PROVE  "namespace" \in t.labels /\ "namespace" \notin c.labels
    BY DEF DoubledOnlyByNamedTotal
  <2>1. t \in rows /\ c \in ContainersOf(rows) /\ ~Superseded(t, rows)
    BY <1>1 DEF OrderDoesNotMatter, Summable, ContainersOf
  <2>2. t \in Rows /\ c \in Rows
    BY <1>1, <2>1 DEF PolicyInv, ContainersOf
  <2>3. PodLabel(t) = t.pod /\ PodLabel(c) = t.pod /\ t.pod # NoLabel /\ t.ns # NoLabel
    BY <2>2, LabelsAssumption DEF PodLabel, SamePod, Rows
  <2>4. CASE "namespace" \notin t.labels
    BY <2>1, <2>3, <2>4 DEF Superseded, NamelessPod, NamespaceLabel
  <2>5. CASE "namespace" \in t.labels /\ "namespace" \in c.labels
    <3>1. NamespaceLabel(t) = t.ns /\ NamespaceLabel(c) = t.ns
      BY <2>5 DEF NamespaceLabel, SamePod
    <3>2. HasPodRef(t) /\ HasPodRef(c) /\ PodRef(c) = PodRef(t)
      BY <2>3, <3>1 DEF HasPodRef, PodRef
    <3> QED
      BY <2>1, <3>2 DEF Superseded
  <2> QED
    BY <2>4, <2>5
<1> QED
  BY <1>1, OrderHolds, PolicyHolds, PTL

(* A pod that disappears had a total without a namespace, and is named unless
   nothing told the two pods of its name apart. *)
THEOREM LostHolds == Spec => []LostPodsAreNamed
<1>1. ASSUME OrderDoesNotMatter, PolicyInv PROVE LostPodsAreNamed
  <2> SUFFICES ASSUME Filtered, NEW t \in rows, ~IsPauseRow(t), \A r \in kept : ~SamePod(r, t)
               PROVE  /\ NamelessPod(t)
                      /\ \/ t.pod \in ambiguous
                         \/ \E c \in ContainersOf(rows) : NamelessPod(c) /\ c.pod = t.pod
    BY DEF LostPodsAreNamed
  <2>1. t \notin kept
    BY DEF SamePod
  <2>2. Superseded(t, rows)
    BY <1>1, <2>1 DEF OrderDoesNotMatter, Summable
  <2>3. \A c \in ContainersOf(rows) : c \in kept
    BY <1>1 DEF OrderDoesNotMatter, Summable, Superseded, ContainersOf, IsContainerRow,
                IsPauseRow, IsTotal
  <2>4. rows \subseteq Rows
    BY <1>1 DEF PolicyInv
  <2>5. \A r \in rows : r.pod # NoLabel /\ r.ns # NoLabel
    BY <2>4, LabelsAssumption DEF Rows
  <2>6. ~HasPodRef(t)
    <3> SUFFICES ASSUME HasPodRef(t) PROVE FALSE
      OBVIOUS
    <3>1. PICK c \in ContainersOf(rows) : HasPodRef(c) /\ PodRef(c) = PodRef(t)
      BY <2>2 DEF Superseded, NamelessPod, HasPodRef
    <3>2. NamespaceLabel(c) = NamespaceLabel(t) /\ PodLabel(c) = PodLabel(t)
      BY <3>1 DEF PodRef
    <3>3. SamePod(c, t)
      BY <3>1, <3>2 DEF SamePod, HasPodRef, NamespaceLabel, PodLabel
    <3> QED
      BY <2>3, <3>3
  <2>7. NamelessPod(t)
    BY <2>2, <2>6 DEF Superseded
  <2>8. PICK c \in ContainersOf(rows) : PodLabel(c) = PodLabel(t)
    BY <2>2, <2>6 DEF Superseded
  <2>9. PodLabel(t) = t.pod /\ PodLabel(c) = c.pod /\ c.pod = t.pod
    BY <2>7, <2>8 DEF NamelessPod, PodLabel
  <2>10. CASE NamelessPod(c)
    BY <2>7, <2>9, <2>10
  <2>11. CASE ~NamelessPod(c)
    <3>1. HasPodRef(c)
      BY <2>7, <2>8, <2>11 DEF NamelessPod, HasPodRef
    <3>2. PodLabel(t) \in MixedPods(rows)
      BY <2>8, <3>1 DEF MixedPods
    <3>3. Ambiguous(t, rows)
      BY <2>2, <2>7, <3>2 DEF Ambiguous, NamelessPod
    <3>4. ambiguous = {PodLabel(x) : x \in {x \in rows : Ambiguous(x, rows)}}
      BY <1>1 DEF PolicyInv, Filtered, Passed
    <3> QED
      BY <2>7, <2>9, <3>3, <3>4
  <2> QED
    BY <2>10, <2>11
<1> QED
  BY <1>1, OrderHolds, PolicyHolds, PTL

-----------------------------------------------------------------------------
(* The services newSlugIndex has passed. *)
Indexed == CASE pc = "index" -> Slugs \ todo
             [] pc = "attribute" -> Slugs
             [] OTHER -> {}

Having(p) == {s \in Indexed : p \in targets[s].pods}

(* The inductive invariant of the second half: an entry under a namespace is
   that of a service the pod belongs to, an entry under a name alone that of
   the only service with a pod of that name, and what is attributed so far was
   attributed by such entries. *)
IndexInv ==
  /\ targets \in Targets
  /\ pc = "index" => todo \subseteq Slugs
  /\ pc = "attribute" => todo \subseteq kept
  /\ pc # "attribute" => attributed = [s \in Slugs |-> {}]
  /\ \A k \in DOMAIN byNamespacedPod :
        LET s == byNamespacedPod[k]
        IN  s \in Indexed /\ k \in {targets[s].ns} \X targets[s].pods
  /\ \A p \in DOMAIN byPod : Having(p) # {}
  /\ \A s \in Indexed : targets[s].pods \subseteq DOMAIN byPod
  /\ \A p \in DOMAIN byPod : byPod[p] # NoLabel => Having(p) = {byPod[p]}
  /\ DOMAIN attributed = Slugs
  /\ AttributedToOwnPods

LEMMA InitIndexInv == Init => IndexInv
<1> SUFFICES ASSUME Init PROVE IndexInv
  OBVIOUS
<1>1. /\ pc = "group" /\ Indexed = {} /\ targets \in Targets
      /\ DOMAIN byNamespacedPod = {} /\ DOMAIN byPod = {}
      /\ attributed = [s \in Slugs |-> {}]
  BY DEF Init, Indexed, Empty
<1> QED
  BY <1>1 DEF IndexInv, AttributedToOwnPods

(* A step that touches neither the index nor what is attributed. *)
LEMMA IndexKept ==
  ASSUME IndexInv,
         UNCHANGED <<targets, indexVars, attributed>>, Indexed' = Indexed,
         pc' = "index" => todo' \subseteq Slugs,
         pc' = "attribute" => todo' \subseteq kept',
         pc' # "attribute" => pc # "attribute",
         pc = "attribute" => kept' = kept
  PROVE  IndexInv'
<1>1. UNCHANGED <<targets, byNamespacedPod, byPod, attributed>>
  BY DEF indexVars
<1>2. \A p : Having(p)' = Having(p)
  BY DEF Having
<1>3. CASE pc = "attribute"
  BY <1>1, <1>2, <1>3 DEF IndexInv, AttributedToOwnPods
<1>4. CASE pc # "attribute"
  <2>1. attributed' = [s \in Slugs |-> {}]
    BY <1>1, <1>4 DEF IndexInv
  <2>2. AttributedToOwnPods'
    BY <2>1 DEF AttributedToOwnPods
  <2> QED
    BY <1>1, <1>2, <2>1, <2>2 DEF IndexInv
<1> QED
  BY <1>3, <1>4

LEMMA IndexStep ==
  ASSUME IndexInv, NEW s \in Slugs, Index(s)
  PROVE  IndexInv'
<1> DEFINE mine == targets[s].pods
           refs == {targets[s].ns} \X mine
<1>1. /\ pc = "index" /\ s \in todo /\ pc' = "index" /\ todo' = todo \ {s}
      /\ UNCHANGED <<targets, kept, attributed>>
      /\ byNamespacedPod' = [k \in DOMAIN byNamespacedPod \cup refs |->
                               IF k \in refs THEN s ELSE byNamespacedPod[k]]
      /\ byPod' = [p \in DOMAIN byPod \cup mine |->
                     IF p \notin mine THEN byPod[p]
                     ELSE IF p \in DOMAIN byPod THEN NoLabel ELSE s]
  BY DEF Index, IndexAs
<1>2. Indexed = Slugs \ todo /\ Indexed' = Indexed \cup {s} /\ s \notin Indexed
  BY <1>1 DEF Indexed
<1>3. \A p : Having(p)' = IF p \in mine THEN Having(p) \cup {s} ELSE Having(p)
  BY <1>1, <1>2 DEF Having
<1>4. \A k \in DOMAIN byNamespacedPod' :
        /\ byNamespacedPod'[k] \in Indexed'
        /\ k \in {targets[byNamespacedPod'[k]].ns} \X targets[byNamespacedPod'[k]].pods
  <2> SUFFICES ASSUME NEW k \in DOMAIN byNamespacedPod \cup refs
               PROVE  /\ byNamespacedPod'[k] \in Indexed'
                      /\ k \in {targets[byNamespacedPod'[k]].ns} \X targets[byNamespacedPod'[k]].pods
    BY <1>1
  <2>1. CASE k \in refs
    <3>1. byNamespacedPod'[k] = s
      BY <1>1, <2>1
    <3> QED
      BY <1>2, <2>1, <3>1
  <2>2. CASE k \notin refs
    <3>1. k \in DOMAIN byNamespacedPod /\ byNamespacedPod'[k] = byNamespacedPod[k]
      BY <1>1, <2>2
    <3> QED
      BY <1>2, <3>1 DEF IndexInv
  <2> QED
    BY <2>1, <2>2
<1>5. \A p \in DOMAIN byPod' : Having(p)' # {}
  <2> SUFFICES ASSUME NEW p \in DOMAIN byPod \cup mine PROVE Having(p)' # {}
    BY <1>1
  <2> QED
    BY <1>3 DEF IndexInv
<1>6. \A x \in Indexed' : targets[x].pods \subseteq DOMAIN byPod'
  BY <1>1, <1>2 DEF IndexInv
<1>7. \A p \in DOMAIN byPod' : byPod'[p] # NoLabel => Having(p)' = {byPod'[p]}
  <2> SUFFICES ASSUME NEW p \in DOMAIN byPod \cup mine, byPod'[p] # NoLabel
               PROVE  Having(p)' = {byPod'[p]}
    BY <1>1
  <2>1. CASE p \notin mine
    <3>1. p \in DOMAIN byPod /\ byPod'[p] = byPod[p]
      BY <1>1, <2>1
    <3> QED
      BY <1>3, <2>1, <3>1 DEF IndexInv
  <2>2. CASE p \in mine
    <3>1. p \notin DOMAIN byPod /\ byPod'[p] = s
      BY <1>1, <2>2
    <3>2. Having(p) = {}
      BY <3>1 DEF IndexInv, Having
    <3> QED
      BY <1>3, <2>2, <3>1, <3>2
  <2> QED
    BY <2>1, <2>2
<1>8. todo' \subseteq Slugs /\ attributed' = [x \in Slugs |-> {}]
  BY <1>1 DEF IndexInv
<1>9. AttributedToOwnPods'
  BY <1>8 DEF AttributedToOwnPods
<1> QED
  BY <1>1, <1>4, <1>5, <1>6, <1>7, <1>8, <1>9 DEF IndexInv

(* Where resolve leads, once every service is indexed. *)
LEMMA ResolvedToOwner ==
  ASSUME IndexInv, pc = "attribute", NEW r \in Rows, NEW s \in Slugs, Resolve(r) = s
  PROVE  \/ r.slug = s
         \/ /\ r.slug = NoLabel
            /\ r.pod \in targets[s].pods
            /\ IF HasPodRef(r) THEN r.ns = targets[s].ns
                               ELSE \A other \in Slugs \ {s} : r.pod \notin targets[other].pods
<1>1. s # NoLabel
  BY LabelsAssumption
<1>2. CASE r.slug # NoLabel
  BY <1>1, <1>2 DEF Resolve
<1>3. CASE r.slug = NoLabel
  <2>1. PodLabel(r) # NoLabel /\ PodLabel(r) = r.pod
    BY <1>1, <1>3 DEF Resolve, PodLabel
  <2>2. CASE HasPodRef(r)
    <3>1. PodRef(r) \in DOMAIN byNamespacedPod /\ byNamespacedPod[PodRef(r)] = s
      BY <1>1, <1>3, <2>1, <2>2 DEF Resolve
    <3>2. PodRef(r) = <<r.ns, r.pod>>
      BY <2>1, <2>2 DEF PodRef, HasPodRef, NamespaceLabel
    <3>3. PodRef(r) \in {targets[s].ns} \X targets[s].pods
      BY <3>1 DEF IndexInv
    <3> QED
      BY <1>3, <2>2, <3>2, <3>3
  <2>3. CASE ~HasPodRef(r)
    <3>1. r.pod \in DOMAIN byPod /\ byPod[r.pod] = s
      BY <1>1, <1>3, <2>1, <2>3 DEF Resolve
    <3>2. Having(r.pod) = {s}
      BY <1>1, <3>1 DEF IndexInv
    <3>3. Indexed = Slugs
      BY DEF Indexed
    <3> QED
      BY <1>3, <2>3, <3>2, <3>3 DEF Having
  <2> QED
    BY <2>2, <2>3
<1> QED
  BY <1>2, <1>3

LEMMA AttributeStep ==
  ASSUME PolicyInv, IndexInv, NEW row \in todo, Attribute(row)
  PROVE  IndexInv'
<1>1. /\ pc = "attribute" /\ pc' = "attribute" /\ todo' = todo \ {row}
      /\ attributed' = [s \in Slugs |-> IF s = Resolve(row) THEN attributed[s] \cup {row}
                                                            ELSE attributed[s]]
      /\ UNCHANGED <<targets, kept, byNamespacedPod, byPod>>
  BY DEF Attribute, indexVars
<1>2. Indexed = Slugs /\ Indexed' = Slugs
  BY <1>1 DEF Indexed
<1>3. \A p : Having(p)' = Having(p)
  BY <1>1, <1>2 DEF Having
<1>4. row \in kept /\ row \in Rows
  BY <1>1 DEF IndexInv, PolicyInv, Passed
<1>5. AttributedToOwnPods'
  <2> SUFFICES ASSUME NEW s \in Slugs, NEW r \in attributed'[s]
               PROVE  /\ r \in kept
                      /\ \/ r.slug = s
                         \/ /\ r.slug = NoLabel
                            /\ r.pod \in targets[s].pods
                            /\ IF HasPodRef(r) THEN r.ns = targets[s].ns
                               ELSE \A other \in Slugs \ {s} : r.pod \notin targets[other].pods
    BY <1>1 DEF AttributedToOwnPods
  <2>1. CASE r \in attributed[s]
    BY <2>1 DEF IndexInv, AttributedToOwnPods
  <2>2. CASE r \notin attributed[s]
    <3>1. r = row /\ Resolve(r) = s
      BY <1>1, <2>2
    <3> QED
      BY <1>1, <1>4, <3>1, ResolvedToOwner
  <2> QED
    BY <2>1, <2>2
<1> QED
  BY <1>1, <1>2, <1>3, <1>5 DEF IndexInv

LEMMA NextIndexInv == PolicyInv /\ IndexInv /\ [Next]_vars => IndexInv'
<1> SUFFICES ASSUME PolicyInv, IndexInv, [Next]_vars PROVE IndexInv'
  OBVIOUS
<1>1. ASSUME NEW row \in todo, Group(row) PROVE IndexInv'
  BY <1>1, IndexKept DEF Group, GroupBy, Indexed
<1>2. CASE GroupDone
  BY <1>2, IndexKept DEF GroupDone, Indexed
<1>3. ASSUME NEW row \in todo, Filter(row) PROVE IndexInv'
  BY <1>3, IndexKept DEF Filter, KeepOrDrop, Indexed
<1>4. CASE FilterDone
  BY <1>4, IndexKept DEF FilterDone, Indexed
<1>5. ASSUME NEW s \in Slugs, Index(s) PROVE IndexInv'
  BY <1>5, IndexStep
<1>6. CASE IndexDone
  BY <1>6, IndexKept DEF IndexDone, Indexed
<1>7. ASSUME NEW row \in todo, Attribute(row) PROVE IndexInv'
  BY <1>7, AttributeStep
<1>8. CASE UNCHANGED vars
  BY <1>8, IndexKept DEF vars, indexVars, Indexed, IndexInv
<1> QED
  BY <1>1, <1>2, <1>3, <1>4, <1>5, <1>6, <1>7, <1>8 DEF Next, Step, Returned

(* No row is summed for a service whose pods it does not measure, whichever
   services share the names of their pods and in whatever order they are
   indexed (newSlugIndex, resolve). *)
THEOREM AttributionHolds == Spec => []AttributedToOwnPods
<1>1. IndexInv => AttributedToOwnPods
  BY DEF IndexInv
<1> QED
  BY <1>1, PolicyHolds, InitIndexInv, NextIndexInv, PTL DEF Spec
=============================================================================
