------------------------- MODULE MCExpositionSource -------------------------
(* TLC instances of ExpositionSource.  Rates: a service of two pods, and a
   workload that is not tracked but competes for the rater's table.  Warnings:
   two services of one pod each and a table with room for one of them.
   Shapes: one service next to an untracked workload, and every kind of family
   in both roles. *)
EXTENDS ExpositionSource, TLC

CONSTANTS s1, s2, c1, c2, c3, m1,   \* services and rows
          p1, p2, p3                \* pods

RatesKey   == (c1 :> p1) @@ (c2 :> p2) @@ (c3 :> p3)
RatesLeads == (p1 :> s1) @@ (p2 :> s1) @@ (p3 :> Nobody)

(* Rows of the first service carry the pod's name, those of the second its slug. *)
WarningsKey   == (c1 :> p1) @@ (c2 :> s2) @@ (m1 :> p1)
WarningsLeads == (p1 :> s1) @@ (s2 :> s2)

ShapesKey   == (c1 :> p1) @@ (c3 :> p3) @@ (m1 :> p1)
ShapesLeads == (p1 :> s1) @@ (p3 :> Nobody)

(* The two pods of the service, each with its row. *)
PodSymmetry == {(c1 :> c2) @@ (c2 :> c1) @@ (p1 :> p2) @@ (p2 :> p1),
                (c1 :> c1) @@ (c2 :> c2) @@ (p1 :> p1) @@ (p2 :> p2)}
=============================================================================
