------------------------------ MODULE MCAgent -------------------------------
(* TLC instance of Agent: two namespaces with a Deployment each. *)
EXTENDS Agent, TLC

CONSTANTS d1, d2, n1, n2

MCNamespaceOf == (d1 :> n1) @@ (d2 :> n2)
MCNamespaces  == <<n1, n2>>
=============================================================================
