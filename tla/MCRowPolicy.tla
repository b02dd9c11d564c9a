----------------------------- MODULE MCRowPolicy -----------------------------
(* TLC instance of RowPolicy: the label sets collectors project. *)
EXTENDS RowPolicy, TLC

CONSTANTS s1, s2, foreign

MCEveryShape == SUBSET {"namespace", "pod"}
MCPodShapes  == {{"pod"}, {"namespace", "pod"}}
MCUnlabelled == {NoLabel}
MCSlugLabels == {NoLabel, s1, foreign}
=============================================================================
