---------------------------- MODULE MCGraphBuild ----------------------------
(* GraphBuild on three nodes: long enough for a transitive cycle.          *)
EXTENDS GraphBuild

CONSTANTS a, b, c

MCNodes == {a, b, c}

(* EraseValue, the non-recursive form of the erase-remove idiom, agrees    *)
(* with the reference filter Remove of SequencesExt on every sequence of   *)
(* up to four nodes, duplicates included.                                  *)
ASSUME EraseValueIsRemove ==
    \A s \in BoundedSeq(MCNodes, 4), e \in MCNodes : EraseValue(s, e) = Remove(s, e)
==============================================================================
