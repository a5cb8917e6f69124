------------------------------ MODULE MCConfig ------------------------------
(* ConfigClient for TLC.  The default profile sets a value at every depth; *)
(* the profile overrides some and replaces a section by a value.           *)
EXTENDS ConfigClient, FiniteSetsExt

Val(v) == [x \in {Leaf} |-> v]

Contents ==
  [f \in File |->
     IF f = Default
     THEN {[a |-> Val(1), s |-> [a |-> Val(1), s |-> [a |-> Val(1)]]], Broken}
     ELSE {[a |-> Val(3), s |-> [s |-> [s |-> Val(3)]]],
           [s |-> Val(4)], Truncated}]

RECURSIVE Subtrees(_), HeightOf(_)
Subtrees(t) == {t} \cup (IF IsSection(t) THEN UNION {Subtrees(t[k]) : k \in DOMAIN t} ELSE {})
HeightOf(t) ==
  IF IsSection(t) /\ t # EmptyTree THEN 1 + Max({HeightOf(t[k]) : k \in DOMAIN t}) ELSE 0

Trees ==
  {EmptyTree} \cup
    UNION {Subtrees(t) : t \in UNION {Contents[f] : f \in File} \ {Truncated, Broken}}
Heights == [t \in Trees |-> HeightOf(t)]
=============================================================================
