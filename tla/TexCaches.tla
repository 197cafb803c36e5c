------------------------------ MODULE TexCaches ------------------------------
(* The caches of pipelines of the texture tests (texture_utils.cpp): what a *)
(* test leaves for later ones is its key and the bundle it made.            *)
EXTENDS FiniteSets

\* The keys under which a test may find a pipeline that it would not have made.
MistakenAmong(left) ==
    IF Cardinality({e.key : e \in left}) = Cardinality(left) THEN {}
    ELSE {x.key : x \in {y \in left : \E z \in left : z.key = y.key /\ z.bundle # y.bundle}}
=============================================================================
