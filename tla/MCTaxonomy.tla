----------------------------- MODULE MCTaxonomy -----------------------------
(* One type, one organization, two competencies that may share a name. *)
EXTENDS Taxonomy, TLC
CONSTANTS t1, o1, k1, k2, x1, c1, c2, a
OneName == [type |-> {a}, organization |-> {a}, competency |-> {a}]
Symmetry == Permutations({c1, c2}) \cup Permutations(CompetencyIds)
=============================================================================
