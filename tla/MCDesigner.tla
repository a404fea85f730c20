----------------------------- MODULE MCDesigner -----------------------------
(* Designer on a small card: two designs besides the built-in one.           *)
EXTENDS Designer, TLC

El(id, x, y, w, h, turn) == [id |-> id, x |-> x, y |-> y, w |-> w, h |-> h, turn |-> turn]
DefaultValue == <<El(1, 2, 6, 1, 3, 1)>>
ImportedValue == {[elements |-> <<El(3, 3, 14, 3, 2, 3)>>, width |-> 6, look |-> 1]}
DragsValue == {<<4, -7>>}
TypedValue == {5}

Symmetry == Permutations(Jobs) \cup Permutations(Pages)
=============================================================================
