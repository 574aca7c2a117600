--------------------------- MODULE MCLegacyImport ---------------------------
EXTENDS LegacyImport, TLC

CONSTANTS r1, r2, entity, reference

\* two rows of one canonical customer
TwoRows == {r1, r2}
OneEntity == [r \in TwoRows |-> entity]
Siblings == [r \in TwoRows |-> reference]
Symmetric == Permutations(Users) \union Permutations(Rows)
=============================================================================
