--------------------------- MODULE MCMailOutbound ---------------------------
EXTENDS MailOutbound, TLC

\* one reminder; two rows of one case; the second row for staff
OneRow == {1}
TwoRows == {1, 2}
OneCase == [r \in Rows |-> CHOOSE c \in Cases : TRUE]
WorkerSymmetry == Permutations(Workers)
=============================================================================
