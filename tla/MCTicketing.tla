----------------------------- MODULE MCTicketing -----------------------------
\* One host and one remediation, both of all findings.
EXTENDS Ticketing, TLC

OneHost == {Findings}
OneRemedy == {Findings}
Symmetry == Permutations(Tasks) \cup Permutations(Makers)
=============================================================================
