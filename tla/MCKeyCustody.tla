---------------------------- MODULE MCKeyCustody ----------------------------
EXTENDS KeyCustody, TLC

\* Tabs and passwords are interchangeable.
Symmetry == Permutations(Tab) \cup Permutations(Password)
=============================================================================
