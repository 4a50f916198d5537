------------------------------- MODULE MCLinks -------------------------------
EXTENDS Links, TLC
CONSTANTS d1, d2, d3
MCLinkable == {<<d1, d2>>, <<d3, d2>>}
Symmetry == Permutations({d1, d3})
=============================================================================
