---------------------------- MODULE MCBlobStore ----------------------------
EXTENDS BlobStore, TLC

CONSTANTS runner, c1, c2, k1, k2, maint, gc, t1

OneContent  == {runner, c1}
TwoContents == {runner, c1, c2}
OneHandler  == {k1, maint, gc}
TwoHandlers == {k1, k2, maint, gc}
OneTask     == {t1}
LargeSet    == {c1}
Symmetry    == Permutations({k1, k2})
=============================================================================
