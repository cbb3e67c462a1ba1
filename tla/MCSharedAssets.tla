---------------------------- MODULE MCSharedAssets ----------------------------
EXTENDS SharedAssets
=============================================================================
