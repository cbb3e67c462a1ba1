---------------------------- MODULE MCJobLifecycle ----------------------------
EXTENDS JobLifecycle
=============================================================================
