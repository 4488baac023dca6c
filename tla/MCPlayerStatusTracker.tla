------------------------ MODULE MCPlayerStatusTracker ------------------------
EXTENDS PlayerStatusTracker
=============================================================================
