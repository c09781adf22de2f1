------------------------- MODULE MCMissionScheduler -------------------------
EXTENDS MissionScheduler
=============================================================================
