----------------------- MODULE MCStakingCoordinator -----------------------
EXTENDS StakingCoordinator
=============================================================================
