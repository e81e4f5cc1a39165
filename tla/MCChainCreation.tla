-------------------------- MODULE MCChainCreation --------------------------
EXTENDS ChainCreation

CONSTANTS c1, c2

MCChains == {c1, c2}

=============================================================================
