---------------------------- MODULE MCTestnetTrading ----------------------------
EXTENDS TestnetTrading
=============================================================================
