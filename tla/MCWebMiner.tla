----------------------------- MODULE MCWebMiner -----------------------------
EXTENDS WebMiner
=============================================================================
