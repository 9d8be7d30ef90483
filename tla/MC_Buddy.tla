----------------------------- MODULE MC_Buddy -----------------------------
EXTENDS Buddy
=============================================================================
