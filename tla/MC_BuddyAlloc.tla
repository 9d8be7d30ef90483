----------------------------- MODULE MC_BuddyAlloc -----------------------------
EXTENDS BuddyAlloc
=============================================================================
