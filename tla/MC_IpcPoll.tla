----------------------------- MODULE MC_IpcPoll -----------------------------
EXTENDS IpcPoll

CONSTANTS c1, c2, c3

MCConns == {c1, c2, c3}
=============================================================================
