------------------------- MODULE MCAccountRecovery -------------------------
\* Two accounts and a page that makes four calls.
EXTENDS AccountRecovery
=============================================================================
