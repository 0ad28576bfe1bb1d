---------------------------- MODULE MCWebSession ----------------------------
\* Two tabs of one browser and two accounts.
EXTENDS WebSession
=============================================================================
