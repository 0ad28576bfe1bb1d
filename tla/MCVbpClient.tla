---------------------------- MODULE MCVbpClient ----------------------------
\* TLC instance of VbpClient.
EXTENDS VbpClient
=============================================================================
