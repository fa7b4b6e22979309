------------------------------- MODULE MCTalk -------------------------------
EXTENDS Talk
=============================================================================
