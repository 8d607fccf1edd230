---------------------------- MODULE MCFileClient ----------------------------
EXTENDS FileClient

\* One client with three commands: each kind of answer, and enough for a file of two
\* after something went wrong.
Session == [c \in Clients |-> <<{"line", "lookalike"}, {"line"}, {"silent", "quit"}>>]
=============================================================================
