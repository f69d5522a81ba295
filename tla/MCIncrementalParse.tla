------------------------- MODULE MCIncrementalParse -------------------------
EXTENDS IncrementalParse, TLC

\* Both lines give a message, or only the second.
MCSilences == {{}, {1}}
=============================================================================
