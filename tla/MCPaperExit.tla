----------------------------- MODULE MCPaperExit -----------------------------
\* The first stop, the stops of the first target, the first and the last target.
EXTENDS PaperExit
MCLevels == {-4, -1, 1, 4, 12}
=============================================================================
