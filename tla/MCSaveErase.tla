---------------------------- MODULE MCSaveErase ----------------------------
\* The address map at its real size: every block, layout and caller.
EXTENDS SaveErase
=============================================================================
