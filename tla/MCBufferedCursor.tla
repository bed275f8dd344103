---- MODULE MCBufferedCursor ----
EXTENDS BufferedCursor

\* MaxLen = 15 stands for an SQLLEN of 5 bits.
MovingOffsets == SQLLEN \ {0, MaxLen}
Sizes == -1 .. 14
====
