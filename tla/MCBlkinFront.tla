----------------------------- MODULE MCBlkinFront -----------------------------
\* The instance of BlkinFront that TLC explores: the eleven entry points of
\* the code and a build without the two pack functions beside the full one.
EXTENDS BlkinFront

CONSTANTS full, old

MCExports == [l \in Libraries |-> IF l = full THEN 1 .. 11 ELSE 1 .. 9]
MCGarbage == {-1, 1}
===============================================================================
