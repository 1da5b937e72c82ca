------------------------------ MODULE MCZTracer ------------------------------
\* The instance of ZTracer that TLC explores.
EXTENDS ZTracer, TLC

\* Objects of a class are interchangeable.
Symmetric == Permutations(Endps) \cup Permutations(Traces)
===============================================================================
