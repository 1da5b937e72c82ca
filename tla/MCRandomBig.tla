------------------------------ MODULE MCRandomBig ------------------------------
\* The instance of RandomBig that TLC explores: rand() yields 0 to 3, and two
\* seeds have values in common.
EXTENDS RandomBig, TLC

MCOut == [x \in Seeds \X Places |-> (x[1] * x[2] + x[2]) % (RandMax + 1)]

Symmetric == Permutations(Threads) \cup Permutations(Procs \ {First})
===============================================================================
