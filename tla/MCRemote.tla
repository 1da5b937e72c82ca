------------------------------- MODULE MCRemote -------------------------------
\* The instance of Remote that TLC explores: integers of two bytes, of which
\* MCIds has 0 and one that reads differently backwards.
EXTENDS Remote, TLC

MCByte == {0, 1}
MCZero == <<0, 0>>
MCIds == {MCZero, <<0, 1>>}
MCJunk == [trace_id |-> <<1, 0>>, span_id |-> <<1, 1>>, parent_span_id |-> <<1, 1>>]

Symmetric == Permutations(Hosts \ Big)
===============================================================================
