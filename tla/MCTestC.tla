------------------------------- MODULE MCTestC -------------------------------
\* The instance of TestC alone: testc.c, nothing going wrong from outside.
EXTENDS TestC

MCIds == {0, 1}
MCGarbage == {[trace_id |-> 1, span_id |-> 0, parent_span_id |-> 1]}
MCOk == {0}
MCRacing == {FALSE}
===============================================================================
