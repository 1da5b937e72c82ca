------------------------------ MODULE MCPipeline ------------------------------
\* The instance of Pipeline that TLC explores.  A tick of 600 nanoseconds puts
\* some neighbouring events into one microsecond.
EXTENDS Pipeline

MCIds == {0, 1}
MCGarbage == [trace_id : {0, 1}, span_id : {0}, parent_span_id : {1}]
MCBoth == BOOLEAN
MCInitResults == {-2, 0}

\* Which identifier the first trace has is of no consequence, only which other
\* identities share it.
FirstTraceIs0 == 1 \in roots => spans[1].trace_id = 0

MCSpec ==
  /\ PipelineInit
  /\ [][PipelineNext /\ FirstTraceIs0']_pipelineVars
  /\ WF_pipelineVars(StepA /\ Programs) /\ WF_pipelineVars(StepB /\ Programs)
===============================================================================
