------------------------------- MODULE Pipeline -------------------------------
(***************************************************************************)
(* From the calls of the instrumented programs to the spans Scribe holds:  *)
(* the processes of TestC, the tracepoint provider src/src/zipkin_trace.h, *)
(* and the zipkin plugin of Babeltrace, which reads the trace when the     *)
(* programs have come to rest.                                             *)
(*                                                                         *)
(* An event of TestC's log is an event of the trace, with the names of its *)
(* process and the identity of its span.  External: LTTng and its clock,   *)
(* which ticks once per event, and the operator who collects the trace.    *)
(***************************************************************************)
EXTENDS TestC

CONSTANTS None,       \* Python's None
          Tick,       \* nanoseconds between two events
          MaxEvents,  \* bound on the length of a trace
          MaxRuns,    \* bound on the runs of the plugin
          MaxRefused  \* bound on the messages Scribe refuses

VARIABLES collected,  \* the trace was handed to the plugin
          plugin, trace, run, phase, pos, up, reply, stored, refused

TraceName == [A |-> "process_a", B |-> "process_b"]
ServiceName == [A |-> "service_a", B |-> "service_b"]
Port == [A |-> 5000, B |-> 5001]

Texts == {TraceName[p] : p \in Processes} \cup {ServiceName[p] : p \in Processes}
         \cup {"start", "end"}

\* What the provider can put into a trace.
ProviderEvents ==
  [provider : {"zipkin"}, kind : {"keyval", "timestamp"},
   fields : SUBSET {"identity", "host", "keyval", "event"}, ip : {"dotted"},
   port : Int, trace : Ids, span : Ids, parent : Ids,
   trace_name : Texts, service_name : Texts, value : Texts, ts : Nat]

B == INSTANCE Babeltrace WITH Plugins <- {"zipkin"}, Events <- ProviderEvents

ASSUME PipelineAssumption ==
  /\ Ids \subseteq Int
  /\ None \notin Ids \cup Int
  /\ Tick \in Nat
  /\ MaxEvents \in Nat /\ MaxEvents >= 4 * Rounds
  /\ MaxRuns \in Nat \ {0}
  /\ MaxRefused \in Nat

pluginVars == <<plugin, trace, run, phase, pos, up, reply, stored, refused>>
pipelineVars == <<vars, collected, pluginVars>>

PipelineInit == Init /\ collected = FALSE /\ trace = << >> /\ B!Init

-------------------------------------------------------------------------------
\* Mutant: the arguments in the order of the header kept with the plugin.
TimestampSwapped(service, trace_name, port, ip, id, event, ts) ==
  [provider |-> "zipkin", kind |-> "timestamp",
   fields |-> {"identity", "host", "event"},
   trace_name |-> trace_name, service_name |-> service, port |-> port, ip |-> ip,
   trace |-> id.trace_id, span |-> id.span_id, parent |-> id.parent_span_id,
   value |-> event, ts |-> ts]

\* Mutant: the identifiers of span and parent in the wrong order.
TimestampReversed(trace_name, service, port, ip, id, event, ts) ==
  [provider |-> "zipkin", kind |-> "timestamp",
   fields |-> {"identity", "host", "event"},
   trace_name |-> trace_name, service_name |-> service, port |-> port, ip |-> ip,
   trace |-> id.trace_id, span |-> id.parent_span_id, parent |-> id.span_id,
   value |-> event, ts |-> ts]

\* Mutant: the field event is left out.
TimestampBare(trace_name, service, port, ip, id, event, ts) ==
  [provider |-> "zipkin", kind |-> "timestamp", fields |-> {"identity", "host"},
   trace_name |-> trace_name, service_name |-> service, port |-> port, ip |-> ip,
   trace |-> id.trace_id, span |-> id.span_id, parent |-> id.parent_span_id,
   value |-> event, ts |-> ts]

\* The fields of zipkin:timestamp, of the arguments of the tracepoint.
Timestamp(trace_name, service, port, ip, id, event, ts) ==
  [provider |-> "zipkin", kind |-> "timestamp",
   fields |-> {"identity", "host", "event"},
   trace_name |-> trace_name, service_name |-> service, port |-> port, ip |-> ip,
   trace |-> id.trace_id, span |-> id.span_id, parent |-> id.parent_span_id,
   value |-> event, ts |-> ts]

\* Event k of the log as babeltrace yields it; no event is of time 0.
Yielded(k) ==
  LET p == log[k].by
  IN  Timestamp(TraceName[p], ServiceName[p], Port[p], "dotted", spans[log[k].span],
                log[k].what, 1000 + Tick * k)

\* Both processes are gone, or A waits for a connection that will not come.
AtRest == /\ pc["B"] \in Gone
          /\ pc["A"] \in Gone \/ (pc["A"] = "accept" /\ ~connected)

Collect == /\ AtRest /\ ~collected
           /\ collected' = TRUE
           /\ trace' = [k \in DOMAIN log |-> Yielded(k)]
           /\ UNCHANGED <<vars, plugin, run, phase, pos, up, reply, stored, refused>>

Programs == ~collected /\ Next /\ UNCHANGED <<collected, pluginVars>>

Plugin == /\ collected
          /\ B!Next
          /\ Cardinality(refused') <= MaxRefused
          /\ UNCHANGED <<vars, collected>>

PipelineNext == Programs \/ Collect \/ Plugin

\* The processes are scheduled as in TestC; the operator owes nothing.
PipelineSpec ==
  /\ PipelineInit
  /\ [][PipelineNext]_pipelineVars
  /\ WF_pipelineVars(StepA /\ Programs) /\ WF_pipelineVars(StepB /\ Programs)

-------------------------------------------------------------------------------
\* The event of the log that a message of Scribe's stands for.
Origin(m) == log[m.place.pos]

\* What became of event k in the run of message m.
Refused(m, k) == [run |-> m.place.run, pos |-> k] \in refused
Held(m, k) ==
  {stored[i].msg :
     i \in {i \in DOMAIN stored : stored[i].place = [run |-> m.place.run, pos |-> k]}}

\* How a span shows its parent's identifier id.
Displayed(id) == IF id = Zero THEN None ELSE id

\* For m, the start of a child: before it, and not later by its own clock, there
\* is the start of a span of A with the identifier m has as its parent's.
ParentStartIsShown(m) ==
  \E k \in 1 .. m.place.pos - 1 :
     /\ log[k].by = "A" /\ log[k].what = "start"
     /\ \/ Refused(m, k)
        \/ \E f \in Held(m, k) :
              /\ f.trace = m.msg.trace
              /\ f.span = spans[Origin(m).span].parent_span_id
              /\ f.value = "start" /\ f.at <= m.msg.at

\* For m, the end of a span of A: before it there is the end of a child.
ChildEndIsShown(m) ==
  \E k \in 1 .. m.place.pos - 1 :
     /\ log[k].by = "B" /\ log[k].what = "end"
     /\ \/ Refused(m, k)
        \/ \E f \in Held(m, k) :
              /\ f.trace = m.msg.trace
              /\ f.parent = Displayed(m.msg.span)
              /\ f.value = "end" /\ f.at <= m.msg.at

\* Who looks at Scribe's spans sees the tree that was executed, as long as
\* nobody was killed or gave up: a child begins after the start of its parent and ends
\* before its end, in the messages too, but for what Scribe refused.
ShownInParent ==
  Undisturbed =>
    \A n \in DOMAIN stored :
      LET m == stored[n] IN
      /\ Origin(m).by = "B" /\ m.msg.value = "start" => ParentStartIsShown(m)
      /\ Origin(m).by = "A" /\ m.msg.value = "end" => ChildEndIsShown(m)

\* A span without parent is shown for each trace that A started, and else only
\* for a child whose parent drew the identifier 0.
RootsShown ==
  \A n \in DOMAIN stored :
     stored[n].msg.parent = None <=>
       \/ Origin(stored[n]).span \in roots
       \/ spans[Origin(stored[n]).span].parent_span_id = Zero

\* Scribe gets the name of a span as its name and that of the service as its
\* host, though the code carries both as strings next to each other.
NamesShown ==
  \A n \in DOMAIN stored :
     /\ stored[n].msg.name = TraceName[Origin(stored[n]).by]
     /\ stored[n].msg.host = ServiceName[Origin(stored[n]).by]

\* What these programs record the plugin can convert, so that nothing but the
\* connection ends a run early: a run that raised has lost it or never had it.
OnlyScribeStopsIt == collected /\ phase = "raised" => ~up

-------------------------------------------------------------------------------
\* The inductive invariant behind the properties of what Scribe holds.

NotCollected ==
  /\ trace = << >> /\ run = 1 /\ phase = "start" /\ pos = 1 /\ ~up
  /\ reply = "none" /\ stored = << >> /\ refused = {}

\* Position k of the trace is position k of the log.
Collected == trace = [k \in DOMAIN log |-> Yielded(k)]

PipelineInv ==
  /\ PeersInv
  /\ NobodyWaitsInVain
  /\ LogSound
  /\ LogBounded
  /\ collected \in BOOLEAN
  /\ IF collected THEN Collected ELSE NotCollected
  /\ plugin = "zipkin"
  /\ B!BabeltraceInv
  /\ phase \in {"start", "raised"} => ~up
===============================================================================
