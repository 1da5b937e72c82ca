------------------------------- MODULE ZipkinC -------------------------------
(***************************************************************************)
(* The instrumentation library src/src/zipkin_c.c as one process uses it:  *)
(* structs of the caller that the library fills in, and the LTTng events   *)
(* that blkin_record emits.  A pointer is the name of a struct, or Null;   *)
(* the structs are zeroed before their first use, as static ones are.      *)
(*                                                                         *)
(* The caller follows one rule: it uses the identity in a trace or in a    *)
(* trace info only after some call has put one there.  It ignores return   *)
(* codes, as testc.c and ztracer.hpp do, so a call that failed may be      *)
(* followed by any other.                                                  *)
(*                                                                         *)
(* Texts are Null, what the caller gave, or the library's default.  Ports  *)
(* and the two pack functions are not part of this module.                 *)
(***************************************************************************)
EXTENDS Integers, Sequences

CONSTANTS Endps,     \* the caller's structs blkin_endpoint
          Traces,    \* ... blkin_trace
          Annots,    \* ... blkin_annotation
          Infos,     \* ... blkin_trace_info
          Null,      \* the NULL pointer
          Ids,       \* what random_big may return
          Zero,      \* the identifier 0
          Given,     \* the texts a caller passes, Null perhaps among them
          Garbage,   \* what an uninitialised int may hold
          MaxSpans,  \* bound on the spans started
          MaxLog     \* bound on the events emitted

EINVAL == 22
Text == {"given", "default"}

ASSUME ZipkinAssumption ==
  /\ Zero \in Ids
  /\ Null \notin Endps \cup Traces \cup Annots \cup Infos \cup Text
  /\ Traces \cap Infos = {}
  /\ Given \subseteq {"given", Null}
  /\ Garbage \subseteq Int
  /\ Garbage # {}
  /\ MaxSpans \in Nat
  /\ MaxLog \in Nat

VARIABLES endp, trace, annot, info,  \* the contents of the caller's structs
          rc,       \* what the last call returned
          crashed,  \* the process died on a NULL pointer
          log,      \* the events emitted
          ready,    \* traces and infos that hold an identity
          spans,    \* history: the identities the library made up, in order
          roots,    \* history: the positions in spans of the new traces
          inPlace   \* ... and of the children made in place of their parent

structVars == <<endp, trace, annot, info>>
historyVars == <<ready, spans, roots, inPlace>>
vars == <<structVars, historyVars, rc, crashed, log>>

OrNull(S) == S \cup {Null}
Identity == [trace_id : Ids, span_id : Ids, parent_span_id : Ids]
Kinds == {"string", "timestamp"}

Endpoint == [ip : OrNull(Text), name : OrNull(Text)]
Trace == [name : OrNull(Text), info : Identity, ep : OrNull(Endps)]
Annotation == [type : Kinds, key : OrNull(Text), val : OrNull(Text),
               ep : OrNull(Endps)]
Event == [type : Kinds, trace_name : OrNull(Text), service : OrNull(Text),
          ip : OrNull(Text), key : OrNull(Text), val : OrNull(Text),
          info : Identity]

TypeOK ==
  /\ endp \in [Endps -> Endpoint]
  /\ trace \in [Traces -> Trace]
  /\ annot \in [Annots -> Annotation]
  /\ info \in [Infos -> Identity]
  /\ rc \in Int
  /\ crashed \in BOOLEAN
  /\ log \in Seq(Event) /\ Len(log) <= MaxLog
  /\ ready \subseteq Traces \cup Infos
  /\ spans \in Seq(Identity) /\ Len(spans) <= MaxSpans
  /\ roots \subseteq DOMAIN spans
  /\ inPlace \subseteq DOMAIN spans

NoIdentity == [trace_id |-> Zero, span_id |-> Zero, parent_span_id |-> Zero]

Init ==
  /\ endp = [e \in Endps |-> [ip |-> Null, name |-> Null]]
  /\ trace = [t \in Traces |-> [name |-> Null, info |-> NoIdentity, ep |-> Null]]
  /\ annot = [a \in Annots |->
                [type |-> "string", key |-> Null, val |-> Null, ep |-> Null]]
  /\ info = [i \in Infos |-> NoIdentity]
  /\ rc = 0
  /\ crashed = FALSE
  /\ log = << >>
  /\ ready = {}
  /\ spans = << >>
  /\ roots = {}
  /\ inPlace = {}

-------------------------------------------------------------------------------
\* Every function that meets a NULL argument it does not accept.
Refuse == /\ rc' = -EINVAL
          /\ UNCHANGED <<structVars, historyVars, crashed, log>>

\* x, or the default text when x is Null.
Default(x) == IF x = Null THEN "default" ELSE x

InitEndpoint(e, ip, name) ==
  \/ e = Null /\ Refuse
  \/ /\ e # Null
     /\ endp' = [endp EXCEPT ![e] = [ip |-> Default(ip), name |-> name]]
     /\ rc' = 0
     /\ UNCHANGED <<trace, annot, info, historyVars, crashed, log>>

\* The library makes up identity id and stores it in trace t.
Mint(t, name, id, e) ==
  /\ trace' = [trace EXCEPT ![t] = [name |-> name, info |-> id, ep |-> e]]
  /\ spans' = Append(spans, id)
  /\ ready' = ready \cup {t}
  /\ rc' = 0
  /\ UNCHANGED <<endp, annot, info, crashed, log>>

\* Two draws; the parent identifier is the literal 0.
RootIdentity(tid, sid) ==
  [trace_id |-> tid, span_id |-> sid, parent_span_id |-> Zero]

InitNewTrace(t, name, e) ==
  \/ t = Null /\ Refuse
  \/ /\ t # Null
     /\ Len(spans) < MaxSpans
     /\ \E tid, sid \in Ids : Mint(t, name, RootIdentity(tid, sid), e)
     /\ roots' = roots \cup {Len(spans) + 1}
     /\ UNCHANGED inPlace

\* The identity a pointer to a blkin_trace_info leads to: a variable of the
\* caller, or the info field of a trace.
InfoAt(p) == IF p \in Infos THEN info[p] ELSE trace[p].info

\* Mutant: the parent identifier stays 0.
ChildIdentityOrphan(t, p, sid) ==
  [trace_id |-> InfoAt(p).trace_id, span_id |-> sid, parent_span_id |-> Zero]

\* Mutant: the parent's own parent identifier is kept.
ChildIdentityGrandparent(t, p, sid) == [InfoAt(p) EXCEPT !.span_id = sid]

\* Mutant: the parent identifier is read where the new one was just stored.
ChildIdentityLate(t, p, sid) ==
  [trace_id |-> InfoAt(p).trace_id, span_id |-> sid, parent_span_id |-> sid]

\* The child's fields are assigned one after the other; when parent_info is
\* the info field of the child itself, the last one reads the new span_id.
ChildIdentity(t, p, sid) ==
  [trace_id |-> InfoAt(p).trace_id, span_id |-> sid,
   parent_span_id |-> IF p = t THEN sid ELSE InfoAt(p).span_id]

\* Mutant: the endpoint is not looked at, as blkin_init_new_trace does not.
InitChildInfoBare(t, p, e, name) ==
  \/ Null \in {t, p} /\ Refuse
  \/ /\ Null \notin {t, p}
     /\ Len(spans) < MaxSpans
     /\ p \in ready
     /\ \E sid \in Ids : Mint(t, name, ChildIdentity(t, p, sid), e)
     /\ inPlace' = inPlace \cup {n \in {Len(spans) + 1} : p = t}
     /\ UNCHANGED roots

InitChildInfo(t, p, e, name) ==
  \/ Null \in {t, p, e} /\ Refuse
  \/ /\ Null \notin {t, p, e}
     /\ Len(spans) < MaxSpans
     /\ p \in ready
     /\ \E sid \in Ids : Mint(t, name, ChildIdentity(t, p, sid), e)
     /\ inPlace' = inPlace \cup {n \in {Len(spans) + 1} : p = t}
     /\ UNCHANGED roots

\* A NULL endpoint is replaced by that of the parent, which may be NULL too.
InitChild(t, parent, e, name) ==
  \/ parent = Null /\ Refuse
  \/ /\ parent # Null
     /\ InitChildInfo(t, parent, IF e = Null THEN trace[parent].ep ELSE e, name)

InitStringAnnotation(a, key, val, e) ==
  \/ Null \in {a, key, val} /\ Refuse
  \/ /\ Null \notin {a, key, val}
     /\ annot' = [annot EXCEPT ![a] =
                    [type |-> "string", key |-> key, val |-> val, ep |-> e]]
     /\ rc' = 0
     /\ UNCHANGED <<endp, trace, info, historyVars, crashed, log>>

\* The key of an earlier use stays where it is.
InitTimestampAnnotation(a, event, e) ==
  \/ Null \in {a, event} /\ Refuse
  \/ /\ Null \notin {a, event}
     /\ annot' = [annot EXCEPT ![a].type = "timestamp",
                               ![a].val = event, ![a].ep = e]
     /\ rc' = 0
     /\ UNCHANGED <<endp, trace, info, historyVars, crashed, log>>

\* Mutant: the endpoint's name, which blkin_init_endpoint may leave NULL, is
\* emitted without its default.
EventOfUnnamed(t, a, e) ==
  [type |-> annot[a].type, trace_name |-> Default(trace[t].name),
   service |-> endp[e].name, ip |-> Default(endp[e].ip),
   key |-> IF annot[a].type = "string" THEN annot[a].key ELSE Null,
   val |-> annot[a].val, info |-> trace[t].info]

\* What tracepoint() emits for annotation a of trace t at endpoint e.
EventOf(t, a, e) ==
  [type |-> annot[a].type, trace_name |-> Default(trace[t].name),
   service |-> Default(endp[e].name), ip |-> Default(endp[e].ip),
   key |-> IF annot[a].type = "string" THEN annot[a].key ELSE Null,
   val |-> annot[a].val, info |-> trace[t].info]

\* The texts annotation a cannot be emitted without.
Missing(a) == \/ annot[a].val = Null
              \/ annot[a].type = "string" /\ annot[a].key = Null

\* The endpoint of the annotation, by default that of the trace.
EndpointFor(t, a) == IF annot[a].ep # Null THEN annot[a].ep ELSE trace[t].ep

\* The structs are completed with defaults before the texts are looked at.
Complete(t, a, e) ==
  /\ annot' = [annot EXCEPT ![a].ep = e]
  /\ trace' = [trace EXCEPT ![t].name = Default(@)]
  /\ endp' = [endp EXCEPT ![e] = [ip |-> Default(@.ip), name |-> Default(@.name)]]

\* Mutant: the event is emitted before its texts are looked at.
RecordRefusedLate(t, a) ==
  /\ Null \notin {t, a}
  /\ t \in ready
  /\ Len(log) < MaxLog
  /\ EndpointFor(t, a) # Null
  /\ Missing(a)
  /\ Complete(t, a, EndpointFor(t, a))
  /\ log' = Append(log, EventOf(t, a, EndpointFor(t, a)))
  /\ rc' = -EINVAL
  /\ UNCHANGED <<info, historyVars, crashed>>

RecordRefused(t, a) ==
  \/ Null \in {t, a} /\ Refuse
  \/ /\ Null \notin {t, a}
     /\ t \in ready
     /\ EndpointFor(t, a) # Null
     /\ Missing(a)
     /\ Complete(t, a, EndpointFor(t, a))
     /\ rc' = -EINVAL
     /\ UNCHANGED <<info, historyVars, crashed, log>>

Record(t, a) ==
  /\ t \in ready
  /\ Len(log) < MaxLog
  /\ EndpointFor(t, a) # Null
  /\ ~Missing(a)
  /\ Complete(t, a, EndpointFor(t, a))
  /\ log' = Append(log, EventOf(t, a, EndpointFor(t, a)))
  /\ rc' = 0
  /\ UNCHANGED <<info, historyVars, crashed>>

\* Neither struct has an endpoint: annotation_endpoint->ip reads NULL.
RecordCrashes(t, a) ==
  /\ t \in ready
  /\ EndpointFor(t, a) = Null
  /\ crashed' = TRUE
  /\ trace' = [trace EXCEPT ![t].name = Default(@)]
  /\ UNCHANGED <<endp, annot, info, historyVars, rc, log>>

\* On success res was never assigned.
GetTraceInfo(t, i) ==
  \/ Null \in {t, i} /\ Refuse
  \/ /\ Null \notin {t, i}
     /\ t \in ready
     /\ info' = [info EXCEPT ![i] = trace[t].info]
     /\ ready' = ready \cup {i}
     /\ rc' \in Garbage
     /\ UNCHANGED <<endp, trace, annot, spans, roots, inPlace, crashed, log>>

\* Mutant: only the trace identifier is set.
SetTraceInfoPartly(t, i) ==
  /\ Null \notin {t, i}
  /\ i \in ready
  /\ trace' = [trace EXCEPT ![t].info.trace_id = info[i].trace_id]
  /\ ready' = ready \cup {t}
  /\ rc' \in Garbage
  /\ UNCHANGED <<endp, annot, info, spans, roots, inPlace, crashed, log>>

SetTraceInfo(t, i) ==
  \/ Null \in {t, i} /\ Refuse
  \/ /\ Null \notin {t, i}
     /\ i \in ready
     /\ trace' = [trace EXCEPT ![t].info = info[i]]
     /\ ready' = ready \cup {t}
     /\ rc' \in Garbage
     /\ UNCHANGED <<endp, annot, info, spans, roots, inPlace, crashed, log>>

\* The calls that make up identities or hand them on, with endpoints of E and
\* names of G.
TraceCall(E, G) ==
  \/ \E t \in OrNull(Traces), e \in OrNull(E), name \in G :
        \/ InitNewTrace(t, name, e)
        \/ \E p \in OrNull(Infos) : InitChildInfo(t, p, e, name)
        \/ \E p \in OrNull(Traces) : InitChild(t, p, e, name)
  \/ \E t \in OrNull(Traces), i \in OrNull(Infos) :
        GetTraceInfo(t, i) \/ SetTraceInfo(t, i)

\* The calls that fill in endpoints and annotations and record them.
RecordCall ==
  \/ \E e \in OrNull(Endps), ip, name \in Given : InitEndpoint(e, ip, name)
  \/ \E a \in OrNull(Annots), e \in OrNull(Endps), val \in Given :
        \/ InitTimestampAnnotation(a, val, e)
        \/ \E key \in Given : InitStringAnnotation(a, key, val, e)
  \/ \E t \in OrNull(Traces), a \in OrNull(Annots) : RecordRefused(t, a)
  \/ \E t \in Traces, a \in Annots : Record(t, a) \/ RecordCrashes(t, a)

Call == TraceCall(Endps, Given) \/ RecordCall

Next == ~crashed /\ Call

Spec == Init /\ [][Next]_vars

-------------------------------------------------------------------------------
Started(id) == \E i \in DOMAIN spans : spans[i] = id

\* Whatever calls failed in between, a struct that once got an identity holds
\* that of a span the library started: stale perhaps, never a mixture.
IdentitiesSettled ==
  /\ \A t \in ready \cap Traces : Started(trace[t].info)
  /\ \A i \in ready \cap Infos : Started(info[i])

\* No event reaches LTTng with a NULL text, although every text but the key
\* and the value of an annotation may be NULL when blkin_record is called.
EventsComplete ==
  \A k \in DOMAIN log :
     /\ Null \notin {log[k].trace_name, log[k].service, log[k].ip, log[k].val}
     /\ log[k].type = "string" => log[k].key # Null

\* A call that returns -EINVAL has emitted nothing and touched no identity,
\* and overwrote no field but NULL ones.  (Garbage without -EINVAL: get and
\* set_trace_info may return anything after success.)
FailedCallsOnlyComplete ==
  [][rc' = -EINVAL =>
       /\ UNCHANGED <<info, ready, spans, roots, log>>
       /\ \A t \in Traces : \/ trace'[t] = trace[t]
                            \/ /\ trace[t].name = Null
                               /\ trace'[t] = [trace[t] EXCEPT !.name = "default"]
       /\ \A e \in Endps : /\ endp'[e].ip \in {endp[e].ip, Default(endp[e].ip)}
                           /\ endp'[e].name \in {endp[e].name, Default(endp[e].name)}
       /\ \A a \in Annots :
             \/ annot'[a] = annot[a]
             \/ /\ annot[a].ep = Null
                /\ annot'[a] = [annot[a] EXCEPT !.ep = annot'[a].ep]]_vars

\* The endpoint of a trace is lost only by starting a new trace in it with
\* none: a child always gets one, whatever NULLs were passed, and no call that
\* fails and no blkin_set_trace_info takes one away.
OnlyNewTracesAreBare ==
  [][\A t \in Traces :
        trace'[t] # trace[t] /\ trace'[t].ep = Null =>
           \/ roots' # roots
           \/ trace[t].ep = Null /\ UNCHANGED spans]_vars

\* The library, used by one process, traces as Dapper promises: every call is
\* a step of Dapper or nothing to it, but for a child made in place of its parent.
D == INSTANCE Dapper WITH events <- [k \in DOMAIN log |-> log[k].info]

ImplementsDapper ==
  D!Init /\ [][UNCHANGED inPlace => UNCHANGED D!vars \/ D!Next]_vars

\* The parent of a span is none if it started its trace, or an earlier span of
\* its trace, or, if it was made in place of its parent, itself: parent links
\* have no other cycle.
SpansFormForest ==
  \A j \in DOMAIN spans :
     \/ j \in roots /\ spans[j].parent_span_id = Zero
     \/ \E i \in 1 .. j - 1 : D!IsParent(i, j)
     \/ j \in inPlace /\ D!IsParent(j, j)

\* Zipkin takes the span without parent for the root of a trace: as long as
\* the draws go well there is exactly one, the span the trace began with.
OneRootPerTrace == D!OneRootPerTrace
==============================================================================
