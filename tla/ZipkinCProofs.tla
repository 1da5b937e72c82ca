---------------------------- MODULE ZipkinCProofs ----------------------------
(***************************************************************************)
(* The instrumentation library for any number of structs, identifiers,     *)
(* spans and events: what its structs and events always satisfy, and that  *)
(* it implements Dapper, from which the tree properties follow.            *)
(***************************************************************************)
EXTENDS ZipkinC, TLAPS

\* What the inductive steps carry along.
ZipkinInv == TypeOK /\ IdentitiesSettled /\ EventsComplete

\* The default replaces NULL by a text and leaves a text alone.
LEMMA DefaultIsText ==
  ASSUME NEW x \in OrNull(Text) PROVE Default(x) \in Text /\ Default(x) # Null
  BY ZipkinAssumption DEF OrNull, Text, Default

\* What the caller passes is a text or NULL.
LEMMA GivenIsText == Given \subseteq OrNull(Text)
  BY ZipkinAssumption DEF OrNull, Text

\* To begin with the structs are zero and nothing is emitted.
LEMMA ZipkinInit == Init => ZipkinInv
<1> SUFFICES ASSUME Init PROVE ZipkinInv
  OBVIOUS
<1> USE ZipkinAssumption DEF Init, OrNull
<1>1. NoIdentity \in Identity
  BY DEF NoIdentity, Identity
<1>2. endp \in [Endps -> Endpoint] /\ trace \in [Traces -> Trace]
  BY <1>1 DEF Endpoint, Trace
<1>3. annot \in [Annots -> Annotation] /\ info \in [Infos -> Identity]
  BY <1>1 DEF Annotation, Kinds
<1>4. /\ log \in Seq(Event) /\ Len(log) = 0
      /\ spans \in Seq(Identity) /\ Len(spans) = 0
      /\ roots \subseteq DOMAIN spans /\ inPlace \subseteq DOMAIN spans
  OBVIOUS
<1>5. rc \in Int /\ ready \subseteq Traces \cup Infos
  OBVIOUS
<1>6. 0 <= MaxLog /\ 0 <= MaxSpans /\ crashed = FALSE
  OBVIOUS
<1> HIDE DEF Init
<1>7. TypeOK
  BY <1>2, <1>3, <1>4, <1>5, <1>6 DEF TypeOK
<1> USE DEF Init
<1> QED
  BY <1>7 DEF ZipkinInv, IdentitiesSettled, EventsComplete

\* A refused call changes nothing but rc.
LEMMA RefuseKeeps == ASSUME ZipkinInv, Refuse PROVE ZipkinInv'
  BY DEF Refuse, EINVAL, structVars, historyVars, ZipkinInv, TypeOK,
         IdentitiesSettled, Started, EventsComplete

\* A new identity may be stored in any trace.
LEMMA MintKeeps ==
  ASSUME ZipkinInv,
         NEW t \in Traces, NEW name \in OrNull(Text), NEW id \in Identity,
         NEW e \in OrNull(Endps), Len(spans) < MaxSpans,
         Mint(t, name, id, e),
         roots' \subseteq roots \cup {Len(spans) + 1},
         inPlace' \subseteq inPlace \cup {Len(spans) + 1}
  PROVE  ZipkinInv'
<1> USE ZipkinAssumption DEF Mint
<1>t. TypeOK
  BY DEF ZipkinInv
<1>1. /\ spans' \in Seq(Identity)
      /\ Len(spans') = Len(spans) + 1
      /\ DOMAIN spans' = DOMAIN spans \cup {Len(spans) + 1}
      /\ \A i \in DOMAIN spans : spans'[i] = spans[i]
      /\ spans'[Len(spans) + 1] = id
  BY <1>t DEF TypeOK
<1>2. [name |-> name, info |-> id, ep |-> e] \in Trace
  BY DEF Trace
<1>3. trace' \in [Traces -> Trace]
  BY <1>2, <1>t DEF TypeOK
<1>4. Len(spans') <= MaxSpans
  BY <1>1, <1>t DEF TypeOK
<1>5. TypeOK'
  BY <1>1, <1>3, <1>4, <1>t DEF TypeOK
<1>6. ASSUME NEW x, Started(x) PROVE Started(x)'
  BY <1>6, <1>1 DEF Started
<1>7. Started(id)'
  BY <1>1 DEF Started
<1>8. \A u \in Traces \ {t} : trace'[u] = trace[u]
  BY <1>t DEF TypeOK
<1>9. trace'[t].info = id
  BY <1>t DEF TypeOK
<1>10. ASSUME NEW u \in ready' \cap Traces PROVE Started(trace[u].info)'
  <2>1. CASE u = t
    BY <2>1, <1>7, <1>9
  <2>2. CASE u # t
    BY <2>2, <1>6, <1>8, <1>10 DEF ZipkinInv, IdentitiesSettled
  <2> QED
    BY <2>1, <2>2
<1>11. ASSUME NEW i \in ready' \cap Infos PROVE Started(info[i])'
  BY <1>11, <1>6 DEF ZipkinInv, IdentitiesSettled
<1>12. IdentitiesSettled'
  BY <1>10, <1>11 DEF IdentitiesSettled
<1>13. EventsComplete'
  BY DEF ZipkinInv, EventsComplete
<1> QED
  BY <1>5, <1>12, <1>13 DEF ZipkinInv

\* A pointer to a trace info that holds an identity leads to a started span.
LEMMA InfoAtStarted ==
  ASSUME ZipkinInv, NEW p \in (Traces \cup Infos) \cap ready
  PROVE  InfoAt(p) \in Identity /\ Started(InfoAt(p))
  BY ZipkinAssumption
  DEF ZipkinInv, TypeOK, Trace, IdentitiesSettled, InfoAt

\* The identity of a child is one, whatever it is derived from.
LEMMA ChildIsIdentity ==
  ASSUME ZipkinInv, NEW t, NEW p \in (Traces \cup Infos) \cap ready,
         NEW sid \in Ids
  PROVE  ChildIdentity(t, p, sid) \in Identity
  BY InfoAtStarted DEF ChildIdentity, Identity

\* _blkin_init_endpoint touches no identity and no event.
LEMMA EndpointKeeps ==
  ASSUME ZipkinInv, NEW e \in OrNull(Endps), NEW ip \in Given, NEW name \in Given,
         InitEndpoint(e, ip, name)
  PROVE  ZipkinInv'
<1>1. CASE e = Null /\ Refuse
  BY <1>1, RefuseKeeps
<1>2. CASE e # Null
  <2>1. [ip |-> Default(ip), name |-> name] \in Endpoint
    BY GivenIsText, DefaultIsText DEF Endpoint, OrNull
  <2>2. /\ endp' = [endp EXCEPT ![e] = [ip |-> Default(ip), name |-> name]]
        /\ rc' = 0
        /\ UNCHANGED <<trace, annot, info, ready, log, spans, roots, inPlace, crashed>>
    BY <1>2 DEF InitEndpoint, historyVars
  <2>3. endp' \in [Endps -> Endpoint]
    BY <2>1, <2>2 DEF ZipkinInv, TypeOK
  <2>4. TypeOK'
    BY <2>2, <2>3 DEF ZipkinInv, TypeOK
  <2> QED
    BY <1>2, <2>4 DEF InitEndpoint, ZipkinInv, IdentitiesSettled, Started,
                      EventsComplete, historyVars
<1> QED
  BY <1>1, <1>2 DEF InitEndpoint

\* _blkin_init_new_trace stores the identity it records as started.
LEMMA NewTraceKeeps ==
  ASSUME ZipkinInv, NEW t \in OrNull(Traces), NEW e \in OrNull(Endps),
         NEW name \in Given, InitNewTrace(t, name, e)
  PROVE  ZipkinInv'
<1>1. CASE t = Null /\ Refuse
  BY <1>1, RefuseKeeps
<1>2. ASSUME t # Null, Len(spans) < MaxSpans, NEW tid \in Ids, NEW sid \in Ids,
             Mint(t, name, RootIdentity(tid, sid), e),
             roots' = roots \cup {Len(spans) + 1}, UNCHANGED inPlace
      PROVE  ZipkinInv'
  <2>1. RootIdentity(tid, sid) \in Identity
    BY ZipkinAssumption DEF Identity, RootIdentity
  <2> QED
    BY <1>2, <2>1, MintKeeps, GivenIsText DEF OrNull
<1> QED
  BY <1>1, <1>2 DEF InitNewTrace

\* So does _blkin_init_child_info.
LEMMA ChildInfoKeeps ==
  ASSUME ZipkinInv, NEW t \in OrNull(Traces), NEW p \in OrNull(Traces \cup Infos),
         NEW e \in OrNull(Endps), NEW name \in Given, InitChildInfo(t, p, e, name)
  PROVE  ZipkinInv'
<1>1. CASE Refuse
  BY <1>1, RefuseKeeps
<1>2. ASSUME Null \notin {t, p, e}, Len(spans) < MaxSpans, p \in ready,
             NEW sid \in Ids, Mint(t, name, ChildIdentity(t, p, sid), e),
             UNCHANGED roots,
             inPlace' = inPlace \cup {n \in {Len(spans) + 1} : p = t}
      PROVE  ZipkinInv'
  <2>1. ChildIdentity(t, p, sid) \in Identity
    BY <1>2, ChildIsIdentity DEF OrNull
  <2> QED
    BY <1>2, <2>1, MintKeeps, GivenIsText DEF OrNull
<1> QED
  BY <1>1, <1>2 DEF InitChildInfo

\* _blkin_init_child is _blkin_init_child_info of the parent's identity.
LEMMA ChildKeeps ==
  ASSUME ZipkinInv, NEW t \in OrNull(Traces), NEW parent \in OrNull(Traces),
         NEW e \in OrNull(Endps), NEW name \in Given, InitChild(t, parent, e, name)
  PROVE  ZipkinInv'
<1>1. CASE Refuse
  BY <1>1, RefuseKeeps
<1>2. CASE parent # Null /\ ~Refuse
  <2> DEFINE f == IF e = Null THEN trace[parent].ep ELSE e
  <2>1. f \in OrNull(Endps) /\ parent \in OrNull(Traces \cup Infos)
    BY <1>2 DEF ZipkinInv, TypeOK, Trace, OrNull
  <2>2. InitChildInfo(t, parent, f, name)
    BY <1>2 DEF InitChild
  <2> QED
    BY <2>1, <2>2, ChildInfoKeeps
<1> QED
  BY <1>1, <1>2 DEF InitChild

\* The two annotation functions touch nothing but the annotation.
LEMMA AnnotationKeeps ==
  ASSUME ZipkinInv, NEW a \in OrNull(Annots), NEW e \in OrNull(Endps),
         NEW val \in Given, NEW key \in Given,
         \/ InitTimestampAnnotation(a, val, e)
         \/ InitStringAnnotation(a, key, val, e)
  PROVE  ZipkinInv'
<1>1. CASE Refuse
  BY <1>1, RefuseKeeps
<1>2. CASE ~Refuse
  <2>1. a \in Annots /\ annot[a] \in Annotation
    BY <1>2 DEF InitTimestampAnnotation, InitStringAnnotation, OrNull,
                ZipkinInv, TypeOK
  <2>2. annot' \in [Annots -> Annotation]
    <3>1. CASE InitTimestampAnnotation(a, val, e)
      <4>1. annot' = [annot EXCEPT ![a] = [type |-> "timestamp",
                        key |-> annot[a].key, val |-> val, ep |-> e]]
        BY <1>2, <3>1, <2>1 DEF InitTimestampAnnotation, Annotation,
                                ZipkinInv, TypeOK
      <4>2. [type |-> "timestamp", key |-> annot[a].key, val |-> val,
             ep |-> e] \in Annotation
        BY <2>1, GivenIsText DEF Annotation, Kinds
      <4> QED
        BY <4>1, <4>2 DEF ZipkinInv, TypeOK
    <3>2. CASE InitStringAnnotation(a, key, val, e)
      <4>1. [type |-> "string", key |-> key, val |-> val, ep |-> e] \in Annotation
        BY GivenIsText DEF Annotation, Kinds
      <4> QED
        BY <1>2, <3>2, <4>1 DEF InitStringAnnotation, ZipkinInv, TypeOK
    <3> QED
      BY <3>1, <3>2
  <2>3. /\ UNCHANGED <<endp, trace, info, ready, spans, roots, inPlace, crashed, log>>
        /\ rc' = 0
    BY <1>2 DEF InitTimestampAnnotation, InitStringAnnotation, historyVars
  <2>4. TypeOK'
    BY <2>2, <2>3 DEF ZipkinInv, TypeOK
  <2> QED
    BY <2>3, <2>4 DEF ZipkinInv, IdentitiesSettled, Started, EventsComplete
<1> QED
  BY <1>1, <1>2

\* Completing the structs of a record touches no identity.
LEMMA CompleteKeeps ==
  ASSUME ZipkinInv, NEW t \in Traces, NEW a \in Annots, NEW e \in Endps,
         Complete(t, a, e)
  PROVE  /\ endp' \in [Endps -> Endpoint]
         /\ trace' \in [Traces -> Trace]
         /\ annot' \in [Annots -> Annotation]
         /\ \A u \in Traces : trace'[u].info = trace[u].info
<1>t. trace[t] \in Trace /\ annot[a] \in Annotation /\ endp[e] \in Endpoint
  BY DEF ZipkinInv, TypeOK
<1> DEFINE Named == [trace[t] EXCEPT !.name = Default(trace[t].name)]
<1>1. trace' = [trace EXCEPT ![t] = Named]
  BY DEF Complete
<1>2. annot' = [annot EXCEPT ![a] = [annot[a] EXCEPT !.ep = e]]
  BY DEF Complete
<1>3. Named \in Trace
  BY <1>t, DefaultIsText DEF Trace, OrNull
<1>4. [annot[a] EXCEPT !.ep = e] \in Annotation
  BY <1>t DEF Annotation, OrNull
<1>5. [ip |-> Default(endp[e].ip), name |-> Default(endp[e].name)] \in Endpoint
  BY <1>t, DefaultIsText DEF Endpoint, OrNull
<1>6. endp' \in [Endps -> Endpoint]
  BY <1>5 DEF Complete, ZipkinInv, TypeOK
<1>7. trace' \in [Traces -> Trace] /\ annot' \in [Annots -> Annotation]
  BY <1>1, <1>2, <1>3, <1>4 DEF ZipkinInv, TypeOK
<1>8. \A u \in Traces : trace'[u].info = trace[u].info
  <2>1. Named.info = trace[t].info
    BY <1>t DEF Trace
  <2>2. trace'[t] = Named
    BY <1>1 DEF ZipkinInv, TypeOK
  <2>3. \A u \in Traces \ {t} : trace'[u] = trace[u]
    BY <1>1 DEF ZipkinInv, TypeOK
  <2> QED
    BY <2>1, <2>2, <2>3
<1> QED
  BY <1>6, <1>7, <1>8

\* The endpoint blkin_record uses, once it is known not to be Null.
LEMMA EndpointForIsEndpoint ==
  ASSUME ZipkinInv, NEW t \in Traces, NEW a \in Annots, EndpointFor(t, a) # Null
  PROVE  EndpointFor(t, a) \in Endps
  BY DEF ZipkinInv, TypeOK, Trace, Annotation, EndpointFor, OrNull

\* A refused blkin_record completes texts and emits nothing.
LEMMA RecordRefusedKeeps ==
  ASSUME ZipkinInv, NEW t \in OrNull(Traces), NEW a \in OrNull(Annots),
         RecordRefused(t, a)
  PROVE  ZipkinInv'
<1>1. CASE Refuse
  BY <1>1, RefuseKeeps
<1>2. CASE ~Refuse
  <2> DEFINE e == EndpointFor(t, a)
  <2>1. /\ t \in Traces /\ a \in Annots /\ e # Null
        /\ Complete(t, a, e)
        /\ rc' = -EINVAL
        /\ UNCHANGED <<info, ready, spans, roots, inPlace, crashed, log>>
    BY <1>2 DEF RecordRefused, OrNull, historyVars
  <2>2. e \in Endps
    BY <2>1, EndpointForIsEndpoint
  <2>3. /\ endp' \in [Endps -> Endpoint]
        /\ trace' \in [Traces -> Trace]
        /\ annot' \in [Annots -> Annotation]
        /\ \A u \in Traces : trace'[u].info = trace[u].info
    BY <2>1, <2>2, CompleteKeeps
  <2>4. TypeOK'
    BY <2>1, <2>3 DEF ZipkinInv, TypeOK, EINVAL
  <2>5. IdentitiesSettled' /\ EventsComplete'
    BY <2>1, <2>3 DEF ZipkinInv, IdentitiesSettled, Started, EventsComplete
  <2> QED
    BY <2>4, <2>5 DEF ZipkinInv
<1> QED
  BY <1>1, <1>2

\* An event that is emitted has all its texts.
LEMMA EventIsComplete ==
  ASSUME ZipkinInv, NEW t \in Traces, NEW a \in Annots, NEW e \in Endps,
         ~Missing(a)
  PROVE  LET ev == EventOf(t, a, e) IN
         /\ ev \in Event
         /\ Null \notin {ev.trace_name, ev.service, ev.ip, ev.val}
         /\ ev.type = "string" => ev.key # Null
<1>1. trace[t] \in Trace /\ annot[a] \in Annotation /\ endp[e] \in Endpoint
  BY DEF ZipkinInv, TypeOK
<1>2. /\ Default(trace[t].name) \in Text /\ Default(trace[t].name) # Null
      /\ Default(endp[e].name) \in Text /\ Default(endp[e].name) # Null
      /\ Default(endp[e].ip) \in Text /\ Default(endp[e].ip) # Null
  BY <1>1, DefaultIsText DEF Trace, Endpoint
<1>3. /\ annot[a].type \in Kinds /\ annot[a].key \in OrNull(Text)
      /\ annot[a].val \in OrNull(Text) /\ annot[a].val # Null
      /\ annot[a].type = "string" => annot[a].key # Null
  BY <1>1 DEF Annotation, Missing
<1>4. trace[t].info \in Identity
  BY <1>1 DEF Trace
<1> QED
  BY <1>2, <1>3, <1>4 DEF EventOf, Event, OrNull

\* blkin_record emits a complete event.
LEMMA RecordKeeps ==
  ASSUME ZipkinInv, NEW t \in Traces, NEW a \in Annots, Record(t, a)
  PROVE  ZipkinInv'
<1> DEFINE e == EndpointFor(t, a)
           ev == EventOf(t, a, e)
<1>1. e \in Endps
  BY EndpointForIsEndpoint DEF Record
<1>2. /\ Len(log) < MaxLog
      /\ Complete(t, a, e)
      /\ log' = Append(log, ev)
      /\ rc' = 0
      /\ UNCHANGED <<info, ready, spans, roots, inPlace, crashed>>
  BY DEF Record, historyVars
<1>3. /\ ev \in Event
      /\ Null \notin {ev.trace_name, ev.service, ev.ip, ev.val}
      /\ ev.type = "string" => ev.key # Null
  BY <1>1, EventIsComplete DEF Record
<1>4. /\ endp' \in [Endps -> Endpoint]
      /\ trace' \in [Traces -> Trace]
      /\ annot' \in [Annots -> Annotation]
      /\ \A u \in Traces : trace'[u].info = trace[u].info
  BY <1>1, <1>2, CompleteKeeps
<1> HIDE DEF e, ev
<1>5. /\ log' \in Seq(Event)
      /\ Len(log') = Len(log) + 1
      /\ DOMAIN log' = DOMAIN log \cup {Len(log) + 1}
      /\ \A k \in DOMAIN log : log'[k] = log[k]
      /\ log'[Len(log) + 1] = ev
  BY <1>2, <1>3 DEF ZipkinInv, TypeOK
<1>6. Len(log') <= MaxLog
  BY <1>2, <1>5, ZipkinAssumption DEF ZipkinInv, TypeOK
<1>7. TypeOK'
  BY <1>2, <1>4, <1>5, <1>6 DEF ZipkinInv, TypeOK
<1>8. IdentitiesSettled'
  BY <1>2, <1>4 DEF ZipkinInv, IdentitiesSettled, Started
<1>9. EventsComplete'
  BY <1>3, <1>5 DEF ZipkinInv, EventsComplete
<1> QED
  BY <1>7, <1>8, <1>9 DEF ZipkinInv

\* A blkin_record that crashes has only named the trace.
LEMMA RecordCrashesKeeps ==
  ASSUME ZipkinInv, NEW t \in Traces, NEW a \in Annots, RecordCrashes(t, a)
  PROVE  ZipkinInv'
<1> DEFINE Named == [trace[t] EXCEPT !.name = Default(trace[t].name)]
<1>1. trace[t] \in Trace
  BY DEF ZipkinInv, TypeOK
<1>2. Named \in Trace /\ Named.info = trace[t].info
  BY <1>1, DefaultIsText DEF Trace, OrNull
<1>3. trace' = [trace EXCEPT ![t] = Named]
  BY DEF RecordCrashes
<1> HIDE DEF Named
<1>4. /\ trace' \in [Traces -> Trace]
      /\ \A u \in Traces : trace'[u].info = trace[u].info
  BY <1>2, <1>3 DEF ZipkinInv, TypeOK
<1>5. /\ crashed' = TRUE
      /\ UNCHANGED <<endp, annot, info, ready, spans, roots, inPlace, rc, log>>
  BY DEF RecordCrashes, historyVars
<1>6. TypeOK'
  BY <1>4, <1>5 DEF ZipkinInv, TypeOK
<1> QED
  BY <1>4, <1>5, <1>6
  DEF ZipkinInv, IdentitiesSettled, Started, EventsComplete

\* _blkin_get_trace_info copies an identity that was started.
LEMMA GetTraceInfoKeeps ==
  ASSUME ZipkinInv, NEW t \in OrNull(Traces), NEW i \in OrNull(Infos),
         GetTraceInfo(t, i)
  PROVE  ZipkinInv'
<1>1. CASE Refuse
  BY <1>1, RefuseKeeps
<1>2. CASE ~Refuse
  <2>1. /\ t \in Traces \cap ready /\ i \in Infos
        /\ info' = [info EXCEPT ![i] = trace[t].info]
        /\ ready' = ready \cup {i}
        /\ rc' \in Int
        /\ UNCHANGED <<endp, trace, annot, spans, roots, inPlace, crashed, log>>
    BY <1>2, ZipkinAssumption DEF GetTraceInfo, OrNull
  <2>2. trace[t].info \in Identity /\ Started(trace[t].info)
    BY <2>1 DEF ZipkinInv, TypeOK, Trace, IdentitiesSettled
  <2>3. TypeOK'
    BY <2>1, <2>2 DEF ZipkinInv, TypeOK
  <2>4. IdentitiesSettled'
    BY <2>1, <2>2, ZipkinAssumption
    DEF ZipkinInv, TypeOK, IdentitiesSettled, Started
  <2>5. EventsComplete'
    BY <2>1 DEF ZipkinInv, EventsComplete
  <2> QED
    BY <2>3, <2>4, <2>5 DEF ZipkinInv
<1> QED
  BY <1>1, <1>2

\* So does _blkin_set_trace_info.
LEMMA SetTraceInfoKeeps ==
  ASSUME ZipkinInv, NEW t \in OrNull(Traces), NEW i \in OrNull(Infos),
         SetTraceInfo(t, i)
  PROVE  ZipkinInv'
<1>1. CASE Refuse
  BY <1>1, RefuseKeeps
<1>2. CASE ~Refuse
  <2> DEFINE Moved == [trace[t] EXCEPT !.info = info[i]]
  <2>1. /\ t \in Traces /\ i \in Infos \cap ready
        /\ trace' = [trace EXCEPT ![t] = Moved]
        /\ ready' = ready \cup {t}
        /\ rc' \in Int
        /\ UNCHANGED <<endp, annot, info, spans, roots, inPlace, crashed, log>>
    BY <1>2, ZipkinAssumption DEF SetTraceInfo, OrNull
  <2>2. info[i] \in Identity /\ Started(info[i])
    BY <2>1 DEF ZipkinInv, TypeOK, IdentitiesSettled
  <2>3. Moved \in Trace /\ Moved.info = info[i]
    BY <2>1, <2>2 DEF ZipkinInv, TypeOK, Trace
  <2> HIDE DEF Moved
  <2>4. /\ trace' \in [Traces -> Trace]
        /\ trace'[t].info = info[i]
        /\ \A u \in Traces \ {t} : trace'[u] = trace[u]
    BY <2>1, <2>3 DEF ZipkinInv, TypeOK
  <2>5. TypeOK'
    BY <2>1, <2>4 DEF ZipkinInv, TypeOK
  <2>6. IdentitiesSettled'
    <3>1. ASSUME NEW u \in ready' \cap Traces PROVE Started(trace[u].info)'
      <4>1. CASE u = t
        BY <4>1, <2>1, <2>2, <2>4 DEF Started
      <4>2. CASE u # t
        BY <4>2, <3>1, <2>1, <2>4 DEF ZipkinInv, IdentitiesSettled, Started
      <4> QED
        BY <4>1, <4>2
    <3>2. ASSUME NEW j \in ready' \cap Infos PROVE Started(info[j])'
      BY <3>2, <2>1, ZipkinAssumption
      DEF ZipkinInv, IdentitiesSettled, Started
    <3> QED
      BY <3>1, <3>2 DEF IdentitiesSettled
  <2>7. EventsComplete'
    BY <2>1 DEF ZipkinInv, EventsComplete
  <2> QED
    BY <2>5, <2>6, <2>7 DEF ZipkinInv
<1> QED
  BY <1>1, <1>2

\* One step per function of the library.
LEMMA ZipkinStep == ASSUME ZipkinInv, [Next]_vars PROVE ZipkinInv'
<1>1. ASSUME NEW e \in OrNull(Endps), NEW ip \in Given, NEW name \in Given,
             InitEndpoint(e, ip, name)
      PROVE  ZipkinInv'
  BY <1>1, EndpointKeeps
<1>2. ASSUME NEW t \in OrNull(Traces), NEW e \in OrNull(Endps), NEW name \in Given,
             InitNewTrace(t, name, e)
      PROVE  ZipkinInv'
  BY <1>2, NewTraceKeeps
<1>3. ASSUME NEW t \in OrNull(Traces), NEW e \in OrNull(Endps), NEW name \in Given,
             NEW p \in OrNull(Infos), InitChildInfo(t, p, e, name)
      PROVE  ZipkinInv'
  BY <1>3, ChildInfoKeeps DEF OrNull
<1>4. ASSUME NEW t \in OrNull(Traces), NEW e \in OrNull(Endps), NEW name \in Given,
             NEW p \in OrNull(Traces), InitChild(t, p, e, name)
      PROVE  ZipkinInv'
  BY <1>4, ChildKeeps
<1>5. ASSUME NEW a \in OrNull(Annots), NEW e \in OrNull(Endps),
             NEW val \in Given, NEW key \in Given,
             \/ InitTimestampAnnotation(a, val, e)
             \/ InitStringAnnotation(a, key, val, e)
      PROVE  ZipkinInv'
  BY <1>5, AnnotationKeeps
<1>6. ASSUME NEW t \in OrNull(Traces), NEW a \in OrNull(Annots),
             RecordRefused(t, a)
      PROVE  ZipkinInv'
  BY <1>6, RecordRefusedKeeps
<1>7. ASSUME NEW t \in Traces, NEW a \in Annots, Record(t, a) \/ RecordCrashes(t, a)
      PROVE  ZipkinInv'
  BY <1>7, RecordKeeps, RecordCrashesKeeps
<1>8. ASSUME NEW t \in OrNull(Traces), NEW i \in OrNull(Infos),
             GetTraceInfo(t, i) \/ SetTraceInfo(t, i)
      PROVE  ZipkinInv'
  BY <1>8, GetTraceInfoKeeps, SetTraceInfoKeeps
<1>9. CASE UNCHANGED vars
  BY <1>9 DEF vars, structVars, historyVars, ZipkinInv, TypeOK,
              IdentitiesSettled, Started, EventsComplete
<1> QED
  BY <1>1, <1>2, <1>3, <1>4, <1>5, <1>6, <1>7, <1>8, <1>9 DEF Next, Call, TraceCall, RecordCall

\* In every reachable state of a process using the library, with any number
\* of structs and any texts and identifiers: the structs have their types, an
\* identity once stored is that of a started span, no event has a NULL text.
THEOREM ZipkinInvariant == Spec => []ZipkinInv
<1>1. Init => ZipkinInv
  BY ZipkinInit
<1>2. ZipkinInv /\ [Next]_vars => ZipkinInv'
  BY ZipkinStep
<1> QED
  BY <1>1, <1>2, PTL DEF Spec

\* Every event handed to LTTng has its texts.
THEOREM EventsAreComplete == Spec => []EventsComplete
<1>1. ZipkinInv => EventsComplete
  BY DEF ZipkinInv
<1> QED
  BY <1>1, ZipkinInvariant, PTL

\* A struct once given an identity holds that of a span that was started.
THEOREM IdentitiesAreSettled == Spec => []IdentitiesSettled
<1>1. ZipkinInv => IdentitiesSettled
  BY DEF ZipkinInv
<1> QED
  BY <1>1, ZipkinInvariant, PTL

-------------------------------------------------------------------------------
\* What FailedCallsOnlyComplete allows a call that failed.
OnlyCompletes ==
  /\ UNCHANGED <<info, ready, spans, roots, log>>
  /\ \A t \in Traces : \/ trace'[t] = trace[t]
                       \/ /\ trace[t].name = Null
                          /\ trace'[t] = [trace[t] EXCEPT !.name = "default"]
  /\ \A e \in Endps : /\ endp'[e].ip \in {endp[e].ip, Default(endp[e].ip)}
                      /\ endp'[e].name \in {endp[e].name, Default(endp[e].name)}
  /\ \A a \in Annots :
        \/ annot'[a] = annot[a]
        \/ /\ annot[a].ep = Null
           /\ annot'[a] = [annot[a] EXCEPT !.ep = annot'[a].ep]

\* Nothing is more harmless than to leave the structs alone.
LEMMA QuietCompletes ==
  ASSUME UNCHANGED <<structVars, historyVars, log>> PROVE OnlyCompletes
  BY DEF OnlyCompletes, structVars, historyVars

\* A name that was not NULL is not overwritten.
LEMMA NameCompleted ==
  ASSUME TypeOK, NEW t \in Traces, trace' = [trace EXCEPT ![t].name = Default(@)]
  PROVE  \A u \in Traces : \/ trace'[u] = trace[u]
                           \/ /\ trace[u].name = Null
                              /\ trace'[u] = [trace[u] EXCEPT !.name = "default"]
<1>1. trace \in [Traces -> Trace]
  BY DEF TypeOK
<1>2. CASE trace[t].name = Null
  BY <1>1, <1>2 DEF Default
<1>3. CASE trace[t].name # Null
  <2>1. trace'[t] = [trace[t] EXCEPT !.name = trace[t].name]
    BY <1>1, <1>3 DEF Default
  <2>2. [trace[t] EXCEPT !.name = trace[t].name] = trace[t]
    BY <1>1 DEF Trace
  <2>3. \A u \in Traces \ {t} : trace'[u] = trace[u]
    BY <1>1
  <2>4. QED
    BY <2>1, <2>2, <2>3
<1>4. QED
  BY <1>2, <1>3

\* A call that refuses to record has completed its structs, no more.
LEMMA RefusedCompletes ==
  ASSUME ZipkinInv, NEW t \in OrNull(Traces), NEW a \in OrNull(Annots), RecordRefused(t, a)
  PROVE  OnlyCompletes
<1>1. CASE Refuse
  BY <1>1, QuietCompletes DEF Refuse
<1>2. CASE ~Refuse
  <2> DEFINE e == EndpointFor(t, a)
  <2>1. /\ t \in Traces /\ a \in Annots /\ e # Null
        /\ Complete(t, a, e)
        /\ UNCHANGED <<info, historyVars, log>>
    BY <1>2 DEF RecordRefused, OrNull
  <2>2. \A u \in Traces : \/ trace'[u] = trace[u]
                          \/ /\ trace[u].name = Null
                             /\ trace'[u] = [trace[u] EXCEPT !.name = "default"]
    BY <2>1, NameCompleted DEF Complete, ZipkinInv
  <2>3. e \in Endps
    BY <2>1, EndpointForIsEndpoint
  <2>4. \A f \in Endps : /\ endp'[f].ip \in {endp[f].ip, Default(endp[f].ip)}
                         /\ endp'[f].name \in {endp[f].name, Default(endp[f].name)}
    BY <2>1, <2>3 DEF Complete, ZipkinInv, TypeOK, Endpoint
  <2>5. annot \in [Annots -> Annotation] /\ annot' = [annot EXCEPT ![a].ep = e]
    BY <2>1 DEF Complete, ZipkinInv, TypeOK
  <2>6. annot[a] \in Annotation /\ annot'[a] = [annot[a] EXCEPT !.ep = e]
    BY <2>1, <2>5
  <2>7. \/ annot'[a] = annot[a]
        \/ annot[a].ep = Null /\ annot'[a] = [annot[a] EXCEPT !.ep = annot'[a].ep]
    <3>1. CASE annot[a].ep = Null
      <4>1. annot'[a].ep = e
        BY <2>6 DEF Annotation
      <4>2. QED
        BY <2>6, <3>1, <4>1
    <3>2. CASE annot[a].ep # Null
      <4>1. e = annot[a].ep
        BY <3>2 DEF EndpointFor
      <4>2. QED
        BY <2>6, <4>1 DEF Annotation
    <3>3. QED
      BY <3>1, <3>2
  <2>8. \A b \in Annots \ {a} : annot'[b] = annot[b]
    BY <2>1, <2>5
  <2> HIDE DEF e
  <2>9. QED
    BY <2>1, <2>2, <2>4, <2>7, <2>8 DEF OnlyCompletes, historyVars
<1>3. QED
  BY <1>1, <1>2

\* A call that returns -EINVAL has at most replaced NULL fields, unless the
\* uninitialised int of a call that succeeded looks like one.
THEOREM FailedCallsDoNoHarm ==
  ASSUME -EINVAL \notin Garbage PROVE Spec => FailedCallsOnlyComplete
<1>1. ASSUME ZipkinInv, [Next]_vars, rc' = -EINVAL, ~UNCHANGED vars
      PROVE  OnlyCompletes
  <2>1. 0 # -EINVAL
    BY DEF EINVAL
  <2>2. CASE Refuse
    BY <2>2, QuietCompletes DEF Refuse
  <2>3. ASSUME NEW t \in OrNull(Traces), NEW a \in OrNull(Annots), RecordRefused(t, a)
        PROVE  OnlyCompletes
    BY <1>1, <2>3, RefusedCompletes
  <2>4. ASSUME NEW t \in Traces, NEW a \in Annots, RecordCrashes(t, a)
        PROVE  OnlyCompletes
    <3>1. /\ UNCHANGED <<endp, annot, info, historyVars, log>>
          /\ trace' = [trace EXCEPT ![t].name = Default(@)]
      BY <2>4 DEF RecordCrashes
    <3>2. QED
      BY <1>1, <3>1, NameCompleted DEF OnlyCompletes, historyVars, ZipkinInv
  <2>5. ASSUME NEW t, NEW name, NEW id, NEW e, Mint(t, name, id, e) PROVE FALSE
    BY <1>1, <2>1, <2>5 DEF Mint
  <2>6. ASSUME NEW t, NEW p, NEW e, NEW name, InitChildInfo(t, p, e, name)
        PROVE  Refuse
    BY <2>5, <2>6 DEF InitChildInfo
  <2>7. ASSUME NEW t, NEW p, NEW e, NEW name, InitChild(t, p, e, name)
        PROVE  Refuse
    BY <2>6, <2>7 DEF InitChild
  <2>8. ASSUME NEW t, NEW e, NEW name, InitNewTrace(t, name, e) PROVE Refuse
    BY <2>5, <2>8 DEF InitNewTrace
  <2>9. ASSUME NEW e, NEW ip, NEW name, InitEndpoint(e, ip, name) PROVE Refuse
    BY <1>1, <2>1, <2>9 DEF InitEndpoint
  <2>10. ASSUME NEW a, NEW e, NEW val, NEW key,
                \/ InitTimestampAnnotation(a, val, e)
                \/ InitStringAnnotation(a, key, val, e)
         PROVE  Refuse
    BY <1>1, <2>1, <2>10 DEF InitTimestampAnnotation, InitStringAnnotation
  <2>11. ASSUME NEW t, NEW a, Record(t, a) PROVE FALSE
    BY <1>1, <2>1, <2>11 DEF Record
  <2>12. ASSUME NEW t, NEW i, GetTraceInfo(t, i) \/ SetTraceInfo(t, i) PROVE Refuse
    BY <1>1, <2>12 DEF GetTraceInfo, SetTraceInfo
  <2>13. QED
    BY <1>1, <2>2, <2>3, <2>4, <2>6, <2>7, <2>8, <2>9, <2>10, <2>11, <2>12 DEF Next, Call, TraceCall, RecordCall
<1>2. ZipkinInv /\ [Next]_vars => [rc' = -EINVAL => OnlyCompletes]_vars
  BY <1>1
<1>3. QED
  BY <1>2, ZipkinInvariant, PTL DEF Spec, FailedCallsOnlyComplete, OnlyCompletes

-------------------------------------------------------------------------------
\* The identities of a log that grew by one event.
LEMMA AppendEvent ==
  ASSUME log \in Seq(Event), NEW ev \in Event, log' = Append(log, ev)
  PROVE  [k \in DOMAIN log' |-> log'[k].info] =
         Append([k \in DOMAIN log |-> log[k].info], ev.info)
<1> DEFINE old == [k \in DOMAIN log |-> log[k].info]
           new == [k \in DOMAIN log' |-> log'[k].info]
<1>1. /\ Len(log) \in Nat
      /\ DOMAIN log = 1 .. Len(log)
      /\ DOMAIN log' = 1 .. Len(log) + 1
      /\ \A k \in DOMAIN log : log'[k] = log[k] /\ log[k] \in Event
      /\ log'[Len(log) + 1] = ev
  OBVIOUS
<1>2. old \in Seq(Identity) /\ Len(old) = Len(log) /\ ev.info \in Identity
  BY <1>1 DEF Event
<1>3. DOMAIN new = DOMAIN Append(old, ev.info)
  BY <1>1, <1>2
<1>4. \A k \in DOMAIN new : new[k] = Append(old, ev.info)[k]
  BY <1>1, <1>2
<1> QED
  BY <1>2, <1>3, <1>4

\* Steps that neither start a span nor emit an event are invisible to Dapper.
LEMMA QuietStep ==
  ASSUME UNCHANGED <<spans, roots, log>> PROVE UNCHANGED D!vars
  BY DEF D!vars

\* A child made in place of its parent is its own parent, in its parent's trace.
InPlaceStep ==
  \E i \in DOMAIN spans, s \in Ids :
     /\ spans' = Append(spans, [trace_id |-> spans[i].trace_id, span_id |-> s,
                                parent_span_id |-> s])
     /\ inPlace' = inPlace \cup {Len(spans) + 1}
     /\ UNCHANGED <<roots, log>>

\* What a call of the library is to Dapper.
TracingStep == \/ UNCHANGED inPlace /\ (D!Next \/ UNCHANGED D!vars)
               \/ InPlaceStep

\* A child started from a struct that holds an identity is a child of a span,
\* or of itself.
LEMMA ChildStep ==
  ASSUME ZipkinInv,
         NEW t \in OrNull(Traces), NEW p \in OrNull(Traces \cup Infos),
         NEW e, NEW name, InitChildInfo(t, p, e, name)
  PROVE  TracingStep
<1>1. CASE Refuse
  BY <1>1, QuietStep DEF Refuse, historyVars, TracingStep
<1>2. ASSUME Null \notin {t, p, e}, p \in ready, NEW sid \in Ids,
             Mint(t, name, ChildIdentity(t, p, sid), e), UNCHANGED roots,
             inPlace' = inPlace \cup {n \in {Len(spans) + 1} : p = t}
      PROVE  TracingStep
  <2>1. PICK i \in DOMAIN spans : spans[i] = InfoAt(p)
    BY <1>2, InfoAtStarted DEF Started, OrNull
  <2>2. CASE p = t
    <3>1. ChildIdentity(t, p, sid) =
             [trace_id |-> spans[i].trace_id, span_id |-> sid, parent_span_id |-> sid]
      BY <2>1, <2>2 DEF ChildIdentity
    <3>2. InPlaceStep
      BY <1>2, <2>2, <3>1 DEF Mint, InPlaceStep
    <3> QED
      BY <3>2 DEF TracingStep
  <2>3. CASE p # t
    <3>1. ChildIdentity(t, p, sid) = D!ChildOf(spans[i], sid)
      BY <2>1, <2>3 DEF ChildIdentity, D!ChildOf
    <3>2. D!StartChild(i, sid)
      BY <1>2, <3>1 DEF Mint, D!StartChild
    <3>3. UNCHANGED inPlace
      BY <1>2, <2>3
    <3> QED
      BY <3>2, <3>3 DEF D!Next, TracingStep
  <2> QED
    BY <2>2, <2>3
<1> QED
  BY <1>1, <1>2 DEF InitChildInfo

\* Every call of the library is a step of Dapper, leaves it unchanged, or makes
\* a child in place of its parent.
LEMMA DapperSimulation ==
  ASSUME ZipkinInv, [Next]_vars PROVE TracingStep
<1>1. ASSUME NEW e, NEW ip, NEW name, InitEndpoint(e, ip, name)
      PROVE  UNCHANGED inPlace /\ UNCHANGED D!vars
  BY <1>1, QuietStep DEF InitEndpoint, Refuse, historyVars
<1>2. ASSUME NEW t \in OrNull(Traces), NEW e, NEW name, InitNewTrace(t, name, e)
      PROVE  UNCHANGED inPlace /\ (D!Next \/ UNCHANGED D!vars)
  <2>1. CASE Refuse
    BY <2>1, QuietStep DEF Refuse, historyVars
  <2>2. ASSUME NEW tid \in Ids, NEW sid \in Ids,
               Mint(t, name, RootIdentity(tid, sid), e),
               roots' = roots \cup {Len(spans) + 1}
        PROVE  D!Next
    <3>1. D!StartTrace(tid, sid)
      BY <2>2 DEF Mint, RootIdentity, D!StartTrace, D!Root
    <3> QED
      BY <3>1 DEF D!Next
  <2> QED
    BY <1>2, <2>1, <2>2 DEF InitNewTrace
<1>3. ASSUME NEW t \in OrNull(Traces), NEW e, NEW name,
             NEW p \in OrNull(Infos), InitChildInfo(t, p, e, name)
      PROVE  TracingStep
  BY <1>3, ChildStep DEF OrNull
<1>4. ASSUME NEW t \in OrNull(Traces), NEW e, NEW name,
             NEW p \in OrNull(Traces), InitChild(t, p, e, name)
      PROVE  TracingStep
  <2>1. CASE Refuse
    BY <2>1, QuietStep DEF Refuse, historyVars, TracingStep
  <2>2. CASE ~Refuse
    <3> DEFINE f == IF e = Null THEN trace[p].ep ELSE e
    <3>1. InitChildInfo(t, p, f, name)
      BY <1>4, <2>2 DEF InitChild
    <3>2. p \in OrNull(Traces \cup Infos)
      BY DEF OrNull
    <3> HIDE DEF f
    <3> QED
      BY <3>1, <3>2, ChildStep
  <2> QED
    BY <2>1, <2>2
<1>5. ASSUME NEW a, NEW e, NEW val, NEW key,
             \/ InitTimestampAnnotation(a, val, e)
             \/ InitStringAnnotation(a, key, val, e)
      PROVE  UNCHANGED inPlace /\ UNCHANGED D!vars
  BY <1>5, QuietStep
  DEF InitTimestampAnnotation, InitStringAnnotation, Refuse, historyVars
<1>6. ASSUME NEW t, NEW a, RecordRefused(t, a) \/ RecordCrashes(t, a)
      PROVE  UNCHANGED inPlace /\ UNCHANGED D!vars
  BY <1>6, QuietStep DEF RecordRefused, RecordCrashes, Refuse, historyVars
<1>7. ASSUME NEW t \in Traces, NEW a \in Annots, Record(t, a)
      PROVE  UNCHANGED inPlace /\ D!Next
  <2> DEFINE ev == EventOf(t, a, EndpointFor(t, a))
  <2>1. /\ t \in ready /\ ~Missing(a) /\ EndpointFor(t, a) # Null
        /\ log' = Append(log, ev)
        /\ UNCHANGED <<spans, roots, inPlace>>
    BY <1>7 DEF Record, historyVars
  <2>2. ev \in Event
    BY <2>1, EndpointForIsEndpoint, EventIsComplete
  <2>3. PICK i \in DOMAIN spans : spans[i] = trace[t].info
    BY <2>1 DEF ZipkinInv, IdentitiesSettled, Started
  <2>4. ev.info = spans[i]
    BY <2>3 DEF EventOf
  <2>5. log \in Seq(Event)
    BY DEF ZipkinInv, TypeOK
  <2> HIDE DEF ev
  <2>6. D!Annotate(i)
    BY <2>1, <2>2, <2>4, <2>5, AppendEvent DEF D!Annotate
  <2> QED
    BY <2>1, <2>6 DEF D!Next
<1>8. ASSUME NEW t, NEW i, GetTraceInfo(t, i) \/ SetTraceInfo(t, i)
      PROVE  UNCHANGED inPlace /\ UNCHANGED D!vars
  BY <1>8, QuietStep DEF GetTraceInfo, SetTraceInfo, Refuse, historyVars
<1>9. ASSUME UNCHANGED vars PROVE UNCHANGED inPlace /\ UNCHANGED D!vars
  BY <1>9, QuietStep DEF vars, historyVars
<1>10. CASE Next
  BY <1>10, <1>1, <1>2, <1>3, <1>4, <1>5, <1>6, <1>7, <1>8
  DEF Next, Call, TraceCall, RecordCall, TracingStep
<1> QED
  BY <1>9, <1>10 DEF TracingStep

\* One process using the library traces as Dapper promises, one call a step,
\* but for the calls that ask for a child in place of its parent.
THEOREM ZipkinImplementsDapper == Spec => ImplementsDapper
<1>1. Init => D!Init
  BY DEF Init, D!Init
<1>2. ZipkinInv /\ [Next]_vars =>
         [UNCHANGED inPlace => UNCHANGED D!vars \/ D!Next]_vars
  <2> SUFFICES ASSUME ZipkinInv, [Next]_vars, UNCHANGED inPlace
               PROVE  UNCHANGED D!vars \/ D!Next
    OBVIOUS
  <2>1. Len(spans) \in Nat /\ inPlace \subseteq 1 .. Len(spans)
    BY DEF ZipkinInv, TypeOK
  <2>2. Len(spans) + 1 \notin inPlace
    BY <2>1
  <2>3. ~InPlaceStep
    BY <2>2 DEF InPlaceStep
  <2> QED
    BY <2>3, DapperSimulation DEF TracingStep
<1> QED
  BY <1>1, <1>2, ZipkinInvariant, PTL DEF Spec, ImplementsDapper

\* A program that never makes a child in place of its parent has Dapper.
COROLLARY OrdinaryUseIsDapper == Spec /\ [](inPlace = {}) => D!Spec
<1> DEFINE Step == UNCHANGED inPlace => UNCHANGED D!vars \/ D!Next
<1>1. [Step]_vars /\ (inPlace = {}) /\ (inPlace = {})' => [D!Next]_D!vars
  <2>1. ASSUME UNCHANGED vars PROVE UNCHANGED D!vars
    BY <2>1, QuietStep DEF vars, historyVars
  <2> QED
    BY <2>1
<1> QED
  BY <1>1, ZipkinImplementsDapper, PTL DEF ImplementsDapper, D!Spec

-------------------------------------------------------------------------------
\* What the spans satisfy whoever is whose parent.
LinksInv == SpansFormForest /\ D!RootsHaveNoParent /\ D!Rooted

\* A new span that is a root, or has a parent in its trace, possibly itself,
\* fits in with the others.
LEMMA LinksGrow ==
  ASSUME ZipkinInv, LinksInv, NEW id, spans' = Append(spans, id),
         inPlace \subseteq inPlace',
         \/ roots' = roots \cup {Len(spans) + 1} /\ id.parent_span_id = Zero
         \/ /\ roots' = roots
            /\ \E i \in DOMAIN spans :
                  /\ spans[i].trace_id = id.trace_id
                  /\ \/ spans[i].span_id = id.parent_span_id
                     \/ id.span_id = id.parent_span_id /\ Len(spans) + 1 \in inPlace'
  PROVE  LinksInv'
<1>0. PICK n : n = Len(spans) + 1
  OBVIOUS
<1>1. /\ n \in Nat /\ DOMAIN spans = 1 .. n - 1
      /\ DOMAIN spans' = 1 .. n
      /\ \A j \in 1 .. n - 1 : spans'[j] = spans[j]
      /\ spans'[n] = id
      /\ roots \subseteq 1 .. n - 1
  BY <1>0 DEF ZipkinInv, TypeOK
<1>2. SpansFormForest'
  <2>1. ASSUME NEW j \in 1 .. n - 1
        PROVE  \/ j \in roots' /\ spans'[j].parent_span_id = Zero
               \/ \E i \in 1 .. j - 1 : D!IsParent(i, j)'
               \/ j \in inPlace' /\ D!IsParent(j, j)'
    <3>1. \/ j \in roots /\ spans[j].parent_span_id = Zero
          \/ \E i \in 1 .. j - 1 : D!IsParent(i, j)
          \/ j \in inPlace /\ D!IsParent(j, j)
      BY <1>1 DEF LinksInv, SpansFormForest
    <3>2. \A i \in 1 .. j : D!IsParent(i, j) => D!IsParent(i, j)'
      BY <1>1 DEF D!IsParent
    <3> QED
      BY <1>1, <3>1, <3>2
  <2>2. \/ n \in roots' /\ spans'[n].parent_span_id = Zero
        \/ \E i \in 1 .. n - 1 : D!IsParent(i, n)'
        \/ n \in inPlace' /\ D!IsParent(n, n)'
    <3>1. CASE n \in roots' /\ id.parent_span_id = Zero
      BY <1>1, <3>1
    <3>2. ASSUME NEW i \in 1 .. n - 1, spans[i].trace_id = id.trace_id,
                 spans[i].span_id = id.parent_span_id
          PROVE  D!IsParent(i, n)'
      BY <1>1, <3>2 DEF D!IsParent
    <3>3. CASE n \in inPlace' /\ id.span_id = id.parent_span_id
      BY <1>1, <3>3 DEF D!IsParent
    <3> QED
      BY <1>0, <1>1, <3>1, <3>2, <3>3
  <2>3. \A j \in 1 .. n : j \in 1 .. n - 1 \/ j = n
    BY <1>1
  <2> QED
    BY <1>1, <2>1, <2>2, <2>3 DEF SpansFormForest, D!IsParent
<1>3. D!RootsHaveNoParent'
  BY <1>0, <1>1 DEF LinksInv, D!RootsHaveNoParent
<1>4. D!Rooted'
  <2>1. ASSUME NEW j \in 1 .. n - 1
        PROVE  \E i \in roots' : i <= j /\ spans'[i].trace_id = spans'[j].trace_id
    <3>1. PICK i \in roots : i <= j /\ spans[i].trace_id = spans[j].trace_id
      BY <1>1 DEF LinksInv, D!Rooted
    <3> QED
      BY <1>1, <3>1
  <2>2. \E i \in roots' : i <= n /\ spans'[i].trace_id = spans'[n].trace_id
    <3>1. CASE n \in roots'
      BY <1>1, <3>1
    <3>2. CASE n \notin roots'
      <4>1. PICK k \in 1 .. n - 1 : spans[k].trace_id = id.trace_id /\ roots' = roots
        BY <1>0, <1>1, <3>2
      <4>2. PICK i \in roots' : i <= k /\ spans'[i].trace_id = spans'[k].trace_id
        BY <2>1
      <4> QED
        BY <1>1, <4>1, <4>2
    <3> QED
      BY <3>1, <3>2
  <2>3. \A j \in 1 .. n : j \in 1 .. n - 1 \/ j = n
    BY <1>1
  <2> QED
    BY <1>1, <2>1, <2>2, <2>3 DEF D!Rooted
<1> QED
  BY <1>2, <1>3, <1>4 DEF LinksInv

\* Every call keeps the links in order.
LEMMA LinksStep == ASSUME ZipkinInv, LinksInv, TracingStep PROVE LinksInv'
<1>1. ASSUME UNCHANGED <<spans, roots, inPlace>> PROVE LinksInv'
  BY <1>1 DEF LinksInv, SpansFormForest, D!RootsHaveNoParent, D!Rooted, D!IsParent
<1>2. CASE UNCHANGED inPlace /\ UNCHANGED D!vars
  BY <1>1, <1>2 DEF D!vars
<1>3. ASSUME UNCHANGED inPlace, NEW t \in Ids, NEW s \in Ids, D!StartTrace(t, s)
      PROVE  LinksInv'
  BY <1>3, LinksGrow DEF D!StartTrace, D!Root
<1>4. ASSUME UNCHANGED inPlace, NEW i \in DOMAIN spans, NEW s \in Ids,
             D!StartChild(i, s)
      PROVE  LinksInv'
  BY <1>4, LinksGrow DEF D!StartChild, D!ChildOf
<1>5. ASSUME UNCHANGED inPlace, NEW i \in DOMAIN spans, D!Annotate(i)
      PROVE  LinksInv'
  BY <1>1, <1>5 DEF D!Annotate
<1>6. CASE InPlaceStep
  <2>1. PICK i \in DOMAIN spans, s \in Ids :
           /\ spans' = Append(spans, [trace_id |-> spans[i].trace_id, span_id |-> s,
                                      parent_span_id |-> s])
           /\ inPlace' = inPlace \cup {Len(spans) + 1}
           /\ UNCHANGED roots
    BY <1>6 DEF InPlaceStep
  <2> QED
    BY <2>1, LinksGrow
<1> QED
  BY <1>2, <1>3, <1>4, <1>5, <1>6 DEF TracingStep, D!Next

\* As long as no identifier is drawn twice or is 0, a span that is not a root
\* has a parent identifier, be it its own.
LEMMA LuckyRoot == ZipkinInv /\ LinksInv => OneRootPerTrace
<1> SUFFICES ASSUME ZipkinInv, LinksInv, D!Lucky, NEW j \in DOMAIN spans
             PROVE  \E i \in 1 .. j :
                       /\ spans[i].trace_id = spans[j].trace_id
                       /\ spans[i].parent_span_id = Zero
                       /\ \A k \in DOMAIN spans :
                             /\ spans[k].trace_id = spans[j].trace_id
                             /\ spans[k].parent_span_id = Zero
                             => k = i
  BY DEF OneRootPerTrace, D!OneRootPerTrace
<1>1. /\ Len(spans) \in Nat /\ DOMAIN spans = 1 .. Len(spans)
      /\ roots \subseteq DOMAIN spans
  BY DEF ZipkinInv, TypeOK
<1>2. PICK i \in roots : i <= j /\ spans[i].trace_id = spans[j].trace_id
  BY DEF LinksInv, D!Rooted
<1>3. i \in 1 .. j /\ spans[i].parent_span_id = Zero
  BY <1>1, <1>2 DEF LinksInv, D!RootsHaveNoParent
<1>4. ASSUME NEW k \in DOMAIN spans,
             spans[k].trace_id = spans[j].trace_id,
             spans[k].parent_span_id = Zero
      PROVE  k = i
  <2>1. ASSUME NEW p \in DOMAIN spans, D!IsParent(p, k) PROVE FALSE
    BY <1>4, <2>1 DEF D!IsParent, D!Lucky
  <2>2. \A p \in 1 .. k - 1 : p \in DOMAIN spans
    BY <1>1
  <2>3. k \in roots
    BY <2>1, <2>2 DEF LinksInv, SpansFormForest
  <2> QED
    BY <1>2, <1>4, <2>3 DEF D!Lucky
<1> QED
  BY <1>2, <1>3, <1>4

\* The links hold for any number of structs, spans and calls.
LEMMA LinksInvariant == Spec => [](ZipkinInv /\ LinksInv)
<1>1. Init => LinksInv
  BY DEF Init, LinksInv, SpansFormForest, D!RootsHaveNoParent, D!Rooted
<1>2. ZipkinInv /\ LinksInv /\ [Next]_vars => LinksInv'
  BY DapperSimulation, LinksStep
<1> QED
  BY <1>1, <1>2, ZipkinInvariant, PTL DEF Spec

\* Each trace has one span without parent, unless the generator of identifiers
\* returned 0 or repeated itself, whatever children were made in place.
THEOREM ZipkinTrees == Spec => []OneRootPerTrace
  BY LinksInvariant, LuckyRoot, PTL

\* Parent links have no cycle but that of a child made in place, though a
\* struct is reused for one span after the other.
THEOREM ZipkinForest == Spec => []SpansFormForest
<1>1. LinksInv => SpansFormForest
  BY DEF LinksInv
<1> QED
  BY <1>1, LinksInvariant, PTL

-------------------------------------------------------------------------------
\* The calls after which a trace that may be recorded has no endpoint: a new
\* trace without one, and an identity put into a struct that never had one.
Careless ==
  \/ \E t \in Traces, name \in Given : InitNewTrace(t, name, Null)
  \/ \E t \in Traces, i \in Infos : trace[t].ep = Null /\ SetTraceInfo(t, i)

\* How a call can treat trace t.
LeavesAlone(t) == trace'[t] = trace[t] /\ (t \in ready' => t \in ready)
Names(t) == /\ trace'[t].ep = trace[t].ep
            /\ UNCHANGED <<ready, spans>>
Identifies(t) == /\ trace'[t].ep = trace[t].ep
                 /\ UNCHANGED spans
                 /\ \E i \in Infos : SetTraceInfo(t, i)
Provides(t) == trace'[t].ep # Null
Bares(t) == /\ \E name \in Given : InitNewTrace(t, name, Null)
            /\ roots' # roots

Treats(t) == \/ LeavesAlone(t) \/ Names(t) \/ Identifies(t)
             \/ Provides(t) \/ Bares(t)

\* Steps that touch no trace.
LEMMA TracesAlone ==
  ASSUME UNCHANGED <<trace, spans>>, ready' \subseteq ready \cup Infos
  PROVE  \A t \in Traces : Treats(t)
  BY ZipkinAssumption DEF Treats, LeavesAlone

\* A new identity is stored in one trace, with the endpoint given.
LEMMA MintTreats ==
  ASSUME ZipkinInv, NEW u \in Traces, NEW name, NEW id, NEW e, Mint(u, name, id, e)
  PROVE  /\ trace'[u].ep = e
         /\ \A t \in Traces \ {u} : LeavesAlone(t)
  BY DEF Mint, LeavesAlone, ZipkinInv, TypeOK

\* A child has an endpoint when the call succeeds.
LEMMA ChildTreats ==
  ASSUME ZipkinInv, NEW u \in OrNull(Traces), NEW p, NEW e, NEW name,
         InitChildInfo(u, p, e, name)
  PROVE  \A t \in Traces : Treats(t)
<1>1. CASE Refuse
  BY <1>1, TracesAlone DEF Refuse, structVars, historyVars
<1>2. CASE ~Refuse
  <2>1. u \in Traces /\ e # Null
    BY <1>2 DEF InitChildInfo, OrNull
  <2>2. PICK sid \in Ids : Mint(u, name, ChildIdentity(u, p, sid), e)
    BY <1>2 DEF InitChildInfo
  <2> QED
    BY <2>1, <2>2, MintTreats DEF Treats, Provides
<1> QED
  BY <1>1, <1>2

\* The defaults blkin_record fills in change the name of a trace, no more.
LEMMA NamingTreats ==
  ASSUME ZipkinInv, NEW u \in Traces, trace' = [trace EXCEPT ![u].name = Default(@)],
         UNCHANGED historyVars
  PROVE  \A t \in Traces : Treats(t)
<1>1. trace \in [Traces -> Trace]
  BY DEF ZipkinInv, TypeOK
<1>2. trace[u] \in Trace /\ trace'[u] = [trace[u] EXCEPT !.name = Default(trace[u].name)]
  BY <1>1
<1>3. trace'[u].ep = trace[u].ep
  BY <1>2 DEF Trace
<1>4. \A t \in Traces \ {u} : trace'[t] = trace[t]
  BY <1>1
<1> QED
  BY <1>3, <1>4 DEF historyVars, Treats, LeavesAlone, Names

\* What every call does to the endpoint of every trace.
LEMMA EndpointStep ==
  ASSUME ZipkinInv, [Next]_vars PROVE \A t \in Traces : Treats(t)
<1>1. ASSUME NEW e, NEW ip, NEW name, InitEndpoint(e, ip, name)
      PROVE  \A t \in Traces : Treats(t)
  BY <1>1, TracesAlone DEF InitEndpoint, Refuse, structVars, historyVars
<1>2. ASSUME NEW u \in OrNull(Traces), NEW e, NEW name \in Given,
             InitNewTrace(u, name, e)
      PROVE  \A t \in Traces : Treats(t)
  <2>1. CASE Refuse
    BY <2>1, TracesAlone DEF Refuse, structVars, historyVars
  <2>2. CASE ~Refuse
    <3>1. u \in Traces /\ roots' = roots \cup {Len(spans) + 1}
      BY <1>2, <2>2 DEF InitNewTrace, OrNull
    <3>2. PICK id : Mint(u, name, id, e)
      BY <1>2, <2>2 DEF InitNewTrace
    <3>3. roots' # roots
      <4>1. Len(spans) \in Nat /\ roots \subseteq 1 .. Len(spans)
        BY DEF ZipkinInv, TypeOK
      <4>2. Len(spans) + 1 \notin roots
        BY <4>1
      <4> QED
        BY <3>1, <4>2
    <3>4. Treats(u)
      BY <1>2, <3>1, <3>2, <3>3, MintTreats DEF Treats, Provides, Bares
    <3> QED
      BY <3>1, <3>2, <3>4, MintTreats DEF Treats
  <2> QED
    BY <2>1, <2>2
<1>3. ASSUME NEW u \in OrNull(Traces), NEW e, NEW name, NEW p,
             InitChildInfo(u, p, e, name) \/ InitChild(u, p, e, name)
      PROVE  \A t \in Traces : Treats(t)
  <2>1. CASE Refuse
    BY <2>1, TracesAlone DEF Refuse, structVars, historyVars
  <2>2. ASSUME ~Refuse, InitChild(u, p, e, name) PROVE \A t \in Traces : Treats(t)
    BY <2>2, ChildTreats DEF InitChild
  <2> QED
    BY <1>3, <2>1, <2>2, ChildTreats
<1>4. ASSUME NEW a, NEW e, NEW val, NEW key,
             \/ InitTimestampAnnotation(a, val, e)
             \/ InitStringAnnotation(a, key, val, e)
      PROVE  \A t \in Traces : Treats(t)
  BY <1>4, TracesAlone DEF InitTimestampAnnotation, InitStringAnnotation, Refuse,
     structVars, historyVars
<1>5. ASSUME NEW u \in OrNull(Traces), NEW a, RecordRefused(u, a)
      PROVE  \A t \in Traces : Treats(t)
  <2>1. CASE Refuse
    BY <2>1, TracesAlone DEF Refuse, structVars, historyVars
  <2>2. CASE ~Refuse
    BY <1>5, <2>2, NamingTreats DEF RecordRefused, Complete, OrNull
  <2> QED
    BY <2>1, <2>2
<1>6. ASSUME NEW u \in Traces, NEW a, Record(u, a) \/ RecordCrashes(u, a)
      PROVE  \A t \in Traces : Treats(t)
  BY <1>6, NamingTreats DEF Record, RecordCrashes, Complete
<1>7. ASSUME NEW u, NEW i \in OrNull(Infos), GetTraceInfo(u, i)
      PROVE  \A t \in Traces : Treats(t)
  BY <1>7, TracesAlone DEF GetTraceInfo, Refuse, structVars, historyVars, OrNull
<1>8. ASSUME NEW u \in OrNull(Traces), NEW i \in OrNull(Infos), SetTraceInfo(u, i)
      PROVE  \A t \in Traces : Treats(t)
  <2>1. CASE Refuse
    BY <2>1, TracesAlone DEF Refuse, structVars, historyVars
  <2>2. CASE ~Refuse
    <3>1. /\ u \in Traces /\ i \in Infos
          /\ trace' = [trace EXCEPT ![u].info = info[i]]
          /\ ready' = ready \cup {u}
          /\ UNCHANGED spans
      BY <1>8, <2>2 DEF SetTraceInfo, OrNull
    <3>2. trace \in [Traces -> Trace]
      BY DEF ZipkinInv, TypeOK
    <3>3. trace'[u] = [trace[u] EXCEPT !.info = info[i]] /\ trace[u] \in Trace
      BY <3>1, <3>2
    <3>4. trace'[u].ep = trace[u].ep
      BY <3>3 DEF Trace
    <3>5. \A t \in Traces \ {u} : LeavesAlone(t)
      BY <3>1, <3>2 DEF LeavesAlone
    <3>6. Identifies(u)
      BY <1>8, <3>1, <3>4 DEF Identifies
    <3> QED
      BY <3>5, <3>6 DEF Treats
  <2> QED
    BY <2>1, <2>2
<1>9. CASE UNCHANGED vars
  BY <1>9, TracesAlone DEF vars, structVars, historyVars
<1> QED
  BY <1>1, <1>2, <1>3, <1>4, <1>5, <1>6, <1>7, <1>8, <1>9 DEF Next, Call, TraceCall, RecordCall

\* A trace loses its endpoint only to a new trace without one.
THEOREM EndpointsStay == Spec => OnlyNewTracesAreBare
<1>1. ASSUME ZipkinInv, [Next]_vars, NEW t \in Traces,
             trace'[t] # trace[t], trace'[t].ep = Null
      PROVE  roots' # roots \/ (trace[t].ep = Null /\ UNCHANGED spans)
  BY <1>1, EndpointStep DEF Treats, LeavesAlone, Names, Identifies, Provides, Bares
<1>2. ZipkinInv /\ [Next]_vars =>
         [\A t \in Traces :
             trace'[t] # trace[t] /\ trace'[t].ep = Null =>
                \/ roots' # roots
                \/ trace[t].ep = Null /\ UNCHANGED spans]_vars
  BY <1>1
<1> QED
  BY <1>2, ZipkinInvariant, PTL DEF Spec, OnlyNewTracesAreBare

\* Every trace that may be recorded has an endpoint.
EndpointsKnown == \A t \in ready \cap Traces : trace[t].ep # Null

\* blkin_record never follows a NULL endpoint in a program that gives every new
\* trace one and puts identities only into traces that have one, whatever NULLs
\* it passes for the endpoints of children and annotations.
THEOREM CarefulProgramsSurvive == Spec /\ [][~Careless]_vars => []~crashed
<1>1. Init => EndpointsKnown /\ ~crashed
  BY DEF Init, EndpointsKnown
<1>2. ASSUME ZipkinInv, EndpointsKnown, ~crashed, [Next]_vars, [~Careless]_vars
      PROVE  EndpointsKnown' /\ ~crashed'
  <2>1. ASSUME NEW t \in ready' \cap Traces PROVE trace'[t].ep # Null
    <3>1. CASE LeavesAlone(t) \/ Names(t)
      BY <1>2, <2>1, <3>1 DEF EndpointsKnown, LeavesAlone, Names
    <3>2. CASE Identifies(t)
      <4>1. UNCHANGED vars => t \in ready
        BY <2>1 DEF vars, historyVars
      <4>2. CASE UNCHANGED vars
        BY <1>2, <2>1, <3>2, <4>1, <4>2 DEF EndpointsKnown, Identifies
      <4>3. CASE ~Careless
        BY <2>1, <3>2, <4>3 DEF Identifies, Careless
      <4> QED
        BY <1>2, <4>2, <4>3
    <3>3. CASE Bares(t)
      <4>1. ~UNCHANGED vars
        BY <3>3 DEF Bares, vars, historyVars
      <4> QED
        BY <1>2, <2>1, <3>3, <4>1 DEF Bares, Careless
    <3> QED
      BY <1>2, <2>1, <3>1, <3>2, <3>3, EndpointStep DEF Treats, Provides
  <2>2. ~crashed'
    <3>1. \A t \in Traces, a \in Annots : ~RecordCrashes(t, a)
      BY <1>2 DEF RecordCrashes, EndpointFor, EndpointsKnown
    <3>2. \A t, p, e, name : InitChildInfo(t, p, e, name) => UNCHANGED crashed
      BY DEF InitChildInfo, Mint, Refuse
    <3>3. \A t, p, e, name : InitChild(t, p, e, name) => UNCHANGED crashed
      BY <3>2 DEF InitChild, Refuse
    <3>4. \A t, e, name : InitNewTrace(t, name, e) => UNCHANGED crashed
      BY DEF InitNewTrace, Mint, Refuse
    <3>5. \A e, ip, name : InitEndpoint(e, ip, name) => UNCHANGED crashed
      BY DEF InitEndpoint, Refuse
    <3>6. \A a, key, val, e : \/ InitTimestampAnnotation(a, val, e)
                              \/ InitStringAnnotation(a, key, val, e)
                              => UNCHANGED crashed
      BY DEF InitTimestampAnnotation, InitStringAnnotation, Refuse
    <3>7. \A t, a : RecordRefused(t, a) \/ Record(t, a) => UNCHANGED crashed
      BY DEF RecordRefused, Record, Refuse
    <3>8. \A t, i : GetTraceInfo(t, i) \/ SetTraceInfo(t, i) => UNCHANGED crashed
      BY DEF GetTraceInfo, SetTraceInfo, Refuse
    <3>9. Next => UNCHANGED crashed
      BY <3>1, <3>2, <3>3, <3>4, <3>5, <3>6, <3>7, <3>8 DEF Next, Call, TraceCall, RecordCall
    <3> QED
      BY <1>2, <3>9 DEF vars
  <2> QED
    BY <2>1, <2>2 DEF EndpointsKnown
<1> QED
  BY <1>1, <1>2, ZipkinInvariant, PTL DEF Spec
==============================================================================
