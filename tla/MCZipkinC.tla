------------------------------ MODULE MCZipkinC ------------------------------
\* The instance of ZipkinC that TLC explores: every program that uses the
\* library in one of two ways.  One hands identities on, between two traces and
\* a trace info, in up to three spans of one endpoint; the other one annotates a
\* single span, with two endpoints and any NULLs among the texts.  A step of
\* either is a step of ZipkinC's Next.
EXTENDS ZipkinC, FiniteSets, TLC

CONSTANTS x, y

Unused(a) == annot[a] = [type |-> "string", key |-> Null, val |-> Null, ep |-> Null]

\* No annotation and no endpoint has been filled in.
HandsOn(e) ==
  /\ log = << >>
  /\ \A a \in Annots : Unused(a)
  /\ \A d \in Endps : endp[d] = [ip |-> Null, name |-> Null]
  /\ \A t \in Traces : \/ trace[t].ep = Null
                       \/ trace[t].ep = e /\ trace[t].name = "given"
  /\ TraceCall({e}, {"given"})

\* Any trace and any calls before its span; then no call hands it on.
AnnotatesOneSpan ==
  \/ spans = << >> /\ TraceCall(Endps, Given)
  \/ /\ Len(spans) <= 1
     /\ Cardinality(ready) <= 1
     /\ RecordCall

MCNext == ~crashed /\ ((\E e \in Endps : HandsOn(e)) \/ AnnotatesOneSpan)

MCSpec == Init /\ [][MCNext]_vars

\* Identifiers other than Zero are interchangeable, and so are the
\* traces and the endpoints.
Symmetric == Permutations({x, y}) \cup Permutations(Traces) \cup Permutations(Endps)
==============================================================================
