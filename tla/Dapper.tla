-------------------------------- MODULE Dapper --------------------------------
(***************************************************************************)
(* What tracing promises, after the paper the README refers to: a trace is *)
(* a tree of spans, started one at a time, every span but the first a      *)
(* child of an earlier one, and annotations belong to spans that were      *)
(* started.  Identifiers are drawn at random, so two spans may be given    *)
(* the same one and a span may be given the identifier Zero that stands    *)
(* for "no parent".                                                        *)
(***************************************************************************)
EXTENDS Naturals, Sequences

CONSTANTS Ids,   \* what the generator of identifiers may return
          Zero   \* the parent identifier of a span without parent

VARIABLES spans,   \* the identities of the spans, in the order they started
          roots,   \* the positions in spans of those started as a new trace
          events   \* the identity of the span of each annotation, in order

vars == <<spans, roots, events>>

Identity == [trace_id : Ids, span_id : Ids, parent_span_id : Ids]

Root(t, s) == [trace_id |-> t, span_id |-> s, parent_span_id |-> Zero]

ChildOf(parent, s) ==
  [trace_id |-> parent.trace_id, span_id |-> s,
   parent_span_id |-> parent.span_id]

Init == spans = << >> /\ roots = {} /\ events = << >>

StartTrace(t, s) == /\ spans' = Append(spans, Root(t, s))
                    /\ roots' = roots \cup {Len(spans) + 1}
                    /\ UNCHANGED events

StartChild(i, s) == /\ spans' = Append(spans, ChildOf(spans[i], s))
                    /\ UNCHANGED <<roots, events>>

Annotate(i) == /\ events' = Append(events, spans[i])
               /\ UNCHANGED <<spans, roots>>

Next == \/ \E t, s \in Ids : StartTrace(t, s)
        \/ \E i \in DOMAIN spans :
              Annotate(i) \/ \E s \in Ids : StartChild(i, s)

Spec == Init /\ [][Next]_vars

-------------------------------------------------------------------------------
IsParent(i, j) == /\ spans[i].trace_id = spans[j].trace_id
                  /\ spans[i].span_id = spans[j].parent_span_id

\* Every span is a root or the child of a span of its trace that started
\* before it: the parent links have no cycle and lead to a root.
Forest == \A j \in DOMAIN spans :
             \/ j \in roots /\ spans[j].parent_span_id = Zero
             \/ \E i \in 1 .. j - 1 : IsParent(i, j)

\* No annotation names a span that was never started.
EventsOfSpans == \A e \in DOMAIN events :
                    \E i \in DOMAIN spans : spans[i] = events[e]

\* The draws went well: no span identifier is Zero or was drawn twice, and no
\* trace identifier was.
Lucky == /\ \A i \in DOMAIN spans : spans[i].span_id # Zero
         /\ \A i, j \in DOMAIN spans :
               spans[i].span_id = spans[j].span_id => i = j
         /\ \A i, j \in roots : spans[i].trace_id = spans[j].trace_id => i = j

\* Unless the draws went wrong, a trace shows exactly one span without parent,
\* the one it was started with, and no two spans of it are confused.
OneRootPerTrace ==
  Lucky => \A j \in DOMAIN spans :
              \E i \in 1 .. j :
                 /\ spans[i].trace_id = spans[j].trace_id
                 /\ spans[i].parent_span_id = Zero
                 /\ \A k \in DOMAIN spans :
                       /\ spans[k].trace_id = spans[j].trace_id
                       /\ spans[k].parent_span_id = Zero
                       => k = i

-------------------------------------------------------------------------------
\* The inductive invariant behind Forest and OneRootPerTrace.

TypeOK == /\ spans \in Seq(Identity)
          /\ roots \subseteq DOMAIN spans
          /\ events \in Seq(Identity)

RootsHaveNoParent == \A i \in roots : spans[i].parent_span_id = Zero

\* Every span is in the trace of some root started before it.
Rooted == \A j \in DOMAIN spans :
             \E i \in roots : i <= j /\ spans[i].trace_id = spans[j].trace_id

DapperInv == TypeOK /\ Forest /\ EventsOfSpans /\ RootsHaveNoParent /\ Rooted
===============================================================================
