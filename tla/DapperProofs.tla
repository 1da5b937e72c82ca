----------------------------- MODULE DapperProofs -----------------------------
(***************************************************************************)
(* The consequences of Dapper's rules, whatever identifiers are drawn.     *)
(***************************************************************************)
EXTENDS Dapper, TLAPS

\* Appending a span changes none of those before it.
LEMMA AppendSpan ==
  ASSUME NEW S, NEW q \in Seq(S), NEW x \in S
  PROVE  LET r == Append(q, x) IN
         /\ r \in Seq(S)
         /\ Len(r) = Len(q) + 1
         /\ DOMAIN r = DOMAIN q \cup {Len(q) + 1}
         /\ \A i \in DOMAIN q : i <= Len(q) /\ r[i] = q[i]
         /\ r[Len(q) + 1] = x
  OBVIOUS

\* Nothing has started to begin with.
LEMMA DapperInit == Zero \in Ids /\ Init => DapperInv
  BY DEF Init, DapperInv, TypeOK, Forest, EventsOfSpans, RootsHaveNoParent,
         Rooted

\* A new root, a child of any started span and an annotation of one keep the
\* invariant.
LEMMA DapperStep ==
  ASSUME Zero \in Ids, DapperInv, [Next]_vars PROVE DapperInv'
<1> DEFINE n == Len(spans) + 1
<1>t. TypeOK /\ n \in Nat /\ DOMAIN spans = 1 .. n - 1
  BY DEF DapperInv, TypeOK
<1>g. ASSUME NEW id \in Identity, spans' = Append(spans, id)
      PROVE  /\ spans' \in Seq(Identity)
             /\ DOMAIN spans' = 1 .. n
             /\ \A i \in DOMAIN spans : spans'[i] = spans[i]
             /\ spans'[n] = id
  BY <1>g, <1>t, AppendSpan DEF TypeOK
<1>1. ASSUME NEW t \in Ids, NEW s \in Ids, StartTrace(t, s)
      PROVE  DapperInv'
  <2>1. Root(t, s) \in Identity
    BY DEF Root, Identity
  <2>2. /\ spans' \in Seq(Identity)
        /\ DOMAIN spans' = 1 .. n
        /\ \A i \in DOMAIN spans : spans'[i] = spans[i]
        /\ spans'[n] = Root(t, s)
        /\ roots' = roots \cup {n}
        /\ events' = events
    BY <1>1, <1>g, <2>1 DEF StartTrace
  <2>3. TypeOK'
    BY <2>2, <1>t DEF TypeOK
  <2>4. spans'[n].parent_span_id = Zero
    BY <2>2 DEF Root
  <2>5. Forest'
    BY <2>2, <2>4, <1>t DEF DapperInv, Forest, IsParent
  <2>6. EventsOfSpans'
    BY <2>2, <1>t DEF DapperInv, EventsOfSpans
  <2>7. RootsHaveNoParent'
    BY <2>2, <2>4, <1>t DEF DapperInv, TypeOK, RootsHaveNoParent
  <2>8. Rooted'
    <3>1. \A j \in DOMAIN spans : \E i \in roots :
             i <= j /\ spans'[i].trace_id = spans'[j].trace_id
      BY <2>2, <1>t DEF DapperInv, TypeOK, Rooted
    <3> QED
      BY <2>2, <3>1, <1>t DEF Rooted
  <2> QED
    BY <2>3, <2>5, <2>6, <2>7, <2>8 DEF DapperInv
<1>2. ASSUME NEW p \in DOMAIN spans, NEW s \in Ids, StartChild(p, s)
      PROVE  DapperInv'
  <2>0. spans[p] \in Identity
    BY <1>t DEF TypeOK
  <2>1. ChildOf(spans[p], s) \in Identity
    BY <2>0 DEF ChildOf, Identity
  <2>2. /\ spans' \in Seq(Identity)
        /\ DOMAIN spans' = 1 .. n
        /\ \A i \in DOMAIN spans : spans'[i] = spans[i]
        /\ spans'[n] = ChildOf(spans[p], s)
        /\ roots' = roots
        /\ events' = events
    BY <1>2, <1>g, <2>1 DEF StartChild
  <2>3. TypeOK'
    BY <2>2, <1>t DEF TypeOK
  <2>4. /\ spans'[n].trace_id = spans[p].trace_id
        /\ spans'[n].parent_span_id = spans[p].span_id
    BY <2>2 DEF ChildOf
  <2>5. Forest'
    BY <2>2, <2>4, <1>t DEF DapperInv, Forest, IsParent
  <2>6. EventsOfSpans'
    BY <2>2, <1>t DEF DapperInv, EventsOfSpans
  <2>7. RootsHaveNoParent'
    BY <2>2, <1>t DEF DapperInv, TypeOK, RootsHaveNoParent
  <2>8. Rooted'
    <3>1. \A j \in DOMAIN spans : \E i \in roots :
             i <= j /\ spans'[i].trace_id = spans'[j].trace_id
      BY <2>2, <1>t DEF DapperInv, TypeOK, Rooted
    <3>2. PICK i \in roots : i <= p /\ spans[i].trace_id = spans[p].trace_id
      BY DEF DapperInv, Rooted
    <3>3. i <= n /\ spans'[i].trace_id = spans'[n].trace_id
      BY <2>2, <2>4, <3>2, <1>t DEF TypeOK
    <3> QED
      BY <2>2, <3>1, <3>3, <1>t DEF Rooted
  <2> QED
    BY <2>3, <2>5, <2>6, <2>7, <2>8 DEF DapperInv
<1>3. ASSUME NEW i \in DOMAIN spans, Annotate(i) PROVE DapperInv'
  <2>1. spans[i] \in Identity
    BY <1>t DEF TypeOK
  <2>2. /\ events' \in Seq(Identity)
        /\ DOMAIN events' = DOMAIN events \cup {Len(events) + 1}
        /\ \A e \in DOMAIN events : events'[e] = events[e]
        /\ events'[Len(events) + 1] = spans[i]
        /\ UNCHANGED <<spans, roots>>
    BY <1>3, <1>t, <2>1, AppendSpan DEF Annotate, TypeOK
  <2>3. TypeOK' /\ EventsOfSpans'
    BY <2>2, <1>t DEF DapperInv, TypeOK, EventsOfSpans
  <2> QED
    BY <2>2, <2>3
    DEF DapperInv, Forest, IsParent, RootsHaveNoParent, Rooted
<1>4. CASE UNCHANGED vars
  BY <1>4 DEF vars, DapperInv, TypeOK, Forest, IsParent, EventsOfSpans,
              RootsHaveNoParent, Rooted
<1> QED
  BY <1>1, <1>2, <1>3, <1>4 DEF Next

\* As long as no identifier is drawn twice or is Zero, the only parentless
\* span of a trace is the root it started with.
LEMMA LuckyHasOneRoot == DapperInv => OneRootPerTrace
<1> SUFFICES ASSUME DapperInv, Lucky, NEW j \in DOMAIN spans
             PROVE  \E i \in 1 .. j :
                       /\ spans[i].trace_id = spans[j].trace_id
                       /\ spans[i].parent_span_id = Zero
                       /\ \A k \in DOMAIN spans :
                             /\ spans[k].trace_id = spans[j].trace_id
                             /\ spans[k].parent_span_id = Zero
                             => k = i
  BY DEF OneRootPerTrace
<1>t. DOMAIN spans = 1 .. Len(spans) /\ Len(spans) \in Nat
  BY DEF DapperInv, TypeOK
<1>1. PICK i \in roots : i <= j /\ spans[i].trace_id = spans[j].trace_id
  BY DEF DapperInv, Rooted
<1>2. i \in 1 .. j /\ spans[i].parent_span_id = Zero
  BY <1>1, <1>t DEF DapperInv, TypeOK, RootsHaveNoParent
<1>3. ASSUME NEW k \in DOMAIN spans,
             spans[k].trace_id = spans[j].trace_id,
             spans[k].parent_span_id = Zero
      PROVE  k = i
  <2>1. ASSUME NEW p \in 1 .. k - 1, IsParent(p, k) PROVE FALSE
    BY <2>1, <1>3, <1>t DEF IsParent, Lucky
  <2>2. k \in roots
    BY <2>1 DEF DapperInv, Forest
  <2> QED
    BY <2>2, <1>1, <1>3 DEF Lucky
<1> QED
  BY <1>1, <1>2, <1>3

\* Every behaviour of Dapper keeps the invariant.
THEOREM DapperInvariant ==
  ASSUME Zero \in Ids PROVE Spec => []DapperInv
<1>1. Init => DapperInv
  BY DapperInit
<1>2. DapperInv /\ [Next]_vars => DapperInv'
  BY DapperStep
<1> QED
  BY <1>1, <1>2, PTL DEF Spec

\* A trace is a tree, and it has one root unless the draws went wrong.
THEOREM DapperTrees ==
  ASSUME Zero \in Ids PROVE Spec => [](Forest /\ EventsOfSpans /\ OneRootPerTrace)
<1>1. DapperInv => Forest /\ EventsOfSpans /\ OneRootPerTrace
  BY LuckyHasOneRoot DEF DapperInv
<1> QED
  BY <1>1, DapperInvariant, PTL
===============================================================================
