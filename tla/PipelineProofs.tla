---------------------------- MODULE PipelineProofs ----------------------------
(***************************************************************************)
(* What TLAPS proves of the programs of TestC and of what becomes of their *)
(* events, for any number of rounds and any identifiers, in three parts.   *)
(*                                                                         *)
(* The peers: their spans nest unless one of them is killed or gives up,   *)
(* and then at most one is wrong.  The two take turns as long as both go on *)
(* (Lockstep), so that whoever logs an event knows what the other one has  *)
(* logged; and a process whose peer has gone finishes the span it works on *)
(* at most and then writes to a closed socket (Stopping).                  *)
(*                                                                         *)
(* Their log: an event names a span of its process, a span is started once *)
(* (LogSound), and a round logs four events at most (LogBounded).          *)
(*                                                                         *)
(* The pipeline: the trace that is collected is one BabeltraceProofs is    *)
(* about and holds nothing the plugin cannot convert, so that what is      *)
(* proved of the log and what is proved of the plugin add up to what       *)
(* Scribe can be shown.                                                    *)
(***************************************************************************)
EXTENDS Pipeline, FiniteSetTheorems, SequenceTheorems, TLAPS

BP == INSTANCE BabeltraceProofs WITH Plugins <- {"zipkin"}, Events <- ProviderEvents

\* A log or a sequence of spans that grew by one.
LEMMA Grown ==
  ASSUME NEW S, NEW s \in Seq(S), NEW x \in S
  PROVE  /\ Append(s, x) \in Seq(S)
         /\ Len(s) \in Nat
         /\ Len(Append(s, x)) = Len(s) + 1
         /\ DOMAIN s = 1 .. Len(s)
         /\ DOMAIN Append(s, x) = 1 .. Len(s) + 1
         /\ \A k \in DOMAIN s : Append(s, x)[k] = s[k]
         /\ Append(s, x)[Len(s) + 1] = x
  OBVIOUS

\* A sequence over a set is one over a larger set.
LEMMA Wider == ASSUME NEW S, NEW T, S \subseteq T, NEW s \in Seq(S) PROVE s \in Seq(T)
  OBVIOUS

\* An event is added at the end of the log and changes nothing before it.
LEMMA EventAppends ==
  ASSUME TypeOK, NEW p \in Processes, NEW what \in {"start", "end"}, NEW s,
         Event(p, what, s)
  PROVE  /\ Len(log) \in Nat
         /\ DOMAIN log = 1 .. Len(log)
         /\ Len(log') = Len(log) + 1
         /\ DOMAIN log' = 1 .. Len(log) + 1
         /\ \A k \in DOMAIN log : log'[k] = log[k]
         /\ log'[Len(log) + 1] = [by |-> p, what |-> what, span |-> s]
<1> DEFINE R == [by : Processes, what : {"start", "end"}, span : DOMAIN spans \cup {s}]
           Old == [by : Processes, what : {"start", "end"}, span : DOMAIN spans]
           ev == [by |-> p, what |-> what, span |-> s]
<1>1. log \in Seq(Old) /\ Old \subseteq R
  BY DEF TypeOK
<1>2. ev \in R
  OBVIOUS
<1> HIDE DEF R, ev, Old
<1>3. log \in Seq(R)
  BY <1>1, Wider
<1>4. log' = Append(log, ev)
  BY DEF Event, ev
<1>5. /\ Len(log) \in Nat
      /\ DOMAIN log = 1 .. Len(log)
      /\ Len(log') = Len(log) + 1
      /\ DOMAIN log' = 1 .. Len(log) + 1
      /\ \A k \in DOMAIN log : log'[k] = log[k]
      /\ log'[Len(log) + 1] = ev
  BY <1>2, <1>3, <1>4, Grown
<1>6. QED
  BY <1>5 DEF ev

\* An event names a span that was started.
LEMMA LoggedSpans ==
  ASSUME TypeOK
  PROVE  \A k \in DOMAIN log : log[k] \in [by : Processes, what : {"start", "end"},
                                             span : DOMAIN spans]
<1> DEFINE R == [by : Processes, what : {"start", "end"}, span : DOMAIN spans]
<1>1. log \in Seq(R)
  BY DEF TypeOK
<1> HIDE DEF R
<1>2. \A k \in DOMAIN log : log[k] \in R
  BY <1>1, ElementOfSeq
<1>3. QED
  BY <1>2 DEF R

\* What an event adds to the log, when spans are at most added to.
LEMMA EventFacts ==
  ASSUME TypeOK, NEW p \in Processes, NEW what \in {"start", "end"}, NEW s,
         Event(p, what, s),
         DOMAIN spans \subseteq DOMAIN spans',
         \A i \in DOMAIN spans : spans'[i] = spans[i],
         roots' \cap DOMAIN spans = roots,
         NEW n, n = Len(log) + 1
  PROVE  /\ \A q, w, i : Logged(q, w, i)' <=>
               Logged(q, w, i) \/ (q = p /\ w = what /\ i = s)
         /\ \A i \in roots : ChildEnded(i) => ChildEnded(i)'
         /\ \A j \in Wrong' : \/ j \in Wrong
                              \/ j \notin DOMAIN spans
                              \/ j = s /\ p = "A" /\ what = "end"
         /\ \A k \in DOMAIN log : \A q, w, i : /\ At(k, q, w, i)' <=> At(k, q, w, i)
                                               /\ Before(k, q, w, i)' <=> Before(k, q, w, i)
         /\ \A i, j \in DOMAIN spans : D!IsParent(i, j)' <=> D!IsParent(i, j)
         /\ At(n, p, what, s)'
         /\ \A q, w, i : Before(n, q, w, i)' <=> Logged(q, w, i)
         /\ DOMAIN log = 1 .. Len(log) /\ DOMAIN log' = 1 .. n
         /\ Len(log) \in Nat
<1>1. /\ Len(log) \in Nat
      /\ DOMAIN log = 1 .. Len(log)
      /\ DOMAIN log' = 1 .. Len(log) + 1
      /\ \A k \in DOMAIN log : log'[k] = log[k]
      /\ log'[Len(log) + 1] = [by |-> p, what |-> what, span |-> s]
  BY EventAppends
<1>2. ASSUME NEW k \in DOMAIN log, NEW q, NEW w, NEW i
      PROVE  /\ At(k, q, w, i)' <=> At(k, q, w, i)
             /\ Before(k, q, w, i)' <=> Before(k, q, w, i)
  BY <1>1 DEF At, Before
<1>3. ASSUME NEW q, NEW w, NEW i
      PROVE  At(n, q, w, i)' <=> q = p /\ w = what /\ i = s
  <2> DEFINE ev == [by |-> p, what |-> what, span |-> s]
             want == [by |-> q, what |-> w, span |-> i]
  <2>1. At(n, q, w, i)' <=> ev = want
    BY <1>1 DEF At
  <2>2. /\ ev.by = p /\ ev.what = what /\ ev.span = s
        /\ want.by = q /\ want.what = w /\ want.span = i
    OBVIOUS
  <2>3. q = p /\ w = what /\ i = s => ev = want
    OBVIOUS
  <2> QED
    BY <2>1, <2>2, <2>3
<1>4. \A q, w, i : Logged(q, w, i)' <=>
         Logged(q, w, i) \/ (q = p /\ w = what /\ i = s)
  <2>1. TAKE q, w, i
  <2>2. ASSUME Logged(q, w, i)' PROVE Logged(q, w, i) \/ (q = p /\ w = what /\ i = s)
    <3>1. PICK k \in DOMAIN log' : At(k, q, w, i)'
      BY <2>2 DEF Logged
    <3>2. CASE k \in DOMAIN log
      BY <3>1, <3>2, <1>2 DEF Logged
    <3>3. CASE k = n
      BY <3>1, <3>3, <1>3
    <3> QED
      BY <3>2, <3>3, <1>1
  <2>3. ASSUME Logged(q, w, i) PROVE Logged(q, w, i)'
    BY <2>3, <1>1, <1>2 DEF Logged
  <2>4. ASSUME q = p, w = what, i = s PROVE Logged(q, w, i)'
    BY <2>4, <1>1, <1>3 DEF Logged
  <2> QED
    BY <2>2, <2>3, <2>4
<1>5. roots \subseteq DOMAIN spans
  BY DEF TypeOK
<1>6. ASSUME NEW i \in DOMAIN spans, NEW j \in DOMAIN spans
      PROVE  D!IsParent(i, j)' <=> D!IsParent(i, j)
  BY <1>6 DEF D!IsParent
<1>7. ASSUME NEW i \in roots, ChildEnded(i) PROVE ChildEnded(i)'
  BY <1>4, <1>5, <1>6, <1>7 DEF ChildEnded
<1>8. ASSUME NEW j \in DOMAIN spans, BeganInParent(j) PROVE BeganInParent(j)'
  <2>1. PICK k \in DOMAIN log, i \in roots :
           /\ At(k, "B", "start", j)
           /\ D!IsParent(i, j)
           /\ Before(k, "A", "start", i) /\ ~Before(k, "A", "end", i)
    BY <1>8 DEF BeganInParent
  <2> QED
    BY <2>1, <1>1, <1>2, <1>5, <1>6 DEF BeganInParent
<1>9. ASSUME NEW i \in roots, EndedAfterChild(i), ~(p = "A" /\ what = "end" /\ i = s)
      PROVE  EndedAfterChild(i)'
  <2>1. SUFFICES ASSUME NEW k \in DOMAIN log', At(k, "A", "end", i)'
                 PROVE  \E j \in DOMAIN spans' \ roots' :
                           D!IsParent(i, j)' /\ Before(k, "B", "end", j)'
    BY DEF EndedAfterChild
  <2>2. k \in DOMAIN log
    BY <2>1, <1>1, <1>3, <1>9
  <2>3. PICK j \in DOMAIN spans \ roots : D!IsParent(i, j) /\ Before(k, "B", "end", j)
    BY <2>1, <2>2, <1>2, <1>9 DEF EndedAfterChild
  <2> QED
    BY <2>2, <2>3, <1>2, <1>5, <1>6
<1>10. \A j \in Wrong' : \/ j \in Wrong
                         \/ j \notin DOMAIN spans
                         \/ j = s /\ p = "A" /\ what = "end"
  BY <1>5, <1>8, <1>9 DEF Wrong
<1>11. \A q, w, i : Before(n, q, w, i)' <=> Logged(q, w, i)
  BY <1>1, <1>2 DEF Before, Logged
<1>12. At(n, p, what, s)'
  BY <1>3
<1>15. /\ DOMAIN log = 1 .. Len(log) /\ DOMAIN log' = 1 .. n
       /\ Len(log) \in Nat
  BY <1>1
<1>16. /\ \A q, w, i : Logged(q, w, i)' <=>
               Logged(q, w, i) \/ (q = p /\ w = what /\ i = s)
       /\ \A i \in roots : ChildEnded(i) => ChildEnded(i)'
       /\ \A j \in Wrong' : \/ j \in Wrong
                            \/ j \notin DOMAIN spans
                            \/ j = s /\ p = "A" /\ what = "end"
  BY <1>4, <1>7, <1>10
<1>17. /\ \A k \in DOMAIN log : \A q, w, i : /\ At(k, q, w, i)' <=> At(k, q, w, i)
                                             /\ Before(k, q, w, i)' <=> Before(k, q, w, i)
  BY <1>2
<1>18. \A i, j \in DOMAIN spans : D!IsParent(i, j)' <=> D!IsParent(i, j)
  BY <1>6
<1> QED
  BY <1>11, <1>12, <1>15, <1>16, <1>17, <1>18

\* Steps without event or span change no judgement on them.
LEMMA QuietFacts ==
  ASSUME UNCHANGED <<log, spans, roots>>
  PROVE  /\ Wrong' = Wrong
         /\ \A q, w, i : Logged(q, w, i)' <=> Logged(q, w, i)
         /\ \A i : Running(i)' <=> Running(i)
         /\ \A i : ChildEnded(i)' <=> ChildEnded(i)
         /\ \A i, j : D!IsParent(i, j)' <=> D!IsParent(i, j)
  BY DEF Wrong, BeganInParent, EndedAfterChild, Logged, Running, ChildEnded, At, Before,
         D!IsParent

-------------------------------------------------------------------------------
\* At most one span is wrong.
Wrongs == \E j \in 0 .. Len(spans) : Wrong \subseteq {j}

\* The values of the variables as the steps read them.
LEMMA TypeFacts ==
  ASSUME TypeOK
  PROVE  /\ Rounds \in Nat /\ Rounds > 0
         /\ round["A"] \in 0 .. Rounds /\ round["B"] \in 0 .. Rounds
         /\ Len(log) \in Nat /\ DOMAIN log = 1 .. Len(log)
         /\ Len(spans) \in Nat /\ DOMAIN spans = 1 .. Len(spans)
         /\ cur["A"] \in 0 .. Len(spans) /\ cur["B"] \in 0 .. Len(spans)
         /\ toA \in Seq({"*"}) /\ toB \in Seq(D!Identity)
         /\ Len(toA) \in Nat /\ Len(toB) \in Nat
  BY TestCAssumption DEF TypeOK, Processes

\* Where Goto leads.
LEMMA GotoFacts ==
  ASSUME TypeOK, NEW p \in Processes, NEW step, Goto(p, step),
         step \in IF p = "A" THEN StepsOfA ELSE StepsOfB
  PROVE  /\ pc' \in [Processes -> StepsOfA \cup StepsOfB]
         /\ pc'["A"] \in StepsOfA /\ pc'["B"] \in StepsOfB
         /\ pc'[p] = step
         /\ \A q \in Processes \ {p} : pc'[q] = pc[q]
  BY DEF TypeOK, Goto, Processes

\* Where Leave leads.
LEMMA LeaveFacts ==
  ASSUME TypeOK, NEW p \in Processes, NEW how \in {"exit", "dead"}, Leave(p, how)
  PROVE  /\ pc' \in [Processes -> StepsOfA \cup StepsOfB]
         /\ pc'["A"] \in StepsOfA /\ pc'["B"] \in StepsOfB
         /\ pc'[p] = how
         /\ \A q \in Processes \ {p} : pc'[q] = IF oneProcess THEN how ELSE pc[q]
  BY DEF TypeOK, Leave, Processes, StepsOfA, StepsOfB, Gone

\* A process ends for good: before anything was said, or when accept fails, or
\* where somebody was killed or gave up before.
LEMMA LeaveKeeps ==
  ASSUME PeersInv, NEW p \in Processes, NEW how \in {"exit", "dead"}, Leave(p, how),
         pc[p] \notin {"exit", "dead"}, how = "exit" => ~connected \/ pc[p] = "accept",
         UNCHANGED <<round, cur, msg, netVars, log, oneProcess, spanVars>>,
         killed \subseteq killed', killed' \subseteq Processes,
         how = "dead" => killed' # {} \/ ~Started
  PROVE  PeersInv'
<1> USE DEF netVars, spanVars
<1>1. TypeOK
  BY DEF PeersInv
<1>2. /\ pc' \in [Processes -> StepsOfA \cup StepsOfB]
      /\ pc'["A"] \in StepsOfA /\ pc'["B"] \in StepsOfB
      /\ pc'[p] = how
      /\ \A q \in Processes \ {p} : pc'[q] = IF oneProcess THEN how ELSE pc[q]
  BY <1>1, LeaveFacts
<1>3. TypeOK'
  BY <1>1, <1>2 DEF TypeOK
<1>4. \A q \in Processes : pc'[q] = how \/ (pc'[q] = pc[q] /\ ~oneProcess)
  BY <1>2
<1>5. OwnSpans'
  BY <1>4 DEF OwnSpans, PeersInv, Processes
<1>8. Wrong' = Wrong
  BY QuietFacts
<1>9. Beginning'
  <2>1. killed' = {} => ~Started'
    <3>1. CASE how = "exit"
      BY <1>2, <3>1 DEF Started
    <3>2. CASE how = "dead" /\ ~Started
      <4>1. PICK q \in Processes \ {p} : pc[q] = "exit"
        BY <3>2 DEF Started
      <4>2. ~oneProcess
        BY <4>1 DEF PeersInv, Stopping, Frozen, Processes
      <4>3. QED
        BY <1>2, <4>1, <4>2 DEF Started
    <3>3. QED
      BY <3>1, <3>2
  <2>2. QED
    BY <1>4, <2>1 DEF Beginning, Undisturbed, PeersInv, Processes, Frozen
<1>10. RoundsCounted'
  BY <1>4 DEF RoundsCounted, PeersInv, Processes, Gone
<1>11. Stopping'
  <2>1. ~Frozen("A") /\ ~Frozen("B") => Wrong = {}
    BY DEF PeersInv
  <2> QED
    BY <1>2, <1>4, <1>8, <2>1 DEF Stopping, PeersInv, Processes, Frozen
<1>12. Frozen("A")' \/ Frozen("B")'
  BY <1>2 DEF Frozen, Processes
<1> QED
  BY <1>3, <1>5, <1>8, <1>9, <1>10, <1>11, <1>12 DEF PeersInv

\* The steps that log nothing and finish no round.
MovesOfA == {"init", "listen", "accept", "start"}
WorkOfA == {"send", "wait", "end"}
MovesOfB == {"init", "connect", "recv", "start"}

MessagesOK == /\ connected \in BOOLEAN /\ msg \in D!Identity
              /\ toA \in Seq({"*"}) /\ toB \in Seq(D!Identity)
              /\ Len(toA) + Len(toB) <= 1

\* What such a step keeps, whatever it does to the stream.
LEMMA MoveKeeps ==
  ASSUME PeersInv, NEW p \in Processes, NEW step, Goto(p, step),
         \/ p = "A" /\ {pc[p], step} \subseteq MovesOfA
         \/ p = "A" /\ {pc[p], step} \subseteq WorkOfA
         \/ p = "B" /\ {pc[p], step} \subseteq MovesOfB,
         UNCHANGED <<round, cur, log, fixed, spanVars>>,
         MessagesOK'
  PROVE  /\ TypeOK' /\ OwnSpans' /\ RoundsCounted'
         /\ pc'[p] = step
         /\ \A q \in Processes \ {p} : pc'[q] = pc[q]
         /\ \A q \in Processes : Frozen(q)' <=> Frozen(q)
<1> USE DEF fixed, spanVars, MovesOfA, WorkOfA, MovesOfB
<1>1. TypeOK
  BY DEF PeersInv
<1>2. step \in IF p = "A" THEN StepsOfA ELSE StepsOfB
  BY DEF StepsOfA, StepsOfB, Processes
<1>3. /\ pc' \in [Processes -> StepsOfA \cup StepsOfB]
      /\ pc'["A"] \in StepsOfA /\ pc'["B"] \in StepsOfB
      /\ pc'[p] = step
      /\ \A q \in Processes \ {p} : pc'[q] = pc[q]
  BY <1>1, <1>2, GotoFacts
<1>4. TypeOK'
  BY <1>1, <1>3 DEF TypeOK, MessagesOK
<1>5. OwnSpans'
  BY <1>3 DEF OwnSpans, PeersInv, Processes
<1>6. RoundsCounted'
  BY <1>3 DEF RoundsCounted, PeersInv, Processes, Gone
<1>7. \A q \in Processes : Frozen(q)' <=> Frozen(q)
  BY <1>3 DEF Frozen
<1> QED
  BY <1>3, <1>4, <1>5, <1>6, <1>7

\* The library cannot be initialised, or is.
LEMMA InitLibraryKeeps ==
  ASSUME PeersInv, AInit \/ BInit PROVE PeersInv'
<1>1. TypeOK /\ ~connected
  BY DEF PeersInv, AInit, BInit, Beginning, Processes
<1>2. MessagesOK
  BY <1>1 DEF TypeOK, MessagesOK
<1>3. ASSUME NEW p \in Processes, Leave(p, "exit"), pc[p] = "init",
             UNCHANGED <<round, cur, msg, netVars, log, fixed, spanVars>>
      PROVE  PeersInv'
  BY <1>1, <1>3, LeaveKeeps DEF fixed, TypeOK
<1>4. ASSUME NEW p \in Processes, Goto(p, IF p = "A" THEN "listen" ELSE "connect"),
             pc[p] = "init",
             UNCHANGED <<round, cur, msg, netVars, log, fixed, spanVars>>
      PROVE  PeersInv'
  <2>1. MessagesOK'
    BY <1>2, <1>4 DEF MessagesOK, netVars
  <2>2. /\ TypeOK' /\ OwnSpans' /\ RoundsCounted'
        /\ pc'[p] = IF p = "A" THEN "listen" ELSE "connect"
        /\ \A q \in Processes \ {p} : pc'[q] = pc[q]
        /\ \A q \in Processes : Frozen(q)' <=> Frozen(q)
    BY <1>4, <2>1, MoveKeeps DEF Processes, MovesOfA, MovesOfB
  <2>3. Wrong' = Wrong
    BY <1>4, QuietFacts DEF spanVars
  <2>4. Beginning'
    BY <1>1, <1>4, <2>2
    DEF Beginning, Undisturbed, Started, PeersInv, Processes, fixed, spanVars, netVars
  <2>5. Stopping'
    BY <1>4, <2>2, <2>3 DEF Stopping, PeersInv, Processes, fixed
  <2>6. ~Frozen("A") /\ ~Frozen("B") /\ Lockstep => Lockstep'
    BY <1>4, <2>2 DEF Lockstep, Processes, netVars
  <2> QED
    BY <1>4, <2>2, <2>3, <2>4, <2>5, <2>6 DEF PeersInv, Processes, spanVars
<1> QED
  BY <1>3, <1>4 DEF AInit, BInit, InitLibrary, Processes

\* Each other move, with what it reads of the turns they take.
LEMMA MoveDone ==
  ASSUME PeersInv, NEW p \in Processes, NEW step, Goto(p, step),
         \/ p = "A" /\ {pc[p], step} \subseteq MovesOfA
         \/ p = "A" /\ {pc[p], step} \subseteq WorkOfA
         \/ p = "B" /\ {pc[p], step} \subseteq MovesOfB,
         UNCHANGED <<round, cur, log, fixed, spanVars>>,
         MessagesOK',
         step \notin {"init", "connect", "listen"},
         connected \/ connected' \/ step = "accept",
         connected => connected',
         ~connected /\ connected' => \A q \in Processes :
                                        pc'[q] \notin {"init", "connect", "listen"},
         Frozen("B") /\ p = "A" => Wrong = {} \/ step \in {"start", "send"},
         Frozen("A") /\ p = "B" => Wrong = {},
         ~Frozen("A") /\ ~Frozen("B") => Lockstep'
  PROVE  PeersInv'
<1>1. /\ TypeOK' /\ OwnSpans' /\ RoundsCounted'
      /\ pc'[p] = step
      /\ \A q \in Processes \ {p} : pc'[q] = pc[q]
      /\ \A q \in Processes : Frozen(q)' <=> Frozen(q)
  BY MoveKeeps
<1>2. Wrong' = Wrong
  BY QuietFacts DEF spanVars
<1>3. Beginning'
  BY <1>1
  DEF Beginning, Undisturbed, Started, PeersInv, Processes, fixed, spanVars,
      MovesOfA, MovesOfB, WorkOfA
<1>4. Stopping'
  BY <1>1, <1>2 DEF Stopping, PeersInv, Processes, fixed, MovesOfA, MovesOfB, WorkOfA
<1> QED
  BY <1>1, <1>2, <1>3, <1>4 DEF PeersInv, Processes, spanVars

\* Up to the first round.
LEMMA ConnectKeeps ==
  ASSUME PeersInv, AListen \/ AAccept \/ BConnect PROVE PeersInv'
<1> USE DEF MovesOfA, MovesOfB, WorkOfA, Processes, netVars
<1>1. MessagesOK /\ TypeOK
  BY DEF PeersInv, TypeOK, MessagesOK
<1>2. CASE AListen
  <2>1. Goto("A", "accept") /\ pc["A"] = "listen" /\ MessagesOK' /\ ~connected
    BY <1>1, <1>2 DEF AListen, MessagesOK, PeersInv, Beginning
  <2>2. pc'["A"] = "accept" /\ pc'["B"] = pc["B"]
    BY <1>1, <2>1, GotoFacts DEF StepsOfA
  <2>3. Wrong = {}
    BY <2>1 DEF PeersInv, Stopping, Frozen
  <2>4. ~Frozen("A") /\ ~Frozen("B") => Lockstep'
    BY <1>2, <2>1, <2>2 DEF AListen, PeersInv, Lockstep
  <2> QED
    BY <1>2, <2>1, <2>2, <2>3, <2>4, MoveDone DEF AListen, Frozen
<1>3. CASE AAccept
  <2>1. Goto("A", "start") /\ pc["A"] = "accept" /\ MessagesOK' /\ connected
    BY <1>1, <1>3 DEF AAccept, MessagesOK
  <2>2. pc'["A"] = "start" /\ pc'["B"] = pc["B"]
    BY <1>1, <2>1, GotoFacts DEF StepsOfA
  <2>3. pc["B"] \notin {"init", "connect"}
    BY <2>1 DEF PeersInv, Beginning
  <2>4. ~Frozen("A") /\ ~Frozen("B") => Lockstep'
    BY <1>3, <2>1, <2>2, <2>3 DEF AAccept, PeersInv, Lockstep
  <2> QED
    BY <1>3, <2>1, <2>2, <2>4, MoveDone DEF AAccept, Frozen
<1>4. CASE BConnect
  <2>1. /\ Goto("B", "recv") /\ pc["B"] = "connect" /\ MessagesOK' /\ connected'
        /\ ~connected /\ pc["A"] = "accept"
    BY <1>1, <1>4
    DEF BConnect, MessagesOK, PeersInv, Beginning, Listening, StepsOfA, Gone, Frozen
  <2>2. pc'["B"] = "recv" /\ pc'["A"] = pc["A"]
    BY <1>1, <2>1, GotoFacts DEF StepsOfB
  <2>4. ~Frozen("A") /\ ~Frozen("B") => Lockstep'
    BY <1>4, <2>1, <2>2 DEF BConnect, PeersInv, Lockstep
  <2> QED
    BY <1>4, <2>1, <2>2, <2>4, MoveDone DEF BConnect, Frozen
<1> QED
  BY <1>2, <1>3, <1>4

\* Memory that was never written holds some identity.
LEMMA GarbageFits == Garbage \subseteq D!Identity
  BY TestCAssumption DEF D!Identity

\* The two directions of the stream, which hold one message at most.
LEMMA OneMessage ==
  ASSUME NEW S, NEW s \in Seq(S)
  PROVE  /\ Len(s) = 0 <=> s = << >>
         /\ Len(s) \in Nat
         /\ Len(s) = 1 => Head(s) \in S /\ Tail(s) = << >> /\ s = << Head(s) >>
         /\ \A x : s = << >> => Append(s, x) = << x >>
<1>1. Len(s) \in Nat /\ (Len(s) = 0 <=> s = << >>)
  OBVIOUS
<1>2. ASSUME Len(s) = 1 PROVE Head(s) \in S /\ Tail(s) = << >> /\ s = << Head(s) >>
  <2>1. Head(s) = s[1] /\ DOMAIN s = 1 .. 1 /\ s[1] \in S
    BY <1>2
  <2>2. Tail(s) = << >>
    <3>1. Tail(s) \in Seq(S) /\ Len(Tail(s)) = 0
      BY <1>2, HeadTailProperties, EmptySeq
    <3> QED
      BY <3>1, EmptySeq
  <2>3. s = << s[1] >>
    BY <1>2
  <2> QED
    BY <2>1, <2>2, <2>3
<1>3. \A x : Append(<< >>, x) = << x >>
  OBVIOUS
<1> QED
  BY <1>1, <1>2, <1>3

\* What lies in the stream of a connection, and what is left when it was read.
LEMMA StreamFacts ==
  ASSUME TypeOK
  PROVE  /\ \A x \in D!Identity : toB = << >> => Append(toB, x) = << x >>
         /\ toA = << >> => Append(toA, "*") = << "*" >>
         /\ toA # << >> => toA = << "*" >> /\ Tail(toA) = << >> /\ toB = << >>
         /\ toB # << >> => /\ Tail(toB) = << >> /\ Head(toB) \in D!Identity
                           /\ toA = << >> /\ toB = << Head(toB) >>
<1>1. toA \in Seq({"*"}) /\ toB \in Seq(D!Identity) /\ Len(toA) + Len(toB) <= 1
  BY DEF TypeOK
<1>2. /\ Len(toA) \in Nat /\ (Len(toA) = 0 <=> toA = << >>)
      /\ Len(toB) \in Nat /\ (Len(toB) = 0 <=> toB = << >>)
  BY <1>1, OneMessage
<1>3. Len(toA) + Len(toB) <= 1
  BY <1>1
<1>4. toB # << >> => Len(toB) = 1 /\ Len(toA) = 0
  <2> DEFINE m == Len(toB)
             n == Len(toA)
  <2>1. m \in Nat /\ n \in Nat /\ m + n <= 1 /\ (m = 0 <=> toB = << >>)
    BY <1>2, <1>3
  <2> HIDE DEF m, n
  <2>2. toB # << >> => m = 1 /\ n = 0
    BY <2>1
  <2> QED
    BY <2>2 DEF m, n
<1>5. toA # << >> => Len(toA) = 1 /\ Len(toB) = 0
  <2> DEFINE m == Len(toB)
             n == Len(toA)
  <2>1. m \in Nat /\ n \in Nat /\ m + n <= 1 /\ (n = 0 <=> toA = << >>)
    BY <1>2, <1>3
  <2> HIDE DEF m, n
  <2>2. toA # << >> => n = 1 /\ m = 0
    BY <2>1
  <2> QED
    BY <2>2 DEF m, n
<1> QED
  BY <1>1, <1>2, <1>4, <1>5, OneMessage

\* Messages sent and received.
LEMMA TalkKeeps ==
  ASSUME PeersInv, ASend \/ AWait \/ AWaitEof \/ BRecv \/ BRecvEof PROVE PeersInv'
<1> USE DEF MovesOfA, MovesOfB, WorkOfA, Processes
<1>1. MessagesOK /\ TypeOK
  BY DEF PeersInv, TypeOK, MessagesOK
<1>2. pc["A"] \in {"send", "wait"} \/ pc["B"] = "recv" => connected
  BY DEF PeersInv, Beginning, Frozen
<1>3. CASE ASend
  <2>1. Goto("A", "wait") /\ pc["A"] = "send" /\ connected /\ connected'
    BY <1>2, <1>3 DEF ASend
  <2>2. pc'["A"] = "wait" /\ pc'["B"] = pc["B"]
    BY <1>1, <2>1, GotoFacts DEF StepsOfA
  <2>3. ~Frozen("B")
    BY <1>3 DEF ASend, Closed, Frozen, Gone
  <2>4. pc["B"] = "recv" /\ toA = << >> /\ toB = << >> /\ Running(cur["A"])
        /\ round["A"] = round["B"]
    BY <2>1, <2>3 DEF PeersInv, Lockstep, Frozen
  <2>5. cur["A"] \in DOMAIN spans /\ spans[cur["A"]] \in D!Identity
    BY <1>1, <2>4, TypeFacts DEF Running, TypeOK
  <2>6. toB' = << spans[cur["A"]] >> /\ toA' = << >>
    BY <1>3, <2>4, <2>5, <1>1, StreamFacts DEF ASend
  <2>7. MessagesOK'
    BY <1>1, <1>3, <2>5, <2>6 DEF MessagesOK, ASend
  <2>8. Lockstep'
    <3>1. Running(cur["A"])'
      BY <1>3, <2>4, QuietFacts DEF ASend, spanVars
    <3> QED
      BY <1>3, <2>2, <2>4, <2>6, <3>1 DEF ASend, Lockstep, spanVars
  <2> QED
    BY <1>3, <2>1, <2>2, <2>3, <2>7, <2>8, MoveDone DEF ASend, Frozen
<1>4. CASE AWait \/ AWaitEof
  <2>1. Goto("A", "end") /\ pc["A"] = "wait" /\ connected /\ connected'
    BY <1>2, <1>4 DEF AWait, AWaitEof, netVars
  <2>2. pc'["A"] = "end" /\ pc'["B"] = pc["B"]
    BY <1>1, <2>1, GotoFacts DEF StepsOfA
  <2>3. /\ UNCHANGED <<round, cur, msg, toB, log, fixed, spanVars>>
        /\ toA' = << >>
    BY <1>1, <1>4, StreamFacts DEF AWait, AWaitEof, netVars
  <2>4. MessagesOK'
    BY <1>1, <2>1, <2>3 DEF MessagesOK
  <2>5. Frozen("B") => Wrong = {}
    BY <2>1 DEF PeersInv, Stopping, Frozen
  <2>6. ASSUME ~Frozen("A"), ~Frozen("B") PROVE Lockstep'
    <3>1. CASE AWaitEof
      <4>1. pc["B"] = "done" /\ toA = << >>
        BY <2>6, <3>1 DEF AWaitEof, Closed, Frozen, Gone
      <4> QED
        BY <2>1, <2>6, <4>1 DEF PeersInv, Lockstep
    <3>2. CASE AWait
      <4>1. toA # << >>
        BY <3>2 DEF AWait
      <4>2. /\ pc["B"] \in {"recv", "done"} /\ toB = << >>
            /\ round["B"] = round["A"] + 1
            /\ cur["A"] \in roots /\ ChildEnded(cur["A"])
        BY <2>1, <2>6, <4>1 DEF PeersInv, Lockstep
      <4>3. ChildEnded(cur["A"])'
        BY <2>3, <4>2, QuietFacts DEF spanVars
      <4> QED
        BY <2>2, <2>3, <4>2, <4>3 DEF Lockstep, spanVars
    <3> QED
      BY <1>4, <3>1, <3>2
  <2> QED
    BY <2>1, <2>2, <2>3, <2>4, <2>5, <2>6, MoveDone
<1>5. CASE BRecv \/ BRecvEof
  <2>1. Goto("B", "start") /\ pc["B"] = "recv" /\ connected /\ connected'
    BY <1>2, <1>5 DEF BRecv, BRecvEof, netVars
  <2>2. pc'["B"] = "start" /\ pc'["A"] = pc["A"]
    BY <1>1, <2>1, GotoFacts DEF StepsOfB
  <2>3. /\ UNCHANGED <<round, cur, toA, log, fixed, spanVars>>
        /\ toB' = << >>
        /\ IF toB = << >> THEN msg' \in {msg} \cup Garbage ELSE msg' = Head(toB)
    BY <1>1, <1>5, StreamFacts DEF BRecv, BRecvEof, netVars
  <2>4. MessagesOK'
    BY <1>1, <2>1, <2>3, StreamFacts, GarbageFits DEF MessagesOK
  <2>5. Frozen("A") => Wrong = {}
    BY <2>1 DEF PeersInv, Stopping, Frozen
  <2>6. ASSUME ~Frozen("A"), ~Frozen("B") PROVE Lockstep'
    <3>1. CASE BRecvEof
      <4>1. pc["A"] = "done"
        BY <2>6, <3>1 DEF BRecvEof, Closed, Frozen, Gone
      <4> QED
        BY <2>1, <2>6, <4>1 DEF PeersInv, Lockstep
    <3>2. CASE BRecv
      <4>1. toB # << >>
        BY <3>2 DEF BRecv
      <4>2. /\ pc["A"] = "wait" /\ toA = << >> /\ toB = << spans[cur["A"]] >>
            /\ round["A"] = round["B"] /\ Running(cur["A"])
        BY <2>1, <2>6, <4>1 DEF PeersInv, Lockstep
      <4>3. Running(cur["A"])' /\ msg' = spans[cur["A"]]
        BY <2>3, <4>1, <4>2, QuietFacts DEF spanVars
      <4>4. ChildRuns'
        BY <2>2, <2>3, <4>3 DEF ChildRuns, spanVars
      <4> QED
        BY <2>2, <2>3, <4>2, <4>4 DEF Lockstep
    <3> QED
      BY <1>5, <3>1, <3>2
  <2> QED
    BY <2>1, <2>2, <2>3, <2>4, <2>5, <2>6, MoveDone
<1> QED
  BY <1>3, <1>4, <1>5

\* Who cannot have a socket or writes to a peer that has gone, and who is killed.
LEMMA EndKeeps ==
  ASSUME PeersInv,
         \/ AListenFails \/ AAcceptFails \/ BConnectFails \/ ASendFails \/ BReplyFails
         \/ \E p \in Processes : Kill(p)
  PROVE  PeersInv'
<1> USE DEF Processes
<1>1. TypeOK
  BY DEF PeersInv
<1>2. CASE BConnectFails
  <2>1. ~connected
    BY <1>2 DEF BConnectFails, PeersInv, Beginning
  <2> QED
    BY <1>1, <1>2, <2>1, LeaveKeeps DEF BConnectFails, TypeOK, fixed
<1>3. CASE ASendFails
  <2>1. connected
    BY <1>3 DEF ASendFails, PeersInv, Beginning, Frozen
  <2>2. pc["B"] # "done"
    BY <1>3 DEF ASendFails, PeersInv, Lockstep, Frozen
  <2>3. killed # {} \/ ~Started
    BY <1>3, <2>1, <2>2 DEF ASendFails, PeersInv, Beginning, Undisturbed, Started,
        Closed, Gone
  <2> QED
    BY <1>1, <1>3, <2>3, LeaveKeeps DEF ASendFails, TypeOK, fixed
<1>4. CASE BReplyFails
  <2>1. connected
    BY <1>4 DEF BReplyFails, PeersInv, Beginning, Frozen
  <2>2. pc["A"] # "done"
    BY <1>4 DEF BReplyFails, PeersInv, Lockstep, Frozen
  <2>3. killed # {} \/ ~Started
    BY <1>4, <2>1, <2>2 DEF BReplyFails, PeersInv, Beginning, Undisturbed, Started,
        Closed, Gone
  <2> QED
    BY <1>1, <1>4, <2>3, LeaveKeeps DEF BReplyFails, TypeOK, fixed
<1>5. ASSUME NEW p \in Processes, Kill(p) PROVE PeersInv'
  <2>1. pc[p] \notin {"exit", "dead"}
    BY <1>5 DEF Kill, Closed, Gone
  <2> QED
    BY <1>1, <1>5, <2>1, LeaveKeeps DEF Kill, TypeOK
<1>6. CASE AListenFails
  <2>1. ~connected
    BY <1>6 DEF AListenFails, PeersInv, Beginning
  <2> QED
    BY <1>1, <1>6, <2>1, LeaveKeeps DEF AListenFails, TypeOK, fixed
<1>7. CASE AAcceptFails
  BY <1>1, <1>7, LeaveKeeps DEF AAcceptFails, TypeOK, fixed
<1> QED
  BY <1>2, <1>3, <1>4, <1>5, <1>6, <1>7

\* The acknowledgement ends B's round.
LEMMA ReplyKeeps == ASSUME PeersInv, BReply PROVE PeersInv'
<1> USE DEF Processes
<1>1. TypeOK /\ connected
  BY DEF PeersInv, BReply, Beginning, Frozen
<1>2. ~Frozen("A") /\ ~Frozen("B")
  BY DEF BReply, Closed, Gone, Frozen
<1>3. /\ pc["A"] = "wait" /\ pc["B"] = "reply" /\ toA = << >> /\ toB = << >>
      /\ round["A"] = round["B"] /\ ChildRuns /\ Wrong = {}
  BY <1>2 DEF PeersInv, Lockstep, BReply
<1>4. round["B"] \in Nat /\ round["B"] < Rounds /\ Rounds \in Nat
      /\ round["A"] \in Nat
  BY <1>1, <1>3, TypeFacts DEF PeersInv, RoundsCounted, Gone
<1> DEFINE step == IF round["B"] + 1 < Rounds THEN "recv" ELSE "done"
<1>5. Goto("B", step) /\ round' = [round EXCEPT !["B"] = round["B"] + 1]
  BY DEF BReply, NextRound
<1>6. /\ pc' \in [Processes -> StepsOfA \cup StepsOfB]
      /\ pc'["A"] \in StepsOfA /\ pc'["B"] \in StepsOfB
      /\ pc'["B"] = step /\ pc'["A"] = "wait"
  BY <1>1, <1>3, <1>5, GotoFacts DEF StepsOfB, Gone
<1>7. /\ round' \in [Processes -> 0 .. Rounds]
      /\ round'["A"] = round["A"] /\ round'["B"] = round["B"] + 1
  BY <1>1, <1>4, <1>5 DEF TypeOK
<1>8. toA' = << "*" >> /\ toB' = << >>
  BY <1>1, <1>3, StreamFacts DEF BReply
<1>9. TypeOK'
  BY <1>1, <1>6, <1>7, <1>8 DEF TypeOK, BReply, fixed, spanVars
<1>10. OwnSpans'
  BY <1>3, <1>6 DEF OwnSpans, PeersInv, BReply, spanVars
<1>12. Beginning'
  BY <1>1, <1>6 DEF Beginning, Undisturbed, Started, PeersInv, BReply, fixed
<1>13. RoundsCounted'
  BY <1>3, <1>4, <1>6, <1>7 DEF RoundsCounted, PeersInv, Gone
<1>14. Wrong' = {}
  BY <1>3, QuietFacts DEF BReply, spanVars
<1>15. ~Frozen("A")' /\ ~Frozen("B")'
  BY <1>6 DEF Frozen
<1>16. Lockstep'
  <2>1. cur["A"] \in roots /\ ChildEnded(cur["A"])
    BY <1>3 DEF ChildRuns, Running, ChildEnded
  <2>2. ChildEnded(cur["A"])'
    BY <2>1, QuietFacts DEF BReply, spanVars
  <2> QED
    BY <1>3, <1>6, <1>7, <1>8, <2>1, <2>2 DEF Lockstep, BReply, spanVars
<1>17. Stopping'
  BY <1>15 DEF Stopping
<1>18. Wrongs'
  BY <1>9, <1>14, TypeFacts DEF Wrongs, TypeOK
<1> QED
  BY <1>9, <1>10, <1>12, <1>13, <1>14, <1>16, <1>17, <1>18 DEF PeersInv, Wrongs

\* The log keeps its type when an event of a span is added.
LEMMA LogGrows ==
  ASSUME TypeOK, NEW p \in Processes, NEW what \in {"start", "end"},
         DOMAIN spans \subseteq DOMAIN spans', NEW s \in DOMAIN spans', Event(p, what, s)
  PROVE  log' \in Seq([by : Processes, what : {"start", "end"}, span : DOMAIN spans'])
<1> DEFINE New == [by : Processes, what : {"start", "end"}, span : DOMAIN spans']
           Old == [by : Processes, what : {"start", "end"}, span : DOMAIN spans]
           ev == [by |-> p, what |-> what, span |-> s]
<1>1. log \in Seq(Old) /\ Old \subseteq New /\ ev \in New /\ log' = Append(log, ev)
  BY DEF TypeOK, Event
<1> HIDE DEF New, Old, ev
<1>2. log \in Seq(New)
  BY <1>1, Wider
<1>3. log' \in Seq(New)
  BY <1>1, <1>2, Grown
<1> QED
  BY <1>3 DEF New

\* No event names a span that was not started.
LEMMA NothingLoggedAhead ==
  ASSUME TypeOK PROVE \A q, w : ~Logged(q, w, Len(spans) + 1)
<1>1. \A k \in DOMAIN log : log[k].span \in DOMAIN spans
  BY LoggedSpans
<1>2. Len(spans) + 1 \notin DOMAIN spans
  BY TypeFacts
<1> QED
  BY <1>1, <1>2 DEF Logged, At

\* A span that is added.
LEMMA SpanGrows ==
  ASSUME TypeOK, NEW id \in D!Identity, spans' = Append(spans, id)
  PROVE  /\ spans' \in Seq(D!Identity)
         /\ DOMAIN spans = 1 .. Len(spans) /\ Len(spans) \in Nat
         /\ DOMAIN spans' = 1 .. Len(spans) + 1 /\ Len(spans') = Len(spans) + 1
         /\ \A i \in DOMAIN spans : spans'[i] = spans[i]
         /\ spans'[Len(spans) + 1] = id
<1>1. spans \in Seq(D!Identity)
  BY DEF TypeOK
<1> QED
  BY <1>1, Grown

\* A starts a trace.
LEMMA AStartKeeps == ASSUME PeersInv, AStart PROVE PeersInv'
<1> USE DEF Processes
<1>n. PICK n : n = Len(spans) + 1
  OBVIOUS
<1>1. TypeOK /\ connected /\ pc["A"] = "start"
  BY DEF PeersInv, AStart, Beginning, Frozen
<1>2. PICK tid, sid \in Ids : spans' = Append(spans, D!Root(tid, sid))
  BY DEF AStart
<1>3. D!Root(tid, sid) \in D!Identity
  BY TestCAssumption DEF D!Root, D!Identity
<1>4. /\ spans' \in Seq(D!Identity)
      /\ DOMAIN spans = 1 .. Len(spans) /\ Len(spans) \in Nat
      /\ DOMAIN spans' = 1 .. n /\ Len(spans') = n /\ n = Len(spans) + 1
      /\ \A i \in DOMAIN spans : spans'[i] = spans[i]
  BY <1>1, <1>2, <1>3, <1>n, SpanGrows
<1>5. /\ Event("A", "start", n) /\ Goto("A", "send")
      /\ roots' = roots \cup {n} /\ cur' = [cur EXCEPT !["A"] = n]
      /\ UNCHANGED <<round, msg, connected, toA, toB, killed, oneProcess>>
  BY <1>n DEF AStart, netVars, fixed
<1>6. /\ pc' \in [Processes -> StepsOfA \cup StepsOfB]
      /\ pc'["A"] \in StepsOfA /\ pc'["B"] \in StepsOfB
      /\ pc'["A"] = "send" /\ pc'["B"] = pc["B"]
  BY <1>1, <1>5, GotoFacts DEF StepsOfA
<1>7. n \in DOMAIN spans' /\ n \notin DOMAIN spans /\ DOMAIN spans \subseteq DOMAIN spans'
  BY <1>4
<1>8. /\ cur' \in [Processes -> 0 .. Len(spans')]
      /\ cur'["A"] = n /\ cur'["B"] = cur["B"]
  BY <1>1, <1>4, <1>5 DEF TypeOK
<1>9. roots \subseteq DOMAIN spans /\ roots' \cap DOMAIN spans = roots
  BY <1>1, <1>5, <1>7 DEF TypeOK
<1>10. log' \in Seq([by : Processes, what : {"start", "end"}, span : DOMAIN spans'])
  BY <1>1, <1>5, <1>7, LogGrows
<1>11. TypeOK'
  BY <1>1, <1>4, <1>5, <1>6, <1>7, <1>8, <1>9, <1>10 DEF TypeOK
<1>l. PICK l : l = Len(log) + 1
  OBVIOUS
<1>12. /\ \A q, w, i : Logged(q, w, i)' <=>
             Logged(q, w, i) \/ (q = "A" /\ w = "start" /\ i = n)
       /\ \A j \in Wrong' : j \in Wrong \/ j \notin DOMAIN spans
  BY <1>1, <1>4, <1>5, <1>7, <1>9, <1>l, EventFacts
<1>13. Running(n)'
  BY <1>1, <1>5, <1>12, <1>n, NothingLoggedAhead DEF Running
<1>14. n \notin Wrong'
  <2>1. ~Logged("A", "end", n)'
    BY <1>13 DEF Running
  <2>2. EndedAfterChild(n)'
    BY <2>1 DEF EndedAfterChild, Logged
  <2> QED
    BY <1>5, <2>2 DEF Wrong
<1>15. Wrong' \subseteq Wrong
  BY <1>4, <1>12, <1>14, <1>11 DEF Wrong, TypeOK
<1>16. OwnSpans'
  BY <1>4, <1>5, <1>6, <1>7, <1>8 DEF OwnSpans, PeersInv
<1>17. Beginning'
  BY <1>1, <1>5, <1>6 DEF Beginning, Undisturbed, Started, PeersInv
<1>18. RoundsCounted'
  BY <1>1, <1>5, <1>6 DEF RoundsCounted, PeersInv, Gone
<1>19. \A p \in Processes : Frozen(p)' <=> Frozen(p)
  BY <1>1, <1>6 DEF Frozen
<1>20. Stopping'
  BY <1>5, <1>6, <1>15, <1>19 DEF Stopping, PeersInv
<1>21. ASSUME ~Frozen("A"), ~Frozen("B") PROVE Lockstep'
  <2>1. pc["B"] = "recv" /\ toA = << >> /\ toB = << >> /\ round["A"] = round["B"]
    BY <1>1, <1>21 DEF PeersInv, Lockstep
  <2> QED
    BY <1>5, <1>6, <1>8, <1>13, <2>1 DEF Lockstep
<1>22. Wrongs'
  BY <1>4, <1>15 DEF Wrongs, PeersInv
<1> QED
  BY <1>11, <1>15, <1>16, <1>17, <1>18, <1>19, <1>20, <1>21, <1>22 DEF PeersInv, Wrongs

\* B starts a child of what its message holds.
LEMMA BStartKeeps == ASSUME PeersInv, BStart PROVE PeersInv'
<1> USE DEF Processes
<1>n. PICK n : n = Len(spans) + 1
  OBVIOUS
<1>1. TypeOK /\ connected /\ pc["B"] = "start" /\ msg \in D!Identity
  BY DEF PeersInv, BStart, Beginning, Frozen, TypeOK
<1>2. PICK sid \in Ids : spans' = Append(spans, D!ChildOf(msg, sid))
  BY DEF BStart
<1>3. D!ChildOf(msg, sid) \in D!Identity
  BY <1>1 DEF D!ChildOf, D!Identity
<1>4. /\ spans' \in Seq(D!Identity)
      /\ DOMAIN spans = 1 .. Len(spans) /\ Len(spans) \in Nat
      /\ DOMAIN spans' = 1 .. n /\ Len(spans') = n /\ n = Len(spans) + 1
      /\ \A i \in DOMAIN spans : spans'[i] = spans[i]
      /\ spans'[n] = D!ChildOf(msg, sid)
  BY <1>1, <1>2, <1>3, <1>n, SpanGrows
<1>5. /\ Event("B", "start", n) /\ Goto("B", "end")
      /\ cur' = [cur EXCEPT !["B"] = n]
      /\ UNCHANGED <<round, msg, connected, toA, toB, killed, oneProcess, roots>>
  BY <1>n DEF BStart, netVars, fixed
<1>6. /\ pc' \in [Processes -> StepsOfA \cup StepsOfB]
      /\ pc'["A"] \in StepsOfA /\ pc'["B"] \in StepsOfB
      /\ pc'["B"] = "end" /\ pc'["A"] = pc["A"]
  BY <1>1, <1>5, GotoFacts DEF StepsOfB
<1>7. n \in DOMAIN spans' /\ n \notin DOMAIN spans /\ DOMAIN spans \subseteq DOMAIN spans'
  BY <1>4
<1>8. /\ cur' \in [Processes -> 0 .. Len(spans')]
      /\ cur'["B"] = n /\ cur'["A"] = cur["A"]
  BY <1>1, <1>4, <1>5 DEF TypeOK
<1>9. roots \subseteq DOMAIN spans /\ roots' \cap DOMAIN spans = roots
  BY <1>1, <1>5 DEF TypeOK
<1>10. log' \in Seq([by : Processes, what : {"start", "end"}, span : DOMAIN spans'])
  BY <1>1, <1>5, <1>7, LogGrows
<1>11. TypeOK'
  BY <1>1, <1>4, <1>5, <1>6, <1>7, <1>8, <1>9, <1>10 DEF TypeOK
<1>l. PICK l : l = Len(log) + 1
  OBVIOUS
<1>12. /\ \A q, w, i : Logged(q, w, i)' <=>
             Logged(q, w, i) \/ (q = "B" /\ w = "start" /\ i = n)
       /\ \A j \in Wrong' : j \in Wrong \/ j \notin DOMAIN spans
       /\ At(l, "B", "start", n)'
       /\ \A q, w, i : Before(l, q, w, i)' <=> Logged(q, w, i)
       /\ DOMAIN log' = 1 .. l /\ l \in Nat \ {0}
  BY <1>1, <1>4, <1>5, <1>7, <1>9, <1>l, EventFacts
<1>13. Wrong' \subseteq Wrong \cup {n}
  BY <1>4, <1>12, <1>11 DEF Wrong, TypeOK
<1>14. OwnSpans'
  BY <1>4, <1>5, <1>6, <1>7, <1>8, <1>9 DEF OwnSpans, PeersInv
<1>15. Beginning'
  BY <1>1, <1>5, <1>6 DEF Beginning, Undisturbed, Started, PeersInv
<1>16. RoundsCounted'
  BY <1>1, <1>5, <1>6 DEF RoundsCounted, PeersInv, Gone
<1>17. \A p \in Processes : Frozen(p)' <=> Frozen(p)
  BY <1>1, <1>6 DEF Frozen
<1>18. Stopping'
  BY <1>1, <1>5, <1>6, <1>17 DEF Stopping, PeersInv, Frozen
<1>19. ASSUME ~Frozen("A"), ~Frozen("B") PROVE Lockstep' /\ Wrong' = {}
  <2>i. PICK i : i = cur["A"]
    OBVIOUS
  <2>1. /\ pc["A"] = "wait" /\ toA = << >> /\ toB = << >>
        /\ round["A"] = round["B"] /\ Running(i) /\ msg = spans[i] /\ Wrong = {}
    BY <2>i, <1>1, <1>19 DEF PeersInv, Lockstep, ChildRuns
  <2>2. i \in roots /\ i \in DOMAIN spans /\ Logged("A", "start", i)
        /\ ~Logged("A", "end", i)
    BY <1>9, <2>1 DEF Running
  <2>3. D!IsParent(i, n)'
    BY <1>4, <2>1, <2>2 DEF D!IsParent, D!ChildOf
  <2>4. Running(i)'
    BY <1>5, <1>12, <2>2 DEF Running
  <2>5. BeganInParent(n)'
    BY <1>5, <1>l, <1>12, <2>2, <2>3 DEF BeganInParent
  <2>6. n \notin Wrong'
    BY <1>5, <1>7, <1>9, <2>5 DEF Wrong
  <2>7. n \in DOMAIN spans' \ roots'
    BY <1>5, <1>7, <1>9
  <2>8. ChildRuns'
    BY <1>6, <1>8, <2>i, <2>3, <2>4, <2>7 DEF ChildRuns
  <2>9. Lockstep'
    BY <1>5, <1>6, <2>i, <2>1, <2>8 DEF Lockstep
  <2> QED
    BY <1>13, <2>1, <2>6, <2>9
<1>20. Wrongs'
  <2>1. CASE Frozen("A")
    <3>1. Wrong = {}
      BY <1>1, <2>1 DEF PeersInv, Stopping, Frozen
    <3> QED
      BY <1>4, <1>13, <3>1 DEF Wrongs
  <2>2. CASE ~Frozen("A")
    <3>1. Wrong' = {}
      BY <1>1, <1>19, <2>2 DEF Frozen
    <3> QED
      BY <1>4, <3>1 DEF Wrongs
  <2> QED
    BY <2>1, <2>2
<1> QED
  BY <1>11, <1>14, <1>15, <1>16, <1>17, <1>18, <1>19, <1>20 DEF PeersInv, Wrongs

\* B ends its span.
LEMMA BEndKeeps == ASSUME PeersInv, BEnd PROVE PeersInv'
<1> USE DEF Processes
<1> DEFINE j == cur["B"]
<1>1. TypeOK /\ connected /\ pc["B"] = "end" /\ j \in DOMAIN spans \ roots
  BY DEF PeersInv, BEnd, Beginning, Frozen, OwnSpans
<1>2. /\ Event("B", "end", j) /\ Goto("B", "reply")
      /\ UNCHANGED <<round, cur, msg, connected, toA, toB, killed, oneProcess,
                     spans, roots>>
  BY DEF BEnd, netVars, fixed, spanVars
<1>3. /\ pc' \in [Processes -> StepsOfA \cup StepsOfB]
      /\ pc'["A"] \in StepsOfA /\ pc'["B"] \in StepsOfB
      /\ pc'["B"] = "reply" /\ pc'["A"] = pc["A"]
  BY <1>1, <1>2, GotoFacts DEF StepsOfB
<1>4. DOMAIN spans \subseteq DOMAIN spans' /\ j \in DOMAIN spans'
      /\ roots \subseteq DOMAIN spans /\ roots' \cap DOMAIN spans = roots
  BY <1>1, <1>2 DEF TypeOK
<1>5. log' \in Seq([by : Processes, what : {"start", "end"}, span : DOMAIN spans'])
  BY <1>1, <1>2, <1>4, LogGrows
<1>6. TypeOK'
  BY <1>1, <1>2, <1>3, <1>5 DEF TypeOK
<1>l. PICK l : l = Len(log) + 1
  OBVIOUS
<1>7. /\ \A q, w, i : Logged(q, w, i)' <=>
            Logged(q, w, i) \/ (q = "B" /\ w = "end" /\ i = j)
      /\ \A x \in Wrong' : x \in Wrong \/ x \notin DOMAIN spans
  BY <1>1, <1>2, <1>4, <1>l, EventFacts
<1>8. Wrong' \subseteq Wrong
  BY <1>2, <1>6, <1>7 DEF Wrong, TypeOK
<1>9. OwnSpans'
  BY <1>1, <1>2, <1>3 DEF OwnSpans, PeersInv
<1>10. Beginning'
  BY <1>1, <1>2, <1>3 DEF Beginning, Undisturbed, Started, PeersInv
<1>11. RoundsCounted'
  BY <1>1, <1>2, <1>3 DEF RoundsCounted, PeersInv, Gone
<1>12. \A p \in Processes : Frozen(p)' <=> Frozen(p)
  BY <1>1, <1>3 DEF Frozen
<1>13. Stopping'
  BY <1>1, <1>2, <1>3, <1>8, <1>12 DEF Stopping, PeersInv, Frozen
<1>14. ASSUME ~Frozen("A"), ~Frozen("B") PROVE Lockstep'
  <2>1. /\ pc["A"] = "wait" /\ toA = << >> /\ toB = << >>
        /\ round["A"] = round["B"] /\ Running(cur["A"])
        /\ D!IsParent(cur["A"], j)
    BY <1>1, <1>14 DEF PeersInv, Lockstep, ChildRuns
  <2>2. Running(cur["A"])'
    BY <1>2, <1>7, <2>1 DEF Running
  <2>3. D!IsParent(cur["A"], j)'
    BY <1>2, <2>1 DEF D!IsParent
  <2>4. ChildRuns'
    BY <1>1, <1>2, <1>3, <1>7, <2>2, <2>3 DEF ChildRuns
  <2> QED
    BY <1>2, <1>3, <2>1, <2>4 DEF Lockstep
<1>15. Wrongs'
  BY <1>2, <1>8 DEF Wrongs, PeersInv
<1> QED
  BY <1>6, <1>8, <1>9, <1>10, <1>11, <1>12, <1>13, <1>14, <1>15 DEF PeersInv, Wrongs

\* A ends its span and its round.
LEMMA AEndKeeps == ASSUME PeersInv, AEnd PROVE PeersInv'
<1> USE DEF Processes
<1>i. PICK i : i = cur["A"]
  OBVIOUS
<1> DEFINE step == IF round["A"] + 1 < Rounds THEN "start" ELSE "done"
<1>1. TypeOK /\ connected /\ pc["A"] = "end" /\ i \in roots
  BY <1>i DEF PeersInv, AEnd, Beginning, Frozen, OwnSpans
<1>2. /\ Event("A", "end", i) /\ Goto("A", step)
      /\ round' = [round EXCEPT !["A"] = round["A"] + 1]
      /\ UNCHANGED <<cur, msg, connected, toA, toB, killed, oneProcess, spans, roots>>
  BY <1>i DEF AEnd, NextRound, netVars, fixed, spanVars
<1>3. /\ pc' \in [Processes -> StepsOfA \cup StepsOfB]
      /\ pc'["A"] \in StepsOfA /\ pc'["B"] \in StepsOfB
      /\ pc'["A"] = step /\ pc'["B"] = pc["B"]
  BY <1>1, <1>2, GotoFacts DEF StepsOfA, Gone
<1>4. round["A"] \in Nat /\ round["A"] < Rounds /\ Rounds \in Nat
      /\ round["B"] \in Nat
  BY <1>1, TypeFacts DEF PeersInv, RoundsCounted, Gone
<1>5. /\ round' \in [Processes -> 0 .. Rounds]
      /\ round'["A"] = round["A"] + 1 /\ round'["B"] = round["B"]
  BY <1>1, <1>2, <1>4 DEF TypeOK
<1>6. roots \subseteq DOMAIN spans /\ i \in DOMAIN spans'
      /\ DOMAIN spans \subseteq DOMAIN spans' /\ roots' \cap DOMAIN spans = roots
  BY <1>1, <1>2 DEF TypeOK
<1>7. log' \in Seq([by : Processes, what : {"start", "end"}, span : DOMAIN spans'])
  BY <1>1, <1>2, <1>6, LogGrows
<1>8. TypeOK'
  BY <1>1, <1>2, <1>3, <1>5, <1>7 DEF TypeOK
<1>l. PICK l : l = Len(log) + 1
  OBVIOUS
<1>9. /\ \A x \in roots : ChildEnded(x) => ChildEnded(x)'
      /\ \A x \in Wrong' : x \in Wrong \/ x \notin DOMAIN spans \/ x = i
      /\ \A k \in DOMAIN log : \A q, w, x : /\ At(k, q, w, x)' <=> At(k, q, w, x)
                                            /\ Before(k, q, w, x)' <=> Before(k, q, w, x)
      /\ \A q, w, x : Before(l, q, w, x)' <=> Logged(q, w, x)
      /\ DOMAIN log = 1 .. Len(log) /\ DOMAIN log' = 1 .. l
      /\ Len(log) \in Nat
  BY <1>1, <1>2, <1>6, <1>l, EventFacts
<1>10. Wrong' \subseteq Wrong \cup {i}
  BY <1>2, <1>8, <1>9 DEF Wrong, TypeOK
<1>11. OwnSpans'
  BY <1>1, <1>2, <1>3 DEF OwnSpans, PeersInv
<1>12. Beginning'
  BY <1>1, <1>2, <1>3 DEF Beginning, Undisturbed, Started, PeersInv
<1>13. RoundsCounted'
  BY <1>3, <1>4, <1>5 DEF RoundsCounted, PeersInv, Gone
<1>14. \A p \in Processes : Frozen(p)' <=> Frozen(p)
  BY <1>1, <1>3 DEF Frozen
<1>15. Stopping'
  BY <1>1, <1>2, <1>3, <1>14 DEF Stopping, PeersInv, Frozen
<1>16. ASSUME ~Frozen("A"), ~Frozen("B") PROVE Lockstep' /\ Wrong' = {}
  <2>1. /\ pc["B"] \in {"recv", "done"} /\ toA = << >> /\ toB = << >>
        /\ round["B"] = round["A"] + 1 /\ ChildEnded(i) /\ Wrong = {}
    BY <1>1, <1>i, <1>16 DEF PeersInv, Lockstep
  <2>2. pc["B"] = "recv" <=> round["A"] + 1 < Rounds
    BY <1>4, <2>1 DEF PeersInv, RoundsCounted, Gone
  <2>3. Lockstep'
    BY <1>2, <1>3, <1>5, <2>1, <2>2 DEF Lockstep
  <2>4. EndedAfterChild(i)
    BY <1>1, <2>1 DEF Wrong
  <2>5. EndedAfterChild(i)'
    <3>1. SUFFICES ASSUME NEW k \in DOMAIN log', At(k, "A", "end", i)'
                   PROVE  \E j \in DOMAIN spans' \ roots' :
                             D!IsParent(i, j)' /\ Before(k, "B", "end", j)'
      BY DEF EndedAfterChild
    <3>2. \A j : D!IsParent(i, j)' <=> D!IsParent(i, j)
      BY <1>2 DEF D!IsParent
    <3>3. CASE k \in DOMAIN log
      BY <1>2, <1>9, <2>4, <3>1, <3>2, <3>3 DEF EndedAfterChild
    <3>4. CASE k = l
      BY <1>2, <1>9, <2>1, <3>2, <3>4 DEF ChildEnded
    <3> QED
      BY <1>l, <1>9, <3>3, <3>4
  <2> QED
    BY <1>1, <1>2, <1>10, <2>1, <2>3, <2>5 DEF Wrong
<1>17. Wrongs'
  <2>1. CASE Frozen("B")
    <3>1. Wrong = {}
      BY <1>1, <2>1 DEF PeersInv, Stopping, Frozen
    <3>2. i \in 0 .. Len(spans')
      BY <1>1, <1>2, <1>6, TypeFacts
    <3> QED
      BY <1>10, <3>1, <3>2 DEF Wrongs
  <2>2. CASE ~Frozen("B")
    <3>1. Wrong' = {}
      BY <1>1, <1>16, <2>2 DEF Frozen
    <3> QED
      BY <1>1, <1>2, <3>1, TypeFacts DEF Wrongs
  <2> QED
    BY <2>1, <2>2
<1> QED
  BY <1>8, <1>11, <1>12, <1>13, <1>14, <1>15, <1>16, <1>17 DEF PeersInv, Wrongs

-------------------------------------------------------------------------------
\* Nothing has happened yet.
LEMMA PeersInit == ASSUME Init PROVE PeersInv
<1> USE DEF Init, Processes
<1>1. TypeOK
  <2>1. Rounds \in Nat
    BY TestCAssumption
  <2>2. /\ pc \in [Processes -> StepsOfA \cup StepsOfB]
        /\ pc["A"] \in StepsOfA /\ pc["B"] \in StepsOfB
    BY DEF StepsOfA, StepsOfB
  <2>3. /\ round \in [Processes -> 0 .. Rounds]
        /\ spans \in Seq(D!Identity) /\ roots \subseteq DOMAIN spans
        /\ log \in Seq([by : Processes, what : {"start", "end"}, span : DOMAIN spans])
    BY <2>1
  <2>4. cur \in [Processes -> 0 .. Len(spans)]
    BY DEF TypeOK
  <2>5. /\ toA \in Seq({"*"}) /\ toB \in Seq(D!Identity)
        /\ Len(toA) + Len(toB) <= 1
    BY EmptySeq
  <2>6. oneProcess \in BOOLEAN /\ msg \in D!Identity
    BY TestCAssumption, GarbageFits
  <2> QED
    BY <2>2, <2>3, <2>4, <2>5, <2>6 DEF TypeOK
<1>2. Wrong = {}
  BY DEF Wrong
<1>3. OwnSpans /\ Beginning /\ RoundsCounted /\ Lockstep
  BY TestCAssumption DEF OwnSpans, Beginning, RoundsCounted, Lockstep, Gone, Frozen
<1>4. Stopping
  BY <1>2 DEF Stopping, Frozen
<1>5. Wrongs
  BY <1>1, <1>2, TypeFacts DEF Wrongs
<1> QED
  BY <1>1, <1>2, <1>3, <1>4, <1>5 DEF PeersInv, Wrongs

\* Every step of either peer, and every kill, keeps the invariant.
LEMMA PeersStep == PeersInv /\ [Next]_vars => PeersInv'
<1> SUFFICES ASSUME PeersInv, [Next]_vars PROVE PeersInv'
  OBVIOUS
<1>1. ASSUME StepA PROVE PeersInv'
  BY <1>1, InitLibraryKeeps, ConnectKeeps, AStartKeeps, TalkKeeps, EndKeeps, AEndKeeps
  DEF StepA
<1>2. ASSUME StepB PROVE PeersInv'
  BY <1>2, InitLibraryKeeps, ConnectKeeps, BStartKeeps, TalkKeeps, EndKeeps, BEndKeeps,
     ReplyKeeps
  DEF StepB
<1>3. ASSUME UNCHANGED vars PROVE PeersInv'
  <2>1. Wrong' = Wrong
    BY <1>3, QuietFacts DEF vars, spanVars
  <2>2. TypeOK' /\ OwnSpans' /\ Beginning' /\ RoundsCounted' /\ Stopping'
    BY <1>3, <2>1
    DEF vars, netVars, fixed, spanVars, PeersInv, TypeOK, OwnSpans, Beginning,
        Undisturbed, Started, RoundsCounted, Stopping, Frozen
  <2>3. Lockstep => Lockstep'
    BY <1>3, QuietFacts DEF vars, netVars, fixed, spanVars, Lockstep, ChildRuns, Logged, At
  <2> QED
    BY <1>3, <2>1, <2>2, <2>3 DEF vars, spanVars, PeersInv, Frozen
<1> QED
  BY <1>1, <1>2, <1>3, EndKeeps DEF Next

\* However the two interleave and whenever somebody is killed, for any number
\* of rounds and any identifiers: the invariant behind the two properties.
THEOREM PeersInvariant == Spec => []PeersInv
<1>1. Init => PeersInv
  BY PeersInit
<1>2. PeersInv /\ [Next]_vars => PeersInv'
  BY PeersStep
<1> QED
  BY <1>1, <1>2, PTL DEF Spec

\* As long as nobody was killed or gave up no span is wrong.
LEMMA NothingWrong ==
  ASSUME PeersInv, Undisturbed
  PROVE  Wrong = {}
<1>1. CASE connected
  BY <1>1 DEF PeersInv, Beginning, Undisturbed, Started, Frozen, Processes
<1>2. CASE ~connected
  BY <1>2 DEF PeersInv, Beginning, Wrong, TypeOK
<1>3. QED
  BY <1>1, <1>2

\* As long as nobody was killed or gave up, every span of B lies in the common
\* log inside the span of A that is its parent.
THEOREM SpansDoNest == Spec => []SpansNest
<1>1. PeersInv => SpansNest
  BY NothingWrong DEF SpansNest
<1> QED
  BY <1>1, PeersInvariant, PTL

\* A process killed at the worst moment makes the other record one span that is
\* wrong, and no second one.
THEOREM OneWrongSpan == Spec => []OneWrongSpanPerCrash
<1>1. PeersInv => OneWrongSpanPerCrash
  <2> SUFFICES ASSUME PeersInv PROVE Cardinality(Wrong) <= 1
    BY DEF OneWrongSpanPerCrash
  <2>1. PICK j : Wrong \subseteq {j}
    BY DEF PeersInv
  <2>2. CASE Wrong = {}
    BY <2>2, FS_EmptySet
  <2>3. CASE Wrong = {j}
    BY <2>3, FS_Singleton
  <2> QED
    BY <2>1, <2>2, <2>3
<1> QED
  BY <1>1, PeersInvariant, PTL

-------------------------------------------------------------------------------
\* As long as neither is stopped, whoever waits waits for the other one, whose
\* turn it is; when one is stopped, its sockets are closed and nobody waits.
LEMMA PeersServed == PeersInv => NobodyWaitsInVain
<1> SUFFICES ASSUME PeersInv, connected \/ oneProcess,
                    NEW p \in Processes, NEW q \in Processes, p # q, Waits(p)
             PROVE  pc[q] \notin Gone /\ ~Waits(q)
  BY DEF NobodyWaitsInVain
<1> USE DEF Processes
<1>1. TypeOK /\ Beginning /\ Stopping
  BY DEF PeersInv
<1>2. ~Frozen("A") /\ ~Frozen("B")
  <2>1. ASSUME Frozen("A") \/ Frozen("B") PROVE Frozen(q)
    BY <1>1, <2>1 DEF Stopping, Waits, Frozen, Closed, Gone
  <2>2. ASSUME Frozen(q) PROVE FALSE
    <3>1. Closed(q)
      BY <2>2 DEF Frozen, Closed, Gone
    <3>2. oneProcess => Frozen(p)
      BY <1>1, <2>2 DEF Stopping
    <3>3. ~Frozen(p)
      BY DEF Waits, Frozen
    <3>4. connected
      BY <3>2, <3>3
    <3>5. QED
      BY <1>1, <3>1, <3>4 DEF Waits, Beginning
  <2>3. QED
    BY <2>1, <2>2
<1>3. Lockstep
  BY <1>2 DEF PeersInv
<1>4. CASE p = "A" /\ pc["A"] = "accept" /\ ~connected
  <2>1. pc["B"] \in {"init", "connect"} /\ Listening
    BY <1>1, <1>2, <1>4 DEF Beginning, Listening, StepsOfA, Gone
  <2>2. QED
    BY <1>4, <2>1 DEF Waits, Gone
<1>5. CASE p = "A" /\ pc["A"] = "wait" /\ toA = << >>
  <2>1. \/ pc["B"] = "recv" /\ toB = << spans[cur["A"]] >>
        \/ pc["B"] \in {"start", "end", "reply"}
    BY <1>3, <1>5 DEF Lockstep
  <2>2. << spans[cur["A"]] >> # << >>
    OBVIOUS
  <2>3. QED
    BY <1>5, <2>1, <2>2 DEF Waits, Gone
<1>6. CASE p = "B" /\ pc["B"] = "init" /\ oneProcess /\ ~Listening
  <2>1. ~connected
    BY <1>1, <1>6 DEF Beginning
  <2>2. pc["A"] \in {"init", "listen"}
    BY <1>1, <1>2, <1>6, <2>1 DEF Beginning, Listening, StepsOfA, Gone
  <2>3. QED
    BY <1>6, <2>2 DEF Waits, Gone
<1>7. CASE p = "B" /\ pc["B"] = "recv" /\ toB = << >>
  <2>1. connected
    BY <1>1, <1>2, <1>7 DEF Beginning
  <2>2. << spans[cur["A"]] >> # << >> /\ << "*" >> # << >>
    OBVIOUS
  <2>3. \/ pc["A"] \in {"accept", "start", "send", "end"}
        \/ pc["A"] = "wait" /\ toA # << >>
    BY <1>1, <1>3, <1>7, <2>1, <2>2 DEF Lockstep, Beginning
  <2>4. QED
    BY <1>7, <2>1, <2>3 DEF Waits, Gone
<1>8. QED
  BY <1>4, <1>5, <1>6, <1>7 DEF Waits

LEMMA PeersServedNext == PeersInv' => NobodyWaitsInVain'
  BY PeersServed, PTL

\* Once they are connected, and in test.cc always, whoever waits has a partner
\* who is there and can go on: the two never wait for each other, for any
\* number of rounds and whoever is killed.
THEOREM NobodyHangs == Spec => []NobodyWaitsInVain
  BY PeersServed, PeersInvariant, PTL

\* What is left to do is counted by a number, and there is some while p is here.
LEMMA LeftType ==
  ASSUME PeersInv, NEW p \in Processes
  PROVE  /\ StepsLeft(p) \in Nat
         /\ pc[p] \notin Gone => StepsLeft(p) > 0
<1>1. Rounds \in Nat /\ round[p] \in 0 .. Rounds
  BY TestCAssumption DEF PeersInv, TypeOK
<1>2. StageOfA(pc[p]) \in 1 .. 7 /\ StageOfB(pc[p]) \in 1 .. 6
  BY DEF StageOfA, StageOfB
<1>3. 4 * (Rounds - round[p]) \in Nat
  BY <1>1
<1>4. QED
  BY <1>2, <1>3 DEF StepsLeft

\* Leaving takes all that is left of p, and never adds to what is left of others.
LEMMA LeaveLessens ==
  ASSUME PeersInv, NEW p \in Processes, NEW how \in Gone, Leave(p, how),
         UNCHANGED <<round, oneProcess>>
  PROVE  /\ StepsLeft(p)' = 0
         /\ Work' <= Work
         /\ pc[p] \notin Gone => Work' < Work
<1>1. /\ pc'[p] = how
      /\ \A q \in Processes : pc'[q] = pc[q] \/ pc'[q] = how
  BY DEF Leave, Processes, PeersInv, TypeOK
<1>2. \A q \in Processes : StepsLeft(q)' = 0 \/ StepsLeft(q)' = StepsLeft(q)
  BY <1>1 DEF StepsLeft
<1>3. StepsLeft(p)' = 0
  BY <1>1 DEF StepsLeft
<1>4. /\ StepsLeft("A") \in Nat /\ StepsLeft("B") \in Nat
      /\ pc[p] \notin Gone => StepsLeft(p) > 0
  BY LeftType DEF Processes
<1>5. QED
  BY <1>2, <1>3, <1>4 DEF Work, Processes

\* A step that does not leave brings its process one stage on, in this round or
\* from the last stage of this round to the first of the next.
LEMMA GotoLessens ==
  ASSUME PeersInv, NEW p \in Processes, NEW step, Goto(p, step),
         pc[p] \notin Gone,
         NEW before, NEW after,
         before = IF p = "A" THEN StageOfA(pc[p]) ELSE StageOfB(pc[p]),
         after = IF p = "A" THEN StageOfA(step) ELSE StageOfB(step),
         \/ round' = round /\ after < before
         \/ round' = [round EXCEPT ![p] = @ + 1] /\ after < before + 4
  PROVE  Work' < Work
<1>1. before \in 1 .. 7 /\ after \in 1 .. 7
  BY DEF StageOfA, StageOfB
<1>2. Rounds \in Nat /\ \A q \in Processes : round[q] \in 0 .. Rounds
  BY TestCAssumption DEF PeersInv, TypeOK
<1>3. pc'[p] = step /\ \A q \in Processes \ {p} : pc'[q] = pc[q]
  BY DEF Goto, PeersInv, TypeOK
<1>4. /\ \A q \in Processes \ {p} : round'[q] = round[q]
      /\ \/ round'[p] = round[p] /\ after < before
         \/ round'[p] = round[p] + 1 /\ after < before + 4
  BY DEF PeersInv, TypeOK
<1>5. \A q \in Processes \ {p} : StepsLeft(q)' = StepsLeft(q)
  BY <1>3, <1>4 DEF StepsLeft
<1>6. 4 * (Rounds - round'[p]) + after < 4 * (Rounds - round[p]) + before
  BY <1>1, <1>2, <1>4
<1>7. StepsLeft(p) = 4 * (Rounds - round[p]) + before
  BY DEF StepsLeft
<1>8. StepsLeft(p)' \in {0, 4 * (Rounds - round'[p]) + after}
  BY <1>3 DEF StepsLeft
<1>9. StepsLeft(p) > 0 /\ \A q \in Processes : StepsLeft(q) \in Nat
  BY LeftType
<1>10. StepsLeft(p)' < StepsLeft(p) /\ StepsLeft(p)' \in Int
  BY <1>1, <1>2, <1>4, <1>6, <1>7, <1>8, <1>9
<1>11. QED
  BY <1>5, <1>9, <1>10 DEF Work, Processes

\* Each of A's steps and each of B's is counted.
LEMMA WorkLess ==
  ASSUME PeersInv, StepA \/ StepB
  PROVE  Work' < Work
<1> USE DEF Processes
<1>1. ASSUME NEW p \in Processes, NEW step, InitLibrary(p, step), pc[p] = "init",
             step = IF p = "A" THEN "listen" ELSE "connect",
             UNCHANGED <<round, fixed>>
      PROVE  Work' < Work
  <2>1. CASE Leave(p, "exit")
    BY <1>1, <2>1, LeaveLessens DEF Gone, fixed
  <2>2. CASE Goto(p, step)
    BY <1>1, <2>2, GotoLessens DEF Gone, StageOfA, StageOfB
  <2>3. QED
    BY <1>1, <2>1, <2>2 DEF InitLibrary
<1>2. ASSUME AInit \/ BInit PROVE Work' < Work
  <2>1. CASE AInit
    BY <1>1, <2>1 DEF AInit
  <2>2. CASE BInit /\ InitLibrary("B", "connect")
    BY <1>1, <2>2 DEF BInit
  <2>3. CASE BInit /\ Goto("B", "connect")
    BY <2>3, GotoLessens DEF BInit, Gone, StageOfB
  <2>4. QED
    BY <1>2, <2>1, <2>2, <2>3 DEF BInit
<1>3. ASSUME AListen \/ AAccept \/ AStart \/ ASend \/ AWait \/ AWaitEof
      PROVE  Work' < Work
  <2>1. UNCHANGED round
    BY <1>3 DEF AListen, AAccept, AStart, ASend, AWait, AWaitEof
  <2>2. PICK step : /\ Goto("A", step)
                    /\ pc["A"] \notin Gone
                    /\ StageOfA(step) < StageOfA(pc["A"])
    BY <1>3 DEF AListen, AAccept, AStart, ASend, AWait, AWaitEof, Gone, StageOfA
  <2>3. QED
    BY <2>1, <2>2, GotoLessens
<1>4. ASSUME BConnect \/ BRecv \/ BRecvEof \/ BStart \/ BEnd
      PROVE  Work' < Work
  <2>1. UNCHANGED round
    BY <1>4 DEF BConnect, BRecv, BRecvEof, BStart, BEnd
  <2>2. PICK step : /\ Goto("B", step)
                    /\ pc["B"] \notin Gone
                    /\ StageOfB(step) < StageOfB(pc["B"])
    BY <1>4 DEF BConnect, BRecv, BRecvEof, BStart, BEnd, Gone, StageOfB
  <2>3. QED
    BY <2>1, <2>2, GotoLessens
<1>5. ASSUME \/ AListenFails \/ AAcceptFails \/ ASendFails
             \/ BConnectFails \/ BReplyFails
      PROVE  Work' < Work
  BY <1>5, LeaveLessens
  DEF AListenFails, AAcceptFails, ASendFails, BConnectFails, BReplyFails, fixed, Gone
<1>6. ASSUME AEnd \/ BReply PROVE Work' < Work
  <2>1. CASE AEnd
    <3>1. NextRound("A", "start") /\ pc["A"] = "end"
      BY <2>1 DEF AEnd
    <3>2. PICK step \in {"start", "done"} :
             Goto("A", step) /\ round' = [round EXCEPT !["A"] = @ + 1]
      BY <3>1 DEF NextRound
    <3>3. StageOfA(step) < StageOfA("end") + 4
      BY DEF StageOfA
    <3>4. QED
      BY <3>1, <3>2, <3>3, GotoLessens DEF Gone
  <2>2. CASE BReply
    <3>1. NextRound("B", "recv") /\ pc["B"] = "reply"
      BY <2>2 DEF BReply
    <3>2. PICK step \in {"recv", "done"} :
             Goto("B", step) /\ round' = [round EXCEPT !["B"] = @ + 1]
      BY <3>1 DEF NextRound
    <3>3. StageOfB(step) < StageOfB("reply") + 4
      BY DEF StageOfB
    <3>4. QED
      BY <3>1, <3>2, <3>3, GotoLessens DEF Gone
  <2>3. QED
    BY <1>6, <2>1, <2>2
<1>7. QED
  BY <1>2, <1>3, <1>4, <1>5, <1>6 DEF StepA, StepB

\* However they interleave, the peers take at most 8 * Rounds + 13 steps: each
\* one is counted down, whatever is killed.  With NobodyHangs this is all of
\* CompletesListening but the scheduler that lets who can go on go on.
THEOREM StepsRunOut == Spec => [](Work \in 0 .. 8 * Rounds + 13) /\ EveryStepCounts
<1>1. PeersInv => Work \in 0 .. 8 * Rounds + 13
  <2> SUFFICES ASSUME PeersInv PROVE Work \in 0 .. 8 * Rounds + 13
    OBVIOUS
  <2>1. /\ Rounds \in Nat
        /\ \A p \in Processes : round[p] \in 0 .. Rounds /\ StepsLeft(p) \in Nat
    BY LeftType, TestCAssumption DEF PeersInv, TypeOK
  <2>2. StageOfA(pc["A"]) \in 1 .. 7 /\ StageOfB(pc["B"]) \in 1 .. 6
    BY DEF StageOfA, StageOfB
  <2>3. StepsLeft("A") <= 4 * Rounds + 7
    BY <2>1, <2>2 DEF StepsLeft, Processes
  <2>4. StepsLeft("B") <= 4 * Rounds + 6
    BY <2>1, <2>2 DEF StepsLeft, Processes
  <2>5. QED
    BY <2>1, <2>3, <2>4 DEF Work, Processes
<1>2. PeersInv' => (Work \in 0 .. 8 * Rounds + 13)'
  BY <1>1, PTL
<1>3. PeersInv /\ [Next]_vars =>
         [/\ StepA \/ StepB => Work' < Work
          /\ Work' <= Work]_vars
  <2> SUFFICES ASSUME PeersInv, Next
               PROVE  /\ StepA \/ StepB => Work' < Work
                      /\ Work' <= Work
    BY DEF vars
  <2>1. Work \in Nat /\ Work' \in Nat
    BY <1>1, <1>2, PeersStep, TestCAssumption
  <2>2. ASSUME StepA \/ StepB PROVE Work' < Work /\ Work' <= Work
    <3>1. Work' < Work
      BY <2>2, WorkLess
    <3>2. QED
      BY <2>1, <3>1
  <2>3. ASSUME NEW p \in Processes, Kill(p) PROVE Work' <= Work
    BY <2>3, LeaveLessens DEF Kill, Gone
  <2>4. QED
    BY <2>2, <2>3 DEF Next
<1>4. QED
  BY <1>1, <1>3, PeersInvariant, PTL DEF Spec, EveryStepCounts

-------------------------------------------------------------------------------
\* A log that grew by one event of p's span s, while spans were at most added to.
LEMMA SoundAppend ==
  ASSUME TypeOK, LogSound, NEW p \in Processes, NEW what \in {"start", "end"}, NEW s,
         Event(p, what, s),
         roots \subseteq roots', roots' \cap DOMAIN spans = roots,
         \A i \in roots' : spans'[i].parent_span_id = Zero,
         p = "A" <=> s \in roots',
         what = "start" => s \notin DOMAIN spans
  PROVE  LogSound'
<1>1. /\ Len(log) \in Nat
      /\ DOMAIN log = 1 .. Len(log)
      /\ DOMAIN log' = 1 .. Len(log) + 1
      /\ \A k \in DOMAIN log : log'[k] = log[k]
      /\ log'[Len(log) + 1] = [by |-> p, what |-> what, span |-> s]
  BY EventAppends
<1>2. \A k \in DOMAIN log : log[k].span \in DOMAIN spans
  BY LoggedSpans
<1>3. \A k \in DOMAIN log' : log'[k].by = "A" <=> log'[k].span \in roots'
  <2> TAKE k \in DOMAIN log'
  <2>1. CASE k \in DOMAIN log
    BY <1>1, <1>2, <2>1 DEF LogSound
  <2>2. CASE k = Len(log) + 1
    BY <1>1, <2>2
  <2>3. QED
    BY <1>1, <2>1, <2>2
<1>4. \A k, l \in DOMAIN log' :
         log'[k].what = "start" /\ log'[l] = log'[k] => k = l
  <2> SUFFICES ASSUME NEW k \in DOMAIN log', NEW l \in DOMAIN log',
                      log'[k].what = "start", log'[l] = log'[k]
               PROVE  k = l
    OBVIOUS
  <2>1. CASE k \in DOMAIN log /\ l \in DOMAIN log
    BY <1>1, <2>1 DEF LogSound
  <2>2. CASE k = Len(log) + 1 /\ l = Len(log) + 1
    BY <2>2
  <2>3. CASE k = Len(log) + 1 /\ l \in DOMAIN log
    BY <1>1, <1>2, <2>3
  <2>4. CASE k \in DOMAIN log /\ l = Len(log) + 1
    BY <1>1, <1>2, <2>4
  <2>5. QED
    BY <1>1, <2>1, <2>2, <2>3, <2>4
<1>5. QED
  BY <1>3, <1>4 DEF LogSound

\* Each step keeps what the log says of the spans.
LEMMA LogSoundStep ==
  ASSUME PeersInv, LogSound, [Next]_vars
  PROVE  LogSound'
<1>1. TypeOK /\ OwnSpans
  BY DEF PeersInv
<1>2. ASSUME UNCHANGED <<log, spans, roots>> PROVE LogSound'
  BY <1>2 DEF LogSound
<1>3. ASSUME AStart PROVE LogSound'
  <2> DEFINE n == Len(spans) + 1
  <2>1. PICK tid \in Ids, sid \in Ids : spans' = Append(spans, D!Root(tid, sid))
    BY <1>3 DEF AStart
  <2>2. roots' = roots \cup {n} /\ Event("A", "start", n)
    BY <1>3 DEF AStart
  <2>3. D!Root(tid, sid) \in D!Identity /\ D!Root(tid, sid).parent_span_id = Zero
    BY TestCAssumption DEF D!Root, D!Identity
  <2>4. /\ Len(spans) \in Nat /\ DOMAIN spans = 1 .. Len(spans)
        /\ \A i \in DOMAIN spans : spans'[i] = spans[i]
        /\ spans'[n] = D!Root(tid, sid)
    BY <1>1, <2>1, <2>3, Grown DEF TypeOK
  <2>5. n \notin DOMAIN spans /\ roots \subseteq DOMAIN spans
    BY <1>1, <2>4 DEF TypeOK
  <2>6. \A i \in roots' : spans'[i].parent_span_id = Zero
    BY <2>2, <2>3, <2>4, <2>5 DEF LogSound
  <2> HIDE DEF n
  <2>7. QED
    BY <1>1, <2>2, <2>5, <2>6, SoundAppend DEF Processes
<1>4. ASSUME BStart PROVE LogSound'
  <2> DEFINE n == Len(spans) + 1
  <2>1. PICK sid \in Ids : spans' = Append(spans, D!ChildOf(msg, sid))
    BY <1>4 DEF BStart
  <2>2. roots' = roots /\ Event("B", "start", n)
    BY <1>4 DEF BStart
  <2>3. D!ChildOf(msg, sid) \in D!Identity
    BY <1>1 DEF D!ChildOf, D!Identity, TypeOK
  <2>4. /\ Len(spans) \in Nat /\ DOMAIN spans = 1 .. Len(spans)
        /\ \A i \in DOMAIN spans : spans'[i] = spans[i]
    BY <1>1, <2>1, <2>3, Grown DEF TypeOK
  <2>5. n \notin DOMAIN spans /\ roots \subseteq DOMAIN spans
    BY <1>1, <2>4 DEF TypeOK
  <2>6. \A i \in roots' : spans'[i].parent_span_id = Zero
    BY <2>2, <2>4, <2>5 DEF LogSound
  <2> HIDE DEF n
  <2>7. QED
    BY <1>1, <2>2, <2>5, <2>6, SoundAppend DEF Processes
<1>5. ASSUME AEnd \/ BEnd PROVE LogSound'
  <2> DEFINE p == IF AEnd THEN "A" ELSE "B"
  <2>1. /\ Event(p, "end", cur[p]) /\ UNCHANGED spanVars
        /\ p \in Processes /\ (p = "A" <=> cur[p] \in roots)
    BY <1>1, <1>5 DEF AEnd, BEnd, OwnSpans, Processes
  <2>2. roots \subseteq DOMAIN spans
    BY <1>1 DEF TypeOK
  <2> HIDE DEF p
  <2>3. QED
    BY <1>1, <2>1, <2>2, SoundAppend DEF spanVars, LogSound
<1>6. ASSUME Next, ~AStart, ~BStart, ~AEnd, ~BEnd PROVE UNCHANGED <<log, spans, roots>>
  BY <1>6 DEF Next, StepA, StepB, AInit, AListen, AListenFails, AAccept, AAcceptFails,
     ASend, ASendFails, AWait, AWaitEof, BInit, BConnect, BConnectFails, BRecv,
     BRecvEof, BReply, BReplyFails,
     Kill, spanVars
<1>7. QED
  BY <1>2, <1>3, <1>4, <1>5, <1>6 DEF vars, spanVars

-------------------------------------------------------------------------------
\* What a process can have logged is a number.
LEMMA EmittedType ==
  ASSUME TypeOK, RoundsCounted, NEW p \in Processes
  PROVE  Emitted(p) \in Nat /\ Emitted(p) <= 2 * Rounds
<1>1. /\ round[p] \in Nat /\ round[p] <= Rounds /\ Rounds \in Nat
      /\ pc[p] \in {"send", "wait", "end", "reply"} => round[p] < Rounds
  BY TypeFacts DEF RoundsCounted, Processes, Gone
<1>2. QED
  BY <1>1 DEF Emitted

\* A step that logs nothing takes nothing back.
LEMMA EmittedKept ==
  ASSUME TypeOK, RoundsCounted, NEW p \in Processes, round' = round,
         \/ pc'[p] = pc[p]
         \/ pc'[p] \in {"exit", "dead"}
         \/ pc[p] \notin {"send", "wait", "end", "reply", "exit", "dead"}
         \/ pc[p] \in {"send", "wait", "end"} /\ pc'[p] \in {"send", "wait", "end", "reply"}
  PROVE  Emitted(p)' >= Emitted(p)
<1>1. /\ round[p] \in Nat /\ round[p] <= Rounds /\ Rounds \in Nat
      /\ pc[p] \in {"send", "wait", "end", "reply"} => round[p] < Rounds
  BY TypeFacts DEF RoundsCounted, Processes, Gone
<1>2. QED
  BY <1>1 DEF Emitted, Frozen

\* Events are counted by the rounds of the two.
LEMMA LogBoundedStep ==
  ASSUME PeersInv, LogBounded, [Next]_vars
  PROVE  LogBounded'
<1>1. TypeOK /\ RoundsCounted /\ TypeOK' /\ RoundsCounted'
  BY PeersStep DEF PeersInv
<1>2. /\ Len(log) \in Nat /\ Len(log) <= Emitted("A") + Emitted("B")
      /\ \A p \in Processes : Emitted(p) \in Nat /\ Emitted(p)' \in Nat
  <2>1. \A p \in Processes : Emitted(p) \in Nat
    BY <1>1, EmittedType
  <2>2. ASSUME NEW p \in Processes PROVE Emitted(p)' \in Nat
    <3>1. round'[p] \in 0 .. Rounds /\ Rounds \in Nat
      BY <1>1, TestCAssumption DEF TypeOK
    <3>2. QED
      BY <3>1 DEF Emitted
  <2>3. QED
    BY <1>1, <2>1, <2>2, TypeFacts DEF LogBounded
<1>3. ASSUME UNCHANGED <<log, round>>,
             \A p \in Processes :
                \/ pc'[p] = pc[p]
                \/ pc'[p] \in {"exit", "dead"}
                \/ pc[p] \notin {"send", "wait", "end", "reply", "exit", "dead"}
                \/ pc[p] \in {"send", "wait", "end"} /\ pc'[p] \in {"send", "wait", "end", "reply"}
      PROVE  LogBounded'
  <2>1. \A p \in Processes : Emitted(p)' >= Emitted(p)
    BY <1>1, <1>3, EmittedKept
  <2>2. QED
    BY <1>2, <1>3, <2>1 DEF LogBounded, Processes
<1>4. ASSUME NEW p \in Processes, NEW q \in Processes, p # q,
             NEW what \in {"start", "end"}, NEW s, Event(p, what, s),
             pc'[q] = pc[q], round'[q] = round[q],
             Emitted(p)' >= Emitted(p) + 1
      PROVE  LogBounded'
  <2>1. Len(log') = Len(log) + 1
    BY <1>1, <1>4, EventAppends
  <2>2. Emitted(q)' = Emitted(q)
    BY <1>4 DEF Emitted, Frozen
  <2>3. QED
    BY <1>2, <1>4, <2>1, <2>2 DEF LogBounded, Processes
<1>5. ASSUME NEW p \in Processes, Event(p, "start", Len(spans) + 1), round' = round,
             pc[p] = "start", Goto(p, IF p = "A" THEN "send" ELSE "end")
      PROVE  LogBounded'
  <2>1. /\ pc'[p] = IF p = "A" THEN "send" ELSE "end"
        /\ \A q \in Processes \ {p} : pc'[q] = pc[q]
    BY <1>1, <1>5, GotoFacts DEF StepsOfA, StepsOfB
  <2>2. round[p] \in Nat
    BY <1>1, TypeFacts DEF Processes
  <2>3. Emitted(p)' >= Emitted(p) + 1
    BY <1>5, <2>1, <2>2 DEF Emitted, Frozen
  <2>4. QED
    BY <1>4, <1>5, <2>1, <2>3 DEF Processes
<1>6. ASSUME AEnd PROVE LogBounded'
  <2>1. /\ Event("A", "end", cur["A"]) /\ pc["A"] = "end"
        /\ round' = [round EXCEPT !["A"] = @ + 1]
        /\ Goto("A", IF round["A"] + 1 < Rounds THEN "start" ELSE "done")
    BY <1>6 DEF AEnd, NextRound
  <2>2. round["A"] \in Nat /\ round'["A"] = round["A"] + 1 /\ round'["B"] = round["B"]
    BY <1>1, <2>1, TypeFacts DEF TypeOK, Processes
  <2>3. pc'["A"] \in {"start", "done"} /\ pc'["B"] = pc["B"]
    BY <1>1, <2>1, GotoFacts DEF StepsOfA, Gone, Processes
  <2>4. Emitted("A")' >= Emitted("A") + 1
    BY <2>1, <2>2, <2>3 DEF Emitted, Frozen
  <2>5. QED
    BY <1>4, <2>1, <2>2, <2>3, <2>4 DEF Processes
<1>7. ASSUME BEnd PROVE LogBounded'
  <2>1. /\ Event("B", "end", cur["B"]) /\ pc["B"] = "end"
        /\ round' = round /\ Goto("B", "reply")
    BY <1>7 DEF BEnd
  <2>2. round["B"] \in Nat
    BY <1>1, TypeFacts
  <2>3. pc'["B"] = "reply" /\ pc'["A"] = pc["A"]
    BY <1>1, <2>1, GotoFacts DEF StepsOfB, Processes
  <2>4. Emitted("B")' >= Emitted("B") + 1
    BY <2>1, <2>2, <2>3 DEF Emitted, Frozen
  <2>5. QED
    BY <1>4, <2>1, <2>3, <2>4 DEF Processes
<1>8. ASSUME BReply PROVE LogBounded'
  <2>1. /\ pc["B"] = "reply" /\ log' = log
        /\ round' = [round EXCEPT !["B"] = @ + 1]
        /\ Goto("B", IF round["B"] + 1 < Rounds THEN "recv" ELSE "done")
    BY <1>8 DEF BReply, NextRound
  <2>2. round["B"] \in Nat /\ round'["B"] = round["B"] + 1 /\ round'["A"] = round["A"]
    BY <1>1, <2>1, TypeFacts DEF TypeOK, Processes
  <2>3. pc'["B"] \in {"recv", "done"} /\ pc'["A"] = pc["A"]
    BY <1>1, <2>1, GotoFacts DEF StepsOfB, Gone, Processes
  <2>4. Emitted("B")' = Emitted("B") /\ Emitted("A")' = Emitted("A")
    BY <2>1, <2>2, <2>3 DEF Emitted, Frozen
  <2>5. QED
    BY <2>1, <2>4 DEF LogBounded
<1>9. ASSUME NEW p \in Processes, NEW step, Goto(p, step),
             step \in IF p = "A" THEN StepsOfA ELSE StepsOfB,
             \/ pc[p] \notin {"send", "wait", "end", "reply", "exit", "dead"}
             \/ pc[p] \in {"send", "wait", "end"} /\ step \in {"send", "wait", "end"},
             UNCHANGED <<log, round>>
      PROVE  LogBounded'
  <2>1. pc'[p] = step /\ \A q \in Processes \ {p} : pc'[q] = pc[q]
    BY <1>1, <1>9, GotoFacts
  <2>2. QED
    BY <1>3, <1>9, <2>1
<1>10. ASSUME NEW p \in Processes, NEW how \in {"exit", "dead"}, Leave(p, how),
              UNCHANGED <<log, round>>
       PROVE  LogBounded'
  <2>1. pc'[p] = how /\ \A q \in Processes \ {p} :
                           pc'[q] = IF oneProcess THEN how ELSE pc[q]
    BY <1>1, <1>10, LeaveFacts
  <2>2. QED
    BY <1>3, <1>10, <2>1
<1>11. ASSUME AInit \/ BInit PROVE LogBounded'
  BY <1>9, <1>10, <1>11 DEF AInit, BInit, InitLibrary, Processes, StepsOfA, StepsOfB
<1>12. ASSUME AListen \/ AAccept \/ ASend \/ AWait \/ AWaitEof PROVE LogBounded'
  BY <1>9, <1>12 DEF AListen, AAccept, ASend, AWait, AWaitEof, Processes, StepsOfA
<1>13. ASSUME BConnect \/ BRecv \/ BRecvEof PROVE LogBounded'
  BY <1>9, <1>13 DEF BConnect, BRecv, BRecvEof, Processes, StepsOfB
<1>14. ASSUME \/ AListenFails \/ AAcceptFails \/ ASendFails
              \/ BConnectFails \/ BReplyFails
              \/ \E p \in Processes : Kill(p)
       PROVE  LogBounded'
  BY <1>10, <1>14
  DEF AListenFails, AAcceptFails, ASendFails, BConnectFails, BReplyFails, Kill, Processes
<1>15. ASSUME UNCHANGED vars PROVE LogBounded'
  BY <1>3, <1>15 DEF vars
<1>16. ASSUME AStart \/ BStart PROVE LogBounded'
  BY <1>5, <1>16 DEF AStart, BStart, Processes
<1>17. QED
  BY <1>16, <1>6, <1>7, <1>8, <1>11, <1>12, <1>13, <1>14, <1>15
  DEF Next, StepA, StepB

\* A trace is never longer than four events a round.
LEMMA LogFits ==
  ASSUME PeersInv, LogBounded
  PROVE  Len(log) \in Nat /\ Len(log) <= 4 * Rounds
<1>1. /\ Emitted("A") \in Nat /\ Emitted("A") <= 2 * Rounds
      /\ Emitted("B") \in Nat /\ Emitted("B") <= 2 * Rounds
  BY EmittedType DEF PeersInv, Processes
<1>2. Len(log) \in Nat /\ Rounds \in Nat
  BY TypeFacts DEF PeersInv
<1>3. QED
  BY <1>1, <1>2 DEF LogBounded

-------------------------------------------------------------------------------
\* What the plugin is proved from holds of the traces of these programs.
LEMMA PluginAssumption == BP!BabeltraceAssumption
  BY TestCAssumption, PipelineAssumption
  DEF BP!BabeltraceAssumption, BP!Groups, ProviderEvents

\* The two instances of the plugin are one.
LEMMA SameConvert ==
  /\ \A e : B!Ours(e) <=> BP!Ours(e)
  /\ \A e : B!Takes(e) <=> BP!Takes(e)
  /\ \A e : B!Convert(e) = BP!Convert(e)
  /\ B!Here = BP!Here
  /\ B!AtEvent <=> BP!AtEvent
  BY DEF B!Ours, BP!Ours, B!Takes, BP!Takes, B!ZipkinTakes, BP!ZipkinTakes, B!JsonTakes,
     BP!JsonTakes, B!Convert, BP!Convert, B!Plain, BP!Plain, B!Here, BP!Here, B!AtEvent,
     BP!AtEvent

\* So are their invariants, ...
LEMMA SameInv == B!BabeltraceInv <=> BP!BabeltraceInv
<1>1. B!TypeOK <=> BP!TypeOK
  BY DEF B!TypeOK, BP!TypeOK, B!Phases, BP!Phases, B!Over, BP!Over, B!Entry, BP!Entry,
     B!Message, BP!Message, B!Place, BP!Place
<1>2. B!InTimeOrder(trace) <=> BP!InTimeOrder(trace)
  BY DEF B!InTimeOrder, BP!InTimeOrder
<1>3. B!StoredInOrder <=> BP!StoredInOrder
  BY SameConvert DEF B!StoredInOrder, BP!StoredInOrder
<1>4. B!NothingSkipped <=> BP!NothingSkipped
  BY SameConvert DEF B!NothingSkipped, BP!NothingSkipped, B!Handled, BP!Handled,
     B!HandledIn, BP!HandledIn
<1>5. B!StoredSoFar <=> BP!StoredSoFar
  BY DEF B!StoredSoFar, BP!StoredSoFar
<1>6. B!AnswerIsHandled <=> BP!AnswerIsHandled
  BY DEF B!AnswerIsHandled, BP!AnswerIsHandled, B!Handled, BP!Handled,
     B!HandledIn, BP!HandledIn
<1>7. B!PrefixTaken <=> BP!PrefixTaken
  BY SameConvert DEF B!PrefixTaken, BP!PrefixTaken
<1>8. B!StoredPrefixTaken <=> BP!StoredPrefixTaken
  BY SameConvert DEF B!StoredPrefixTaken, BP!StoredPrefixTaken
<1>9. QED
  BY <1>1, <1>2, <1>3, <1>4, <1>5, <1>6, <1>7, <1>8 DEF B!BabeltraceInv, BP!BabeltraceInv

\* ... their initial states ...
LEMMA SameInit == B!Init <=> BP!Init
  BY DEF B!Init, BP!Init, B!InTimeOrder, BP!InTimeOrder

\* ... and their steps, action by action.
LEMMA SameNext == B!Next <=> BP!Next
<1> USE SameConvert DEF B!fixed, BP!fixed, B!scribe, BP!scribe
<1>1. B!Open <=> BP!Open
  BY DEF B!Open, BP!Open
<1>2. B!OpenFails <=> BP!OpenFails
  BY DEF B!OpenFails, BP!OpenFails
<1>3. B!Skip <=> BP!Skip
  BY DEF B!Skip, BP!Skip
<1>4. B!Reject <=> BP!Reject
  BY DEF B!Reject, BP!Reject
<1>5. B!Send <=> BP!Send
  BY DEF B!Send, BP!Send
<1>6. B!SendFails <=> BP!SendFails
  BY DEF B!SendFails, BP!SendFails
<1>7. B!Answered <=> BP!Answered
  BY DEF B!Answered, BP!Answered
<1>8. B!AnswerLost <=> BP!AnswerLost
  BY DEF B!AnswerLost, BP!AnswerLost
<1>9. B!Finish <=> BP!Finish
  BY DEF B!Finish, BP!Finish
<1>10. B!Accept <=> BP!Accept
  BY DEF B!Accept, BP!Accept
<1>11. B!TryLater <=> BP!TryLater
  BY DEF B!TryLater, BP!TryLater
<1>12. B!Break <=> BP!Break
  BY DEF B!Break, BP!Break
<1>13. B!Again <=> BP!Again
  BY DEF B!Again, BP!Again, B!Over, BP!Over
<1>14. QED
  BY <1>1, <1>2, <1>3, <1>4, <1>5, <1>6, <1>7, <1>8, <1>9, <1>10, <1>11, <1>12, <1>13
  DEF B!Next, BP!Next, B!Step, BP!Step

\* What BabeltraceProofs shows of the plugin, said of the instance in Pipeline.
LEMMA PluginInit == B!Init => B!BabeltraceInv
<1>1. BP!Init => BP!BabeltraceInv
  BY PluginAssumption, BP!InitBabeltrace DEF BP!BabeltraceAssumption
<1>2. QED
  BY <1>1, SameInit, SameInv

\* The same for its steps.
LEMMA PluginStep == B!BabeltraceInv /\ [B!Next]_pluginVars => B!BabeltraceInv'
<1>1. [B!Next]_pluginVars => [BP!Next]_(BP!vars)
  BY SameNext DEF pluginVars, BP!vars
<1>2. ASSUME BP!BabeltraceInv, [BP!Next]_(BP!vars) PROVE BP!BabeltraceInv'
  BY <1>2, PluginAssumption, BP!BabeltraceStep
<1>3. B!BabeltraceInv' <=> BP!BabeltraceInv'
  BY SameInv, PTL
<1>4. QED
  BY <1>1, <1>2, <1>3, SameInv

-------------------------------------------------------------------------------
\* What the provider records of an event of the log: the plugin takes it, and
\* times go up.
LEMMA YieldedFacts ==
  ASSUME TypeOK, NEW k \in DOMAIN log
  PROVE  /\ Yielded(k) \in ProviderEvents
         /\ Yielded(k).ts = 1000 + Tick * k
         /\ \A l \in DOMAIN log : k < l => Yielded(k).ts <= Yielded(l).ts
         /\ plugin = "zipkin" => B!Ours(Yielded(k)) /\ B!Takes(Yielded(k))
<1>1. /\ log[k].by \in Processes /\ log[k].what \in {"start", "end"}
      /\ log[k].span \in DOMAIN spans
  BY LoggedSpans
<1>2. spans[log[k].span] \in D!Identity
  BY <1>1, ElementOfSeq, TypeFacts DEF TypeOK
<1>3. DOMAIN log = 1 .. Len(log) /\ Len(log) \in Nat /\ Tick \in Nat
  BY TypeFacts, PipelineAssumption
<1>4. \A l \in DOMAIN log : Tick * l \in Nat /\ 1000 + Tick * l \in Nat
  BY <1>3
<1>5. Yielded(k).ts = 1000 + Tick * k
  BY DEF Yielded, Timestamp
<1>6. ASSUME NEW l \in DOMAIN log, k < l
      PROVE  Yielded(k).ts <= Yielded(l).ts
  <2>1. Yielded(l).ts = 1000 + Tick * l
    BY DEF Yielded, Timestamp
  <2>2. k \in Nat /\ l \in Nat /\ k <= l
    BY <1>3, <1>6
  <2>3. Tick * k <= Tick * l
    BY <1>3, <2>2
  <2>4. QED
    BY <1>4, <1>5, <2>1, <2>3
<1>7. Yielded(k) \in ProviderEvents
  <2>1. /\ TraceName[log[k].by] \in Texts /\ ServiceName[log[k].by] \in Texts
        /\ log[k].what \in Texts /\ Port[log[k].by] \in Int
    BY <1>1 DEF Texts, TraceName, ServiceName, Port, Processes
  <2>2. QED
    BY <1>2, <1>4, <2>1 DEF Yielded, Timestamp, ProviderEvents, D!Identity
<1>8. ASSUME plugin = "zipkin" PROVE B!Ours(Yielded(k)) /\ B!Takes(Yielded(k))
  <2>1. Port["A"] = 5000 /\ Port["B"] = 5001
    BY DEF Port
  <2>2. Port[log[k].by] \in {5000, 5001}
    BY <1>1, <2>1 DEF Processes
  <2>3. -32768 <= Yielded(k).port /\ Yielded(k).port <= 32767
    <3>1. Yielded(k).port = Port[log[k].by]
      BY DEF Yielded, Timestamp
    <3>2. QED
      BY <2>2, <3>1
  <2>4. Yielded(k).ts >= 1000
    BY <1>4, <1>5, <1>3
  <2>5. /\ Yielded(k).provider = "zipkin" /\ Yielded(k).kind = "timestamp"
        /\ Yielded(k).fields = {"identity", "host", "event"} /\ Yielded(k).ip = "dotted"
    BY DEF Yielded, Timestamp
  <2>6. B!ZipkinTakes(Yielded(k))
    BY <2>3, <2>4, <2>5 DEF B!ZipkinTakes
  <2>7. QED
    BY <1>8, <2>5, <2>6 DEF B!Ours, B!Takes
<1>9. QED
  BY <1>5, <1>6, <1>7, <1>8

\* The trace that is collected is one the plugin is proved for.
LEMMA CollectedTrace ==
  ASSUME TypeOK, Collected
  PROVE  /\ DOMAIN trace = DOMAIN log
         /\ \A k \in DOMAIN log : trace[k] = Yielded(k)
         /\ DOMAIN log = 1 .. Len(log) /\ Len(log) \in Nat
         /\ Len(trace) = Len(log)
<1>1. DOMAIN log = 1 .. Len(log) /\ Len(log) \in Nat
  BY TypeFacts
<1>2. QED
  BY <1>1 DEF Collected

-------------------------------------------------------------------------------
\* Nothing was logged and nothing collected.
LEMMA PipelineInitInv == PipelineInit => PipelineInv
<1> SUFFICES ASSUME PipelineInit PROVE PipelineInv
  OBVIOUS
<1>1. Init /\ B!Init /\ trace = << >> /\ collected = FALSE
  BY DEF PipelineInit
<1>2. PeersInv
  BY <1>1, PeersInit
<1>3. LogSound /\ LogBounded
  <2>1. log = << >> /\ roots = {}
    BY <1>1 DEF Init
  <2>2. LogSound
    BY <2>1 DEF LogSound
  <2>3. Emitted("A") \in Nat /\ Emitted("B") \in Nat
    BY <1>2, EmittedType DEF PeersInv, Processes
  <2>4. QED
    BY <2>1, <2>2, <2>3 DEF LogBounded
<1>4. NotCollected /\ plugin = "zipkin" /\ ~up
  BY <1>1 DEF B!Init, NotCollected
<1>5. B!BabeltraceInv
  BY <1>1, PluginInit
<1>6. QED
  BY <1>1, <1>2, <1>3, <1>4, <1>5, PeersServed DEF PipelineInv

\* While the programs run, the plugin has nothing to do.
LEMMA ProgramsKeep ==
  ASSUME PipelineInv, Programs
  PROVE  PipelineInv'
<1>1. ~collected /\ Next /\ UNCHANGED <<collected, pluginVars>>
  BY DEF Programs
<1>2. PeersInv' /\ NobodyWaitsInVain' /\ LogSound' /\ LogBounded'
  BY <1>1, PeersStep, PeersServedNext, LogSoundStep, LogBoundedStep DEF PipelineInv
<1>3. B!BabeltraceInv'
  BY <1>1, PluginStep DEF PipelineInv
<1>4. NotCollected'
  BY <1>1 DEF PipelineInv, NotCollected, pluginVars
<1>5. QED
  BY <1>1, <1>2, <1>3, <1>4 DEF PipelineInv, pluginVars

\* The peers and their log stay as they are while the trace is read.
LEMMA PeersStay ==
  ASSUME PipelineInv, UNCHANGED vars
  PROVE  PeersInv' /\ NobodyWaitsInVain' /\ LogSound' /\ LogBounded'
  BY PeersStep, PeersServedNext, LogSoundStep, LogBoundedStep DEF PipelineInv

\* The log becomes the trace, and the plugin stands before it as in its Init.
LEMMA CollectKeeps ==
  ASSUME PipelineInv, Collect
  PROVE  PipelineInv'
<1>1. /\ ~collected /\ collected' = TRUE
      /\ trace' = [k \in DOMAIN log |-> Yielded(k)]
      /\ UNCHANGED <<vars, plugin, run, phase, pos, up, reply, stored, refused>>
  BY DEF Collect
<1>2. PeersInv' /\ NobodyWaitsInVain' /\ LogSound' /\ LogBounded'
  BY <1>1, PeersStay
<1>3. TypeOK /\ NotCollected /\ plugin = "zipkin"
  BY <1>1 DEF PipelineInv, PeersInv
<1>4. Collected'
  BY <1>1 DEF Collected, Yielded, vars
<1>5. DOMAIN log = 1 .. Len(log) /\ Len(log) \in 0 .. MaxEvents
  <2>1. Len(log) \in Nat /\ Len(log) <= 4 * Rounds
    BY LogFits DEF PipelineInv
  <2>2. QED
    BY <1>3, <2>1, TypeFacts, PipelineAssumption
<1>6. trace' \in [1 .. Len(log) -> ProviderEvents]
  BY <1>1, <1>3, <1>5, YieldedFacts
<1>7. \A i, j \in DOMAIN trace' : i < j => trace'[i].ts <= trace'[j].ts
  BY <1>1, <1>3, YieldedFacts
<1>8. B!Init'
  <2>1. /\ plugin' = "zipkin" /\ run' = 1 /\ phase' = "start" /\ pos' = 1 /\ up' = FALSE
        /\ reply' = "none" /\ stored' = << >> /\ refused' = {}
    BY <1>1, <1>3 DEF NotCollected, PipelineInv, B!BabeltraceInv, B!TypeOK
  <2>2. \E n \in 0 .. MaxEvents : trace' \in [1 .. n -> ProviderEvents]
    BY <1>5, <1>6
  <2>3. QED
    BY <1>7, <2>1, <2>2 DEF B!Init, B!InTimeOrder
<1>9. B!BabeltraceInv'
  <2>1. B!Init' => B!BabeltraceInv'
    BY PluginInit, PTL
  <2>2. QED
    BY <1>8, <2>1
<1>10. plugin' = "zipkin" /\ ~up'
  BY <1>1, <1>3 DEF NotCollected
<1>11. QED
  BY <1>1, <1>2, <1>4, <1>9, <1>10 DEF PipelineInv

\* The plugin reads what stays as it is, and meets no event it cannot convert.
LEMMA PluginKeeps ==
  ASSUME PipelineInv, Plugin
  PROVE  PipelineInv'
<1>1. collected /\ B!Next /\ UNCHANGED <<vars, collected>>
  BY DEF Plugin
<1>2. PeersInv' /\ NobodyWaitsInVain' /\ LogSound' /\ LogBounded'
  BY <1>1, PeersStay
<1>3. B!BabeltraceInv'
  BY <1>1, PluginStep DEF PipelineInv
<1>4. TypeOK /\ Collected /\ plugin = "zipkin"
  BY <1>1 DEF PipelineInv, PeersInv
<1>5. UNCHANGED <<plugin, trace>>
  BY <1>1 DEF B!Next, B!Step, B!Open, B!OpenFails, B!Skip, B!Reject, B!Send,
     B!SendFails, B!Answered, B!AnswerLost, B!Finish, B!Accept, B!TryLater, B!Break,
     B!Again, B!fixed
<1>6. Collected'
  BY <1>1, <1>4, <1>5 DEF Collected, Yielded, vars
<1>7. ~B!Reject
  <2>1. SUFFICES ASSUME B!Reject PROVE FALSE
    OBVIOUS
  <2>2. pos \in DOMAIN log
    <3>1. pos <= Len(trace) /\ pos \in 1 .. Len(trace) + 1
      BY <2>1 DEF B!Reject, B!AtEvent, PipelineInv, B!BabeltraceInv, B!TypeOK
    <3>2. QED
      BY <1>4, <3>1, CollectedTrace
  <2>3. B!Takes(trace[pos])
    BY <1>4, <2>2, CollectedTrace, YieldedFacts
  <2>4. QED
    BY <2>1, <2>3 DEF B!Reject
<1>8. phase' \in {"start", "raised"} => ~up'
  <2>1. phase \in {"start", "raised"} => ~up
    BY DEF PipelineInv
  <2>2. QED
    BY <1>1, <1>7, <2>1 DEF B!Next, B!Step, B!Open, B!OpenFails, B!Skip, B!Send,
     B!SendFails, B!Answered, B!AnswerLost, B!Finish, B!Accept, B!TryLater, B!Break,
     B!Again, B!AtEvent
<1>9. QED
  BY <1>1, <1>2, <1>3, <1>4, <1>5, <1>6, <1>8 DEF PipelineInv

\* For any number of rounds, bound of the plugin's runs and clock: the invariant
\* of the whole way from the peers to Scribe.
THEOREM PipelineInvariant == PipelineSpec => []PipelineInv
<1>1. PipelineInv /\ [PipelineNext]_pipelineVars => PipelineInv'
  <2> SUFFICES ASSUME PipelineInv, [PipelineNext]_pipelineVars PROVE PipelineInv'
    OBVIOUS
  <2>1. CASE PipelineNext
    BY <2>1, ProgramsKeep, CollectKeeps, PluginKeeps DEF PipelineNext
  <2>2. CASE UNCHANGED pipelineVars
    <3>1. UNCHANGED <<vars, collected, pluginVars>>
      BY <2>2 DEF pipelineVars
    <3>2. PeersInv' /\ NobodyWaitsInVain' /\ LogSound' /\ LogBounded' /\ B!BabeltraceInv'
      BY <3>1, PeersStay, PluginStep DEF PipelineInv
    <3>3. (Collected => Collected') /\ (NotCollected => NotCollected')
      BY <3>1 DEF Collected, NotCollected, Yielded, vars, pluginVars
    <3>4. QED
      BY <3>1, <3>2, <3>3 DEF PipelineInv, pluginVars
  <2>3. QED
    BY <2>1, <2>2
<1>2. QED
  BY <1>1, PipelineInitInv, PTL DEF PipelineSpec

-------------------------------------------------------------------------------
\* What Scribe holds at place n, of the event of the log it comes from.
LEMMA StoredFacts ==
  ASSUME PipelineInv, NEW n \in DOMAIN stored
  PROVE  LET k == stored[n].place.pos
             id == spans[log[k].span]
             m == stored[n].msg
         IN  /\ k \in DOMAIN log
             /\ Origin(stored[n]) = log[k]
             /\ id \in D!Identity
             /\ m.name = TraceName[log[k].by] /\ m.host = ServiceName[log[k].by]
             /\ m.value = log[k].what
             /\ m.trace = id.trace_id /\ m.span = id.span_id
             /\ m.parent = Displayed(id.parent_span_id)
             /\ m.at = (1000 + Tick * k) \div 1000
<1> DEFINE k == stored[n].place.pos
           id == spans[log[k].span]
           m == stored[n].msg
<1>1. TypeOK /\ B!TypeOK /\ B!StoredInOrder /\ plugin = "zipkin"
  BY DEF PipelineInv, PeersInv, B!BabeltraceInv
<1>2. collected /\ Collected
  BY DEF PipelineInv, NotCollected
<1>3. k \in 1 .. MaxEvents /\ k <= Len(trace)
  <2>1. stored[n] \in B!Entry
    BY <1>1, ElementOfSeq, LenProperties DEF B!TypeOK
  <2>2. QED
    BY <1>1, <2>1 DEF B!Entry, B!Place, B!StoredInOrder
<1>4. k \in DOMAIN log /\ trace[k] = Yielded(k)
  BY <1>1, <1>2, <1>3, CollectedTrace, PipelineAssumption
<1>5. m = B!Convert(trace[k])
  BY <1>1 DEF B!StoredInOrder
<1>6. log[k].span \in DOMAIN spans
  BY <1>1, <1>4, LoggedSpans
<1>7. id \in D!Identity
  BY <1>1, <1>6, ElementOfSeq, TypeFacts DEF TypeOK
<1> HIDE DEF k, m
<1>8. m = B!Convert(Yielded(k))
  BY <1>4, <1>5
<1>9. /\ m.name = TraceName[log[k].by] /\ m.host = ServiceName[log[k].by]
      /\ m.value = log[k].what
      /\ m.trace = id.trace_id /\ m.span = id.span_id
      /\ m.parent = Displayed(id.parent_span_id)
      /\ m.at = (1000 + Tick * k) \div 1000
  BY <1>1, <1>8 DEF B!Convert, B!Plain, Yielded, Timestamp, Displayed
<1>10. Origin(stored[n]) = log[k]
  BY DEF Origin, k
<1>11. QED
  BY <1>4, <1>7, <1>9, <1>10 DEF k, m

\* Scribe has, of each event before one it stored, a message of the same run,
\* unless it refused it.
LEMMA EarlierAnswered ==
  ASSUME PipelineInv, NEW n \in DOMAIN stored, NEW k \in 1 .. stored[n].place.pos - 1
  PROVE  \/ Refused(stored[n], k)
         \/ \E i \in DOMAIN stored : /\ stored[i].place.pos = k
                                     /\ stored[i].msg \in Held(stored[n], k)
<1>1. k \in DOMAIN log /\ Collected /\ plugin = "zipkin" /\ TypeOK
  <2>1. stored[n].place.pos \in DOMAIN log
    BY StoredFacts
  <2>2. collected /\ TypeOK
    BY DEF PipelineInv, NotCollected, PeersInv
  <2>3. QED
    BY <2>1, <2>2, TypeFacts DEF PipelineInv
<1>2. B!Ours(trace[k])
  BY <1>1, CollectedTrace, YieldedFacts
<1>3. B!HandledIn(stored[n].place.run, k)
  BY <1>2 DEF PipelineInv, B!BabeltraceInv, B!NothingSkipped
<1>4. CASE [run |-> stored[n].place.run, pos |-> k] \in refused
  BY <1>4 DEF Refused
<1>5. ASSUME NEW i \in DOMAIN stored,
             stored[i].place = [run |-> stored[n].place.run, pos |-> k]
      PROVE  stored[i].place.pos = k /\ stored[i].msg \in Held(stored[n], k)
  BY <1>5 DEF Held
<1>6. QED
  BY <1>3, <1>4, <1>5 DEF B!HandledIn

\* The microseconds of a later event are not fewer.
LEMMA LaterMicros ==
  ASSUME TypeOK, NEW k \in DOMAIN log, NEW l \in DOMAIN log, k < l
  PROVE  (1000 + Tick * k) \div 1000 <= (1000 + Tick * l) \div 1000
<1>1. Yielded(k).ts <= Yielded(l).ts
  BY YieldedFacts
<1>2. Yielded(k).ts = 1000 + Tick * k /\ Yielded(l).ts = 1000 + Tick * l
  BY YieldedFacts
<1>3. Yielded(k).ts \in Nat /\ Yielded(l).ts \in Nat
  BY YieldedFacts DEF ProviderEvents
<1>4. QED
  BY <1>1, <1>2, <1>3, BP!MicrosAscend, PluginAssumption

-------------------------------------------------------------------------------
\* No event these programs record ends a run of the plugin, at any clock rate.
THEOREM OnlyScribeStops == PipelineSpec => []OnlyScribeStopsIt
<1>1. PipelineInv => OnlyScribeStopsIt
  BY DEF PipelineInv, OnlyScribeStopsIt
<1>2. QED
  BY <1>1, PipelineInvariant, PTL

\* Scribe never shows the name of a service for that of a span, or the reverse.
THEOREM NamesAreShown == PipelineSpec => []NamesShown
<1>1. PipelineInv => NamesShown
  BY StoredFacts DEF NamesShown
<1>2. QED
  BY <1>1, PipelineInvariant, PTL

\* The spans shown without parent are the roots and the children of identifier 0.
THEOREM RootsAreShown == PipelineSpec => []RootsShown
<1>1. PipelineInv => RootsShown
  <2> SUFFICES ASSUME PipelineInv, NEW n \in DOMAIN stored
               PROVE  stored[n].msg.parent = None <=>
                         \/ Origin(stored[n]).span \in roots
                         \/ spans[Origin(stored[n]).span].parent_span_id = Zero
    BY DEF RootsShown
  <2> DEFINE id == spans[Origin(stored[n]).span]
  <2>1. id \in D!Identity /\ stored[n].msg.parent = Displayed(id.parent_span_id)
    BY StoredFacts
  <2>2. id.parent_span_id # None
    BY <2>1, PipelineAssumption DEF D!Identity
  <2>3. Origin(stored[n]).span \in roots => id.parent_span_id = Zero
    BY DEF PipelineInv, LogSound
  <2>4. QED
    BY <2>1, <2>2, <2>3 DEF Displayed
<1>2. QED
  BY <1>1, PipelineInvariant, PTL

\* A child's start lies, for Scribe too, behind a start of its parent, and the
\* end of a parent behind the end of a child, unless Scribe refused it, for any
\* number of rounds, events and runs of the plugin and as long as nobody was
\* killed or gave up.
THEOREM ShownInsideParent == PipelineSpec => []ShownInParent
<1>1. PipelineInv => ShownInParent
  <2> SUFFICES ASSUME PipelineInv, Undisturbed, NEW n \in DOMAIN stored
               PROVE  /\ Origin(stored[n]).by = "B" /\ stored[n].msg.value = "start" =>
                           ParentStartIsShown(stored[n])
                      /\ Origin(stored[n]).by = "A" /\ stored[n].msg.value = "end" =>
                           ChildEndIsShown(stored[n])
    BY DEF ShownInParent
  <2> DEFINE m == stored[n]
             l == stored[n].place.pos
             j == log[l].span
  <2>1. TypeOK /\ LogSound /\ Wrong = {}
    BY NothingWrong DEF PipelineInv, PeersInv
  <2>2. /\ l \in DOMAIN log /\ Origin(m) = log[l] /\ m.msg.value = log[l].what
        /\ m.msg.trace = spans[j].trace_id /\ m.msg.span = spans[j].span_id
        /\ m.msg.at = (1000 + Tick * l) \div 1000
    BY StoredFacts
  <2>3. /\ DOMAIN log = 1 .. Len(log) /\ Len(log) \in Nat
        /\ log[l] \in [by : Processes, what : {"start", "end"}, span : DOMAIN spans]
    BY <2>1, <2>2, LoggedSpans, TypeFacts
  <2>4. ASSUME NEW k \in 1 .. l - 1
        PROVE  /\ k \in DOMAIN log
               /\ (1000 + Tick * k) \div 1000 <= m.msg.at
    BY <2>1, <2>2, <2>3, LaterMicros
  <2>5. ASSUME log[l].by = "B", log[l].what = "start" PROVE ParentStartIsShown(m)
    <3>1. j \in DOMAIN spans \ roots
      BY <2>1, <2>2, <2>3, <2>5 DEF LogSound
    <3>2. PICK k0 \in DOMAIN log, i \in roots :
             /\ At(k0, "B", "start", j)
             /\ D!IsParent(i, j)
             /\ Before(k0, "A", "start", i)
      BY <2>1, <3>1 DEF Wrong, BeganInParent
    <3>3. k0 = l
      BY <2>1, <2>2, <2>3, <2>5, <3>2 DEF At, LogSound
    <3>4. PICK k \in 1 .. l - 1 : At(k, "A", "start", i)
      BY <3>2, <3>3 DEF Before
    <3>5. log[k].by = "A" /\ log[k].what = "start" /\ log[k].span = i
      BY <3>4 DEF At
    <3>6. ASSUME NEW s \in DOMAIN stored, stored[s].place.pos = k
          PROVE  /\ stored[s].msg.trace = m.msg.trace
                 /\ stored[s].msg.span = spans[Origin(m).span].parent_span_id
                 /\ stored[s].msg.value = "start" /\ stored[s].msg.at <= m.msg.at
      <4>1. /\ stored[s].msg.value = log[k].what
            /\ stored[s].msg.trace = spans[log[k].span].trace_id
            /\ stored[s].msg.span = spans[log[k].span].span_id
            /\ stored[s].msg.at = (1000 + Tick * k) \div 1000
        BY <3>6, StoredFacts
      <4>2. spans[Origin(m).span].parent_span_id = spans[i].span_id
        BY <2>2, <3>2 DEF D!IsParent
      <4>3. QED
        BY <2>2, <2>4, <3>2, <3>5, <4>1, <4>2 DEF D!IsParent
    <3>7. QED
      BY <3>5, <3>6, EarlierAnswered DEF ParentStartIsShown
  <2>6. ASSUME log[l].by = "A", log[l].what = "end" PROVE ChildEndIsShown(m)
    <3>1. j \in roots /\ At(l, "A", "end", j)
      BY <2>1, <2>2, <2>3, <2>6 DEF LogSound, At
    <3>2. PICK i \in DOMAIN spans \ roots : D!IsParent(j, i) /\ Before(l, "B", "end", i)
      BY <2>1, <2>2, <3>1 DEF Wrong, EndedAfterChild
    <3>3. PICK k \in 1 .. l - 1 : At(k, "B", "end", i)
      BY <3>2 DEF Before
    <3>4. log[k].by = "B" /\ log[k].what = "end" /\ log[k].span = i
      BY <3>3 DEF At
    <3>5. ASSUME NEW s \in DOMAIN stored, stored[s].place.pos = k
          PROVE  /\ stored[s].msg.trace = m.msg.trace
                 /\ stored[s].msg.parent = Displayed(m.msg.span)
                 /\ stored[s].msg.value = "end" /\ stored[s].msg.at <= m.msg.at
      <4>1. /\ stored[s].msg.value = log[k].what
            /\ stored[s].msg.trace = spans[log[k].span].trace_id
            /\ stored[s].msg.parent = Displayed(spans[log[k].span].parent_span_id)
            /\ stored[s].msg.at = (1000 + Tick * k) \div 1000
        BY <3>5, StoredFacts
      <4>2. Displayed(spans[i].parent_span_id) = Displayed(spans[j].span_id)
        BY <3>2 DEF D!IsParent
      <4>3. QED
        BY <2>2, <2>4, <3>2, <3>4, <4>1, <4>2 DEF D!IsParent
    <3>6. QED
      BY <3>4, <3>5, EarlierAnswered DEF ChildEndIsShown
  <2>7. QED
    BY <2>2, <2>5, <2>6
<1>2. QED
  BY <1>1, PipelineInvariant, PTL
===============================================================================
