--------------------------- MODULE BabeltraceProofs ---------------------------
(***************************************************************************)
(* The inductive invariant of the consumers and what follows from it, for  *)
(* every trace, every set of events and any number of runs.                *)
(***************************************************************************)
EXTENDS Babeltrace, TLAPS

\* What an append does to a sequence.
LEMMA AppendFacts ==
  ASSUME NEW S, NEW s \in Seq(S), NEW x \in S
  PROVE  /\ Append(s, x) \in Seq(S)
         /\ DOMAIN Append(s, x) = 1 .. Len(s) + 1
         /\ Len(s) \in Nat /\ DOMAIN s = 1 .. Len(s)
         /\ Append(s, x)[Len(s) + 1] = x
         /\ \A k \in DOMAIN s : Append(s, x)[k] = s[k]
  OBVIOUS

\* What membership in Seq(S) says of a sequence.
LEMMA SeqFacts ==
  ASSUME NEW S, NEW s \in Seq(S)
  PROVE  /\ Len(s) \in Nat
         /\ DOMAIN s = 1 .. Len(s)
         /\ \A k \in DOMAIN s : s[k] \in S
  OBVIOUS

\* The types in the form the provers use them.
LEMMA TypeFacts ==
  ASSUME TypeOK
  PROVE  /\ run \in Nat /\ 1 <= run /\ run <= MaxRuns
         /\ MaxRuns \in Nat /\ MaxEvents \in Nat
         /\ Len(trace) \in Nat /\ Len(trace) <= MaxEvents
         /\ DOMAIN trace = 1 .. Len(trace)
         /\ \A p \in DOMAIN trace : trace[p] \in Events /\ trace[p].ts \in Nat
         /\ pos \in Nat /\ 1 <= pos /\ pos <= Len(trace) + 1
         /\ Len(stored) \in Nat /\ DOMAIN stored = 1 .. Len(stored)
         /\ \A k \in DOMAIN stored : /\ stored[k].place \in Place
                                     /\ stored[k].place.run \in Nat
                                     /\ stored[k].place.pos \in Nat
<1>1. MaxRuns \in Nat /\ MaxEvents \in Nat
  BY BabeltraceAssumption
<1>2. run \in Nat /\ 1 <= run /\ run <= MaxRuns
  BY <1>1 DEF TypeOK
<1>3. /\ Len(trace) \in Nat /\ Len(trace) <= MaxEvents
      /\ DOMAIN trace = 1 .. Len(trace)
      /\ \A p \in DOMAIN trace : trace[p] \in Events
  BY SeqFacts DEF TypeOK
<1>4. pos \in Nat /\ 1 <= pos /\ pos <= Len(trace) + 1
  BY <1>3 DEF TypeOK
<1>5. \A e \in Events : e.ts \in Nat
  BY BabeltraceAssumption
<1>6. /\ Len(stored) \in Nat /\ DOMAIN stored = 1 .. Len(stored)
      /\ \A k \in DOMAIN stored : stored[k] \in Entry
  BY SeqFacts DEF TypeOK
<1>7. \A k \in DOMAIN stored : stored[k].place \in Place
  BY <1>6 DEF Entry
<1>8. \A l \in Place : l.run \in Nat /\ l.pos \in Nat
  BY <1>1 DEF Place
<1>9. QED
  BY <1>1, <1>2, <1>3, <1>4, <1>5, <1>6, <1>7, <1>8

\* The place the loop is at, where there is an event.
LEMMA HereIsPlace ==
  ASSUME TypeOK, pos <= Len(trace)
  PROVE  Here \in Place
<1>1. run \in 1 .. MaxRuns /\ pos \in 1 .. MaxEvents
  BY TypeFacts
<1>2. QED
  BY <1>1 DEF Here, Place

\* The conversion of an event is a message: microseconds are numbers again.
LEMMA ConvertType ==
  ASSUME plugin \in Plugins, NEW e \in Events
  PROVE  Convert(e) \in Message
<1> DEFINE parent == IF e.parent = Zero THEN None ELSE e.parent
           micros == IF e.kind = "timestamp" THEN e.ts \div 1000 ELSE None
<1>1. /\ e.trace \in Ids /\ e.span \in Ids /\ e.parent \in Ids /\ e.ts \in Nat
      /\ e.trace_name \in Texts /\ e.service_name \in Texts /\ e.value \in Texts
  BY BabeltraceAssumption
<1>2. e.ts \div 1000 \in Nat
  BY <1>1
<1>3. /\ Plain(e, parent, micros) \in Message
      /\ Plain(e, e.parent, e.ts) \in Message
  BY <1>1, <1>2 DEF Plain, Message
<1>4. QED
  BY <1>3 DEF Convert, Plain

\* Initially the loop has come nowhere and nothing is stored.
LEMMA InitBabeltrace == Init => BabeltraceInv
<1> SUFFICES ASSUME Init PROVE BabeltraceInv
  OBVIOUS
<1>1. PICK n \in 0 .. MaxEvents : trace \in [1 .. n -> Events]
  BY DEF Init
<1>2. n \in Nat /\ trace \in Seq(Events) /\ Len(trace) = n /\ n <= MaxEvents
  BY <1>1, BabeltraceAssumption
<1>3. stored \in Seq(Entry) /\ refused \subseteq Place
  BY DEF Init
<1>4. TypeOK
  <2>1. run \in 1 .. MaxRuns
    BY BabeltraceAssumption DEF Init
  <2>2. pos \in 1 .. Len(trace) + 1
    BY <1>2 DEF Init
  <2>3. phase \in Phases /\ up \in BOOLEAN /\ reply \in {"none", "ok", "later"}
    BY DEF Init, Phases, Over
  <2>4. QED
    BY <1>2, <1>3, <2>1, <2>2, <2>3 DEF Init, TypeOK
<1>5. StoredInOrder /\ StoredSoFar /\ StoredPrefixTaken
  BY DEF Init, StoredInOrder, StoredSoFar, StoredPrefixTaken
<1>6. NothingSkipped /\ AnswerIsHandled /\ PrefixTaken
  BY DEF Init, NothingSkipped, AnswerIsHandled, PrefixTaken
<1>7. QED
  BY <1>4, <1>5, <1>6 DEF Init, BabeltraceInv

-------------------------------------------------------------------------------
\* Steps that leave Scribe's log, the run and the place of the loop alone keep
\* whatever does not depend on the phase.
LEMMA StandStill ==
  ASSUME BabeltraceInv, UNCHANGED <<fixed, run, pos, scribe>>
  PROVE  /\ InTimeOrder(trace)'
         /\ StoredInOrder'
         /\ NothingSkipped'
         /\ StoredPrefixTaken'
  BY DEF BabeltraceInv, fixed, scribe, InTimeOrder, StoredInOrder, Ours, Convert,
     NothingSkipped, Handled, HandledIn, StoredPrefixTaken, Takes

\* The steps of the plugin that do not get past an event.
PhaseStep == \/ Open \/ OpenFails \/ Reject \/ Send \/ SendFails
             \/ Break \/ AnswerLost \/ Finish

\* They keep the invariant: what is stored for this event was stored by the
\* wait that now goes on or breaks off.
LEMMA PhaseStepKeeps ==
  ASSUME BabeltraceInv, PhaseStep
  PROVE  BabeltraceInv'
<1>1. UNCHANGED <<fixed, run, pos, scribe>>
  BY DEF PhaseStep, Open, OpenFails, Reject, Send, SendFails, Break, AnswerLost,
     Finish
<1>2. TypeOK
  BY DEF BabeltraceInv
<1>3. TypeOK'
  BY <1>1, <1>2 DEF PhaseStep, Open, OpenFails, Reject, Send, SendFails, Break,
     AnswerLost, Finish, TypeOK, Phases, Over, fixed, scribe
<1>4. StoredSoFar'
  <2>1. StoredSoFar
    BY DEF BabeltraceInv
  <2>2. \/ phase \in {"start", "loop"}
        \/ phase = "sent" /\ phase' = "raised"
        \/ UNCHANGED <<phase, reply>>
    BY DEF PhaseStep, Open, OpenFails, Reject, Send, SendFails, Break, AnswerLost,
       Finish, AtEvent
  <2>3. QED
    BY <1>1, <2>1, <2>2 DEF StoredSoFar, scribe
<1>5. AnswerIsHandled'
  <2>1. AnswerIsHandled
    BY DEF BabeltraceInv
  <2>2. Handled(pos) => Handled(pos)'
    BY <1>1 DEF Handled, HandledIn, scribe
  <2>3. QED
    BY <1>1, <2>1, <2>2 DEF PhaseStep, Open, OpenFails, Reject, Send, SendFails,
       Break, AnswerLost, Finish, AtEvent, AnswerIsHandled
<1>6. PrefixTaken'
  <2>1. PrefixTaken
    BY DEF BabeltraceInv
  <2>2. \A p \in 1 .. pos' - 1 : Ours(trace[p])' => Takes(trace[p])'
    BY <1>1, <2>1 DEF PrefixTaken, fixed, Ours, Takes
  <2>3. QED
    BY <1>1, <2>1, <2>2 DEF PhaseStep, Open, OpenFails, Reject, Send, SendFails,
       Break, AnswerLost, Finish, AtEvent, PrefixTaken, fixed, Ours, Takes
<1>7. QED
  BY <1>1, <1>3, <1>4, <1>5, <1>6, StandStill DEF BabeltraceInv

\* Going on to the next event: it was passed over, or it was answered.
LEMMA AdvanceKeeps ==
  ASSUME BabeltraceInv, Skip \/ Answered
  PROVE  BabeltraceInv'
<1>1. UNCHANGED <<fixed, run, scribe>> /\ pos' = pos + 1 /\ phase' = "loop"
  BY DEF Skip, Answered, AtEvent
<1>2. TypeOK /\ pos \in 1 .. Len(trace) /\ reply' = "none"
  BY DEF BabeltraceInv, TypeOK, PrefixTaken, AnswerIsHandled, Skip, Answered, AtEvent
<1>3. TypeOK'
  BY <1>1, <1>2 DEF Skip, Answered, TypeOK, Phases, fixed, scribe
<1>4. StoredInOrder' /\ StoredPrefixTaken' /\ InTimeOrder(trace)'
  BY <1>1 DEF BabeltraceInv, fixed, scribe, InTimeOrder, StoredInOrder, Ours, Convert,
     StoredPrefixTaken, Takes
<1>5. NothingSkipped'
  <2> SUFFICES ASSUME NEW p \in 1 .. pos, Ours(trace[p])
               PROVE  Handled(p)
    <3>1. \A n \in DOMAIN stored : \A p \in 1 .. stored[n].place.pos - 1 :
             Ours(trace[p]) => HandledIn(stored[n].place.run, p)
      BY DEF BabeltraceInv, NothingSkipped
    <3>2. pos' - 1 = pos
      BY <1>1, <1>2
    <3>3. QED
      BY <1>1, <3>1, <3>2 DEF NothingSkipped, Handled, HandledIn, Ours, fixed, scribe
  <2>1. CASE p < pos
    BY <1>2, <2>1 DEF BabeltraceInv, NothingSkipped, TypeOK
  <2>2. CASE p = pos
    BY <2>2 DEF BabeltraceInv, AnswerIsHandled, Skip, Answered, Ours
  <2>3. QED
    BY <1>2, <2>1, <2>2 DEF TypeOK
<1>6. StoredSoFar'
  <2>1. \A k \in DOMAIN stored : stored[k].place.pos \in Nat
    BY <1>2, TypeFacts
  <2>2. QED
    BY <1>1, <1>2, <2>1 DEF BabeltraceInv, StoredSoFar, scribe, TypeOK
<1>7. AnswerIsHandled'
  BY <1>2 DEF AnswerIsHandled
<1>8. PrefixTaken'
  <2>1. Ours(trace[pos]) => Takes(trace[pos])
    BY DEF BabeltraceInv, PrefixTaken, Skip, Answered
  <2>2. \A p \in 1 .. pos : Ours(trace[p]) => Takes(trace[p])
    BY <1>2, <2>1, TypeFacts DEF BabeltraceInv, PrefixTaken
  <2>3. QED
    BY <1>1, <1>2, <2>2 DEF PrefixTaken, fixed, Ours, Takes, TypeOK
<1>9. QED
  BY <1>3, <1>4, <1>5, <1>6, <1>7, <1>8 DEF BabeltraceInv

\* Scribe stores the message that is on its way.
LEMMA AcceptKeeps ==
  ASSUME BabeltraceInv, Accept
  PROVE  BabeltraceInv'
<1> DEFINE new == [place |-> Here, msg |-> Convert(trace[pos])]
<1>1. /\ UNCHANGED <<fixed, run, phase, pos, up, refused>>
      /\ stored' = Append(stored, new)
      /\ phase = "sent" /\ reply = "none" /\ reply' = "ok"
  BY DEF Accept
<1>2. /\ TypeOK /\ PrefixTaken
      /\ pos \in 1 .. Len(trace)
      /\ Ours(trace[pos]) /\ Takes(trace[pos])
  BY <1>1 DEF BabeltraceInv, PrefixTaken, TypeOK
<1>3. Here \in Place
  BY <1>2, HereIsPlace
<1>4. trace[pos] \in Events
  BY <1>2, TypeFacts
<1>5. new \in Entry
  <2>1. Convert(trace[pos]) \in Message
    BY <1>2, <1>4, ConvertType DEF TypeOK
  <2>2. QED
    BY <1>3, <2>1 DEF Entry
<1> HIDE DEF new
<1>6. /\ stored' \in Seq(Entry)
      /\ DOMAIN stored' = 1 .. Len(stored) + 1
      /\ Len(stored) \in Nat /\ DOMAIN stored = 1 .. Len(stored)
      /\ stored'[Len(stored) + 1] = new
      /\ \A k \in DOMAIN stored : stored'[k] = stored[k]
  BY <1>1, <1>2, <1>5, AppendFacts DEF TypeOK
<1>7. new.place = Here /\ new.msg = Convert(trace[pos])
  BY DEF new
<1>8. \A k \in DOMAIN stored' : \/ k \in DOMAIN stored /\ stored'[k] = stored[k]
                                \/ k = Len(stored) + 1 /\ stored'[k] = new
  BY <1>6
<1>9. TypeOK'
  BY <1>1, <1>2, <1>6 DEF TypeOK, fixed
\* Nothing was stored for this event in this run before.
<1>10. \A k \in DOMAIN stored :
          \/ stored[k].place.run < run
          \/ stored[k].place.run = run /\ stored[k].place.pos < pos
  <2>1. StoredSoFar
    BY DEF BabeltraceInv
  <2>2. QED
    BY <1>1, <1>2, <2>1, TypeFacts DEF StoredSoFar
<1>11. StoredInOrder'
  <2>1. StoredInOrder
    BY DEF BabeltraceInv
  <2>2. \A k \in DOMAIN stored' :
           /\ stored'[k].place.pos <= Len(trace)
           /\ Ours(trace[stored'[k].place.pos])
           /\ stored'[k].msg = Convert(trace[stored'[k].place.pos])
    BY <1>2, <1>7, <1>8, <2>1 DEF StoredInOrder, Here
  <2>3. \A i, j \in DOMAIN stored' :
           i < j => \/ stored'[i].place.run < stored'[j].place.run
                    \/ /\ stored'[i].place.run = stored'[j].place.run
                       /\ stored'[i].place.pos < stored'[j].place.pos
    <3> SUFFICES ASSUME NEW i \in DOMAIN stored', NEW j \in DOMAIN stored', i < j
                 PROVE  \/ stored'[i].place.run < stored'[j].place.run
                        \/ /\ stored'[i].place.run = stored'[j].place.run
                           /\ stored'[i].place.pos < stored'[j].place.pos
      OBVIOUS
    <3>1. i \in DOMAIN stored /\ stored'[i] = stored[i]
      BY <1>6
    <3>2. CASE j \in DOMAIN stored
      BY <1>6, <2>1, <3>1, <3>2 DEF StoredInOrder
    <3>3. CASE j = Len(stored) + 1
      BY <1>6, <1>7, <1>10, <3>1, <3>3 DEF Here
    <3>4. QED
      BY <1>8, <3>2, <3>3
  <2>4. trace' = trace /\ plugin' = plugin
    BY <1>1 DEF fixed
  <2>5. \A k \in DOMAIN stored' :
           /\ (stored[k].place.pos <= Len(trace))'
           /\ Ours(trace[stored[k].place.pos])'
           /\ (stored[k].msg = Convert(trace[stored[k].place.pos]))'
    BY <2>2, <2>4 DEF Ours, Convert
  <2>6. QED
    BY <2>3, <2>5 DEF StoredInOrder
<1>12. InTimeOrder(trace)'
  BY <1>1 DEF BabeltraceInv, fixed, InTimeOrder
<1>13. \A r, p : HandledIn(r, p) => HandledIn(r, p)'
  BY <1>1, <1>6 DEF HandledIn
<1>14. NothingSkipped'
  <2>1. \A e : Ours(e)' <=> Ours(e)
    BY <1>1 DEF fixed, Ours
  <2>2. /\ \A p \in 1 .. pos - 1 : Ours(trace[p]) => HandledIn(run, p)
        /\ \A n \in DOMAIN stored : \A p \in 1 .. stored[n].place.pos - 1 :
              Ours(trace[p]) => HandledIn(stored[n].place.run, p)
    BY DEF BabeltraceInv, NothingSkipped, Handled
  <2>3. ASSUME NEW p \in 1 .. pos - 1, Ours(trace[p])
        PROVE  HandledIn(run, p)'
    BY <1>1, <1>13, <2>2, <2>3
  <2>4. ASSUME NEW n \in DOMAIN stored', NEW p \in 1 .. stored'[n].place.pos - 1,
               Ours(trace[p])
        PROVE  HandledIn(stored[n].place.run, p)'
    <3>1. CASE n \in DOMAIN stored /\ stored'[n] = stored[n]
      BY <1>13, <2>2, <2>4, <3>1 DEF HandledIn
    <3>2. CASE stored'[n] = new
      BY <1>1, <1>7, <2>3, <2>4, <3>2 DEF Here, HandledIn
    <3>3. QED
      BY <1>8, <3>1, <3>2
  <2>5. QED
    BY <1>1, <2>3, <2>4 DEF NothingSkipped, Handled, HandledIn, Ours, fixed
<1>15. StoredSoFar'
  <2> SUFFICES ASSUME NEW k \in DOMAIN stored'
               PROVE  /\ stored'[k].place.run <= run
                      /\ stored'[k].place.run = run =>
                            stored'[k].place.pos < pos \/ stored'[k].place.pos = pos
    BY <1>1 DEF StoredSoFar
  <2>1. CASE stored'[k] = new
    BY <1>2, <1>7, <2>1 DEF Here, TypeOK
  <2>2. CASE k \in DOMAIN stored /\ stored'[k] = stored[k]
    BY <2>2 DEF BabeltraceInv, StoredSoFar
  <2>3. QED
    BY <1>8, <2>1, <2>2
<1>16. AnswerIsHandled'
  <2>1. stored'[Len(stored) + 1].place = [run |-> run, pos |-> pos]
    BY <1>6, <1>7 DEF Here
  <2>2. Len(stored) + 1 \in DOMAIN stored'
    BY <1>6
  <2>3. QED
    BY <1>1, <2>1, <2>2 DEF AnswerIsHandled, Handled, HandledIn
<1>17. PrefixTaken'
  BY <1>1, <1>2 DEF PrefixTaken, fixed, Ours, Takes
<1>18. StoredPrefixTaken'
  <2>1. \A p \in 1 .. pos : Ours(trace[p]) => Takes(trace[p])
    BY <1>2 DEF PrefixTaken, TypeOK
  <2>2. \A k \in DOMAIN stored' : \A p \in 1 .. stored'[k].place.pos :
           Ours(trace[p]) => Takes(trace[p])
    BY <1>7, <1>8, <2>1 DEF BabeltraceInv, StoredPrefixTaken, Here
  <2>3. QED
    BY <1>1, <2>2 DEF StoredPrefixTaken, fixed, Ours, Takes
<1>19. QED
  BY <1>9, <1>11, <1>12, <1>14, <1>15, <1>16, <1>17, <1>18 DEF BabeltraceInv

\* Scribe asks to try later.
LEMMA TryLaterKeeps ==
  ASSUME BabeltraceInv, TryLater
  PROVE  BabeltraceInv'
<1>1. /\ UNCHANGED <<fixed, run, phase, pos, up, stored>>
      /\ refused' = refused \cup {Here}
      /\ phase = "sent" /\ reply = "none" /\ reply' = "later"
  BY DEF TryLater
<1>2. TypeOK /\ pos <= Len(trace)
  BY <1>1 DEF BabeltraceInv, PrefixTaken
<1>3. Here \in Place
  BY <1>2, HereIsPlace
<1>4. TypeOK'
  BY <1>1, <1>2, <1>3 DEF TypeOK, fixed
<1>5. StoredInOrder' /\ StoredPrefixTaken' /\ InTimeOrder(trace)'
  BY <1>1 DEF BabeltraceInv, fixed, InTimeOrder, StoredInOrder, Ours, Convert,
     StoredPrefixTaken, Takes
<1>6. NothingSkipped'
  BY <1>1 DEF BabeltraceInv, NothingSkipped, Handled, HandledIn, Ours, fixed
<1>7. StoredSoFar'
  BY <1>1 DEF BabeltraceInv, StoredSoFar
<1>8. AnswerIsHandled'
  BY <1>1 DEF AnswerIsHandled, Handled, HandledIn, Here
<1>9. PrefixTaken'
  BY <1>1 DEF BabeltraceInv, PrefixTaken, fixed, Ours, Takes
<1>10. QED
  BY <1>4, <1>5, <1>6, <1>7, <1>8, <1>9 DEF BabeltraceInv

\* A new run has come nowhere; what is stored belongs to earlier ones.
LEMMA AgainKeeps ==
  ASSUME BabeltraceInv, Again
  PROVE  BabeltraceInv'
<1>1. /\ UNCHANGED <<fixed, scribe>>
      /\ run' = run + 1 /\ run < MaxRuns
      /\ phase' = "start" /\ pos' = 1 /\ up' = FALSE /\ reply' = "none"
  BY DEF Again
<1>2. TypeOK
  BY DEF BabeltraceInv
<1>3. TypeOK'
  <2>1. run' \in 1 .. MaxRuns
    BY <1>1, <1>2, TypeFacts
  <2>2. pos' \in 1 .. Len(trace') + 1
    BY <1>1, <1>2, TypeFacts DEF fixed
  <2>3. QED
    BY <1>1, <1>2, <2>1, <2>2 DEF TypeOK, Phases, fixed, scribe
<1>4. StoredInOrder' /\ StoredPrefixTaken' /\ InTimeOrder(trace)'
  BY <1>1 DEF BabeltraceInv, fixed, scribe, InTimeOrder, StoredInOrder, Ours, Convert,
     StoredPrefixTaken, Takes
<1>5. NothingSkipped'
  BY <1>1 DEF BabeltraceInv, NothingSkipped, HandledIn, Ours, fixed, scribe
<1>6. StoredSoFar'
  <2>1. \A k \in DOMAIN stored : stored[k].place.run <= run
    BY DEF BabeltraceInv, StoredSoFar
  <2>2. QED
    BY <1>1, <1>2, <2>1, TypeFacts DEF StoredSoFar, scribe
<1>7. AnswerIsHandled' /\ PrefixTaken'
  BY <1>1 DEF AnswerIsHandled, PrefixTaken
<1>8. QED
  BY <1>3, <1>4, <1>5, <1>6, <1>7 DEF BabeltraceInv

-------------------------------------------------------------------------------
\* Every step of the plugin, of Scribe, of the network and of the operator
\* keeps the invariant of the consumers.
LEMMA BabeltraceStep ==
  ASSUME BabeltraceInv, [Next]_vars
  PROVE  BabeltraceInv'
<1>1. CASE PhaseStep
  BY <1>1, PhaseStepKeeps
<1>2. CASE Skip \/ Answered
  BY <1>2, AdvanceKeeps
<1>3. CASE Accept
  BY <1>3, AcceptKeeps
<1>4. CASE TryLater
  BY <1>4, TryLaterKeeps
<1>5. CASE Again
  BY <1>5, AgainKeeps
<1>6. CASE UNCHANGED vars
  BY <1>6 DEF vars, BabeltraceInv, TypeOK, InTimeOrder, StoredInOrder, Ours, Convert,
     NothingSkipped, Handled, HandledIn, StoredSoFar, AnswerIsHandled, PrefixTaken,
     StoredPrefixTaken, Takes
<1>7. QED
  BY <1>1, <1>2, <1>3, <1>4, <1>5, <1>6 DEF Next, Step, PhaseStep

\* For every set of events, bound and number of runs, the invariant of the
\* consumers holds whatever Scribe answers and wherever a run breaks off.
THEOREM BabeltraceInvariant == Spec => []BabeltraceInv
<1>1. BabeltraceInv /\ [Next]_vars => BabeltraceInv'
  BY BabeltraceStep
<1>2. QED
  BY <1>1, InitBabeltrace, PTL DEF Spec

\* Scribe holds the plugin's events in order, each at most once per run.
THEOREM StoredOrder == Spec => []StoredInOrder
<1>1. BabeltraceInv => StoredInOrder
  BY DEF BabeltraceInv
<1>2. QED
  BY <1>1, BabeltraceInvariant, PTL

\* A run leaves out no event before the place it has come to.
THEOREM NoGaps == Spec => []NothingSkipped
<1>1. BabeltraceInv => NothingSkipped
  BY DEF BabeltraceInv
<1>2. QED
  BY <1>1, BabeltraceInvariant, PTL

\* What is behind an event the plugin cannot convert never reaches Scribe.
THEOREM BadEventCutsOff == Spec => []NothingBehindABadEvent
<1>1. BabeltraceInv => NothingBehindABadEvent
  <2> SUFFICES ASSUME BabeltraceInv, NEW p \in DOMAIN trace,
                      Ours(trace[p]), ~Takes(trace[p])
               PROVE  /\ phase # "closed"
                      /\ \A k \in DOMAIN stored : stored[k].place.pos < p
    BY DEF NothingBehindABadEvent
  <2>1. TypeOK /\ PrefixTaken
    BY DEF BabeltraceInv
  <2>2. phase # "closed"
    BY <2>1, TypeFacts DEF PrefixTaken
  <2>3. ASSUME NEW k \in DOMAIN stored
        PROVE  stored[k].place.pos < p
    <3>1. stored[k].place.pos \in Nat
      BY <2>1, TypeFacts
    <3>2. p \notin 1 .. stored[k].place.pos
      BY DEF BabeltraceInv, StoredPrefixTaken
    <3>3. QED
      BY <2>1, <3>1, <3>2, TypeFacts
  <2>4. QED
    BY <2>2, <2>3
<1>2. QED
  BY <1>1, BabeltraceInvariant, PTL

\* Cutting digits off keeps times in order.
LEMMA MicrosAscend ==
  ASSUME NEW s \in Nat, NEW t \in Nat, s <= t
  PROVE  s \div 1000 <= t \div 1000
  OBVIOUS

\* The times Scribe gets within a run never go back.
THEOREM TimeOrder == Spec => []TimesAscend
<1>1. BabeltraceInv => TimesAscend
  <2> SUFFICES ASSUME BabeltraceInv,
                      NEW i \in DOMAIN stored, NEW j \in DOMAIN stored, i < j,
                      stored[i].place.run = stored[j].place.run,
                      None \notin {stored[i].msg.at, stored[j].msg.at}
               PROVE  stored[i].msg.at <= stored[j].msg.at
    BY DEF TimesAscend
  <2> DEFINE p == stored[i].place.pos
             q == stored[j].place.pos
  <2>1. TypeOK
    BY DEF BabeltraceInv
  <2>2. \A k \in DOMAIN stored : stored[k].place.pos \in DOMAIN trace
    <3>1. \A l \in Place : l.pos \in Nat /\ 1 <= l.pos
      BY BabeltraceAssumption DEF Place
    <3>2. QED
      BY <2>1, <3>1, TypeFacts DEF BabeltraceInv, StoredInOrder
  <2>3. p < q /\ p \in DOMAIN trace /\ q \in DOMAIN trace
    BY <2>1, <2>2, TypeFacts DEF BabeltraceInv, StoredInOrder
  <2>4. trace[p].ts <= trace[q].ts
    BY <2>3 DEF BabeltraceInv, InTimeOrder
  <2>5. trace[p].ts \in Nat /\ trace[q].ts \in Nat
    BY <2>1, <2>3, TypeFacts
  <2>6. /\ stored[i].msg = Convert(trace[p])
        /\ stored[j].msg = Convert(trace[q])
    BY DEF BabeltraceInv, StoredInOrder
  <2>7. trace[p].ts \div 1000 <= trace[q].ts \div 1000
    BY <2>4, <2>5, MicrosAscend
  <2> HIDE DEF p, q
  <2>8. CASE plugin = "zipkin"
    BY <2>6, <2>7, <2>8 DEF Convert, Plain
  <2>9. CASE plugin # "zipkin"
    BY <2>4, <2>6, <2>9 DEF Convert, Plain
  <2>10. QED
    BY <2>8, <2>9
<1>2. QED
  BY <1>1, BabeltraceInvariant, PTL

-------------------------------------------------------------------------------
\* The trace as Delivery sees it, and the place the run takes next there.
Fed == [p \in DOMAIN trace |->
          [role |-> Role(trace[p]), msg |-> Convert(trace[p])]]

Taken == IF reply = "none" THEN pos ELSE pos + 1

\* The trace is a feed of messages.
LEMMA FedFacts ==
  ASSUME TypeOK
  PROVE  /\ Fed \in Seq(Del!Places) /\ Len(Fed) = Len(trace)
         /\ \A p \in DOMAIN trace : /\ Fed[p].role = Role(trace[p])
                                   /\ Fed[p].msg = Convert(trace[p])
<1>1. /\ Len(trace) \in Nat /\ DOMAIN trace = 1 .. Len(trace)
      /\ \A p \in DOMAIN trace : trace[p] \in Events
  BY TypeFacts
<1>2. ASSUME NEW p \in DOMAIN trace
      PROVE  [role |-> Role(trace[p]), msg |-> Convert(trace[p])] \in Del!Places
  <2>1. Convert(trace[p]) \in Message
    BY <1>1, ConvertType DEF TypeOK
  <2>2. Role(trace[p]) \in {"message", "nothing", "barrier"}
    BY DEF Role
  <2>3. QED
    BY <2>1, <2>2 DEF Del!Places
<1>3. Fed \in [1 .. Len(trace) -> Del!Places]
  BY <1>1, <1>2 DEF Fed
<1>4. QED
  BY <1>1, <1>3 DEF Fed

\* At the start nothing was handed over.
LEMMA DeliveryStarts == Init => Del!Init
<1> SUFFICES ASSUME Init PROVE Del!Init
  OBVIOUS
<1>1. TypeOK
  BY InitBabeltrace DEF BabeltraceInv
<1>2. Fed \in Seq(Del!Places)
  BY <1>1, FedFacts
<1>3. Taken = 1
  BY DEF Init, Taken
<1>4. QED
  BY <1>2, <1>3 DEF Init, Del!Init, Fed, Taken

\* Steps that leave the trace, the run, what Scribe decided and the place taken
\* next alone are nothing to Delivery.
LEMMA NothingDelivered ==
  ASSUME UNCHANGED <<fixed, run, scribe, Taken>>
  PROVE  UNCHANGED Del!vars
<1>1. UNCHANGED Fed
  BY DEF fixed, Fed, Role, Ours, Takes, Convert
<1>2. QED
  BY <1>1 DEF Del!vars, Fed, Taken, scribe

\* Scribe decides on the message at the place taken next.
LEMMA DecisionDelivers ==
  ASSUME BabeltraceInv, Accept \/ TryLater
  PROVE  Del!Next
<1>1. /\ TypeOK /\ PrefixTaken
      /\ phase = "sent" /\ reply = "none" /\ reply' # "none"
      /\ UNCHANGED <<fixed, run, pos>>
  BY DEF BabeltraceInv, Accept, TryLater
<1>2. /\ pos \in Nat /\ pos \in DOMAIN trace /\ pos <= Len(trace)
      /\ Ours(trace[pos]) /\ Takes(trace[pos])
  BY <1>1, TypeFacts DEF PrefixTaken
<1>3. /\ pos <= Len(Fed) /\ Fed[pos].role = "message"
      /\ Fed[pos].msg = Convert(trace[pos])
  BY <1>1, <1>2, FedFacts DEF Role
<1>4. Taken = pos /\ Taken' = pos + 1 /\ UNCHANGED Fed
  BY <1>1 DEF Taken, fixed, Fed, Role, Ours, Takes, Convert
<1>5. Del!GoOn("message")
  BY <1>1, <1>3, <1>4 DEF Del!GoOn, Fed, Taken
<1>6. Del!Here = Here
  BY <1>1 DEF Del!Here, Here
<1>7. CASE Accept
  BY <1>3, <1>4, <1>5, <1>6, <1>7 DEF Accept, Del!Deliver, Del!Next, Fed, Taken
<1>8. CASE TryLater
  BY <1>5, <1>6, <1>8 DEF TryLater, Del!Refuse, Del!Next
<1>9. QED
  BY <1>7, <1>8

\* Every step of a consumer hands over, goes on, starts over, or is nothing to
\* Delivery; the loop goes past an event of its own only after the answer.
LEMMA DeliveryStep ==
  ASSUME BabeltraceInv, [Next]_vars
  PROVE  [Del!Next]_(Del!vars)
<1>1. TypeOK /\ AnswerIsHandled
  BY DEF BabeltraceInv
<1>2. CASE PhaseStep
  <2>1. UNCHANGED <<fixed, run, scribe, Taken>>
    BY <1>2 DEF PhaseStep, Open, OpenFails, Reject, Send, SendFails, Break,
       AnswerLost, Finish, Taken
  <2>2. QED
    BY <2>1, NothingDelivered
<1>3. CASE Skip
  <2>1. /\ pos <= Len(trace) /\ ~Ours(trace[pos]) /\ reply = "none"
        /\ pos' = pos + 1 /\ UNCHANGED <<fixed, run, reply, scribe>>
    BY <1>1, <1>3 DEF Skip, AtEvent, AnswerIsHandled
  <2>2. /\ pos <= Len(Fed) /\ Fed[pos].role = "nothing"
    BY <1>1, <2>1, FedFacts, TypeFacts DEF Role
  <2>3. Taken = pos /\ Taken' = pos + 1 /\ UNCHANGED Fed
    BY <2>1 DEF Taken, fixed, Fed, Role, Ours, Takes, Convert
  <2>4. QED
    BY <2>1, <2>2, <2>3 DEF Del!Next, Del!Pass, Del!GoOn, Fed, Taken, scribe
<1>4. CASE Answered
  <2>1. UNCHANGED <<fixed, run, scribe, Taken>>
    BY <1>4 DEF Answered, Taken
  <2>2. QED
    BY <2>1, NothingDelivered
<1>5. CASE Accept \/ TryLater
  BY <1>5, DecisionDelivers
<1>6. CASE Again
  <2>1. Taken' = 1 /\ UNCHANGED Fed
    BY <1>6 DEF Again, Taken, fixed, Fed, Role, Ours, Takes, Convert
  <2>2. QED
    BY <1>6, <2>1 DEF Again, scribe, Del!Next, Del!Restart, Fed, Taken
<1>7. CASE UNCHANGED vars
  BY <1>7, NothingDelivered DEF vars, fixed, scribe, Taken
<1>8. QED
  BY <1>2, <1>3, <1>4, <1>5, <1>6, <1>7 DEF Next, Step, PhaseStep

\* For every trace, every Scribe server and any number of runs, the consumers
\* implement Delivery.
THEOREM BabeltraceImplementsDelivery == Spec => ImplementsDelivery
<1>1. Init => Del!Init
  BY DeliveryStarts
<1>2. BabeltraceInv /\ [Next]_vars => [Del!Next]_(Del!vars)
  BY DeliveryStep
<1>3. QED
  BY <1>1, <1>2, BabeltraceInvariant, PTL DEF Spec, Del!Spec, ImplementsDelivery

-------------------------------------------------------------------------------
\* What is left of a run is a number.
LEMMA LeftType ==
  BabeltraceInv => StepsLeft \in 0 .. 3 * (Len(trace) + 2)
<1> SUFFICES ASSUME BabeltraceInv PROVE StepsLeft \in 0 .. 3 * (Len(trace) + 2)
  OBVIOUS
<1>1. pos \in Nat /\ 1 <= pos /\ pos <= Len(trace) + 1 /\ Len(trace) \in Nat
  BY TypeFacts DEF BabeltraceInv
<1>2. QED
  BY <1>1 DEF StepsLeft

\* A run ends after three steps for each event and three more, unless Scribe
\* leaves it waiting: each step of the plugin is counted, and neither Scribe nor
\* the network gives it more to do.  RunEnds adds the scheduler to this.
THEOREM RunsAreFinite ==
  Spec => [](StepsLeft \in 0 .. 3 * (Len(trace) + 2)) /\ EveryStepCounts
<1>1. BabeltraceInv /\ [Next]_vars =>
         [/\ Step => StepsLeft' < StepsLeft
          /\ Again \/ StepsLeft' <= StepsLeft]_vars
  <2> SUFFICES ASSUME BabeltraceInv, Next
               PROVE  /\ Step => StepsLeft' < StepsLeft
                      /\ Again \/ StepsLeft' <= StepsLeft
    BY DEF vars
  <2>1. pos \in Nat /\ Len(trace) \in Nat
    BY TypeFacts DEF BabeltraceInv
  <2>2. CASE Step
    <3>1. UNCHANGED trace
      BY <2>2 DEF Step, Open, OpenFails, Skip, Reject, Send, SendFails, Answered,
         AnswerLost, Finish, fixed
    <3>2. CASE Skip \/ Answered
      <4>1. pos' = pos + 1 /\ phase' = "loop" /\ phase \in {"loop", "sent"}
        BY <3>2 DEF Skip, Answered, AtEvent
      <4>2. QED
        BY <2>1, <3>1, <4>1 DEF StepsLeft
    <3>3. CASE ~(Skip \/ Answered)
      <4>1. /\ pos' = pos
            /\ \/ phase = "start" /\ phase' \in {"loop", "raised"}
               \/ phase = "loop" /\ phase' \in {"sent", "raised", "closed"}
               \/ phase = "sent" /\ phase' = "raised"
        BY <2>2, <3>3 DEF Step, Open, OpenFails, Reject, Send, SendFails, AnswerLost,
           Finish, AtEvent
      <4>2. QED
        BY <2>1, <3>1, <4>1 DEF StepsLeft
    <3>4. QED
      BY <3>2, <3>3
  <2>3. CASE Accept \/ TryLater \/ Break
    <3>1. StepsLeft' = StepsLeft /\ UNCHANGED phase
      BY <2>3 DEF Accept, TryLater, Break, fixed, StepsLeft
    <3>2. ~Step
      BY <2>3, <3>1 DEF Accept, TryLater, Break, Step, Open, OpenFails, Skip, Reject,
         Send, SendFails, Answered, AnswerLost, Finish
    <3>3. StepsLeft \in Int
      BY LeftType, <2>1
    <3>4. QED
      BY <3>1, <3>2, <3>3
  <2>4. CASE Again
    BY <2>4 DEF Again, Step, Open, OpenFails, Skip, Reject, Send, SendFails, Answered,
       AnswerLost, Finish, Over, AtEvent
  <2>5. QED
    BY <2>2, <2>3, <2>4 DEF Next
<1>2. QED
  BY <1>1, LeftType, BabeltraceInvariant, PTL DEF Spec, EveryStepCounts
===============================================================================
