------------------------------ MODULE Babeltrace ------------------------------
(***************************************************************************)
(* The two consumers under src/babeltrace-plugins, each a loop that reads  *)
(* a finished LTTng trace event by event and logs what it makes of the     *)
(* event to a Scribe server: babeltrace_zipkin.py sends Zipkin spans,      *)
(* babeltrace_json.py sends JSON.  An exception ends the run wherever it   *)
(* comes from; the operator may then run the plugin again on the trace.    *)
(*                                                                         *)
(* External: babeltrace, which yields the events of all processes in the   *)
(* order of their timestamps, Scribe and the connection to it.  An event   *)
(* is what tells the plugins' decisions apart: provider and kind from its  *)
(* name, the groups of fields it has, a few of their values.               *)
(***************************************************************************)
EXTENDS Integers, Sequences

CONSTANTS Plugins,    \* the plugins explored, among "zipkin" and "json"
          Events,     \* the events a trace may hold
          Ids, Zero,  \* identifiers, the one for no parent
          Texts,      \* names and what was annotated
          None,       \* Python's None
          MaxEvents,  \* bound on the length of a trace
          MaxRuns     \* bound on the runs on a trace

Groups == {"identity", "host", "keyval", "event"}

ASSUME BabeltraceAssumption ==
  /\ Plugins \subseteq {"zipkin", "json"}
  /\ Events \subseteq [provider : {"zipkin", "other"},
                       kind : {"keyval", "timestamp", "unknown"},
                       fields : SUBSET Groups, ip : {"dotted", "NaN"},
                       port : Int, trace : Ids, span : Ids, parent : Ids,
                       trace_name : Texts, service_name : Texts, value : Texts,
                       ts : Nat]
  /\ Zero \in Ids
  /\ None \notin Ids \cup Int
  /\ MaxEvents \in Nat
  /\ MaxRuns \in Nat \ {0}

VARIABLES plugin,   \* the plugin that runs
          trace,    \* the events of the trace, never changed
          run,      \* number of the run
          phase,    \* what the plugin is doing
          pos,      \* position of the event it has come to
          up,       \* the connection to Scribe holds
          reply,    \* the answer of Scribe that was not read yet
          stored,   \* what Scribe accepted, with the run and the position
          refused   \* the runs and positions Scribe answered TRY_LATER for

vars == <<plugin, trace, run, phase, pos, up, reply, stored, refused>>
fixed == <<plugin, trace>>
scribe == <<stored, refused>>

Over == {"closed", "raised"}
Phases == {"start", "loop", "sent"} \cup Over

Message == [name : Texts, host : Texts, value : Texts,
            trace : Ids, span : Ids, parent : Ids \cup {None},
            at : Nat \cup {None}]

Place == [run : 1 .. MaxRuns, pos : 1 .. MaxEvents]

Entry == [place : Place, msg : Message]

TypeOK ==
  /\ plugin \in Plugins
  /\ trace \in Seq(Events) /\ Len(trace) <= MaxEvents
  /\ run \in 1 .. MaxRuns
  /\ phase \in Phases
  /\ pos \in 1 .. Len(trace) + 1
  /\ up \in BOOLEAN
  /\ reply \in {"none", "ok", "later"}
  /\ stored \in Seq(Entry)
  /\ refused \subseteq Place

InTimeOrder(s) == \A i, j \in DOMAIN s : i < j => s[i].ts <= s[j].ts

Init ==
  /\ plugin \in Plugins
  /\ \E n \in 0 .. MaxEvents : trace \in [1 .. n -> Events]
  /\ InTimeOrder(trace)
  /\ run = 1
  /\ phase = "start"
  /\ pos = 1
  /\ up = FALSE
  /\ reply = "none"
  /\ stored = << >>
  /\ refused = {}

-------------------------------------------------------------------------------
\* The zipkin plugin passes over events of other providers.
Ours(e) == plugin = "zipkin" => e.provider = "zipkin"

\* Every access of a field that is missing raises, as does an annotation of
\* unknown kind, a time too short to cut three digits off, an address that
\* inet_aton does not take and a port that is not an I16.
ZipkinTakes(e) ==
  /\ {"identity", "host"} \subseteq e.fields
  /\ \/ e.kind = "keyval" /\ "keyval" \in e.fields
     \/ e.kind = "timestamp" /\ "event" \in e.fields /\ e.ts >= 1000
  /\ e.ip = "dotted"
  /\ -32768 <= e.port /\ e.port <= 32767

JsonTakes(e) == {"identity", "host", "event"} \subseteq e.fields

Takes(e) == IF plugin = "zipkin" THEN ZipkinTakes(e) ELSE JsonTakes(e)

\* The fields that reach Scribe as they are.
Plain(e, parent, at) ==
  [name |-> e.trace_name, host |-> e.service_name, value |-> e.value,
   trace |-> e.trace, span |-> e.span, parent |-> parent, at |-> at]

\* Mutant: the last three digits of the time are kept, not cut.
ConvertLow(e) ==
  Plain(e, e.parent, IF e.kind = "keyval" THEN None ELSE e.ts % 1000)

\* Zipkin's time is in microseconds, and only timestamp annotations have one.
Convert(e) ==
  IF plugin = "zipkin"
  THEN Plain(e, IF e.parent = Zero THEN None ELSE e.parent,
             IF e.kind = "timestamp" THEN e.ts \div 1000 ELSE None)
  ELSE Plain(e, e.parent, e.ts)

Here == [run |-> run, pos |-> pos]
AtEvent == phase = "loop" /\ pos <= Len(trace)

\* The connection is opened, then the trace.
Open == /\ phase = "start"
        /\ phase' = "loop"
        /\ up' = TRUE
        /\ UNCHANGED <<fixed, run, pos, reply, scribe>>

\* Bad arguments, no server, no trace.
OpenFails == /\ phase = "start"
             /\ phase' = "raised"
             /\ UNCHANGED <<fixed, run, pos, up, reply, scribe>>

\* Mutant: the loop does not get past an event of another provider.
SkipForEver == /\ AtEvent
               /\ ~Ours(trace[pos])
               /\ UNCHANGED vars

Skip == /\ AtEvent
        /\ ~Ours(trace[pos])
        /\ pos' = pos + 1
        /\ UNCHANGED <<fixed, run, phase, up, reply, scribe>>

\* Mutant: an event that cannot be converted is dropped.
RejectDrops == /\ AtEvent
               /\ Ours(trace[pos]) /\ ~Takes(trace[pos])
               /\ pos' = pos + 1
               /\ UNCHANGED <<fixed, run, phase, up, reply, scribe>>

Reject == /\ AtEvent
          /\ Ours(trace[pos]) /\ ~Takes(trace[pos])
          /\ phase' = "raised"
          /\ UNCHANGED <<fixed, run, pos, up, reply, scribe>>

Send == /\ AtEvent
        /\ Ours(trace[pos]) /\ Takes(trace[pos])
        /\ up
        /\ phase' = "sent"
        /\ UNCHANGED <<fixed, run, pos, up, reply, scribe>>

\* Mutant: the error is swallowed and the next event taken.
SendFailsQuietly == /\ AtEvent
                    /\ Ours(trace[pos]) /\ Takes(trace[pos])
                    /\ ~up
                    /\ pos' = pos + 1
                    /\ UNCHANGED <<fixed, run, phase, up, reply, scribe>>

SendFails == /\ AtEvent
             /\ Ours(trace[pos]) /\ Takes(trace[pos])
             /\ ~up
             /\ phase' = "raised"
             /\ UNCHANGED <<fixed, run, pos, up, reply, scribe>>

\* Scribe takes the message, or asks to try again later.
Accept == /\ phase = "sent" /\ up /\ reply = "none"
          /\ stored' = Append(stored, [place |-> Here, msg |-> Convert(trace[pos])])
          /\ reply' = "ok"
          /\ UNCHANGED <<fixed, run, phase, pos, up, refused>>

TryLater == /\ phase = "sent" /\ up /\ reply = "none"
            /\ refused' = refused \cup {Here}
            /\ reply' = "later"
            /\ UNCHANGED <<fixed, run, phase, pos, up, stored>>

\* Mutant: the same event is sent again.
AnsweredAgain == /\ phase = "sent" /\ reply # "none"
                 /\ reply' = "none"
                 /\ phase' = "loop"
                 /\ Len(stored) < MaxEvents
                 /\ UNCHANGED <<fixed, run, pos, up, scribe>>

\* Mutant: the message is sent one way, nobody reads the answer.
AnsweredUnread == /\ phase = "sent"
                  /\ reply' = "none"
                  /\ phase' = "loop"
                  /\ pos' = pos + 1
                  /\ UNCHANGED <<fixed, run, up, scribe>>

\* The answer is read, and whatever it says the loop goes on.
Answered == /\ phase = "sent" /\ reply # "none"
            /\ reply' = "none"
            /\ phase' = "loop"
            /\ pos' = pos + 1
            /\ UNCHANGED <<fixed, run, up, scribe>>

\* The connection breaks, and with it the wait for the answer.
Break == /\ up /\ phase \in {"loop", "sent"}
         /\ up' = FALSE
         /\ UNCHANGED <<fixed, run, phase, pos, reply, scribe>>

AnswerLost == /\ phase = "sent" /\ ~up
              /\ phase' = "raised"
              /\ UNCHANGED <<fixed, run, pos, up, reply, scribe>>

Finish == /\ phase = "loop" /\ pos > Len(trace)
          /\ phase' = "closed"
          /\ UNCHANGED <<fixed, run, pos, up, reply, scribe>>

\* The operator runs the plugin again: nothing of the last run is remembered.
Again == /\ phase \in Over
         /\ run < MaxRuns
         /\ run' = run + 1
         /\ phase' = "start" /\ pos' = 1 /\ up' = FALSE /\ reply' = "none"
         /\ UNCHANGED <<fixed, scribe>>

Step == \/ Open \/ OpenFails \/ Skip \/ Reject \/ Send \/ SendFails
        \/ Answered \/ AnswerLost \/ Finish

Next == Step \/ Accept \/ TryLater \/ Break \/ Again

\* The plugin is scheduled; neither Scribe nor the operator owes it anything.
Spec == Init /\ [][Next]_vars /\ WF_vars(Step)

-------------------------------------------------------------------------------
\* What Scribe holds are the plugin's events, converted, each at most once per
\* run and in the order of the trace, wherever runs broke off.
StoredInOrder ==
  /\ \A k \in DOMAIN stored :
        /\ stored[k].place.pos <= Len(trace)
        /\ Ours(trace[stored[k].place.pos])
        /\ stored[k].msg = Convert(trace[stored[k].place.pos])
  /\ \A i, j \in DOMAIN stored :
        i < j => \/ stored[i].place.run < stored[j].place.run
                 \/ /\ stored[i].place.run = stored[j].place.run
                    /\ stored[i].place.pos < stored[j].place.pos

\* Scribe has answered for event p of run r.
HandledIn(r, p) == \/ [run |-> r, pos |-> p] \in refused
                   \/ \E k \in DOMAIN stored : stored[k].place = [run |-> r, pos |-> p]

Handled(p) == HandledIn(run, p)

\* A run loses an event only where Scribe asked to try later: everything of
\* the plugin before the place the run has come to, and before whatever an
\* earlier run stored, was stored or refused in that run.
NothingSkipped ==
  /\ \A p \in 1 .. pos - 1 : Ours(trace[p]) => Handled(p)
  /\ \A n \in DOMAIN stored : \A p \in 1 .. stored[n].place.pos - 1 :
        Ours(trace[p]) => HandledIn(stored[n].place.run, p)

\* One event the plugin cannot convert cuts off the rest of the trace: in no
\* run is anything behind it stored, and no run closes the connection.  To the
\* json plugin every key-value annotation and every event of another provider
\* is such an event.  That this is not what the documents promise is what
\* NoEventEndsARun is about.
NothingBehindABadEvent ==
  \A p \in DOMAIN trace :
     Ours(trace[p]) /\ ~Takes(trace[p]) =>
        /\ phase # "closed"
        /\ \A k \in DOMAIN stored : stored[k].place.pos < p

\* The times Scribe gets within a run never go back, though a conversion cuts
\* digits off and annotations of several processes are mixed.
TimesAscend ==
  \A i, j \in DOMAIN stored :
     /\ i < j
     /\ stored[i].place.run = stored[j].place.run
     /\ None \notin {stored[i].msg.at, stored[j].msg.at}
     => stored[i].msg.at <= stored[j].msg.at

\* A run ends unless Scribe leaves a message unanswered for ever: there is no
\* timeout, but also no event the loop could be caught at.
RunEnds == []<>(phase # "sent") => []<>(phase \in Over)

\* How many steps the plugin can still take in this run, at most.
StepsLeft ==
  3 * (Len(trace) + 1 - pos)
  + CASE phase = "start" -> 3 [] phase = "loop" -> 2 [] phase = "sent" -> 1 [] OTHER -> 0

\* No step of the plugin leads back to an event, and nothing but a new run gives
\* it more to do.
EveryStepCounts ==
  [][/\ Step => StepsLeft' < StepsLeft
     /\ Again \/ StepsLeft' <= StepsLeft]_vars

\* What the documents say of events the plugins do not expect: those that do
\* not follow the format "will be dropped" (zipkin/README.md), and the json
\* plugin sends "any LTTng traces" (debian/control), of applications that "have
\* not used the blkin-lib" (README.md).  No event would end a run, only the
\* connection.
NoEventEndsARun == phase = "raised" => ~up

-------------------------------------------------------------------------------
Role(e) == IF ~Ours(e) THEN "nothing"
           ELSE IF Takes(e) THEN "message" ELSE "barrier"

\* What happens between a message and its answer happens, to Delivery, when
\* Scribe decides: from then on the run has gone past the event.
Del == INSTANCE Delivery WITH
         Messages <- Message,
         feed <- [p \in DOMAIN trace |->
                    [role |-> Role(trace[p]), msg |-> Convert(trace[p])]],
         next <- IF reply = "none" THEN pos ELSE pos + 1

\* Wherever connections break, answers get lost and exceptions end a run, the
\* consumers implement Delivery: no event is passed over before Scribe decided
\* on it, none is handed over twice in a run, and none behind a bad one.
ImplementsDelivery == Del!Spec

-------------------------------------------------------------------------------
\* The inductive invariant behind the safety properties.

\* This run stored nothing beyond the place it has come to, and there only
\* what it waits for the answer to, or died waiting for.
StoredSoFar ==
  \A k \in DOMAIN stored :
     /\ stored[k].place.run <= run
     /\ stored[k].place.run = run =>
           \/ stored[k].place.pos < pos
           \/ /\ stored[k].place.pos = pos
              /\ phase = "sent" => reply = "ok"
              /\ phase \in {"sent", "raised"}

\* Scribe answers what it has handled, and nothing else.
AnswerIsHandled ==
  reply # "none" => /\ phase \in {"sent", "raised"}
                    /\ Handled(pos)

\* The loop has come to pos over events it could convert.
PrefixTaken ==
  /\ \A p \in 1 .. pos - 1 : Ours(trace[p]) => Takes(trace[p])
  /\ phase = "sent" => /\ pos <= Len(trace)
                       /\ Ours(trace[pos]) /\ Takes(trace[pos])
  /\ phase = "closed" => pos > Len(trace)

StoredPrefixTaken ==
  \A k \in DOMAIN stored : \A p \in 1 .. stored[k].place.pos :
     Ours(trace[p]) => Takes(trace[p])

\* Why a plugin that never looks at an answer still tells the truth: it moves
\* on only after the answer, so a run's messages mark the way it has come.
BabeltraceInv ==
  /\ TypeOK
  /\ InTimeOrder(trace)
  /\ StoredInOrder
  /\ NothingSkipped
  /\ StoredSoFar
  /\ AnswerIsHandled
  /\ PrefixTaken
  /\ StoredPrefixTaken
===============================================================================
