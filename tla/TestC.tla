-------------------------------- MODULE TestC --------------------------------
(***************************************************************************)
(* The two processes of src/src/tests/testc.c: A starts a trace per round, *)
(* sends the identity of its span to B over a UNIX stream socket, B makes  *)
(* a child span of whatever its message struct holds, and acknowledges.    *)
(* Nobody looks at what send and recv return.                              *)
(*                                                                         *)
(* The library is used through what ZipkinC is shown to implement: a new   *)
(* trace and a child are the steps of Dapper, an event names its span.     *)
(* With oneProcess the two are threads of one process that initialises the *)
(* library once and listens before they start, as in tests/test.cc;        *)
(* without it they are processes that race, as in testc.c and test_p.cc.   *)
(* Kill ends a process at any point.                                       *)
(***************************************************************************)
EXTENDS Integers, Sequences, FiniteSets

CONSTANTS Rounds,       \* rounds of the loops of both processes, 10 in the code
          Ids,          \* what the generator of identifiers may return
          Zero,         \* the identifier 0
          Garbage,      \* identities an uninitialised struct may hold
          InitResults,  \* what blkin_init may return
          OneProcess,   \* the values oneProcess is explored for
          MayKill,      \* may a process be killed?
          MayFail       \* may socket, bind, listen, accept and connect fail?

ASSUME TestCAssumption ==
  /\ Rounds \in Nat \ {0}
  /\ Zero \in Ids
  /\ Garbage \subseteq [trace_id : Ids, span_id : Ids, parent_span_id : Ids]
  /\ InitResults \subseteq Int
  /\ OneProcess \subseteq BOOLEAN
  /\ MayKill \in BOOLEAN /\ MayFail \in BOOLEAN

VARIABLES pc,           \* pc[p]: what process p does next
          round,        \* round[p]: rounds p has finished
          cur,          \* cur[p]: position in spans of the span p works on
          msg,          \* the trace_info in B's struct message
          connected,    \* B's connect has succeeded
          toA, toB,     \* the two directions of the stream
          log,          \* the LTTng events of both, in order
          killed,       \* the processes killed from outside
          oneProcess,   \* the program: test.cc, or testc.c and test_p.cc
          spans, roots  \* history: the spans started, those without parent

vars == <<pc, round, cur, msg, connected, toA, toB, log, killed, oneProcess,
          spans, roots>>
netVars == <<connected, toA, toB>>
fixed == <<killed, oneProcess>>
spanVars == <<spans, roots>>

D == INSTANCE Dapper WITH events <- [k \in DOMAIN log |-> spans[log[k].span]]

Processes == {"A", "B"}
Gone == {"done", "exit", "dead"}  \* left, gave up at once, killed
StepsOfA == {"init", "listen", "accept", "start", "send", "wait", "end"} \cup Gone
StepsOfB == {"init", "connect", "recv", "start", "end", "reply"} \cup Gone

TypeOK ==
  /\ pc \in [Processes -> StepsOfA \cup StepsOfB]
  /\ pc["A"] \in StepsOfA /\ pc["B"] \in StepsOfB
  /\ round \in [Processes -> 0 .. Rounds]
  /\ cur \in [Processes -> 0 .. Len(spans)]
  /\ msg \in D!Identity
  /\ connected \in BOOLEAN
  /\ toA \in Seq({"*"}) /\ toB \in Seq(D!Identity) /\ Len(toA) + Len(toB) <= 1
  /\ log \in Seq([by : Processes, what : {"start", "end"}, span : DOMAIN spans])
  /\ killed \subseteq Processes
  /\ oneProcess \in BOOLEAN
  /\ spans \in Seq(D!Identity)
  /\ roots \subseteq DOMAIN spans

Init ==
  /\ pc = [p \in Processes |-> "init"]
  /\ round = [p \in Processes |-> 0]
  /\ cur = [p \in Processes |-> 0]
  /\ msg \in Garbage  \* never initialised
  /\ connected = FALSE
  /\ toA = << >> /\ toB = << >>
  /\ log = << >>
  /\ killed = {}
  /\ oneProcess \in OneProcess
  /\ spans = << >> /\ roots = {}

Goto(p, step) == pc' = [pc EXCEPT ![p] = step]

\* A signal or exit ends a process, and every thread of it.
Leave(p, how) ==
  pc' = IF oneProcess THEN [q \in Processes |-> how] ELSE [pc EXCEPT ![p] = how]

\* Mutant: the socket of a killed process stays open.
ClosedOnExit(p) == pc[p] \in {"done", "exit"}

\* The end of a process closes its sockets, the end of a thread does not.
Closed(p) == pc[p] \in Gone /\ ~(oneProcess /\ pc[p] = "done")

Listening == pc["A"] \in StepsOfA \ (Gone \cup {"init", "listen"})

Event(p, what, s) == log' = Append(log, [by |-> p, what |-> what, span |-> s])

-------------------------------------------------------------------------------
\* blkin_init, and exit when it reports an error.
InitLibrary(p, next) ==
  \E r \in InitResults : IF r < 0 THEN Leave(p, "exit") ELSE Goto(p, next)

AInit == /\ pc["A"] = "init"
         /\ InitLibrary("A", "listen")
         /\ UNCHANGED <<round, cur, msg, netVars, log, fixed, spanVars>>

\* Threads start when main has initialised the library and listens.
BInit == /\ pc["B"] = "init"
         /\ \/ oneProcess /\ Listening /\ Goto("B", "connect")
            \/ ~oneProcess /\ InitLibrary("B", "connect")
         /\ UNCHANGED <<round, cur, msg, netVars, log, fixed, spanVars>>

\* socket, unlink, bind and listen.
AListen == /\ pc["A"] = "listen"
           /\ Goto("A", "accept")
           /\ UNCHANGED <<round, cur, msg, netVars, log, fixed, spanVars>>

\* One of them fails: "perror" and exit.
AListenFails == /\ pc["A"] = "listen"
                /\ MayFail
                /\ Leave("A", "exit")
                /\ UNCHANGED <<round, cur, msg, netVars, log, fixed, spanVars>>

\* accept blocks until a connection is pending.
AAccept == /\ pc["A"] = "accept"
           /\ connected
           /\ Goto("A", "start")
           /\ UNCHANGED <<round, cur, msg, netVars, log, fixed, spanVars>>

\* accept fails, whether B has connected or not.
AAcceptFails == /\ pc["A"] = "accept"
                /\ MayFail
                /\ Leave("A", "exit")
                /\ UNCHANGED <<round, cur, msg, netVars, log, fixed, spanVars>>

\* A new trace and its "start" event.
AStart == /\ pc["A"] = "start"
          /\ \E tid, sid \in Ids : spans' = Append(spans, D!Root(tid, sid))
          /\ roots' = roots \cup {Len(spans) + 1}
          /\ cur' = [cur EXCEPT !["A"] = Len(spans) + 1]
          /\ Event("A", "start", Len(spans) + 1)
          /\ Goto("A", "send")
          /\ UNCHANGED <<round, msg, netVars, fixed>>

\* blkin_get_trace_info into the message, and send.
ASend == /\ pc["A"] = "send"
         /\ ~Closed("B")
         /\ toB' = Append(toB, spans[cur["A"]])
         /\ Goto("A", "wait")
         /\ UNCHANGED <<round, cur, msg, connected, toA, log, fixed, spanVars>>

\* Nobody reads any more: SIGPIPE, which A does not handle.
ASendFails == /\ pc["A"] = "send"
              /\ Closed("B")
              /\ Leave("A", "dead")
              /\ UNCHANGED <<round, cur, msg, netVars, log, fixed, spanVars>>

\* recv of the acknowledgement.
AWait == /\ pc["A"] = "wait"
         /\ toA # << >>
         /\ toA' = Tail(toA)
         /\ Goto("A", "end")
         /\ UNCHANGED <<round, cur, msg, connected, toB, log, fixed, spanVars>>

\* Mutant: recv does not wait for the acknowledgement.
AWaitNonblocking == /\ pc["A"] = "wait"
                    /\ toA = << >>
                    /\ Goto("A", "end")
                    /\ UNCHANGED <<round, cur, msg, netVars, log, fixed, spanVars>>

\* recv returns 0 or an error: B is gone.  A goes on.
AWaitEof == /\ pc["A"] = "wait"
            /\ toA = << >>
            /\ Closed("B")
            /\ Goto("A", "end")
            /\ UNCHANGED <<round, cur, msg, netVars, log, fixed, spanVars>>

\* Mutant: one round too many.
NextRoundLong(p, step) ==
  /\ round' = [round EXCEPT ![p] = @ + 1]
  /\ Goto(p, IF round[p] + 1 <= Rounds THEN step ELSE "done")

\* Process p has finished its round; it goes to step again or leaves.
NextRound(p, step) ==
  /\ round' = [round EXCEPT ![p] = @ + 1]
  /\ Goto(p, IF round[p] + 1 < Rounds THEN step ELSE "done")

\* The "end" event; close after the last round.
AEnd == /\ pc["A"] = "end"
        /\ Event("A", "end", cur["A"])
        /\ NextRound("A", "start")
        /\ UNCHANGED <<cur, msg, netVars, fixed, spanVars>>

BConnect == /\ pc["B"] = "connect"
            /\ Listening
            /\ connected' = TRUE
            /\ Goto("B", "recv")
            /\ UNCHANGED <<round, cur, msg, toA, toB, log, fixed, spanVars>>

\* Nobody listens (yet), so connect fails, or socket does: B exits.
BConnectFails == /\ pc["B"] = "connect"
                 /\ ~Listening \/ MayFail
                 /\ Leave("B", "exit")
                 /\ UNCHANGED <<round, cur, msg, netVars, log, fixed, spanVars>>

BRecv == /\ pc["B"] = "recv"
         /\ toB # << >>
         /\ msg' = Head(toB)
         /\ toB' = Tail(toB)
         /\ Goto("B", "start")
         /\ UNCHANGED <<round, cur, connected, toA, log, fixed, spanVars>>

\* recv returns 0 or an error and does not write the message.  B goes on with
\* the last one in testc.c, and in test.cc and test_p.cc with a fresh struct,
\* never initialised: what it finds in memory may be the last one again.
BRecvEof == /\ pc["B"] = "recv"
            /\ toB = << >>
            /\ Closed("A")
            /\ msg' \in {msg} \cup Garbage
            /\ Goto("B", "start")
            /\ UNCHANGED <<round, cur, netVars, log, fixed, spanVars>>

\* blkin_init_child_info from the message, and the "start" event.
BStart == /\ pc["B"] = "start"
          /\ \E sid \in Ids : spans' = Append(spans, D!ChildOf(msg, sid))
          /\ cur' = [cur EXCEPT !["B"] = Len(spans) + 1]
          /\ Event("B", "start", Len(spans) + 1)
          /\ Goto("B", "end")
          /\ UNCHANGED <<round, msg, netVars, roots, fixed>>

BEnd == /\ pc["B"] = "end"
        /\ Event("B", "end", cur["B"])
        /\ Goto("B", "reply")
        /\ UNCHANGED <<round, cur, msg, netVars, fixed, spanVars>>

\* Mutant: the acknowledgement is forgotten.
BReplyForgotten == /\ pc["B"] = "reply"
                   /\ ~Closed("A")
                   /\ NextRound("B", "recv")
                   /\ UNCHANGED <<cur, msg, netVars, log, fixed, spanVars>>

\* send of the acknowledgement; B exits after its last round.
BReply == /\ pc["B"] = "reply"
          /\ ~Closed("A")
          /\ toA' = Append(toA, "*")
          /\ NextRound("B", "recv")
          /\ UNCHANGED <<cur, msg, connected, toB, log, fixed, spanVars>>

\* Mutant: B ignores SIGPIPE as it ignores what send returns.
BReplyFailsQuietly == /\ pc["B"] = "reply"
                      /\ Closed("A")
                      /\ NextRound("B", "recv")
                      /\ UNCHANGED <<cur, msg, netVars, log, fixed, spanVars>>

BReplyFails == /\ pc["B"] = "reply"
               /\ Closed("A")
               /\ Leave("B", "dead")
               /\ UNCHANGED <<round, cur, msg, netVars, log, fixed, spanVars>>

Kill(p) == /\ MayKill
           /\ ~Closed(p)
           /\ Leave(p, "dead")
           /\ killed' = killed \cup {p}
           /\ UNCHANGED <<round, cur, msg, netVars, log, oneProcess, spanVars>>

StepA == \/ AInit \/ AListen \/ AListenFails \/ AAccept \/ AAcceptFails
         \/ AStart \/ ASend \/ ASendFails \/ AWait \/ AWaitEof \/ AEnd
StepB == \/ BInit \/ BConnect \/ BConnectFails \/ BRecv \/ BRecvEof
         \/ BStart \/ BEnd \/ BReply \/ BReplyFails

Next == StepA \/ StepB \/ \E p \in Processes : Kill(p)

\* Both processes are scheduled while they can move; no one has to be killed.
Spec == Init /\ [][Next]_vars /\ WF_vars(StepA) /\ WF_vars(StepB)

-------------------------------------------------------------------------------
\* Position k of the log is event what of process p for span s.
At(k, p, what, s) == log[k] = [by |-> p, what |-> what, span |-> s]

Before(k, p, what, s) == \E i \in 1 .. k - 1 : At(i, p, what, s)

\* B's span j began inside a span of A that it is the child of.
BeganInParent(j) ==
  \E k \in DOMAIN log, i \in roots :
     /\ At(k, "B", "start", j)
     /\ D!IsParent(i, j)
     /\ Before(k, "A", "start", i) /\ ~Before(k, "A", "end", i)

\* A's span i, if it has ended, ended after a child of it had ended.
EndedAfterChild(i) ==
  \A k \in DOMAIN log : At(k, "A", "end", i) =>
     \E j \in DOMAIN spans \ roots : D!IsParent(i, j) /\ Before(k, "B", "end", j)

Wrong == {j \in DOMAIN spans \ roots : ~BeganInParent(j)}
         \cup {i \in roots : ~EndedAfterChild(i)}

\* Nobody gave up at once, and nobody was killed either.
Started == \A p \in Processes : pc[p] # "exit"
Undisturbed == killed = {} /\ Started
Finished == \A p \in Processes : pc[p] = "done"

\* The trace shows what happened as long as nobody was killed or gave up: every
\* span of B lies, in the common log, inside the span of A that is its parent,
\* however the two processes interleave.
SpansNest == Undisturbed => Wrong = {}

\* recv and send go unchecked, so a process whose peer is gone, killed or with
\* a failed accept, records a span it should not have, of a message it never
\* got or without an answer; then SIGPIPE stops it.  One such span is the most
\* this can cost.
OneWrongSpanPerCrash == Cardinality(Wrong) <= 1

\* When the parent listens before the child exists, in test.cc, all rounds are
\* completed unless somebody is killed, or the library or a socket cannot be had.
CompletesListening == (oneProcess /\ []Undisturbed) => <>Finished

\* A peer who was killed or gave up never leaves the other one waiting once they
\* are connected.
NobodyWaitsForTheDead ==
  \A p, q \in Processes :
     (connected /\ pc[p] \in {"exit", "dead"}) ~> pc[q] \in Gone

\* Process p is in a call that blocks.
Waits(p) ==
  \/ p = "A" /\ pc[p] = "accept" /\ ~connected
  \/ p = "A" /\ pc[p] = "wait" /\ toA = << >> /\ ~Closed("B")
  \/ p = "B" /\ pc[p] = "init" /\ oneProcess /\ ~Listening
  \/ p = "B" /\ pc[p] = "recv" /\ toB = << >> /\ ~Closed("A")

\* Why the peers do not hang once they are connected, and in test.cc never:
\* whoever waits does so for somebody who is there and does not wait himself.
NobodyWaitsInVain ==
  connected \/ oneProcess =>
    \A p, q \in Processes : p # q /\ Waits(p) => pc[q] \notin Gone /\ ~Waits(q)

\* How many steps p can still take, at most.
StageOfA(step) ==
  CASE step = "init" -> 7 [] step = "listen" -> 6 [] step = "accept" -> 5
    [] step = "start" -> 4 [] step = "send" -> 3 [] step = "wait" -> 2 [] OTHER -> 1

StageOfB(step) ==
  CASE step = "init" -> 6 [] step = "connect" -> 5 [] step = "recv" -> 4
    [] step = "start" -> 3 [] step = "end" -> 2 [] OTHER -> 1

StepsLeft(p) ==
  IF pc[p] \in Gone THEN 0
  ELSE 4 * (Rounds - round[p])
       + IF p = "A" THEN StageOfA(pc[p]) ELSE StageOfB(pc[p])

Work == StepsLeft("A") + StepsLeft("B")

\* Whatever the peers do brings them nearer to their end, a kill no further
\* from it: no loop goes round without a message or the end of the peer.
EveryStepCounts ==
  [][/\ StepA \/ StepB => Work' < Work
     /\ Work' <= Work]_vars

\* testc.c, 10 rounds, nobody killed and nothing failed: it completes.
Completes == <>Finished

-------------------------------------------------------------------------------
\* The inductive invariant behind the safety properties.

Frozen(p) == pc[p] \in {"exit", "dead"}

Logged(p, what, i) == \E k \in DOMAIN log : At(k, p, what, i)

Running(i) == i \in roots /\ Logged("A", "start", i) /\ ~Logged("A", "end", i)

ChildEnded(i) ==
  \E j \in DOMAIN spans \ roots : D!IsParent(i, j) /\ Logged("B", "end", j)

\* What B's span is the child of, while A waits for it.
ChildRuns == LET i == cur["A"]
                 j == cur["B"]
             IN  /\ Running(i)
                 /\ pc["B"] = "start" => msg = spans[i]
                 /\ pc["B"] \in {"end", "reply"} =>
                      j \in DOMAIN spans \ roots /\ D!IsParent(i, j)
                 /\ pc["B"] = "reply" => Logged("B", "end", j)

\* As long as both go on they take turns.
Lockstep ==
  \/ /\ pc["A"] \in {"init", "listen", "accept"}
     /\ pc["B"] \in {"init", "connect", "recv"}
     /\ toA = << >> /\ toB = << >>
     /\ round["A"] = 0 /\ round["B"] = 0
  \/ /\ pc["A"] \in {"start", "send"} /\ pc["B"] = "recv"
     /\ toA = << >> /\ toB = << >>
     /\ round["A"] = round["B"]
     /\ pc["A"] = "send" => Running(cur["A"])
  \/ /\ pc["A"] = "wait" /\ pc["B"] = "recv"
     /\ toA = << >> /\ toB = << spans[cur["A"]] >>
     /\ round["A"] = round["B"]
     /\ Running(cur["A"])
  \/ /\ pc["A"] = "wait" /\ pc["B"] \in {"start", "end", "reply"}
     /\ toA = << >> /\ toB = << >>
     /\ round["A"] = round["B"]
     /\ ChildRuns
  \/ /\ pc["A"] \in {"wait", "end"} /\ pc["B"] \in {"recv", "done"}
     /\ toA = IF pc["A"] = "wait" THEN << "*" >> ELSE << >>
     /\ toB = << >>
     /\ round["B"] = round["A"] + 1
     /\ cur["A"] \in roots /\ ChildEnded(cur["A"])
  \/ pc["A"] = "done" /\ pc["B"] = "done"

\* Whoever goes on alone makes one wrong span and is stopped.
Stopping ==
  /\ Frozen("A") /\ ~Frozen("B") => Wrong = {} \/ pc["B"] \in {"end", "reply"}
  /\ Frozen("B") /\ ~Frozen("A") => Wrong = {} \/ pc["A"] \in {"start", "send", "done"}
  /\ oneProcess => (Frozen("A") <=> Frozen("B"))

Beginning ==
  /\ ~connected => /\ pc["A"] \in {"init", "listen", "accept"} \/ Frozen("A")
                   /\ pc["B"] \in {"init", "connect"} \/ Frozen("B")
                   /\ log = << >> /\ spans = << >>
  /\ connected => \A p \in Processes : pc[p] \notin {"init", "connect", "listen"}
  /\ Undisturbed => \A p \in Processes : pc[p] # "dead"

RoundsCounted ==
  \A p \in Processes : /\ pc[p] = "done" => round[p] = Rounds
                       /\ pc[p] \notin Gone => round[p] < Rounds

\* A works on a span without parent, B on a child.
OwnSpans ==
  /\ pc["A"] \in {"send", "wait", "end"} => cur["A"] \in roots
  /\ pc["B"] \in {"end", "reply"} => cur["B"] \in DOMAIN spans \ roots

\* Each event is of its process's span, and a span is started once.
LogSound ==
  /\ \A i \in roots : spans[i].parent_span_id = Zero
  /\ \A k \in DOMAIN log : log[k].by = "A" <=> log[k].span \in roots
  /\ \A k, l \in DOMAIN log :
        log[k].what = "start" /\ log[l] = log[k] => k = l

\* How many events p can have logged.
Emitted(p) ==
  2 * round[p] + IF pc[p] \in {"send", "wait", "end"} THEN 1
                 ELSE IF pc[p] = "reply" \/ (Frozen(p) /\ round[p] < Rounds) THEN 2
                 ELSE 0

LogBounded == Len(log) <= Emitted("A") + Emitted("B")

PeersInv ==
  /\ TypeOK
  /\ OwnSpans
  /\ Beginning
  /\ RoundsCounted
  /\ ~Frozen("A") /\ ~Frozen("B") => Lockstep /\ Wrong = {}
  /\ Stopping
  /\ \E j \in 0 .. Len(spans) : Wrong \subseteq {j}
===============================================================================
