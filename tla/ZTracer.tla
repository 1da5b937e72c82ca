------------------------------- MODULE ZTracer -------------------------------
(***************************************************************************)
(* The C++ wrapper src/src/ztracer.hpp and ztracer.cc.  A ZTraceEndpoint   *)
(* and a ZTrace each own C strings made by their constructor, to which the *)
(* C struct inside the object points; a ZTrace also shares the ownership   *)
(* of its endpoint.  The struct blkin_trace is what the library fills in,  *)
(* through what ZipkinC is shown to implement, and no return code of the   *)
(* library is looked at.                                                   *)
(*                                                                         *)
(* The strings an object's constructor allocated are named after the       *)
(* object.  Objects are destroyed when the last shared_ptr goes.  Neither  *)
(* class declares a copy operation, so with Copying the compiler's, which  *)
(* copy the pointers, are used as well.                                    *)
(*                                                                         *)
(* The program has called ztrace_init with success, holds an endpoint when *)
(* it passes one, and passes a blkin_trace_info that holds an identity, or *)
(* NULL.  Undefined behaviour may end it; the steps here are those of a    *)
(* program that goes on.                                                   *)
(***************************************************************************)
EXTENDS Integers, Sequences

CONSTANTS Endps,      \* the objects ZTraceEndpoint there may be
          Traces,     \* the objects ZTrace there may be
          Infos,      \* the program's structs blkin_trace_info
          Null,       \* NULL
          Ids, Zero,  \* what random_big may return, and the 0 among it
          Garbage,    \* an identity that was never stored
          Copying,    \* are objects copied and assigned?
          MaxSpans,   \* bound on the spans started
          MaxLog      \* bound on the events emitted

Objects == Endps \cup Traces

VARIABLES state,          \* of every object: not yet made, alive, destroyed
          texts,          \* of the strings its constructor allocated
          own,            \* whose strings the pointers in the object lead to
          ep,             \* ep[z]: the endpoint z owns with others
          info,           \* info[z]: the identity in z's struct blkin_trace
          wild,           \* traces whose struct blkin_trace was never filled in
          held,           \* endpoints the program itself has a shared_ptr to
          saved,          \* saved[i]: the identity in the program's struct i
          log,            \* the events emitted
          strays,         \* traces that emitted an event with a garbage identity
          tainted,        \* history: see Taint
          culprits,       \* history: objects that freed freed strings
          spans, roots    \* history: the spans started, those without parent

memory == <<state, texts, own, held, culprits>>
spanVars == <<spans, roots>>
vars == <<memory, ep, info, wild, saved, log, strays, tainted, spanVars>>

D == INSTANCE Dapper WITH events <- [k \in DOMAIN log |-> log[k].info]

ASSUME ZTracerAssumption ==
  /\ Zero \in Ids
  /\ Endps \cap Traces = {}
  /\ Null \notin Objects \cup Infos \cup D!Identity
  /\ Garbage \notin D!Identity \cup {Null}
  /\ Copying \in BOOLEAN
  /\ MaxSpans \in Nat
  /\ MaxLog \in Nat

TypeOK ==
  /\ state \in [Objects -> {"unborn", "live", "dead"}]
  /\ texts \in [Objects -> {"none", "allocated", "freed"}]
  /\ own \in [Objects -> Objects]
  /\ ep \in [Traces -> Endps \cup {Null}]
  /\ info \in [Traces -> D!Identity \cup {Garbage}]
  /\ wild \subseteq Traces
  /\ held \subseteq Endps
  /\ saved \in [Infos -> D!Identity \cup {Garbage, Null}]
  /\ log \in Seq([by : Traces, at : Endps, info : D!Identity, intact : BOOLEAN])
  /\ strays \subseteq Traces
  /\ tainted \subseteq Objects
  /\ culprits \subseteq Objects
  /\ spans \in Seq(D!Identity)
  /\ roots \subseteq DOMAIN spans

Init ==
  /\ state = [o \in Objects |-> "unborn"]
  /\ texts = [o \in Objects |-> "none"]
  /\ own = [o \in Objects |-> o]
  /\ ep = [z \in Traces |-> Null]
  /\ info = [z \in Traces |-> Garbage]
  /\ wild = {}
  /\ held = {}
  /\ saved = [i \in Infos |-> Null]
  /\ log = << >>
  /\ strays = {} /\ tainted = {} /\ culprits = {}
  /\ spans = << >> /\ roots = {}

-------------------------------------------------------------------------------
\* The objects whose strings or identity need not be what a constructor made
\* them: both ends of a copy, and a trace made of no identity.
Taint(S) == tainted' = tainted \cup S

Users(e) == {z \in Traces : state[z] = "live" /\ ep[z] = e}

\* The constructor of o copies its texts with to_cstr.
Construct(o) ==
  /\ state[o] = "unborn"
  /\ state' = [state EXCEPT ![o] = "live"]
  /\ texts' = [texts EXCEPT ![o] = "allocated"]

\* The destructors of the objects in S delete the strings that are theirs.
Destroy(S) ==
  /\ state' = [o \in Objects |-> IF o \in S THEN "dead" ELSE state[o]]
  /\ texts' = [b \in Objects |-> IF \E o \in S : own[o] = b THEN "freed" ELSE texts[b]]
  /\ culprits' = culprits \cup {o \in S : texts[own[o]] = "freed"}

\* Mutant: the endpoint goes with its last ZTrace, whoever else has it.
UnsharedBrutally(e, z) == IF Users(e) \subseteq {z} THEN {e} ELSE {}

\* Mutant: the shared_ptr member is never released.
UnsharedNever(e, z) == {}

\* The endpoint e if nobody but z owned it.
Unshared(e, z) == IF e \notin held /\ Users(e) \subseteq {z} THEN {e} ELSE {}

CreateEndpoint(e) ==
  /\ Construct(e)
  /\ held' = held \cup {e}
  /\ UNCHANGED <<own, culprits, ep, info, wild, saved, log, strays, tainted, spanVars>>

\* The library starts span id, without parent or as a child.
Mint(id, isRoot) ==
  /\ Len(spans) < MaxSpans
  /\ spans' = Append(spans, id)
  /\ roots' = IF isRoot THEN roots \cup {Len(spans) + 1} ELSE roots

\* What all constructors of ZTrace do around the call of the library.
Wrap(z, e, id) ==
  /\ Construct(z)
  /\ ep' = [ep EXCEPT ![z] = e]
  /\ info' = [info EXCEPT ![z] = id]
  /\ UNCHANGED <<own, held, culprits, saved, log, strays>>

NewTrace(z, e) ==
  \E tid, sid \in Ids :
     /\ Wrap(z, e, D!Root(tid, sid))
     /\ Mint(D!Root(tid, sid), TRUE)
     /\ UNCHANGED <<wild, tainted>>

\* A child of t, at the endpoint of t or at one given.  The child of garbage
\* is garbage.
ChildTrace(z, t, e) ==
  \/ /\ info[t] = Garbage
     /\ Wrap(z, e, Garbage)
     /\ Taint({z})
     /\ UNCHANGED <<wild, spanVars>>
  \/ /\ info[t] # Garbage
     /\ \E sid \in Ids : /\ Wrap(z, e, D!ChildOf(info[t], sid))
                         /\ Mint(D!ChildOf(info[t], sid), FALSE)
     /\ UNCHANGED <<wild, tainted>>

\* A child of the identity in the struct i.
ChildTraceFrom(z, e, i) ==
  /\ i # Null
  /\ \E sid \in Ids : /\ Wrap(z, e, D!ChildOf(saved[i], sid))
                      /\ Mint(D!ChildOf(saved[i], sid), FALSE)
  /\ UNCHANGED <<wild, tainted>>

\* blkin_init_child_info refuses NULL, and the constructor does not notice:
\* the struct holds what new found in memory.
ChildTraceFromNull(z, e) ==
  /\ Wrap(z, e, Garbage)
  /\ wild' = wild \cup {z}
  /\ Taint({z})
  /\ UNCHANGED spanVars

\* Mutant: set_trace_info precedes init_new_trace, which overwrites it in part.
SameTraceFromMixed(z, e, i) ==
  \E tid, sid \in Ids :
     /\ Wrap(z, e, IF i = Null THEN D!Root(tid, sid)
                               ELSE [saved[i] EXCEPT !.span_id = sid])
     /\ Mint(D!Root(tid, sid), TRUE)
     /\ UNCHANGED <<wild, tainted>>

\* A new root whose identity is overwritten at once, unless i is NULL.
SameTraceFrom(z, e, i) ==
  \E tid, sid \in Ids :
     /\ Wrap(z, e, IF i = Null THEN D!Root(tid, sid) ELSE saved[i])
     /\ Mint(D!Root(tid, sid), TRUE)
     /\ UNCHANGED <<wild, tainted>>

GetTraceInfo(z, i) ==
  /\ saved' = [saved EXCEPT ![i] = info[z]]
  /\ UNCHANGED <<memory, ep, info, wild, log, strays, tainted, spanVars>>

SetTraceInfo(z, i) ==
  /\ info' = [info EXCEPT ![z] = saved[i]]
  /\ UNCHANGED <<memory, ep, wild, saved, log, strays, tainted, spanVars>>

\* get_endpoint hands out another shared_ptr.
GetEndpoint(z) ==
  /\ held' = held \cup {ep[z]}
  /\ UNCHANGED <<state, texts, own, culprits, ep, info, wild, saved, log, strays,
                 tainted, spanVars>>

\* The strings an event of z at e is made of are there to be read.
Intact(z, e) == /\ z \notin wild
                /\ texts[own[z]] = "allocated" /\ texts[own[e]] = "allocated"

\* event and keyval, at the endpoint of z or at one given.
Annotate(z, e) ==
  /\ IF info[z] = Garbage
     THEN strays' = strays \cup {z} /\ UNCHANGED log
     ELSE /\ Len(log) < MaxLog
          /\ log' = Append(log, [by |-> z, at |-> e, info |-> info[z],
                                 intact |-> Intact(z, e)])
          /\ UNCHANGED strays
  /\ UNCHANGED <<memory, ep, info, wild, saved, tainted, spanVars>>

\* The last shared_ptr to z goes: its name, then its share of the endpoint.
DropTrace(z) ==
  /\ Destroy({z} \cup Unshared(ep[z], z))
  /\ UNCHANGED <<own, ep, held, info, wild, saved, log, strays, tainted, spanVars>>

\* Mutant: the program's pointer was the only owner, a ZTrace has a plain one.
DropEndpointAlone(e) ==
  /\ held' = held \ {e}
  /\ Destroy({e})
  /\ UNCHANGED <<own, ep, info, wild, saved, log, strays, tainted, spanVars>>

\* The program lets go of its last shared_ptr to e.
DropEndpoint(e) ==
  /\ held' = held \ {e}
  /\ Destroy(IF Users(e) = {} THEN {e} ELSE {})
  /\ UNCHANGED <<own, ep, info, wild, saved, log, strays, tainted, spanVars>>

\* The implicit copy constructors: no string is copied.
CopyEndpoint(f, e) ==
  /\ state[f] = "unborn"
  /\ state' = [state EXCEPT ![f] = "live"]
  /\ own' = [own EXCEPT ![f] = own[e]]
  /\ held' = held \cup {f}
  /\ Taint({e, f})
  /\ UNCHANGED <<texts, culprits, ep, info, wild, saved, log, strays, spanVars>>

\* The members of y become those of z.
SameMembers(y, z) ==
  /\ own' = [own EXCEPT ![y] = own[z]]
  /\ ep' = [ep EXCEPT ![y] = ep[z]]
  /\ info' = [info EXCEPT ![y] = info[z]]
  /\ wild' = IF z \in wild THEN wild \cup {y} ELSE wild \ {y}
  /\ Taint({y, z})
  /\ UNCHANGED <<saved, log, strays, spanVars>>

CopyTrace(y, z) ==
  /\ state[y] = "unborn"
  /\ state' = [state EXCEPT ![y] = "live"]
  /\ SameMembers(y, z)
  /\ UNCHANGED <<texts, held, culprits>>

\* The implicit assignments: the strings of the left side are forgotten, its
\* share of an endpoint is released.
AssignEndpoint(f, e) ==
  /\ own' = [own EXCEPT ![f] = own[e]]
  /\ Taint({e, f})
  /\ UNCHANGED <<state, texts, held, culprits, ep, info, wild, saved, log, strays,
                 spanVars>>

AssignTrace(y, z) ==
  /\ Destroy(IF ep[y] = ep[z] THEN {} ELSE Unshared(ep[y], y))
  /\ SameMembers(y, z)
  /\ UNCHANGED held

-------------------------------------------------------------------------------
Live(S) == {o \in S : state[o] = "live"}
Unborn == {z \in Traces : state[z] = "unborn"}
Identified == {i \in Infos : saved[i] \in D!Identity}

Make ==
  \/ \E e \in Endps : CreateEndpoint(e)
  \/ \E z \in Unborn, e \in held :
        \/ NewTrace(z, e)
        \/ ChildTraceFromNull(z, e)
        \/ \E i \in Identified : ChildTraceFrom(z, e, i)
        \/ \E i \in Identified \cup {Null} : SameTraceFrom(z, e, i)
  \/ \E z \in Unborn, t \in Live(Traces) :
        \E e \in held \cup {ep[t]} : ChildTrace(z, t, e)

Use ==
  \E z \in Live(Traces) :
     \/ \E e \in held \cup {ep[z]} : Annotate(z, e)
     \/ GetEndpoint(z)
     \/ \E i \in Infos : GetTraceInfo(z, i)
     \/ \E i \in Identified : SetTraceInfo(z, i)

Drop == \/ \E z \in Live(Traces) : DropTrace(z)
        \/ \E e \in held : DropEndpoint(e)

Copy == /\ Copying
        /\ \/ \E e \in Live(Endps), f \in Endps : CopyEndpoint(f, e)
           \/ \E e, f \in Live(Endps) : e # f /\ AssignEndpoint(f, e)
           \/ \E z \in Live(Traces), y \in Traces : CopyTrace(y, z)
           \/ \E y, z \in Live(Traces) : y # z /\ AssignTrace(y, z)

Next == Make \/ Use \/ Drop \/ Copy

Spec == Init /\ [][Next]_vars

-------------------------------------------------------------------------------
Started(id) == \E i \in DOMAIN spans : spans[i] = id

\* In whatever order handles are dropped and endpoints shared, an event is made
\* of strings that are still allocated and of an identity that was stored,
\* unless its trace or its endpoint was copied, or its trace goes back to a
\* NULL where the constructor of a child was to find an identity.
EventsSound ==
  /\ \A k \in DOMAIN log :
        log[k].intact \/ {log[k].by, log[k].at} \cap tainted # {}
  /\ strays \subseteq tainted

\* Only a copied object can free strings a second time: the destructors alone,
\* run in any order and with endpoints shared, free nothing twice.
FreedOnce == culprits \subseteq tainted

\* When the handles are gone the strings are: a destroyed object leaves none
\* behind, and no endpoint stays alive that nobody can reach.
NothingLeaks ==
  /\ \A o \in Objects :
        state[o] = "dead" /\ texts[o] = "allocated" => o \in tainted
  /\ \A e \in Endps : state[e] = "live" => e \in held \/ Users(e) # {}

\* The objects trace as Dapper promises: children of spans that were started,
\* events of spans that were started, whatever the constructors ignore.
ImplementsDapper == D!Spec

-------------------------------------------------------------------------------
\* The inductive invariant behind these properties.

\* Pointers lead elsewhere only between tainted objects.
OwnStrings ==
  \A o \in Objects : own[o] # o => {o, own[o]} \subseteq tainted

LiveStrings ==
  \A o \in Objects \ tainted :
     /\ state[o] = "live" => texts[o] = "allocated"
     /\ state[o] = "dead" => texts[o] = "freed"

\* shared_ptr keeps its promise.
EndpointsLive ==
  /\ \A z \in Traces : state[z] = "live" => /\ ep[z] \in Endps
                                            /\ state[ep[z]] = "live"
  /\ \A e \in held : state[e] = "live"

IdentitiesStarted ==
  /\ wild \subseteq tainted
  /\ \A z \in Traces : state[z] = "live" =>
        Started(info[z]) \/ (info[z] = Garbage /\ z \in tainted)
  /\ \A i \in Infos : saved[i] \in {Garbage, Null} \/ Started(saved[i])

ZTracerInv ==
  /\ TypeOK /\ EventsSound /\ FreedOnce /\ NothingLeaks
  /\ OwnStrings /\ LiveStrings /\ EndpointsLive /\ IdentitiesStarted
===============================================================================
