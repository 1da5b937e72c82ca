---------------------------- MODULE ZTracerProofs ----------------------------
(***************************************************************************)
(* The C++ wrapper for any number of objects, handles and structs, with    *)
(* copies or without: which events are made of sound strings, who frees    *)
(* what, and that the objects implement Dapper.                            *)
(***************************************************************************)
EXTENDS ZTracer, TLAPS

MemoryInv == FreedOnce /\ NothingLeaks /\ OwnStrings /\ LiveStrings /\ EndpointsLive

MemoryTypes ==
  /\ state \in [Objects -> {"unborn", "live", "dead"}]
  /\ texts \in [Objects -> {"none", "allocated", "freed"}]
  /\ own \in [Objects -> Objects]
  /\ ep \in [Traces -> Endps \cup {Null}]
  /\ held \subseteq Endps
  /\ tainted \subseteq Objects
  /\ culprits \subseteq Objects

TraceTypes ==
  /\ info \in [Traces -> D!Identity \cup {Garbage}]
  /\ wild \subseteq Traces
  /\ saved \in [Infos -> D!Identity \cup {Garbage, Null}]
  /\ log \in Seq([by : Traces, at : Endps, info : D!Identity, intact : BOOLEAN])
  /\ strays \subseteq Traces
  /\ spans \in Seq(D!Identity)
  /\ roots \subseteq DOMAIN spans

\* The two halves of the invariant: who owns what, and what identities are.
LEMMA Halves ==
  ZTracerInv <=> MemoryTypes /\ TraceTypes /\ MemoryInv /\ EventsSound /\ IdentitiesStarted
BY DEF ZTracerInv, TypeOK, MemoryTypes, TraceTypes, MemoryInv

\* Nothing is made yet.
LEMMA ZTracerInit == Init => ZTracerInv
<1> SUFFICES ASSUME Init PROVE ZTracerInv
  OBVIOUS
<1> USE DEF Init
<1>1. MemoryTypes /\ TraceTypes
  BY ZTracerAssumption DEF MemoryTypes, TraceTypes, Objects
<1>2. MemoryInv
  BY DEF MemoryInv, FreedOnce, NothingLeaks, OwnStrings, LiveStrings, EndpointsLive,
         Objects
<1>3. EventsSound /\ IdentitiesStarted
  BY DEF EventsSound, IdentitiesStarted, Objects
<1>4. QED
  BY <1>1, <1>2, <1>3, Halves

-------------------------------------------------------------------------------
\* Destructors of live objects free strings of theirs once, unless pointers
\* were copied.
LEMMA DestroyKeeps ==
  ASSUME MemoryTypes, MemoryInv, NEW S \in SUBSET Live(Objects), Destroy(S),
         tainted \subseteq tainted'
  PROVE  /\ state' \in [Objects -> {"unborn", "live", "dead"}]
         /\ texts' \in [Objects -> {"none", "allocated", "freed"}]
         /\ culprits' \subseteq Objects
         /\ \A o \in Objects : state'[o] = IF o \in S THEN "dead" ELSE state[o]
         /\ FreedOnce' /\ LiveStrings'
<1> USE DEF Live
<1>1. /\ state' \in [Objects -> {"unborn", "live", "dead"}]
      /\ texts' \in [Objects -> {"none", "allocated", "freed"}]
      /\ culprits' \subseteq Objects
      /\ \A o \in Objects : state'[o] = IF o \in S THEN "dead" ELSE state[o]
      /\ \A b \in Objects : texts'[b] = IF \E o \in S : own[o] = b
                                        THEN "freed" ELSE texts[b]
  BY DEF Destroy, MemoryTypes
<1>2. ASSUME NEW o \in S, o \notin tainted
      PROVE  own[o] = o /\ texts[o] = "allocated"
  BY <1>2 DEF MemoryInv, OwnStrings, LiveStrings
<1>3. FreedOnce'
  BY <1>2 DEF Destroy, MemoryInv, FreedOnce
<1>4. ASSUME NEW o \in Objects \ tainted'
      PROVE  /\ state'[o] = "live" => texts'[o] = "allocated"
             /\ state'[o] = "dead" => texts'[o] = "freed"
  <2>1. CASE o \in S
    BY <1>1, <1>2, <2>1
  <2>2. CASE o \notin S
    <3>1. \A s \in S : own[s] # o
      BY <2>2 DEF MemoryInv, OwnStrings
    <3>2. QED
      BY <1>1, <2>2, <3>1 DEF MemoryInv, LiveStrings
  <2>3. QED
    BY <2>1, <2>2
<1>5. QED
  BY <1>1, <1>3, <1>4 DEF LiveStrings

\* A destroyed object leaves no string behind, because its own was freed.
LEMMA NoStringLeaks ==
  ASSUME LiveStrings
  PROVE  \A o \in Objects : state[o] = "dead" /\ texts[o] = "allocated" => o \in tainted
BY DEF LiveStrings

\* The last handle of a trace takes with it the endpoint nobody else has.
LEMMA DropTraceKeeps ==
  ASSUME MemoryTypes, MemoryInv, NEW z \in Live(Traces), DropTrace(z)
  PROVE  MemoryTypes' /\ MemoryInv'
<1> DEFINE S == {z} \cup Unshared(ep[z], z)
<1>1. /\ z \in Traces /\ state[z] = "live" /\ ep[z] \in Endps
      /\ state[ep[z]] = "live" /\ ep[z] # z /\ Traces \cap Endps = {}
  BY ZTracerAssumption DEF Live, MemoryInv, EndpointsLive
<1>2. S \in SUBSET Live(Objects)
  BY <1>1 DEF Live, Unshared, Objects
<1>3. Destroy(S) /\ UNCHANGED <<own, ep, held, tainted>>
  BY DEF DropTrace
<1> HIDE DEF S
<1>4. /\ state' \in [Objects -> {"unborn", "live", "dead"}]
      /\ texts' \in [Objects -> {"none", "allocated", "freed"}]
      /\ culprits' \subseteq Objects
      /\ \A o \in Objects : state'[o] = IF o \in S THEN "dead" ELSE state[o]
      /\ FreedOnce' /\ LiveStrings'
  BY <1>2, <1>3, DestroyKeeps
<1>5. MemoryTypes'
  BY <1>3, <1>4 DEF MemoryTypes
<1>6. EndpointsLive'
  <2>1. ASSUME NEW y \in Traces, state'[y] = "live"
        PROVE  ep'[y] \in Endps /\ state'[ep'[y]] = "live"
    <3>1. state[y] = "live" /\ y # z
      BY <1>4, <2>1 DEF S, Objects
    <3>2. ep[y] \in Endps /\ state[ep[y]] = "live"
      BY <3>1 DEF MemoryInv, EndpointsLive
    <3>3. ep[y] \notin S
      BY <1>1, <3>1, <3>2 DEF S, Unshared, Users
    <3>4. QED
      BY <1>3, <1>4, <3>2, <3>3 DEF Objects
  <2>2. \A e \in held : state'[e] = "live"
    BY <1>1, <1>4 DEF S, Unshared, MemoryTypes, MemoryInv, EndpointsLive, Objects
  <2>3. QED
    BY <1>3, <2>1, <2>2 DEF EndpointsLive
<1>7. ASSUME NEW e \in Endps, state'[e] = "live", e \notin held'
      PROVE  Users(e)' # {}
  <2>1. state[e] = "live" /\ e \notin S
    BY <1>4, <1>7 DEF Objects
  <2>2. PICK y \in Users(e) : TRUE
    BY <1>3, <1>7, <2>1 DEF MemoryInv, NothingLeaks
  <2>3. PICK x \in Users(e) : x # z
    BY <1>3, <1>7, <2>1, <2>2 DEF S, Unshared, Users
  <2>4. x \notin S
    BY <1>1, <2>3 DEF S, Unshared, Users
  <2>5. x \in Users(e)'
    BY <1>3, <1>4, <2>3, <2>4 DEF Users, Objects
  <2>6. QED
    BY <2>5
<1>8. OwnStrings'
  BY <1>3 DEF MemoryInv, OwnStrings
<1>9. NothingLeaks'
  BY <1>4, <1>7 DEF NothingLeaks, LiveStrings
<1>10. QED
  BY <1>4, <1>5, <1>6, <1>8, <1>9 DEF MemoryInv

\* The program's last handle of an endpoint takes it with it if no trace has it.
LEMMA DropEndpointKeeps ==
  ASSUME MemoryTypes, MemoryInv, NEW e \in held, DropEndpoint(e)
  PROVE  MemoryTypes' /\ MemoryInv'
<1> DEFINE S == IF Users(e) = {} THEN {e} ELSE {}
<1>1. e \in Endps /\ state[e] = "live" /\ Traces \cap Endps = {}
  BY ZTracerAssumption DEF MemoryTypes, MemoryInv, EndpointsLive
<1>2. S \in SUBSET Live(Objects)
  BY <1>1 DEF Live, Objects
<1>3. Destroy(S) /\ held' = held \ {e} /\ UNCHANGED <<own, ep, tainted>>
  BY DEF DropEndpoint
<1> HIDE DEF S
<1>4. /\ state' \in [Objects -> {"unborn", "live", "dead"}]
      /\ texts' \in [Objects -> {"none", "allocated", "freed"}]
      /\ culprits' \subseteq Objects
      /\ \A o \in Objects : state'[o] = IF o \in S THEN "dead" ELSE state[o]
      /\ FreedOnce' /\ LiveStrings'
  BY <1>2, <1>3, DestroyKeeps
<1>5. MemoryTypes'
  BY <1>3, <1>4 DEF MemoryTypes
<1>6. \A z \in Traces : state'[z] = state[z]
  BY <1>1, <1>4 DEF S, Objects
<1>7. EndpointsLive'
  <2>1. ASSUME NEW z \in Traces, state'[z] = "live"
        PROVE  ep'[z] \in Endps /\ state'[ep'[z]] = "live"
    <3>1. ep[z] \in Endps /\ state[ep[z]] = "live" /\ state[z] = "live"
      BY <1>6, <2>1 DEF MemoryInv, EndpointsLive
    <3>2. ep[z] \notin S
      BY <3>1 DEF S, Users
    <3>3. QED
      BY <1>3, <1>4, <3>1, <3>2 DEF Objects
  <2>2. \A f \in held' : state'[f] = "live"
    BY <1>3, <1>4 DEF S, MemoryTypes, MemoryInv, EndpointsLive, Objects
  <2>3. QED
    BY <2>1, <2>2 DEF EndpointsLive
<1>8. ASSUME NEW f \in Endps, state'[f] = "live", f \notin held' PROVE Users(f)' # {}
  <2>1. state[f] = "live" /\ f \notin S
    BY <1>4, <1>8 DEF Objects
  <2>2. Users(f) # {}
    BY <1>3, <1>8, <2>1 DEF S, MemoryInv, NothingLeaks
  <2>3. Users(f)' = Users(f)
    BY <1>3, <1>6 DEF Users
  <2>4. QED
    BY <2>2, <2>3
<1>9. OwnStrings'
  BY <1>3 DEF MemoryInv, OwnStrings
<1>10. NothingLeaks'
  BY <1>4, <1>8 DEF NothingLeaks, LiveStrings
<1>11. QED
  BY <1>4, <1>5, <1>7, <1>9, <1>10 DEF MemoryInv

\* A constructor gives its object strings of its own.
LEMMA ConstructKeeps ==
  ASSUME MemoryTypes, MemoryInv, NEW o \in Objects, Construct(o),
         UNCHANGED <<own, culprits>>, tainted \subseteq tainted'
  PROVE  /\ state[o] = "unborn"
         /\ state' \in [Objects -> {"unborn", "live", "dead"}]
         /\ texts' \in [Objects -> {"none", "allocated", "freed"}]
         /\ state'[o] = "live" /\ \A x \in Objects \ {o} : state'[x] = state[x]
         /\ FreedOnce' /\ LiveStrings' /\ OwnStrings'
<1>1. /\ state[o] = "unborn"
      /\ state' \in [Objects -> {"unborn", "live", "dead"}]
      /\ texts' \in [Objects -> {"none", "allocated", "freed"}]
      /\ state'[o] = "live" /\ texts'[o] = "allocated"
      /\ \A x \in Objects \ {o} : state'[x] = state[x] /\ texts'[x] = texts[x]
  BY DEF Construct, MemoryTypes
<1>2. LiveStrings'
  BY <1>1 DEF MemoryInv, LiveStrings
<1>3. FreedOnce' /\ OwnStrings'
  BY DEF MemoryInv, FreedOnce, OwnStrings
<1>4. QED
  BY <1>1, <1>2, <1>3

\* A new endpoint is held by the program.
LEMMA CreateEndpointKeeps ==
  ASSUME MemoryTypes, MemoryInv, NEW e \in Endps, CreateEndpoint(e)
  PROVE  MemoryTypes' /\ MemoryInv'
<1>1. /\ e \in Objects /\ Construct(e) /\ held' = held \cup {e}
      /\ UNCHANGED <<own, culprits, ep, tainted>>
  BY DEF CreateEndpoint, Objects
<1>2. /\ state[e] = "unborn"
      /\ state' \in [Objects -> {"unborn", "live", "dead"}]
      /\ texts' \in [Objects -> {"none", "allocated", "freed"}]
      /\ state'[e] = "live" /\ \A x \in Objects \ {e} : state'[x] = state[x]
      /\ FreedOnce' /\ LiveStrings' /\ OwnStrings'
  BY <1>1, ConstructKeeps
<1>3. MemoryTypes'
  BY <1>1, <1>2 DEF MemoryTypes
<1>4. \A z \in Traces : state'[z] = state[z]
  BY <1>2, ZTracerAssumption DEF Objects
<1>5. EndpointsLive'
  BY <1>1, <1>2, <1>4 DEF MemoryInv, EndpointsLive, MemoryTypes, Objects
<1>6. \A f \in Endps : state'[f] = "live" => f \in held' \/ Users(f)' # {}
  BY <1>1, <1>2, <1>4 DEF MemoryInv, NothingLeaks, Users, Objects
<1>7. NothingLeaks'
  BY <1>2, <1>6 DEF NothingLeaks, LiveStrings
<1>8. QED
  BY <1>2, <1>3, <1>5, <1>7 DEF MemoryInv

\* A new trace shares an endpoint that is alive.
LEMMA WrapKeeps ==
  ASSUME MemoryTypes, MemoryInv, NEW z \in Traces, NEW e \in Endps,
         state[e] = "live", NEW id, Wrap(z, e, id),
         tainted \subseteq tainted', tainted' \subseteq Objects
  PROVE  MemoryTypes' /\ MemoryInv'
<1>1. /\ z \in Objects /\ Construct(z) /\ ep' = [ep EXCEPT ![z] = e]
      /\ UNCHANGED <<own, held, culprits>>
  BY DEF Wrap, Objects
<1>2. /\ state[z] = "unborn"
      /\ state' \in [Objects -> {"unborn", "live", "dead"}]
      /\ texts' \in [Objects -> {"none", "allocated", "freed"}]
      /\ state'[z] = "live" /\ \A x \in Objects \ {z} : state'[x] = state[x]
      /\ FreedOnce' /\ LiveStrings' /\ OwnStrings'
  BY <1>1, ConstructKeeps
<1>3. MemoryTypes'
  BY <1>1, <1>2 DEF MemoryTypes
<1>4. \A f \in Endps : state'[f] = state[f]
  BY <1>2, ZTracerAssumption DEF Objects
<1>5. ep'[z] = e /\ \A y \in Traces \ {z} : ep'[y] = ep[y] /\ state'[y] = state[y]
  BY <1>1, <1>2 DEF MemoryTypes, Objects
<1>6. EndpointsLive'
  BY <1>1, <1>4, <1>5 DEF MemoryInv, MemoryTypes, EndpointsLive
<1>7. \A f \in Endps : state'[f] = "live" => f \in held' \/ Users(f)' # {}
  <2>1. ASSUME NEW f \in Endps, state'[f] = "live", f \notin held' PROVE Users(f)' # {}
    <3>1. PICK y \in Users(f) : TRUE
      BY <1>1, <1>4, <2>1 DEF MemoryInv, NothingLeaks
    <3>2. y \in Users(f)'
      BY <1>2, <1>5, <3>1 DEF Users
    <3>3. QED
      BY <3>2
  <2>2. QED
    BY <2>1
<1>8. NothingLeaks'
  BY <1>2, <1>7 DEF NothingLeaks, LiveStrings
<1>9. QED
  BY <1>2, <1>3, <1>6, <1>8 DEF MemoryInv

\* Another handle of an endpoint that some trace has.
LEMMA GetEndpointKeeps ==
  ASSUME MemoryTypes, MemoryInv, NEW z \in Live(Traces), GetEndpoint(z)
  PROVE  MemoryTypes' /\ MemoryInv'
<1>1. ep[z] \in Endps /\ state[ep[z]] = "live"
  BY DEF Live, MemoryInv, EndpointsLive
<1>2. MemoryTypes'
  BY <1>1 DEF GetEndpoint, MemoryTypes
<1>3. EndpointsLive' /\ NothingLeaks'
  BY <1>1 DEF GetEndpoint, MemoryInv, EndpointsLive, NothingLeaks, Users
<1>4. QED
  BY <1>2, <1>3 DEF GetEndpoint, MemoryInv, FreedOnce, OwnStrings, LiveStrings

\* Copies of endpoints share the strings of the original.
LEMMA CopyEndpointKeeps ==
  ASSUME MemoryTypes, MemoryInv, NEW e \in Live(Endps), NEW f \in Endps,
         CopyEndpoint(f, e)
  PROVE  MemoryTypes' /\ MemoryInv'
<1> USE DEF CopyEndpoint, Taint
<1>1. /\ e \in Endps /\ e \in Objects /\ f \in Objects /\ state[e] = "live"
      /\ state[f] = "unborn"
  BY DEF Live, Objects
<1>2. MemoryTypes'
  BY <1>1 DEF MemoryTypes
<1>3. /\ state'[f] = "live" /\ \A x \in Objects \ {f} : state'[x] = state[x]
      /\ own'[f] = own[e] /\ \A x \in Objects \ {f} : own'[x] = own[x]
  BY <1>1 DEF MemoryTypes
<1>4. FreedOnce' /\ LiveStrings'
  BY <1>1, <1>3 DEF MemoryInv, FreedOnce, LiveStrings
<1>5. OwnStrings'
  BY <1>1, <1>3 DEF MemoryInv, OwnStrings
<1>6. \A z \in Traces : state'[z] = state[z]
  BY <1>3, ZTracerAssumption DEF Objects
<1>7. EndpointsLive'
  BY <1>1, <1>3, <1>6 DEF MemoryInv, EndpointsLive, MemoryTypes, Objects
<1>8. \A x \in Endps : state'[x] = "live" => x \in held' \/ Users(x)' # {}
  BY <1>3, <1>6 DEF MemoryInv, NothingLeaks, Users, Objects
<1>9. NothingLeaks'
  BY <1>4, <1>8 DEF NothingLeaks, LiveStrings
<1>10. QED
  BY <1>2, <1>4, <1>5, <1>7, <1>9 DEF MemoryInv

\* Assigning an endpoint destroys nothing, it forgets the strings of the left side.
LEMMA AssignEndpointKeeps ==
  ASSUME MemoryTypes, MemoryInv, NEW e \in Live(Endps), NEW f \in Live(Endps),
         AssignEndpoint(f, e)
  PROVE  MemoryTypes' /\ MemoryInv'
<1> USE DEF AssignEndpoint, Taint
<1>1. e \in Objects /\ f \in Objects
  BY DEF Live, Objects
<1>2. MemoryTypes'
  BY <1>1 DEF MemoryTypes
<1>3. own'[f] = own[e] /\ \A x \in Objects \ {f} : own'[x] = own[x]
  BY <1>1 DEF MemoryTypes
<1>4. OwnStrings'
  BY <1>1, <1>3 DEF MemoryInv, OwnStrings
<1>5. FreedOnce' /\ LiveStrings' /\ EndpointsLive' /\ NothingLeaks'
  BY DEF MemoryInv, FreedOnce, LiveStrings, EndpointsLive, NothingLeaks, Users
<1>6. QED
  BY <1>2, <1>4, <1>5 DEF MemoryInv

\* A copied trace shares the name, and has a share of the endpoint.
LEMMA CopyTraceKeeps ==
  ASSUME MemoryTypes, MemoryInv, NEW z \in Live(Traces), NEW y \in Traces,
         CopyTrace(y, z)
  PROVE  MemoryTypes' /\ MemoryInv'
<1> USE DEF CopyTrace, SameMembers, Taint
<1>1. /\ z \in Traces /\ z \in Objects /\ y \in Objects /\ state[z] = "live"
      /\ state[y] = "unborn" /\ ep[z] \in Endps /\ state[ep[z]] = "live"
  BY DEF Live, Objects, MemoryInv, EndpointsLive
<1>2. MemoryTypes'
  BY <1>1 DEF MemoryTypes
<1>3. /\ state'[y] = "live" /\ \A x \in Objects \ {y} : state'[x] = state[x]
      /\ own'[y] = own[z] /\ \A x \in Objects \ {y} : own'[x] = own[x]
      /\ ep'[y] = ep[z] /\ \A x \in Traces \ {y} : ep'[x] = ep[x]
  BY <1>1 DEF MemoryTypes
<1>4. FreedOnce' /\ LiveStrings'
  BY <1>1, <1>3 DEF MemoryInv, FreedOnce, LiveStrings
<1>5. OwnStrings'
  BY <1>1, <1>3 DEF MemoryInv, OwnStrings
<1>6. \A f \in Endps : state'[f] = state[f]
  BY <1>3, ZTracerAssumption DEF Objects
<1>7. EndpointsLive'
  BY <1>1, <1>3, <1>6 DEF MemoryInv, EndpointsLive, MemoryTypes, Objects
<1>8. \A f \in Endps : state'[f] = "live" => f \in held' \/ Users(f)' # {}
  <2>1. ASSUME NEW f \in Endps, state'[f] = "live", f \notin held' PROVE Users(f)' # {}
    <3>1. PICK x \in Users(f) : TRUE
      BY <1>6, <2>1 DEF MemoryInv, NothingLeaks
    <3>2. x \in Users(f)'
      BY <1>1, <1>3, <3>1 DEF Users, Objects
    <3>3. QED
      BY <3>2
  <2>2. QED
    BY <2>1
<1>9. NothingLeaks'
  BY <1>4, <1>8 DEF NothingLeaks, LiveStrings
<1>10. QED
  BY <1>2, <1>4, <1>5, <1>7, <1>9 DEF MemoryInv

\* The left side of an assignment gives its share of the endpoint up first.
LEMMA AssignTraceKeeps ==
  ASSUME MemoryTypes, MemoryInv, NEW y \in Live(Traces), NEW z \in Live(Traces),
         y # z, AssignTrace(y, z)
  PROVE  MemoryTypes' /\ MemoryInv'
<1> USE DEF SameMembers, Taint
<1> DEFINE S == IF ep[y] = ep[z] THEN {} ELSE Unshared(ep[y], y)
<1>1. /\ y \in Traces /\ z \in Traces /\ y \in Objects /\ z \in Objects
      /\ state[y] = "live" /\ state[z] = "live"
      /\ ep[y] \in Endps /\ state[ep[y]] = "live"
      /\ ep[z] \in Endps /\ state[ep[z]] = "live"
      /\ Traces \cap Endps = {}
  BY ZTracerAssumption DEF Live, Objects, MemoryInv, EndpointsLive
<1>2. S \in SUBSET Live(Objects) /\ S \subseteq Endps
  BY <1>1 DEF Live, Unshared, Objects
<1>3. /\ Destroy(S)
      /\ own' = [own EXCEPT ![y] = own[z]] /\ ep' = [ep EXCEPT ![y] = ep[z]]
      /\ held' = held /\ tainted' = tainted \cup {y, z}
  BY DEF AssignTrace
<1>4. ep[z] \notin S
  BY <1>1 DEF Unshared
<1>5. \A x \in Traces : x # y /\ state[x] = "live" => ep[x] \notin S
  BY <1>1 DEF Unshared, Users
<1>6. \A f \in held : f \notin S
  BY DEF Unshared
<1>7. \A f \in Endps : f \notin S /\ f = ep[y] /\ f \notin held =>
                       f = ep[z] \/ \E x \in Users(f) : x # y
  BY DEF Unshared
<1> HIDE DEF S
<1>8. /\ state' \in [Objects -> {"unborn", "live", "dead"}]
      /\ texts' \in [Objects -> {"none", "allocated", "freed"}]
      /\ culprits' \subseteq Objects
      /\ \A o \in Objects : state'[o] = IF o \in S THEN "dead" ELSE state[o]
      /\ FreedOnce' /\ LiveStrings'
  BY <1>2, <1>3, DestroyKeeps
<1>9. MemoryTypes'
  BY <1>1, <1>3, <1>8 DEF MemoryTypes
<1>10. /\ own'[y] = own[z] /\ \A x \in Objects \ {y} : own'[x] = own[x]
       /\ ep'[y] = ep[z] /\ \A x \in Traces \ {y} : ep'[x] = ep[x]
       /\ \A x \in Traces : state'[x] = state[x]
       /\ \A f \in Endps : f \notin S => state'[f] = state[f]
  BY <1>1, <1>2, <1>3, <1>8 DEF MemoryTypes, Objects
<1>11. OwnStrings'
  BY <1>1, <1>3, <1>10 DEF MemoryInv, OwnStrings
<1>12. EndpointsLive'
  <2>1. ASSUME NEW x \in Traces, state'[x] = "live"
        PROVE  ep'[x] \in Endps /\ state'[ep'[x]] = "live"
    BY <1>1, <1>4, <1>5, <1>10, <2>1 DEF MemoryInv, EndpointsLive
  <2>2. \A f \in held' : state'[f] = "live"
    BY <1>3, <1>6, <1>10 DEF MemoryTypes, MemoryInv, EndpointsLive
  <2>3. QED
    BY <2>1, <2>2 DEF EndpointsLive
<1>13. ASSUME NEW f \in Endps, state'[f] = "live", f \notin held' PROVE Users(f)' # {}
  <2>1. f \notin S /\ state[f] = "live"
    BY <1>8, <1>13 DEF Objects
  <2>2. PICK u \in Users(f) : TRUE
    BY <1>3, <1>13, <2>1 DEF MemoryInv, NothingLeaks
  <2>3. f = ep[z] \/ \E x \in Users(f) : x # y
    BY <1>3, <1>7, <1>13, <2>1, <2>2 DEF Users
  <2>4. CASE f = ep[z]
    <3>1. z \in Users(f)'
      BY <1>1, <1>10, <2>4 DEF Users
    <3>2. QED
      BY <3>1
  <2>5. ASSUME NEW x \in Users(f), x # y PROVE Users(f)' # {}
    <3>1. x \in Users(f)'
      BY <1>10, <2>5 DEF Users
    <3>2. QED
      BY <3>1
  <2>6. QED
    BY <2>3, <2>4, <2>5
<1>14. NothingLeaks'
  BY <1>8, <1>13 DEF NothingLeaks, LiveStrings
<1>15. QED
  BY <1>8, <1>9, <1>11, <1>12, <1>14 DEF MemoryInv

-------------------------------------------------------------------------------
\* Roots and children of identities are identities.
LEMMA NewIsIdentity ==
  ASSUME NEW id \in D!Identity, NEW tid \in Ids, NEW sid \in Ids
  PROVE  D!Root(tid, sid) \in D!Identity /\ D!ChildOf(id, sid) \in D!Identity
BY ZTracerAssumption DEF D!Identity, D!Root, D!ChildOf

\* The identity of a started span is one.
LEMMA StartedIsIdentity ==
  ASSUME TraceTypes, NEW id, Started(id)
  PROVE  id \in D!Identity /\ id # Garbage
BY ZTracerAssumption DEF TraceTypes, Started

\* The library starts the span it is asked for, and forgets none.
LEMMA MintGrows ==
  ASSUME TraceTypes, NEW id \in D!Identity, NEW root \in BOOLEAN, Mint(id, root)
  PROVE  /\ spans' \in Seq(D!Identity) /\ roots' \subseteq DOMAIN spans'
         /\ Started(id)'
         /\ \A x : Started(x) => Started(x)'
<1>1. spans \in Seq(D!Identity) /\ spans' = Append(spans, id)
  BY DEF TraceTypes, Mint
<1>2. /\ spans' \in Seq(D!Identity)
      /\ DOMAIN spans \subseteq DOMAIN spans'
      /\ Len(spans) + 1 \in DOMAIN spans' /\ spans'[Len(spans) + 1] = id
      /\ \A i \in DOMAIN spans : spans'[i] = spans[i]
  BY <1>1
<1>3. QED
  BY <1>2 DEF TraceTypes, Mint, Started

\* A constructor leaves a started identity in its object, or marks it.
LEMMA WrapTraces ==
  ASSUME ZTracerInv, NEW z \in Traces, NEW e, NEW id, Wrap(z, e, id),
         tainted \subseteq tainted',
         wild' \subseteq wild \cup {z}, wild' \subseteq tainted',
         spans' \in Seq(D!Identity), roots' \subseteq DOMAIN spans',
         \A x : Started(x) => Started(x)',
         \/ id \in D!Identity /\ Started(id)'
         \/ id = Garbage /\ z \in tainted'
  PROVE  TraceTypes' /\ EventsSound' /\ IdentitiesStarted'
<1>1. TraceTypes /\ EventsSound /\ IdentitiesStarted /\ MemoryTypes
  BY Halves
<1>2. TraceTypes'
  BY <1>1 DEF TraceTypes, Wrap
<1>3. EventsSound'
  BY <1>1 DEF EventsSound, Wrap
<1>4. \A y \in Traces \ {z} : state'[y] = state[y] /\ info'[y] = info[y]
  BY <1>1 DEF Wrap, Construct, MemoryTypes, TraceTypes, Objects
<1>5. info'[z] = id
  BY <1>1 DEF Wrap, TraceTypes
<1>6. \A y \in Traces : state'[y] = "live" =>
         Started(info[y])' \/ (info'[y] = Garbage /\ y \in tainted')
  BY <1>1, <1>4, <1>5 DEF IdentitiesStarted
<1>7. \A i \in Infos : saved'[i] \in {Garbage, Null} \/ Started(saved[i])'
  BY <1>1 DEF IdentitiesStarted, Wrap
<1>8. IdentitiesStarted'
  BY <1>6, <1>7 DEF IdentitiesStarted
<1>9. QED
  BY <1>2, <1>3, <1>8

\* Every constructor of ZTrace keeps the invariant.
LEMMA ConstructorsKeep ==
  ASSUME ZTracerInv, NEW z \in Unborn, NEW e \in Endps, state[e] = "live",
         \/ NewTrace(z, e)
         \/ ChildTraceFromNull(z, e)
         \/ \E i \in Identified : ChildTraceFrom(z, e, i)
         \/ \E i \in Identified \cup {Null} : SameTraceFrom(z, e, i)
         \/ \E t \in Live(Traces) : ChildTrace(z, t, e)
  PROVE  ZTracerInv'
<1>1. /\ z \in Traces /\ z \in Objects
      /\ MemoryTypes /\ MemoryInv /\ TraceTypes /\ IdentitiesStarted
      /\ tainted \subseteq Objects /\ wild \subseteq tainted
  BY Halves DEF Unborn, Objects, MemoryTypes, IdentitiesStarted
<1>2. ASSUME NEW id, Wrap(z, e, id),
             \/ UNCHANGED tainted \/ Taint({z}),
             wild' \subseteq wild \cup {z}, wild' \subseteq tainted',
             spans' \in Seq(D!Identity), roots' \subseteq DOMAIN spans',
             \A x : Started(x) => Started(x)',
             \/ id \in D!Identity /\ Started(id)'
             \/ id = Garbage /\ z \in tainted'
      PROVE  ZTracerInv'
  <2>1. tainted \subseteq tainted' /\ tainted' \subseteq Objects
    BY <1>1, <1>2 DEF Taint
  <2>2. MemoryTypes' /\ MemoryInv'
    BY <1>1, <1>2, <2>1, WrapKeeps
  <2>3. TraceTypes' /\ EventsSound' /\ IdentitiesStarted'
    BY <1>1, <1>2, <2>1, WrapTraces
  <2>4. ZTracerInv'
    BY <2>2, <2>3, Halves, PTL
  <2>5. QED
    BY <2>4
<1>3. ASSUME NEW id \in D!Identity, NEW new \in D!Identity, NEW root \in BOOLEAN,
             Wrap(z, e, id), Mint(new, root), UNCHANGED <<wild, tainted>>,
             id = new \/ Started(id)
      PROVE  ZTracerInv'
  <2>1. /\ spans' \in Seq(D!Identity) /\ roots' \subseteq DOMAIN spans'
        /\ Started(new)'
        /\ \A x : Started(x) => Started(x)'
    BY <1>1, <1>3, MintGrows
  <2>2. Started(id)'
    BY <1>3, <2>1
  <2>3. QED
    BY <1>1, <1>2, <1>3, <2>1, <2>2
<1>4. ASSUME Wrap(z, e, Garbage), Taint({z}), UNCHANGED spanVars,
             wild' \subseteq wild \cup {z}
      PROVE  ZTracerInv'
  <2>1. z \in tainted' /\ wild' \subseteq tainted'
    BY <1>1, <1>4 DEF Taint
  <2>2. /\ spans' \in Seq(D!Identity) /\ roots' \subseteq DOMAIN spans'
        /\ \A x : Started(x) => Started(x)'
    BY <1>1, <1>4 DEF spanVars, TraceTypes, Started
  <2>3. QED
    BY <1>2, <1>4, <2>1, <2>2
<1>5. \A i \in Identified : Started(saved[i]) /\ saved[i] \in D!Identity
  BY <1>1, ZTracerAssumption DEF Identified, IdentitiesStarted
<1>6. CASE NewTrace(z, e)
  BY <1>3, <1>6, NewIsIdentity, ZTracerAssumption
  DEF NewTrace, D!Identity, D!Root
<1>7. CASE ChildTraceFromNull(z, e)
  BY <1>4, <1>7 DEF ChildTraceFromNull
<1>8. ASSUME NEW i \in Identified, ChildTraceFrom(z, e, i) PROVE ZTracerInv'
  BY <1>3, <1>5, <1>8, NewIsIdentity DEF ChildTraceFrom
<1>9. ASSUME NEW i \in Identified \cup {Null}, SameTraceFrom(z, e, i) PROVE ZTracerInv'
  <2>1. PICK tid \in Ids, sid \in Ids :
           /\ Wrap(z, e, IF i = Null THEN D!Root(tid, sid) ELSE saved[i])
           /\ Mint(D!Root(tid, sid), TRUE)
           /\ UNCHANGED <<wild, tainted>>
    BY <1>9 DEF SameTraceFrom
  <2>2. D!Root(tid, sid) \in D!Identity
    BY ZTracerAssumption DEF D!Root, D!Identity
  <2>3. CASE i = Null
    BY <1>3, <2>1, <2>2, <2>3
  <2>4. CASE i # Null
    BY <1>3, <1>5, <2>1, <2>2, <2>4
  <2>5. QED
    BY <2>3, <2>4
<1>10. ASSUME NEW t \in Live(Traces), ChildTrace(z, t, e) PROVE ZTracerInv'
  <2>1. CASE info[t] = Garbage
    BY <1>4, <1>10, <2>1 DEF ChildTrace
  <2>2. CASE info[t] # Garbage
    <3>1. Started(info[t]) /\ info[t] \in D!Identity
      BY <1>1, <2>2, StartedIsIdentity DEF Live, IdentitiesStarted
    <3>2. PICK sid \in Ids : /\ Wrap(z, e, D!ChildOf(info[t], sid))
                             /\ Mint(D!ChildOf(info[t], sid), FALSE)
      BY <1>10, <2>2 DEF ChildTrace
    <3>3. D!ChildOf(info[t], sid) \in D!Identity
      BY <3>1, NewIsIdentity
    <3>4. UNCHANGED <<wild, tainted>>
      BY <1>10, <2>2 DEF ChildTrace
    <3>5. QED
      BY <1>3, <3>2, <3>3, <3>4
  <2>3. QED
    BY <2>1, <2>2
<1>11. QED
  BY <1>6, <1>7, <1>8, <1>9, <1>10

-------------------------------------------------------------------------------
\* An event is made of the strings of its trace and of its endpoint.
LEMMA AnnotateKeeps ==
  ASSUME ZTracerInv, NEW z \in Live(Traces), NEW e \in Endps, state[e] = "live",
         Annotate(z, e)
  PROVE  ZTracerInv'
<1> DEFINE Event == [by : Traces, at : Endps, info : D!Identity, intact : BOOLEAN]
           new == [by |-> z, at |-> e, info |-> info[z], intact |-> Intact(z, e)]
<1>1. /\ MemoryTypes /\ MemoryInv /\ TraceTypes /\ EventsSound /\ IdentitiesStarted
      /\ z \in Traces /\ state[z] = "live" /\ z \in Objects /\ e \in Objects
  BY Halves DEF Live, Objects
<1>2. UNCHANGED <<memory, ep, info, wild, saved, tainted, spanVars>>
  BY DEF Annotate
<1>3. MemoryTypes' /\ MemoryInv'
  BY <1>1, <1>2 DEF memory, MemoryTypes, MemoryInv, FreedOnce, NothingLeaks,
                    OwnStrings, LiveStrings, EndpointsLive, Users
<1>4. IdentitiesStarted'
  BY <1>1, <1>2 DEF memory, spanVars, IdentitiesStarted, Started
<1>5. CASE info[z] = Garbage
  <2>1. strays' = strays \cup {z} /\ log' = log
    BY <1>5 DEF Annotate
  <2>2. ~Started(Garbage)
    BY <1>1, StartedIsIdentity
  <2>3. z \in tainted
    BY <1>1, <1>5, <2>2 DEF IdentitiesStarted
  <2>4. TraceTypes' /\ EventsSound'
    BY <1>1, <1>2, <2>1, <2>3 DEF TraceTypes, EventsSound, spanVars
  <2>5. QED
    BY <1>3, <1>4, <2>4, Halves, PTL
<1>6. CASE info[z] # Garbage
  <2>1. strays' = strays /\ log' = Append(log, new) /\ log \in Seq(Event)
    BY <1>1, <1>6 DEF Annotate, TraceTypes
  <2>2. info[z] \in D!Identity
    BY <1>1, <1>6 DEF TraceTypes
  <2>3. Intact(z, e) \in BOOLEAN
    BY DEF Intact
  <2>4. new \in Event
    BY <1>1, <2>2, <2>3
  <2>5. ~Intact(z, e) => z \in tainted \/ e \in tainted
    BY <1>1 DEF Intact, MemoryInv, OwnStrings, LiveStrings, IdentitiesStarted
  <2>6. new.by = z /\ new.at = e /\ new.intact = Intact(z, e)
    OBVIOUS
  <2> HIDE DEF Event, new
  <2>7. /\ log' \in Seq(Event) /\ DOMAIN log' = 1 .. Len(log) + 1
        /\ DOMAIN log = 1 .. Len(log) /\ Len(log) \in Nat
        /\ \A k \in DOMAIN log : log'[k] = log[k]
        /\ log'[Len(log) + 1] = new
    BY <2>1, <2>4
  <2>8. TraceTypes'
    BY <1>1, <1>2, <2>1, <2>7 DEF TraceTypes, spanVars, Event
  <2>9. \A k \in DOMAIN log' :
           log'[k].intact \/ {log'[k].by, log'[k].at} \cap tainted # {}
    <3>1. \A k \in DOMAIN log' : k \in DOMAIN log \/ k = Len(log) + 1
      BY <2>7
    <3>2. \A k \in DOMAIN log :
             log[k].intact \/ {log[k].by, log[k].at} \cap tainted # {}
      BY <1>1 DEF EventsSound
    <3>3. new.intact \/ {new.by, new.at} \cap tainted # {}
      BY <2>5, <2>6
    <3>4. QED
      BY <2>7, <3>1, <3>2, <3>3
  <2>10. EventsSound'
    BY <1>1, <1>2, <2>1, <2>9 DEF EventsSound
  <2>11. QED
    BY <1>3, <1>4, <2>8, <2>10, Halves, PTL
<1>7. QED
  BY <1>5, <1>6

\* Identities are copied between a trace and the program's structs.
LEMMA TraceInfoKeeps ==
  ASSUME ZTracerInv, NEW z \in Live(Traces),
         \/ \E i \in Infos : GetTraceInfo(z, i)
         \/ \E i \in Identified : SetTraceInfo(z, i)
  PROVE  ZTracerInv'
<1>1. /\ MemoryTypes /\ MemoryInv /\ TraceTypes /\ EventsSound /\ IdentitiesStarted
      /\ z \in Traces /\ state[z] = "live"
  BY Halves DEF Live
<1>2. UNCHANGED <<memory, ep, wild, log, strays, tainted, spanVars>>
  BY DEF GetTraceInfo, SetTraceInfo
<1>3. MemoryTypes' /\ MemoryInv' /\ EventsSound'
  BY <1>1, <1>2 DEF memory, MemoryTypes, MemoryInv, FreedOnce, NothingLeaks,
                    OwnStrings, LiveStrings, EndpointsLive, Users, EventsSound
<1>4. ASSUME NEW i \in Infos, GetTraceInfo(z, i) PROVE TraceTypes' /\ IdentitiesStarted'
  <2>1. /\ saved' = [saved EXCEPT ![i] = info[z]] /\ info' = info
        /\ info[z] = Garbage \/ Started(info[z])
    BY <1>1, <1>4 DEF GetTraceInfo, IdentitiesStarted
  <2>2. TraceTypes'
    BY <1>1, <1>2, <2>1 DEF TraceTypes, spanVars
  <2>3. IdentitiesStarted'
    BY <1>1, <1>2, <2>1 DEF TraceTypes, IdentitiesStarted, Started, memory, spanVars
  <2>4. QED
    BY <2>2, <2>3
<1>5. ASSUME NEW i \in Identified, SetTraceInfo(z, i)
      PROVE  TraceTypes' /\ IdentitiesStarted'
  <2>1. /\ info' = [info EXCEPT ![z] = saved[i]] /\ saved' = saved
        /\ Started(saved[i]) /\ saved[i] \in D!Identity
    BY <1>1, <1>5, ZTracerAssumption DEF SetTraceInfo, IdentitiesStarted, Identified
  <2>2. TraceTypes'
    BY <1>1, <1>2, <2>1 DEF TraceTypes, spanVars
  <2>3. IdentitiesStarted'
    BY <1>1, <1>2, <2>1 DEF TraceTypes, IdentitiesStarted, Started, memory, spanVars
  <2>4. QED
    BY <2>2, <2>3
<1>6. TraceTypes' /\ IdentitiesStarted'
  BY <1>4, <1>5
<1>7. QED
  BY <1>3, <1>6, Halves, PTL

\* The identity of a live object is none of the business of other objects'
\* handles; a dead one keeps nothing anybody reads.
LEMMA HandlesKeepTraces ==
  ASSUME ZTracerInv,
         UNCHANGED <<info, wild, saved, log, strays, spanVars>>, tainted' = tainted,
         \A z \in Traces : state'[z] = "live" => state[z] = "live"
  PROVE  TraceTypes' /\ EventsSound' /\ IdentitiesStarted'
<1>1. TraceTypes /\ EventsSound /\ IdentitiesStarted
  BY Halves
<1>2. TraceTypes' /\ EventsSound'
  BY <1>1 DEF TraceTypes, EventsSound, spanVars
<1>3. IdentitiesStarted'
  BY <1>1 DEF IdentitiesStarted, Started, spanVars
<1>4. QED
  BY <1>2, <1>3

\* What is destroyed was alive.
LEMMA DestroyEndsLife ==
  ASSUME NEW S, Destroy(S)
  PROVE  \A z \in Traces : state'[z] = "live" => state[z] = "live"
BY DEF Destroy, Objects

\* Copies of traces have the identity of the original.
LEMMA CopyTraceTraces ==
  ASSUME ZTracerInv, NEW y \in Traces, NEW z \in Live(Traces), SameMembers(y, z),
         \A x \in Traces \ {y} : state'[x] = "live" => state[x] = "live"
  PROVE  TraceTypes' /\ EventsSound' /\ IdentitiesStarted'
<1>1. /\ TraceTypes /\ EventsSound /\ IdentitiesStarted
      /\ z \in Traces /\ state[z] = "live"
  BY Halves DEF Live
<1>2. /\ info' = [info EXCEPT ![y] = info[z]]
      /\ wild' = IF z \in wild THEN wild \cup {y} ELSE wild \ {y}
      /\ tainted' = tainted \cup {y, z}
      /\ UNCHANGED <<saved, log, strays, spans, roots>>
  BY DEF SameMembers, Taint, spanVars
<1>3. TraceTypes' /\ EventsSound'
  BY <1>1, <1>2 DEF TraceTypes, EventsSound
<1>4. ASSUME NEW x \in Traces, state'[x] = "live"
      PROVE  Started(info'[x]) \/ (info'[x] = Garbage /\ x \in tainted')
  <2>1. CASE x = y
    BY <1>1, <1>2, <2>1 DEF TraceTypes, IdentitiesStarted
  <2>2. CASE x # y
    BY <1>1, <1>2, <1>4, <2>2 DEF TraceTypes, IdentitiesStarted
  <2>3. QED
    BY <2>1, <2>2
<1>5. IdentitiesStarted'
  BY <1>1, <1>2, <1>4 DEF IdentitiesStarted, Started
<1>6. QED
  BY <1>3, <1>5

\* Every step keeps the invariant.
LEMMA ZTracerStep == ASSUME ZTracerInv, [Next]_vars PROVE ZTracerInv'
<1>1. /\ MemoryTypes /\ MemoryInv /\ TraceTypes /\ EventsSound /\ IdentitiesStarted
      /\ held \subseteq Endps /\ \A e \in held : state[e] = "live"
      /\ \A z \in Live(Traces) : ep[z] \in Endps /\ state[ep[z]] = "live"
  BY Halves DEF MemoryTypes, MemoryInv, EndpointsLive, Live
<1>2. ASSUME NEW e \in Endps, CreateEndpoint(e) PROVE ZTracerInv'
  <2>1. MemoryTypes' /\ MemoryInv'
    BY <1>1, <1>2, CreateEndpointKeeps
  <2>2. \A z \in Traces : state'[z] = "live" => state[z] = "live"
    BY <1>2, ZTracerAssumption DEF CreateEndpoint, Construct, MemoryTypes
  <2>3. TraceTypes' /\ EventsSound' /\ IdentitiesStarted'
    BY <1>2, <2>2, HandlesKeepTraces DEF CreateEndpoint
  <2>4. QED
    BY <2>1, <2>3, Halves, PTL
<1>3. ASSUME NEW z \in Unborn, NEW e \in held,
             \/ NewTrace(z, e)
             \/ ChildTraceFromNull(z, e)
             \/ \E i \in Identified : ChildTraceFrom(z, e, i)
             \/ \E i \in Identified \cup {Null} : SameTraceFrom(z, e, i)
      PROVE  ZTracerInv'
  BY <1>1, <1>3, ConstructorsKeep
<1>4. ASSUME NEW z \in Unborn, NEW t \in Live(Traces),
             NEW e \in held \cup {ep[t]}, ChildTrace(z, t, e)
      PROVE  ZTracerInv'
  BY <1>1, <1>4, ConstructorsKeep
<1>5. ASSUME NEW z \in Live(Traces), NEW e \in held \cup {ep[z]}, Annotate(z, e)
      PROVE  ZTracerInv'
  BY <1>1, <1>5, AnnotateKeeps
<1>6. ASSUME NEW z \in Live(Traces),
             \/ \E i \in Infos : GetTraceInfo(z, i)
             \/ \E i \in Identified : SetTraceInfo(z, i)
      PROVE  ZTracerInv'
  BY <1>6, TraceInfoKeeps
<1>7. ASSUME NEW z \in Live(Traces), GetEndpoint(z) PROVE ZTracerInv'
  <2>1. MemoryTypes' /\ MemoryInv'
    BY <1>1, <1>7, GetEndpointKeeps
  <2>2. TraceTypes' /\ EventsSound' /\ IdentitiesStarted'
    BY <1>7, HandlesKeepTraces DEF GetEndpoint
  <2>3. QED
    BY <2>1, <2>2, Halves, PTL
<1>8. ASSUME NEW z \in Live(Traces), DropTrace(z) PROVE ZTracerInv'
  <2>1. MemoryTypes' /\ MemoryInv'
    BY <1>1, <1>8, DropTraceKeeps
  <2>2. TraceTypes' /\ EventsSound' /\ IdentitiesStarted'
    BY <1>8, HandlesKeepTraces, DestroyEndsLife DEF DropTrace
  <2>3. QED
    BY <2>1, <2>2, Halves, PTL
<1>9. ASSUME NEW e \in held, DropEndpoint(e) PROVE ZTracerInv'
  <2>1. MemoryTypes' /\ MemoryInv'
    BY <1>1, <1>9, DropEndpointKeeps
  <2>2. TraceTypes' /\ EventsSound' /\ IdentitiesStarted'
    BY <1>9, HandlesKeepTraces, DestroyEndsLife DEF DropEndpoint
  <2>3. QED
    BY <2>1, <2>2, Halves, PTL
<1>10. ASSUME NEW e \in Live(Endps), NEW f \in Endps,
              CopyEndpoint(f, e) \/ (f \in Live(Endps) /\ AssignEndpoint(f, e))
       PROVE  ZTracerInv'
  <2>1. MemoryTypes' /\ MemoryInv'
    BY <1>1, <1>10, CopyEndpointKeeps, AssignEndpointKeeps
  <2>2. \A z \in Traces : state'[z] = state[z]
    <3>1. \A z \in Traces : z # f /\ z \in Objects
      BY ZTracerAssumption DEF Objects
    <3>2. CASE CopyEndpoint(f, e)
      BY <1>1, <3>1, <3>2 DEF CopyEndpoint, MemoryTypes
    <3>3. CASE AssignEndpoint(f, e)
      BY <3>3 DEF AssignEndpoint
    <3>4. QED
      BY <1>10, <3>2, <3>3
  <2>3. /\ UNCHANGED <<info, wild, saved, log, strays, spanVars>>
        /\ tainted \subseteq tainted'
    BY <1>10 DEF CopyEndpoint, AssignEndpoint, Taint
  <2>4. TraceTypes' /\ EventsSound' /\ IdentitiesStarted'
    BY <1>1, <2>2, <2>3
    DEF TraceTypes, EventsSound, IdentitiesStarted, Started, spanVars
  <2>5. QED
    BY <2>1, <2>4, Halves, PTL
<1>11. ASSUME NEW z \in Live(Traces), NEW y \in Traces,
              \/ CopyTrace(y, z)
              \/ y \in Live(Traces) /\ y # z /\ AssignTrace(y, z)
       PROVE  ZTracerInv'
  <2>1. MemoryTypes' /\ MemoryInv'
    BY <1>1, <1>11, CopyTraceKeeps, AssignTraceKeeps
  <2>2. SameMembers(y, z)
    BY <1>11 DEF CopyTrace, AssignTrace
  <2>3. \A x \in Traces \ {y} : state'[x] = "live" => state[x] = "live"
    BY <1>1, <1>11, DestroyEndsLife DEF CopyTrace, AssignTrace, MemoryTypes, Objects
  <2>4. TraceTypes' /\ EventsSound' /\ IdentitiesStarted'
    BY <2>2, <2>3, CopyTraceTraces
  <2>5. QED
    BY <2>1, <2>4, Halves, PTL
<1>12. CASE UNCHANGED vars
  BY <1>12
  DEF vars, memory, spanVars, ZTracerInv, TypeOK, EventsSound, FreedOnce, NothingLeaks,
      OwnStrings, LiveStrings, EndpointsLive, IdentitiesStarted, Users, Started
<1>13. \A f \in Live(Endps) : f \in Endps
  BY DEF Live
<1>14. \A y \in Live(Traces) : y \in Traces
  BY DEF Live
<1>15. CASE Next
  <2>1. CASE Make
    BY <1>2, <1>3, <1>4, <2>1 DEF Make
  <2>2. CASE Use
    BY <1>5, <1>6, <1>7, <2>2 DEF Use
  <2>3. CASE Drop
    BY <1>8, <1>9, <2>3 DEF Drop
  <2>4. CASE Copy
    BY <1>10, <1>11, <1>13, <1>14, <2>4 DEF Copy
  <2>5. QED
    BY <1>15, <2>1, <2>2, <2>3, <2>4 DEF Next
<1>16. QED
  BY <1>12, <1>15

\* In every reachable state of a program using the wrapper, with any number of
\* objects, handles and structs, whether or not it copies objects.
THEOREM ZTracerInvariant == Spec => []ZTracerInv
<1>1. Init => ZTracerInv
  BY ZTracerInit
<1>2. ZTracerInv /\ [Next]_vars => ZTracerInv'
  BY ZTracerStep
<1> QED
  BY <1>1, <1>2, PTL DEF Spec

\* An event of objects that were not copied is made of strings still allocated
\* and of an identity that was stored.
THEOREM EventsAreSound == Spec => []EventsSound
<1>1. ZTracerInv => EventsSound
  BY DEF ZTracerInv
<1> QED
  BY <1>1, ZTracerInvariant, PTL

\* The destructors free no string a second time unless its object was copied.
THEOREM NothingFreedTwice == Spec => []FreedOnce
<1>1. ZTracerInv => FreedOnce
  BY DEF ZTracerInv
<1> QED
  BY <1>1, ZTracerInvariant, PTL

\* No string outlives its object, no endpoint its last handle.
THEOREM NoLeaks == Spec => []NothingLeaks
<1>1. ZTracerInv => NothingLeaks
  BY DEF ZTracerInv
<1> QED
  BY <1>1, ZTracerInvariant, PTL

-------------------------------------------------------------------------------
LogEntry == [by : Traces, at : Endps, info : D!Identity, intact : BOOLEAN]

\* The identities of a log that grew by one event.
LEMMA AppendEntry ==
  ASSUME log \in Seq(LogEntry), NEW ev \in LogEntry, log' = Append(log, ev)
  PROVE  [k \in DOMAIN log' |-> log'[k].info] =
         Append([k \in DOMAIN log |-> log[k].info], ev.info)
<1> DEFINE old == [k \in DOMAIN log |-> log[k].info]
           new == [k \in DOMAIN log' |-> log'[k].info]
<1>1. /\ Len(log) \in Nat
      /\ DOMAIN log = 1 .. Len(log)
      /\ DOMAIN log' = 1 .. Len(log) + 1
      /\ \A k \in DOMAIN log : log'[k] = log[k] /\ log[k] \in LogEntry
      /\ log'[Len(log) + 1] = ev
  OBVIOUS
<1>2. old \in Seq(D!Identity) /\ Len(old) = Len(log) /\ ev.info \in D!Identity
  BY <1>1 DEF LogEntry
<1>3. DOMAIN new = DOMAIN Append(old, ev.info)
  BY <1>1, <1>2
<1>4. \A k \in DOMAIN new : new[k] = Append(old, ev.info)[k]
  BY <1>1, <1>2
<1> QED
  BY <1>2, <1>3, <1>4

\* Steps that neither start a span nor emit an event are invisible to Dapper.
LEMMA QuietStep ==
  ASSUME UNCHANGED <<spans, roots, log>> PROVE UNCHANGED D!vars
  BY DEF D!vars

\* A new trace starts a root.
LEMMA RootStep ==
  ASSUME NEW tid \in Ids, NEW sid \in Ids, Mint(D!Root(tid, sid), TRUE),
         UNCHANGED log
  PROVE  D!Next
<1>1. D!StartTrace(tid, sid)
  BY DEF Mint, D!StartTrace
<1> QED
  BY <1>1 DEF D!Next

\* A child of a started identity is a child of a span.
LEMMA ChildStep ==
  ASSUME NEW id, Started(id), NEW sid \in Ids, Mint(D!ChildOf(id, sid), FALSE),
         UNCHANGED log
  PROVE  D!Next
<1>1. PICK i \in DOMAIN spans : spans[i] = id
  BY DEF Started
<1>2. D!StartChild(i, sid)
  BY <1>1 DEF Mint, D!StartChild
<1> QED
  BY <1>2 DEF D!Next

\* What the structs of live traces and the program's structs hold was started.
LEMMA HeldStarted ==
  ASSUME ZTracerInv
  PROVE  /\ \A t \in Live(Traces) : info[t] # Garbage => Started(info[t])
         /\ \A i \in Identified : Started(saved[i])
  BY ZTracerAssumption
  DEF ZTracerInv, IdentitiesStarted, Live, Identified

\* An event is an annotation of the span whose identity its trace holds.
LEMMA AnnotateStep ==
  ASSUME ZTracerInv, NEW z \in Live(Traces), NEW e \in held \cup {ep[z]},
         Annotate(z, e)
  PROVE  D!Next \/ UNCHANGED D!vars
<1>1. CASE info[z] = Garbage
  BY <1>1, QuietStep DEF Annotate, spanVars
<1>2. CASE info[z] # Garbage
  <2> DEFINE ev == [by |-> z, at |-> e, info |-> info[z], intact |-> Intact(z, e)]
  <2>1. log' = Append(log, ev) /\ UNCHANGED <<spans, roots>>
    BY <1>2 DEF Annotate, spanVars
  <2>2. log \in Seq(LogEntry)
    BY DEF ZTracerInv, TypeOK, LogEntry
  <2>3. z \in Traces /\ e \in Endps /\ info[z] \in D!Identity
    BY <1>2 DEF ZTracerInv, TypeOK, EndpointsLive, Live
  <2>4. Intact(z, e) \in BOOLEAN
    BY DEF Intact
  <2>5. ev \in LogEntry
    BY <2>3, <2>4 DEF LogEntry
  <2>6. PICK i \in DOMAIN spans : spans[i] = info[z]
    BY <1>2, HeldStarted DEF Started
  <2>7. ev.info = spans[i]
    BY <2>6
  <2> HIDE DEF ev
  <2>8. D!Annotate(i)
    BY <2>1, <2>2, <2>5, <2>7, AppendEntry DEF D!Annotate
  <2> QED
    BY <2>8 DEF D!Next
<1> QED
  BY <1>1, <1>2

\* The constructors start the spans they promise, or none.
LEMMA MakeStep ==
  ASSUME ZTracerInv, Make PROVE D!Next \/ UNCHANGED D!vars
<1>1. ASSUME NEW e \in Endps, CreateEndpoint(e) PROVE UNCHANGED D!vars
  BY <1>1, QuietStep DEF CreateEndpoint, spanVars
<1>2. ASSUME NEW z, NEW e, NewTrace(z, e) PROVE D!Next
  BY <1>2, RootStep DEF NewTrace, Wrap
<1>3. ASSUME NEW z, NEW e, ChildTraceFromNull(z, e) PROVE UNCHANGED D!vars
  BY <1>3, QuietStep DEF ChildTraceFromNull, Wrap, spanVars
<1>4. ASSUME NEW z, NEW e, NEW i \in Identified, ChildTraceFrom(z, e, i) PROVE D!Next
  BY <1>4, ChildStep, HeldStarted DEF ChildTraceFrom, Wrap
<1>5. ASSUME NEW z, NEW e, NEW i, SameTraceFrom(z, e, i) PROVE D!Next
  BY <1>5, RootStep DEF SameTraceFrom, Wrap
<1>6. ASSUME NEW z, NEW t \in Live(Traces), NEW e, ChildTrace(z, t, e)
      PROVE  D!Next \/ UNCHANGED D!vars
  <2>1. CASE info[t] = Garbage
    BY <1>6, <2>1, QuietStep DEF ChildTrace, Wrap, spanVars
  <2>2. CASE info[t] # Garbage
    BY <1>6, <2>2, ChildStep, HeldStarted DEF ChildTrace, Wrap
  <2> QED
    BY <2>1, <2>2
<1> QED
  BY <1>1, <1>2, <1>3, <1>4, <1>5, <1>6 DEF Make

\* Every step of the wrapper is a step of Dapper or leaves it unchanged.
LEMMA DapperSimulation ==
  ASSUME ZTracerInv, [Next]_vars PROVE D!Next \/ UNCHANGED D!vars
<1>1. CASE Use
  <2>1. ASSUME NEW z, NEW i,
               GetTraceInfo(z, i) \/ SetTraceInfo(z, i) \/ GetEndpoint(z)
        PROVE  UNCHANGED D!vars
    BY <2>1, QuietStep DEF GetTraceInfo, SetTraceInfo, GetEndpoint, spanVars
  <2> QED
    BY <1>1, <2>1, AnnotateStep DEF Use
<1>2. CASE Drop
  BY <1>2, QuietStep DEF Drop, DropTrace, DropEndpoint, spanVars
<1>3. CASE Copy
  BY <1>3, QuietStep
  DEF Copy, CopyEndpoint, AssignEndpoint, CopyTrace, AssignTrace, SameMembers, spanVars
<1>4. CASE UNCHANGED vars
  BY <1>4, QuietStep DEF vars, spanVars
<1> QED
  BY <1>1, <1>2, <1>3, <1>4, MakeStep DEF Next

\* The objects trace as Dapper promises, in whatever order handles are dropped,
\* objects copied and return codes ignored.
THEOREM ZTracerImplementsDapper == Spec => ImplementsDapper
<1>1. Init => D!Init
  BY DEF Init, D!Init
<1>2. ZTracerInv /\ [Next]_vars => [D!Next]_D!vars
  BY DapperSimulation
<1> QED
  BY <1>1, <1>2, ZTracerInvariant, PTL DEF Spec, ImplementsDapper, D!Spec

-------------------------------------------------------------------------------
P == INSTANCE DapperProofs WITH events <- [k \in DOMAIN log |-> log[k].info]

\* The objects' spans form trees with one root per trace, and no event names a
\* span that was never started, not even one of a trace made of NULL.
THEOREM ZTracerTrees == Spec => [](D!Forest /\ D!EventsOfSpans /\ D!OneRootPerTrace)
<1>1. P!Spec => [](P!Forest /\ P!EventsOfSpans /\ P!OneRootPerTrace)
  <2>1. Zero \in Ids
    BY ZTracerAssumption
  <2>2. QED
    BY <2>1, P!DapperTrees
<1>2. D!Init => P!Init
  BY DEF D!Init, P!Init
<1>3. [D!Next]_D!vars => [P!Next]_P!vars
  BY DEF D!Next, D!StartTrace, D!StartChild, D!Annotate, D!Root, D!ChildOf, D!vars,
         P!Next, P!StartTrace, P!StartChild, P!Annotate, P!Root, P!ChildOf, P!vars
<1>4. P!Forest /\ P!EventsOfSpans /\ P!OneRootPerTrace =>
         D!Forest /\ D!EventsOfSpans /\ D!OneRootPerTrace
  BY DEF D!Forest, P!Forest, D!IsParent, P!IsParent, D!EventsOfSpans, P!EventsOfSpans,
         D!OneRootPerTrace, P!OneRootPerTrace, D!Lucky, P!Lucky
<1>5. QED
  BY <1>1, <1>2, <1>3, <1>4, ZTracerImplementsDapper, PTL
  DEF ImplementsDapper, D!Spec, P!Spec

-------------------------------------------------------------------------------
\* The uses of the wrapper that it does not survive: an object is copied, or a
\* child made of no identity.
Reckless == Copy \/ \E z, e : ChildTraceFromNull(z, e)

Untainted == tainted = {}

\* What a program may expect of its objects.
MemorySound ==
  /\ strays = {} /\ culprits = {}
  /\ \A k \in DOMAIN log : log[k].intact
  /\ \A o \in Objects : state[o] = "dead" => texts[o] # "allocated"

\* Where there is no tainted object, only a reckless step makes one: a trace
\* whose child would be garbage is tainted itself.
LEMMA NoTaint ==
  ASSUME ZTracerInv, tainted = {}, [Next]_vars, [~Reckless]_vars
  PROVE  tainted' = {}
<1>1. CASE Make
  <2>1. ASSUME NEW e, CreateEndpoint(e) PROVE UNCHANGED tainted
    BY <2>1 DEF CreateEndpoint
  <2>2. ASSUME NEW z, NEW e, NewTrace(z, e) PROVE UNCHANGED tainted
    BY <2>2 DEF NewTrace
  <2>3. ASSUME NEW z, NEW e, NEW i, ChildTraceFrom(z, e, i) \/ SameTraceFrom(z, e, i)
        PROVE  UNCHANGED tainted
    BY <2>3 DEF ChildTraceFrom, SameTraceFrom
  <2>4. ASSUME NEW z, NEW e, ChildTraceFromNull(z, e) PROVE UNCHANGED tainted
    BY <2>4 DEF Reckless, vars
  <2>5. ASSUME NEW z, NEW t \in Live(Traces), NEW e, ChildTrace(z, t, e)
        PROVE  UNCHANGED tainted
    <3>1. Started(info[t])
      BY DEF ZTracerInv, IdentitiesStarted, Live
    <3>2. info[t] # Garbage
      BY <3>1, Halves, StartedIsIdentity
    <3>3. QED
      BY <2>5, <3>2 DEF ChildTrace
  <2>6. QED
    BY <1>1, <2>1, <2>2, <2>3, <2>4, <2>5 DEF Make
<1>2. CASE Use
  <2>1. ASSUME NEW z, NEW e, Annotate(z, e) PROVE UNCHANGED tainted
    BY <2>1 DEF Annotate
  <2>2. ASSUME NEW z, NEW i,
               GetEndpoint(z) \/ GetTraceInfo(z, i) \/ SetTraceInfo(z, i)
        PROVE  UNCHANGED tainted
    BY <2>2 DEF GetEndpoint, GetTraceInfo, SetTraceInfo
  <2>3. QED
    BY <1>2, <2>1, <2>2 DEF Use
<1>3. CASE Drop
  BY <1>3 DEF Drop, DropTrace, DropEndpoint
<1>4. CASE Copy
  BY <1>4 DEF Reckless, vars
<1>5. CASE UNCHANGED vars
  BY <1>5 DEF vars
<1>6. QED
  BY <1>1, <1>2, <1>3, <1>4, <1>5 DEF Next

\* A program that copies no object and makes no child of NULL may share endpoints
\* and drop handles in any order: every event is made of its own strings, none
\* is freed twice, and a destroyed object leaves none behind.
THEOREM CarefulProgramsAreSound == Spec /\ [][~Reckless]_vars => []MemorySound
<1>1. Init => Untainted
  BY DEF Init, Untainted
<1>2. ZTracerInv /\ Untainted /\ [Next]_vars /\ [~Reckless]_vars => Untainted'
  BY NoTaint DEF Untainted
<1>3. ZTracerInv /\ Untainted => MemorySound
  BY DEF ZTracerInv, EventsSound, FreedOnce, NothingLeaks, MemorySound, Untainted
<1>4. QED
  BY <1>1, <1>2, <1>3, ZTracerInvariant, PTL DEF Spec
===============================================================================
