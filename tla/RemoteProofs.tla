----------------------------- MODULE RemoteProofs -----------------------------
(***************************************************************************)
(* The packed identity for integers of any width and any number of hosts   *)
(* of either byte order: the two conversions are each other's inverse, and *)
(* spans continued across hosts are the trees Dapper promises.             *)
(***************************************************************************)
EXTENDS Remote, TLAPS

\* Reversing the bytes twice changes nothing.
LEMMA ReversedTwice ==
  ASSUME NEW x \in Number
  PROVE  Reversed(x) \in Number /\ Reversed(Reversed(x)) = x
<1>1. Width \in Nat
  BY WireAssumption
<1>2. \A k \in 1 .. Width : Width + 1 - k \in 1 .. Width /\ Width + 1 - (Width + 1 - k) = k
  BY <1>1
<1>3. Reversed(x) \in Number
  BY <1>2 DEF Number, Reversed
<1>4. \A k \in 1 .. Width : Reversed(Reversed(x))[k] = x[k]
  BY <1>2 DEF Reversed
<1>5. Reversed(Reversed(x)) \in [1 .. Width -> Byte]
  BY <1>2, <1>3 DEF Number, Reversed
<1> DEFINE y == Reversed(Reversed(x))
<1>6. x = y
  <2> HIDE DEF y
  <2>1. /\ x \in [1 .. Width -> Byte] /\ y \in [1 .. Width -> Byte]
        /\ \A k \in 1 .. Width : y[k] = x[k]
    BY <1>4, <1>5 DEF Number, y
  <2>2. /\ x = [k \in 1 .. Width |-> x[k]]
        /\ y = [k \in 1 .. Width |-> y[k]]
    BY <2>1, Zenon
  <2>3. [k \in 1 .. Width |-> x[k]] = [k \in 1 .. Width |-> y[k]]
    BY <2>1, Zenon
  <2>4. QED
    BY <2>2, <2>3, Zenon
<1>7. QED
  BY <1>3, <1>6

\* Whatever the byte order of the host, the packed identity is the identity
\* with the most significant bytes first, and reading it gives it back.
LEMMA PacketIsBigEndian ==
  ASSUME NEW h, NEW id \in Triple
  PROVE  ToPacket(h, id) = id /\ FromPacket(h, id) = id
<1>1. id = [trace_id |-> id.trace_id, span_id |-> id.span_id,
            parent_span_id |-> id.parent_span_id]
  BY DEF Triple
<1>2. \A x \in Number : Bytes(h, Be64(h, x)) = x /\ Be64(h, Load(h, x)) = x
  BY ReversedTwice DEF Bytes, Be64, Load
<1>3. /\ id.trace_id \in Number /\ id.span_id \in Number
      /\ id.parent_span_id \in Number
  BY DEF Triple
<1>4. /\ ToPacket(h, id) = [trace_id |-> id.trace_id, span_id |-> id.span_id,
                            parent_span_id |-> id.parent_span_id]
      /\ FromPacket(h, id) = [trace_id |-> id.trace_id, span_id |-> id.span_id,
                              parent_span_id |-> id.parent_span_id]
  BY <1>2, <1>3 DEF ToPacket, FromPacket
<1>5. QED
  BY <1>1, <1>4

\* What a host packs on one machine another reads on its own.
THEOREM PackRoundTrip ==
  ASSUME NEW g, NEW h, NEW id \in Triple
  PROVE  FromPacket(h, ToPacket(g, id)) = id
BY PacketIsBigEndian

-------------------------------------------------------------------------------
\* An identity is three integers.
LEMMA IdentityIsTriple == D!Identity \subseteq Triple
BY RemoteAssumption DEF D!Identity, Triple

\* Roots and children of identities are identities.
LEMMA NewIsIdentity ==
  ASSUME NEW id \in D!Identity, NEW tid \in Ids, NEW sid \in Ids
  PROVE  D!Root(tid, sid) \in D!Identity /\ D!ChildOf(id, sid) \in D!Identity
BY RemoteAssumption DEF D!Identity, D!Root, D!ChildOf

\* To begin with nobody holds an identity.
LEMMA RemoteInit == Init => RemoteInv
<1> SUFFICES ASSUME Init PROVE RemoteInv
  OBVIOUS
<1>1. TypeOK
  BY RemoteAssumption DEF Init, TypeOK
<1>2. QED
  BY <1>1 DEF Init, RemoteInv, IdentitiesTravel, WireInNetworkOrder

\* What was started stays started when a span is added.
LEMMA StartedGrows ==
  ASSUME TypeOK, NEW id \in D!Identity, spans' = Append(spans, id)
  PROVE  /\ spans' \in Seq(D!Identity) /\ Len(spans') = Len(spans) + 1
         /\ DOMAIN spans \subseteq DOMAIN spans'
         /\ Len(spans) + 1 \in DOMAIN spans' /\ spans'[Len(spans) + 1] = id
         /\ \A x : Started(x) => Started(x)'
<1>1. spans \in Seq(D!Identity)
  BY DEF TypeOK
<1>2. /\ spans' \in Seq(D!Identity) /\ Len(spans') = Len(spans) + 1
      /\ DOMAIN spans \subseteq DOMAIN spans'
      /\ Len(spans) + 1 \in DOMAIN spans' /\ spans'[Len(spans) + 1] = id
      /\ \A i \in DOMAIN spans : spans'[i] = spans[i]
  BY <1>1
<1>3. QED
  BY <1>2 DEF Started

\* A new span may be started by any host.
LEMMA StartKeeps ==
  ASSUME RemoteInv, NEW h \in Hosts, NEW id \in D!Identity, Start(h, id),
         roots' \subseteq roots \cup {Len(spans) + 1}
  PROVE  RemoteInv'
<1>1. /\ spans' \in Seq(D!Identity) /\ Len(spans') = Len(spans) + 1
      /\ DOMAIN spans \subseteq DOMAIN spans'
      /\ Len(spans) + 1 \in DOMAIN spans' /\ spans'[Len(spans) + 1] = id
      /\ \A x : Started(x) => Started(x)'
  BY StartedGrows DEF Start, RemoteInv
<1>2. Len(spans') <= MaxSpans
  BY <1>1, RemoteAssumption DEF Start, RemoteInv, TypeOK
<1>3. id \in Triple
  BY IdentityIsTriple
<1>4. TypeOK'
  BY <1>1, <1>2, <1>3 DEF Start, RemoteInv, TypeOK
<1>5. Started(id)'
  BY <1>1 DEF Started
<1>6. IdentitiesTravel'
  BY <1>1, <1>5 DEF Start, RemoteInv, TypeOK, IdentitiesTravel
<1>7. /\ WireInNetworkOrder'
      /\ (\A g \in Hosts : at[g] # "idle" => Started(packet[g]))'
  BY <1>1 DEF Start, RemoteInv, WireInNetworkOrder
<1>8. QED
  BY <1>4, <1>6, <1>7 DEF RemoteInv

\* Every step keeps the invariant, if the two functions are called exchanged.
LEMMA RemoteStep ==
  ASSUME Exchanged, RemoteInv, [Next]_vars PROVE RemoteInv'
<1>1. ASSUME NEW h \in Hosts, NewTrace(h) PROVE RemoteInv'
  <2>1. PICK tid \in Ids, sid \in Ids : Start(h, D!Root(tid, sid))
    BY <1>1 DEF NewTrace
  <2>2. D!Root(tid, sid) \in D!Identity
    BY RemoteAssumption DEF D!Root, D!Identity
  <2>3. QED
    BY <1>1, <2>1, <2>2, StartKeeps DEF NewTrace
<1>2. ASSUME NEW h \in Hosts, NewChild(h) PROVE RemoteInv'
  <2>1. PICK sid \in Ids : Start(h, D!ChildOf(info[h], sid))
    BY <1>2 DEF NewChild
  <2>2. PICK i \in DOMAIN spans : spans[i] = info[h]
    BY <1>2 DEF NewChild, RemoteInv, IdentitiesTravel, Started
  <2>3. D!ChildOf(info[h], sid) \in D!Identity
    BY <2>2, NewIsIdentity DEF RemoteInv, TypeOK
  <2>4. QED
    BY <1>2, <2>1, <2>3, StartKeeps DEF NewChild
<1>3. ASSUME NEW h \in Hosts, Fill(h) PROVE RemoteInv'
  <2>1. Started(info[h]) /\ info[h] \in Triple
    BY <1>3 DEF Fill, RemoteInv, IdentitiesTravel, TypeOK
  <2>2. packet' = [packet EXCEPT ![h] = info[h]] /\ info' = info
    BY <1>3, <2>1, PacketIsBigEndian DEF Fill, Unpack
  <2>3. TypeOK'
    BY <1>3, <2>1, <2>2 DEF Fill, Goto, RemoteInv, TypeOK
  <2>4. QED
    BY <1>3, <2>1, <2>2, <2>3
    DEF Fill, Goto, RemoteInv, TypeOK, IdentitiesTravel, WireInNetworkOrder, Started
<1>4. ASSUME NEW h \in Hosts, Send(h) PROVE RemoteInv'
  <2>1. Started(packet[h]) /\ packet[h] \in Triple
    BY <1>4 DEF Send, Goto, RemoteInv, TypeOK
  <2>2. TypeOK'
    BY <1>4, <2>1 DEF Send, Goto, RemoteInv, TypeOK
  <2>3. QED
    BY <1>4, <2>1, <2>2
    DEF Send, Goto, RemoteInv, TypeOK, IdentitiesTravel, WireInNetworkOrder, Started
<1>5. ASSUME NEW h \in Hosts, Receive(h) PROVE RemoteInv'
  <2>1. PICK p \in wire : packet' = [packet EXCEPT ![h] = p]
    BY <1>5 DEF Receive
  <2>2. Started(p) /\ p \in Triple
    BY DEF RemoteInv, WireInNetworkOrder, TypeOK
  <2>3. TypeOK'
    BY <1>5, <2>1, <2>2 DEF Receive, Goto, RemoteInv, TypeOK
  <2>4. QED
    BY <1>5, <2>1, <2>2, <2>3
    DEF Receive, Goto, RemoteInv, TypeOK, IdentitiesTravel, WireInNetworkOrder, Started
<1>6. ASSUME NEW h \in Hosts, Read(h) PROVE RemoteInv'
  <2>1. Started(packet[h]) /\ packet[h] \in Triple
    BY <1>6 DEF Read, Goto, RemoteInv, TypeOK
  <2>2. info' = [info EXCEPT ![h] = packet[h]] /\ packet' = packet
    BY <1>6, <2>1, PacketIsBigEndian DEF Read, Pack
  <2>3. TypeOK'
    BY <1>6, <2>1, <2>2 DEF Read, Goto, RemoteInv, TypeOK
  <2>4. QED
    BY <1>6, <2>1, <2>2, <2>3
    DEF Read, Goto, RemoteInv, TypeOK, IdentitiesTravel, WireInNetworkOrder, Started
<1>7. CASE UNCHANGED vars
  BY <1>7 DEF vars, RemoteInv, TypeOK, IdentitiesTravel, WireInNetworkOrder, Started
<1>8. QED
  BY <1>1, <1>2, <1>3, <1>4, <1>5, <1>6, <1>7 DEF Next

\* Hosts that call the two functions exchanged keep the invariant, whatever
\* the network does.
THEOREM RemoteInvariant == ASSUME Exchanged PROVE Spec => []RemoteInv
<1>1. Init => RemoteInv
  BY RemoteInit
<1>2. RemoteInv /\ [Next]_vars => RemoteInv'
  BY RemoteStep
<1>3. QED
  BY <1>1, <1>2, PTL DEF Spec

\* A host goes on from a span that some host has started.
THEOREM IdentitiesDoTravel == ASSUME Exchanged PROVE Spec => []IdentitiesTravel
<1>1. RemoteInv => IdentitiesTravel
  BY DEF RemoteInv
<1>2. QED
  BY <1>1, RemoteInvariant, PTL

\* A packet is the identity of a span in network order.
THEOREM PacketsInNetworkOrder ==
  ASSUME Exchanged PROVE Spec => []WireInNetworkOrder
<1>1. RemoteInv => WireInNetworkOrder
  BY DEF RemoteInv
<1>2. QED
  BY <1>1, RemoteInvariant, PTL

-------------------------------------------------------------------------------
\* Starting a span is a step of Dapper, converting and sending is none.
LEMMA RemoteSimulation ==
  ASSUME RemoteInv, [Next]_vars PROVE [D!Next]_D!vars
<1>1. ASSUME NEW h \in Hosts, NewTrace(h) PROVE D!Next
  BY <1>1 DEF NewTrace, Start, D!Next, D!StartTrace
<1>2. ASSUME NEW h \in Hosts, NewChild(h) PROVE D!Next
  <2>1. PICK i \in DOMAIN spans : spans[i] = info[h]
    BY <1>2 DEF NewChild, RemoteInv, IdentitiesTravel, Started
  <2>2. QED
    BY <1>2, <2>1 DEF NewChild, Start, D!Next, D!StartChild
<1>3. ASSUME NEW h \in Hosts, Fill(h) \/ Send(h) \/ Receive(h) \/ Read(h)
      PROVE  UNCHANGED D!vars
  BY <1>3 DEF Fill, Send, Receive, Read, D!vars
<1>4. CASE UNCHANGED vars
  BY <1>4 DEF vars, D!vars
<1>5. QED
  BY <1>1, <1>2, <1>3, <1>4 DEF Next

\* The spans of all hosts together are those of Dapper.
THEOREM RemoteImplementsDapper ==
  ASSUME Exchanged PROVE Spec => ImplementsDapper
<1>1. Init => D!Init
  BY DEF Init, D!Init
<1>2. RemoteInv /\ [Next]_vars => [D!Next]_D!vars
  BY RemoteSimulation
<1>3. QED
  BY <1>1, <1>2, RemoteInvariant, PTL DEF Spec, ImplementsDapper, D!Spec

-------------------------------------------------------------------------------
P == INSTANCE DapperProofs WITH events <- << >>

\* Whatever the network loses, repeats and delays, a trace that runs over many
\* hosts is a tree: parent links lead to a root without cycles, and the trace
\* shows one root unless identifiers were drawn twice or as 0.
THEOREM RemoteTrees ==
  ASSUME Exchanged PROVE Spec => [](D!Forest /\ D!OneRootPerTrace)
<1>1. P!Spec => [](P!Forest /\ P!EventsOfSpans /\ P!OneRootPerTrace)
  <2>1. Zero \in Ids
    BY RemoteAssumption
  <2>2. QED
    BY <2>1, P!DapperTrees
<1>2. D!Init => P!Init
  BY DEF D!Init, P!Init
<1>3. [D!Next]_D!vars => [P!Next]_P!vars
  BY DEF D!Next, D!StartTrace, D!StartChild, D!Annotate, D!Root, D!ChildOf, D!vars,
         P!Next, P!StartTrace, P!StartChild, P!Annotate, P!Root, P!ChildOf, P!vars
<1>4. P!Forest /\ P!OneRootPerTrace => D!Forest /\ D!OneRootPerTrace
  BY DEF D!Forest, P!Forest, D!IsParent, P!IsParent,
         D!OneRootPerTrace, P!OneRootPerTrace, D!Lucky, P!Lucky
<1>5. QED
  BY <1>1, <1>2, <1>3, <1>4, RemoteImplementsDapper, PTL
  DEF ImplementsDapper, D!Spec, P!Spec
===============================================================================
