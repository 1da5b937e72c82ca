-------------------------------- MODULE Remote --------------------------------
(***************************************************************************)
(* Hosts of either byte order that continue each other's traces over a     *)
(* network, with the packed identity: one thread per host, one struct      *)
(* blkin_trace_info, one blkin_trace_info_packed that is sent and received *)
(* as bytes.  The network is external: it loses, repeats and reorders.     *)
(*                                                                         *)
(* _blkin_pack_trace_info has the body one expects of                      *)
(* _blkin_unpack_trace_info and the other way round.  With Exchanged the   *)
(* program knows, and calls the one where the documentation says the       *)
(* other; otherwise it packs, sends, receives and unpacks.                 *)
(***************************************************************************)
EXTENDS WireInfo, Sequences

CONSTANTS Ids, Zero,  \* what random_big may return, and the 0 among it
          Junk,       \* what the two structs hold before their first use
          Exchanged,  \* does the program call the two functions exchanged?
          MaxSpans    \* bound on the spans started

VARIABLES at,            \* at[h]: what the program of h is about to do
          info,          \* info[h]: its blkin_trace_info
          packet,        \* packet[h]: the bytes of its blkin_trace_info_packed
          ready,         \* hosts whose program takes info for an identity
          wire,          \* the packets that were sent
          spans, roots   \* history: the spans started, those without parent

vars == <<at, info, packet, ready, wire, spans, roots>>

D == INSTANCE Dapper WITH events <- << >>

\* Three integers, or the bytes of three integers.
Triple == [trace_id : Number, span_id : Number, parent_span_id : Number]

ASSUME RemoteAssumption ==
  /\ Ids \subseteq Number
  /\ Zero \in Ids
  /\ Junk \in Triple
  /\ Exchanged \in BOOLEAN
  /\ MaxSpans \in Nat

TypeOK ==
  /\ at \in [Hosts -> {"idle", "filled", "received"}]
  /\ info \in [Hosts -> Triple]
  /\ packet \in [Hosts -> Triple]
  /\ ready \subseteq Hosts
  /\ wire \subseteq Triple
  /\ spans \in Seq(D!Identity) /\ Len(spans) <= MaxSpans
  /\ roots \subseteq DOMAIN spans

Init ==
  /\ at = [h \in Hosts |-> "idle"]
  /\ info = [h \in Hosts |-> Junk]
  /\ packet = [h \in Hosts |-> Junk]
  /\ ready = {}
  /\ wire = {}
  /\ spans = << >> /\ roots = {}

-------------------------------------------------------------------------------
\* A call with NULL returns -EINVAL and changes nothing; it is no step here.
Pack(h) == /\ info' = [info EXCEPT ![h] = FromPacket(h, packet[h])]
           /\ UNCHANGED packet

Unpack(h) == /\ packet' = [packet EXCEPT ![h] = ToPacket(h, info[h])]
             /\ UNCHANGED info

Goto(h, from, to) == at[h] = from /\ at' = [at EXCEPT ![h] = to]

\* A span is started and its identity copied into info.
Start(h, id) == /\ at[h] = "idle"
                /\ Len(spans) < MaxSpans
                /\ spans' = Append(spans, id)
                /\ info' = [info EXCEPT ![h] = id]
                /\ ready' = ready \cup {h}
                /\ UNCHANGED <<at, packet, wire>>

NewTrace(h) == \E tid, sid \in Ids : /\ Start(h, D!Root(tid, sid))
                                     /\ roots' = roots \cup {Len(spans) + 1}

NewChild(h) == /\ h \in ready
               /\ \E sid \in Ids : Start(h, D!ChildOf(info[h], sid))
               /\ UNCHANGED roots

\* The packet is made of info.
Fill(h) == /\ h \in ready
           /\ Goto(h, "idle", "filled")
           /\ IF Exchanged THEN Unpack(h) ELSE Pack(h)
           /\ UNCHANGED <<ready, wire, spans, roots>>

Send(h) == /\ Goto(h, "filled", "idle")
           /\ wire' = wire \cup {packet[h]}
           /\ UNCHANGED <<info, packet, ready, spans, roots>>

\* Any packet ever sent may come, to any host and any number of times.
Receive(h) == /\ Goto(h, "idle", "received")
              /\ \E p \in wire : packet' = [packet EXCEPT ![h] = p]
              /\ UNCHANGED <<info, ready, wire, spans, roots>>

\* info is made of the packet.
Read(h) == /\ Goto(h, "received", "idle")
           /\ IF Exchanged THEN Pack(h) ELSE Unpack(h)
           /\ ready' = ready \cup {h}
           /\ UNCHANGED <<wire, spans, roots>>

Next == \E h \in Hosts : \/ NewTrace(h) \/ NewChild(h) \/ Fill(h) \/ Send(h)
                         \/ Receive(h) \/ Read(h)

Spec == Init /\ [][Next]_vars

-------------------------------------------------------------------------------
Started(id) == \E i \in DOMAIN spans : spans[i] = id

\* A host that goes on from info goes on from a span some host has started:
\* conversions of different byte order and lost, repeated and late packets
\* never make up an identity.
IdentitiesTravel == \A h \in ready : Started(info[h])

\* Whatever the host it comes from, a packet holds the bytes of the identity of
\* a span, the most significant one first.
WireInNetworkOrder == \A p \in wire : Started(p)

\* The spans of all hosts together are the trees Dapper promises.
ImplementsDapper == D!Spec

\* zipkin_c.h of _blkin_pack_trace_info: "Convert a blkin_trace_info to the
\* packed version", pinfo being "the provided packed version to be initialized".
PackInitialisesPacket ==
  [][\A h \in Hosts : at[h] = "idle" /\ at'[h] = "filled" =>
        packet'[h] = info[h] /\ info'[h] = info[h]]_vars

-------------------------------------------------------------------------------
\* The inductive invariant: packets about to be sent or read are as those sent.
RemoteInv ==
  /\ TypeOK
  /\ IdentitiesTravel
  /\ WireInNetworkOrder
  /\ \A h \in Hosts : at[h] # "idle" => Started(packet[h])
===============================================================================
