------------------------------- MODULE WireInfo -------------------------------
(***************************************************************************)
(* The packed identity of src/src/zipkin_c.h, "useful when sending over    *)
(* network", and the two functions of zipkin_c.c that convert it.  An      *)
(* integer is its bytes, the most significant one first; what lies in      *)
(* memory, and so goes over the network, is the bytes in the order of      *)
(* their addresses, which depends on the host.                             *)
(***************************************************************************)
EXTENDS Naturals

CONSTANTS Hosts,  \* the machines
          Big,    \* those that store the most significant byte first
          Byte,   \* the values of a byte
          Width   \* bytes of an integer, 8 in the code

ASSUME WireAssumption == Width \in Nat

Number == [1 .. Width -> Byte]

Reversed(x) == [k \in 1 .. Width |-> x[Width + 1 - k]]

\* The bytes of integer x in the memory of h, and the integer of given bytes.
Bytes(h, x) == IF h \in Big THEN x ELSE Reversed(x)
Load(h, bytes) == IF h \in Big THEN bytes ELSE Reversed(bytes)

\* __cpu_to_be64 and __be64_to_cpu, from integer to integer.
Be64(h, x) == IF h \in Big THEN x ELSE Reversed(x)

\* Mutant: the integers are stored as they are.
ToPacketNative(h, id) ==
  [trace_id |-> Bytes(h, id.trace_id), span_id |-> Bytes(h, id.span_id),
   parent_span_id |-> Bytes(h, id.parent_span_id)]

\* The packed identity that _blkin_unpack_trace_info stores for identity id.
ToPacket(h, id) ==
  [trace_id |-> Bytes(h, Be64(h, id.trace_id)),
   span_id |-> Bytes(h, Be64(h, id.span_id)),
   parent_span_id |-> Bytes(h, Be64(h, id.parent_span_id))]

\* Mutant: the conversion is forgotten.
FromPacketNative(h, p) ==
  [trace_id |-> Load(h, p.trace_id), span_id |-> Load(h, p.span_id),
   parent_span_id |-> Load(h, p.parent_span_id)]

\* Mutant: the same field is read twice.
FromPacketTwice(h, p) ==
  [trace_id |-> Be64(h, Load(h, p.trace_id)),
   span_id |-> Be64(h, Load(h, p.parent_span_id)),
   parent_span_id |-> Be64(h, Load(h, p.parent_span_id))]

\* The identity that _blkin_pack_trace_info stores for the packed one p.
FromPacket(h, p) ==
  [trace_id |-> Be64(h, Load(h, p.trace_id)),
   span_id |-> Be64(h, Load(h, p.span_id)),
   parent_span_id |-> Be64(h, Load(h, p.parent_span_id))]
===============================================================================
