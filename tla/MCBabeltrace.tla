----------------------------- MODULE MCBabeltrace -----------------------------
\* The instance of Babeltrace that TLC explores.  The events: what the library
\* emits for a root and for a child (a timestamp twice, a key and value), with
\* the address it puts in for NULL and with a port above 32767; an event of
\* another provider; one of a kind the plugin does not know; one at the very
\* beginning of time.
EXTENDS Babeltrace

Child == [provider |-> "zipkin", kind |-> "timestamp",
          fields |-> {"identity", "host", "event"}, ip |-> "dotted",
          port |-> 80, trace |-> 1, span |-> 0, parent |-> 1,
          trace_name |-> "t", service_name |-> "s", value |-> "v", ts |-> 1999]

KeyVal == [Child EXCEPT !.kind = "keyval",
                        !.fields = {"identity", "host", "keyval"}]

Foreign == [Child EXCEPT !.provider = "other", !.kind = "unknown", !.fields = {}]

MCEvents ==
  {Child, KeyVal,
   [Child EXCEPT !.parent = 0, !.ts = 2000],
   [Child EXCEPT !.ip = "NaN"],
   [Child EXCEPT !.port = 32768],
   Foreign,
   [Child EXCEPT !.kind = "unknown"],
   [Child EXCEPT !.ts = 999]}

\* For NoEventEndsARun: an event zipkin does not know, and one of another
\* provider, which json does not.
MCUnexpected == {Child, Foreign, [Child EXCEPT !.kind = "unknown"]}
===============================================================================
