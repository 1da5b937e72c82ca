# blkin: models, checks and proofs

blkin traces applications with LTTng in the manner of Google's Dapper: a
program calls a small C library that emits one LTTng event per annotation, and
a Babeltrace plugin later sends the events of all processes to Zipkin. This
directory holds TLA+ models of its parts, the TLC configurations that check
them on small instances, and TLAPS proofs for all instances. `PROJECT.json`
gives, for every definition, the source lines it stands for.

## 1. The system

| part | source | state | operations | what is hard about it |
|---|---|---|---|---|
| front end | `src/blkin-front.c` | mutex, `initialized`, eleven global function pointers, the PRNG seed | `blkin_init` | threads race; the library may be missing or incomplete; a call that finds the work done returns an uninitialised `ret`; every call leaks a descriptor and reseeds `rand()` outside the mutex |
| library | `src/zipkin_c.c`, `zipkin_c.h` | none of its own: structs of the caller (endpoint, trace, annotation, trace info), `rand()` | init, record, get/set info, pack/unpack | long call sequences over shared structs; return codes ignored by every caller; struct fields that alias; NULL fields completed on the way; identifiers drawn at random by threads and forked processes; hosts of different byte order |
| C++ wrapper | `src/ztracer.hpp`, `ztracer.cc` | objects with C strings, shared endpoints | constructors, destructors, `event`, `keyval`, info | who frees the strings the C structs point to; copies the compiler writes; constructors that cannot report an error |
| tracepoint provider | `src/zipkin_trace.h`, `tp.c` | LTTng's buffers (external) | two events | order of arguments, widths (`long`) |
| test programs | `src/tests/testc.c`, `test.cc`, `test_p.cc` | two peers, a UNIX socket, a message struct | ten rounds of request and acknowledgement | connect races with listen; `send` and `recv` go unchecked; a peer may die |
| zipkin plugin | `babeltrace-plugins/zipkin` | position in the trace, connection | event loop, conversion | any exception ends the run; values the producer emits but the consumer cannot take; answers ignored |
| json plugin | `babeltrace-plugins/json` | the same | the same | takes no event but the library's timestamp event |
| Scribe client | `babeltrace-plugins/scribe_client` | connection | open, log, close | no timeout, no retry |
| generated types, packaging | `ttypes.py`, `configure.ac`, `debian/` ... | | | not modelled |

A process calls `blkin_init` once per thread that cares, then calls the library
through the pointers, directly or through the C++ wrapper. The library writes
events into LTTng. Identities travel to other processes inside messages
(`blkin_trace_info`, or its packed form between machines), where they become
parents of new spans. Afterwards, offline, a plugin reads the trace and talks to
Scribe.

What makes each part correct:

- front end: whoever is told success may call any entry point, for ever, and no
  one changes the pointers under him; every call returns;
- library: spans form trees with one root each, every event names a span that was
  started and carries no NULL, a call that fails does no harm, identifiers do not
  repeat for reasons of scheduling and keep all their bits, an identity survives
  the way to another machine;
- wrapper: an event is made of memory that is still allocated, nothing is freed
  twice, nothing leaks;
- test programs: the span of the child lies inside the span of its parent in the
  common log; nobody hangs;
- plugins: nothing is lost or repeated silently within a run, order is kept, runs end;
- all together: what Scribe shows is the tree of spans that was executed.

## 2. Modules

| module | what it is |
|---|---|
| `OnceInit` | abstract: one-time initialisation as its clients see it |
| `BlkinFront` | `blkin_init`, statement by statement, per thread; the dynamic linker, descriptors and who installs the library are external |
| `BlkinFrontProofs` | invariant, safety properties, `BlkinFront` implements `OnceInit`, a call has finitely many steps |
| `Dapper` | abstract: traces, spans, parents and annotations |
| `DapperProofs` | spans form a forest; one root per trace |
| `ZipkinC` | the library: one action per function, plus the failing and the crashing outcome of `_blkin_record` |
| `ZipkinCProofs` | invariant, event and identity properties, `ZipkinC` implements `Dapper`, and what it inherits; who keeps clear of the NULL endpoint |
| `RandomBig` | where identifiers come from: `random_big`, `rand()`, seeding, fork |
| `RandomBigProofs` | identifiers rest on random numbers of their own; what the log tells of them |
| `WireInfo` | the packed identity: bytes, byte orders, pack and unpack as operators |
| `Remote` | hosts of both byte orders over a network that loses, repeats and reorders, with `WireInfo` |
| `RemoteProofs` | round trip of pack and unpack; identities travel; `Remote` implements `Dapper` and inherits its trees |
| `ZTracer` | the C++ objects: constructors, destructors, shared ownership, implicit copies |
| `ZTracerProofs` | who frees what; `ZTracer` implements `Dapper` and inherits its trees; which programs are safe |
| `TestC` | the two peers of the test programs; library calls are the steps `ZipkinC` is shown to implement |
| `Delivery` | abstract: what a run of a consumer hands to Scribe, place by place |
| `Babeltrace` | both plugins, the Scribe client, an unreliable Scribe server |
| `BabeltraceProofs` | invariant and safety properties of the plugins, `Babeltrace` implements `Delivery`, a run has finitely many steps |
| `Pipeline` | composition: `TestC`, the tracepoint provider, `Babeltrace` on the trace that results |
| `PipelineProofs` | of `TestC`: spans nest, one wrong span per crash, nobody waits in vain, finitely many steps; of `Pipeline`: all that is said of what Scribe is shown, by way of `BabeltraceProofs` |
| `MC...` | instances for TLC |

`Dapper` is what `ZipkinC`, `Remote` and `ZTracer` are all shown to implement, each
with its own reading of what a span and an event is; `TestC` and `Pipeline` use
tracing through it. `Babeltrace` is shown to implement `Delivery`.

Operators whose comment begins with "Mutant" are deliberate errors. Nothing uses
them; each shows, put in place of the definition it alters, that a property
would notice such an error.

### BlkinFront

`pc[t]` is the statement thread `t` executes next. `OpenUrandom`/`OpenFails`,
`Srand`, `Lock`, `Dlopen`/`DlopenFails`, one `Dlsym`/`DlsymFails` per entry
point, `Resolved` and `Unlock` follow the code; `Call` enters, with `ret` and
`seed` holding anything. `Install` replaces or removes the library between any
two steps. `ptr[s]` says whether pointer `s` is set: `dlsym` assigns the pointer
before `dlerror` is looked at, so a failed lookup stores NULL. A library that was
once loaded is found again by name whatever happened to the file, since nothing
closes it. Opening a file fails only for lack of descriptors: `/dev/urandom`
exists and a read of it gives four bytes.

### ZipkinC

Pointers are names of structs or `Null`; structs start zeroed. The caller
obeys one rule, that it uses an identity only after some call stored one
(`ready`); it ignores return codes. A NULL argument leads to `-EINVAL` in the
code's order of checks. `Complete` is the part of `_blkin_record` that happens
before the texts are checked, so a refused call has it as well.
`ChildIdentity` follows the order of the assignments, which matters when the
parent is the child itself: the child then reads the identifier it has just
overwritten and becomes its own parent. Nothing forbids such a call and no caller in
the repository makes one. The model allows it and keeps its span in `inPlace`, so
that `ImplementsDapper` can ask a step of `Dapper` of all other calls and
`SpansFormForest` can say that the parent links have no other cycle. `RecordCrashes` is the
dereference of a NULL endpoint, when neither annotation nor trace has one
(`zipkin_c.c:176`); the process stops there. `spans` and `roots` are history
variables too: the identities made up so far. Random draws are free choices in
`Ids`, 0 included.

Ports are left out; `random_big` is in `RandomBig`, pack and unpack in
`WireInfo`. In `zipkin_c.h:211-231` the descriptions of `_blkin_get_trace_info` and
`_blkin_set_trace_info` are exchanged, and all functions are said to return 1 on
success where they return 0; the model has what the code does. The macros
`BLKIN_TIMESTAMP` and `BLKIN_KEYVAL` are two calls in a
row, with a struct on the stack.

### RandomBig

A generator is a seed and a place in the sequence `Out` of that seed; nothing
else is known of it. `BeginDraw` and `EndDraw` are the two calls of `rand()` in
`random_big`, between which other threads draw, `blkin_init` seeds the generator
(`Srand`, or `SrandBlind` when the seed could not be read), and the process is
forked (`Fork`), which copies the generator. A seed read from `/dev/urandom` is
taken to be fresh. `RandomBig` is the arithmetic (`<< 32` as a multiplication with
`Base`, the sum, and `!a` of a negative value, which is 0); `Logged` is the `long`
of the event, of 2^64 values or, on a machine whose `long` has 32 bits
(`debian/control` says "Architecture: any"), of 2^32: `Longs` has both. A `long` of
the width of one half keeps the second call of `rand()` only (`Held`), which is
what `LogTellsWhatFits` says, and which refutes `IdentifiersTellApart`. The models
of events (`ZipkinC`, `TestC`, `Pipeline`, `ZTracer`) take the wide `long`: there an
event carries the identity it was given.

### WireInfo and Remote

An integer is the sequence of its bytes. `Bytes` and `Load` say how a host keeps
it in memory, `Be64` is `__cpu_to_be64` and its inverse. In the code
`_blkin_pack_trace_info` has the body one expects of `_blkin_unpack_trace_info`,
and the other way round; `Pack` and `Unpack` are the code's. A program that
trusts the documentation is `Exchanged = FALSE` and loses its identity at the
first call, which run `remote_pack` shows. `Exchanged = TRUE` is a program that
knows; everything else is checked and proved for it. Packets are never removed
from `wire`, so the network may deliver any of them to anybody, any number of
times, or never.

### ZTracer

`state` is the life of an object, `texts` that of the strings its constructor
allocated, `own[o]` the object whose strings `o`'s pointers lead to: a copy
written by the compiler copies pointers, so `own` then leads elsewhere. `held` are
the endpoints the program has a `shared_ptr` to, `ep` the share of a trace.
`Destroy` runs destructors, including that of an endpoint whose last owner goes
(`Unshared`). The library's calls are the steps of `Dapper`; their return codes
are ignored, so that a NULL where the constructor of a child expects an
identity leaves the struct as `new` found it (`ChildTraceFromNull`, `wild`,
`Garbage`), children of it inherit that, and events of it are `strays`.
Reading freed memory or freeing twice is undefined; the model goes on and
remembers it, in the `intact` of an event and in `culprits`. `tainted` are the
objects that took part in a copy or hold such an identity; the properties say
that nothing else is ever affected.

### TestC

A listens, accepts, and per round starts a root, sends its identity, waits and
ends; B connects and per round receives, starts a child, ends and replies. What
the sockets do when the peer has gone is modelled as POSIX defines it: `recv`
returns 0 and the code goes on, `send` raises SIGPIPE, which neither program
handles, so the process dies. A message of the test programs is small and is sent
and read whole. With `oneProcess` the two are threads that `main` starts after
listening (`test.cc`), and whatever ends one ends both. `Kill` strikes a
process at any point. With `MayFail`, `socket`, `bind`, `listen`, `accept` and
`connect` may fail whatever the other peer does, and the caller exits. A `recv` that
receives nothing leaves the message alone: `testc.c` goes on with the last one, while
`test.cc` and `test_p.cc` have a fresh struct per round, so the model takes the last
message or any `Garbage`. Before the first message the
struct is garbage in all of them. The common log orders events as LTTng's clock does.

### Babeltrace

An event is provider, kind, the groups of fields it has, address, port,
identifiers, names and time: what the plugins decide by, fail on or pass on.
Whatever raises in Python ends the run (`Reject`, `SendFails`, `AnswerLost`,
`OpenFails`). The json plugin takes no filter, so an event of any other provider
or a key-value annotation ends its run, although the documents promise it for any
LTTng trace (`src/README.md:28-31`, `debian/control:38`); nor does the zipkin plugin
drop what does not follow the format. `NoEventEndsARun` states both and is refuted;
`NothingBehindABadEvent` says what happens instead. Scribe may accept a message, answer
TRY_LATER, or the connection may break, before or after the message was stored.
`Again` is the operator running the plugin again on the same trace. That events
come sorted by time is Babeltrace's promise.

`Delivery` knows a feed of messages, of places with nothing for Scribe, and of
barriers nobody gets past. Under the refinement mapping an event of another
provider is nothing, one that cannot be converted is a barrier, and the run has gone
past a message when Scribe decides on it, which is before the plugin reads the
answer and moves on: a connection that breaks in between changes nothing for
`Delivery`, and a plugin that moves on without a decision has no step there.

### Pipeline

`Programs` are the steps of `TestC`; when both have come to rest, `Collect` makes a
trace of the log, event by event, with `Timestamp`, the field list of
`zipkin:timestamp`; then `Plugin` runs `Babeltrace` on it. Positions of the log
and of the trace agree, so that a message of Scribe's can be compared with what
was executed. The header kept with the plugin has `trace_name` and `service` the
other way round; it is the mutant `TimestampSwapped`.

## 3. Runs

| run | instance | shows |
|---|---|---|
| `front` | 2 threads, 2 calls each, 11 entry points, a full build and one without the two pack functions, 2 descriptors | nobody uses a half resolved library (`SuccessMeansUsable`), pointers are quiet once used (`NoWriteUnderUse`), entropy (`SeedProvenance`), every call returns (`CallReturns`), the contract (`ImplementsOnceInit`), and `FrontInv`, the invariant of the proof |
| `front_ret` | the same | refutes: a negative answer means the front end is not initialised |
| `zipkin` | programs that hand identities on: 2 traces, 1 info, 3 spans of one endpoint, 3 identifiers with 0, children in place of their parent among them; and programs that annotate one span: 1 annotation, 2 endpoints, NULL texts, 1 event | parent links have no cycle but one of length one (`SpansFormForest`), identities are never mixed (`IdentitiesSettled`), `OneRootPerTrace`, how a trace comes to be without endpoint (`OnlyNewTracesAreBare`), `EventsComplete`, `FailedCallsOnlyComplete`, and that spans and events are Dapper's (`ImplementsDapper`) |
| `random` | 2 processes of 2 threads, 3 seeds, a blind seed, 4 calls of `rand()`, longs of both widths | `IdentifiersIndependent`, `LogTellsWhatFits`, and the invariant `RandomInv` |
| `random_long32` | the same, a long of the width of one half | refutes: the log tells any two identifiers apart |
| `remote` | 3 hosts, 1 big-endian, integers of 2 bytes, 3 spans | `IdentitiesTravel`, `ImplementsDapper`, and the invariant `RemoteInv`, with packets in network order |
| `remote_pack` | the same, a program that trusts the documentation | refutes: `blkin_pack_trace_info` initialises the packed version |
| `ztracer` | 2 endpoints, 2 traces, 1 info, copies, 2 spans, 1 event | `EventsSound`, `FreedOnce`, `NothingLeaks`, `ImplementsDapper`, and the invariant `ZTracerInv` |
| `pipeline` | 2 rounds, both programs, kills, socket calls and `blkin_init` failing or not, every draw of two identifiers (but that the first trace has the identifier 0: which one it has is of no consequence), a clock of 600 ns per event, 1 message refused | in the log `SpansNest` and `OneWrongSpanPerCrash`; of the peers `CompletesListening` and `NobodyWaitsForTheDead`; in Scribe `ShownInParent`, `RootsShown`, `NamesShown`; `OnlyScribeStopsIt`; and the invariant `PipelineInv`, with `NobodyWaitsInVain` |
| `testc_hang` | 1 round, no kill, no failure but that of a `connect` nobody listens to | refutes: `testc.c` completes |
| `babeltrace` | every time-ordered trace of up to 3 out of 8 events, both plugins, 2 runs | `StoredInOrder`, `NothingBehindABadEvent`, `TimesAscend`, `RunEnds`, the contract (`ImplementsDelivery`), and the invariant `BabeltraceInv`, with `NothingSkipped` |
| `babeltrace_drop` | both plugins, an event of unknown kind, one of another provider | refutes: no event ends a run (the same with `Plugins = {"json"}` alone, by the foreign event) |

The refuted statements are quoted from the documentation, comments and tests, with
their lines, under "findings" in `PROJECT.json`.

Bounds. Two threads with two calls cover a call during, after and instead of
another one; two descriptors are fewer than the calls need, so both the failing
open and the failing dlopen occur. Three spans make a root, a child and a
grandchild, two roots in one trace, and every copy between two traces and an
info. One span and one annotation suffice for the event properties, which
relate one call to its structs; two endpoints let annotation and trace differ.
`MCNext` keeps the two kinds of programs apart, each of its steps a step of `Next`;
their product is out of TLC's reach, and the theorems of `ZipkinCProofs` need no
such split.
Four calls of `rand()` are two identifiers, drawn one after the other or at
once; three seeds are one more than there are processes, and the two seeds'
sequences share values. `Base`, `RandMax` and `Longs` are 2^32, 2^31 - 1 and
2^32 or 2^64 made small with their relations kept.
Three hosts are two of one byte order and one of the other; identifiers
include 0 and one that reads differently backwards. Two endpoints and two
traces are enough to share, copy and assign each. Two rounds are a first and a
last one, and a crash in the first leaves another round to spoil; with a clock
of 600 ns some neighbouring events fall into one microsecond and some do not. Three
events put an event before and behind a bad one. TLAPS removes these bounds for
the safety properties it proves.

Deadlock is checked for `BlkinFront` (installing never ends). The other systems
really stop: a crash, a program's end, a hang that is itself a finding, the
last run.

Fairness. A thread inside `blkin_init`, each peer of the tests and a plugin are
scheduled as long as they can take a step (`WF`). Nothing is assumed of
callers, installers, killers, Scribe or the operator: `RunEnds` has the
condition that no message stays unanswered for ever, since there is no timeout.
Weak fairness is enough for the mutex because calls are bounded, so no thread
can be overtaken for ever.

`GetTraceInfo` and `SetTraceInfo` return an uninitialised `res` when they succeed
(`zipkin_c.c:215`), which may look like `-EINVAL`. `FailedCallsOnlyComplete` is
about calls that failed, so it is checked with a `Garbage` that excludes this value.

## 4. Proofs

Every theorem holds for all values of the constants that satisfy the module's
named `ASSUME`, and what the theorem itself assumes.

- `FrontInvariant`: `FrontInv` is inductive. Its core is that a thread is inside
  the critical section exactly when it owns the mutex, that resolving happens only
  before `initialized` is set, and that a thread at entry point `n` has set all
  before `n`; hence `initialized` implies that all pointers are set, and a
  non-negative `ret` at the unlock implies `initialized`, although `ret` may be
  garbage: garbage survives to the unlock only when `initialized` was found set.
  `SuccessMeansUsable` alone is not inductive, since it says nothing about a call on
  its way out. `SuccessIsUsable`, `PointersAreQuiet`, `SeedIsTraced` follow.
- `FrontImplementsOnceInit`: setting the flag is `BecomeUsable`, unlocking is
  `Return`, `Call` is `Enter`, all else stutters.
- `CallsAreFinite`: a call takes at most `NSymbols + 6` steps, each of which the
  number `StepsLeft` counts down while other threads and installations leave it alone;
  and what holds a call up is the mutex, owned by somebody who is not held up. This
  is `CallReturns` but for the scheduler.
- `DapperInvariant`, `DapperTrees`: every span is a root or the child of an earlier one
  of its trace, and every trace has a root that started before its spans. With
  distinct, non-zero identifiers the root is the only span with parent 0.
- `ZipkinInvariant`: types, `IdentitiesSettled` and `EventsComplete` are inductive
  together. `ZipkinImplementsDapper` needs `IdentitiesSettled`: a child is made of
  what a struct holds, which is a started span only by that invariant. It covers
  every call but one that makes a child in place of its parent (a step that changes
  `inPlace`); `OrdinaryUseIsDapper` is the usual refinement for a program without
  such calls. A span that is its own parent is not one of `Dapper`, so the tree
  properties have an invariant of their own (`LinksInv`), from which
  `ZipkinTrees` and `ZipkinForest` follow for every program.
- `EndpointsStay` goes through the ways a call can treat a trace (`Treats`).
  `CarefulProgramsSurvive` uses the same split: a program that is never `Careless`
  keeps an endpoint in every trace it may record, so `RecordCrashes` has no step,
  whatever NULLs children and annotations are given. `FailedCallsDoNoHarm`
  follows the calls that return `-EINVAL` one by one; it assumes that the
  uninitialised `res` of a call that succeeds does not hold this value.
- `RandomInvariant`: a sequence whose seed was read is continued by one process
  that seeded it, from behind the places this process has used (`Ahead`); hence
  `UsedOnce`, and with `OneUse`, that a call serves one identifier,
  `IdentifiersAreIndependent`. `IdentifiersAreTold` is arithmetic, for both
  widths of a `long`: a sum of a multiple of `Base` and a number below it tells both,
  its remainder by `Base` the second one only. The random numbers being below `Base`
  comes from `RandomInv`, which says of each call where in which sequence it fell.
- `PackRoundTrip`: packing on one host and unpacking on another is the identity,
  whatever their byte orders and however many bytes there are. With it
  `RemoteInvariant`: what is in a packet, or in a struct that is ready, is the
  identity of a started span; `IdentitiesDoTravel`, `PacketsInNetworkOrder` and
  `RemoteImplementsDapper` follow; `RemoteTrees` carries over what `DapperTrees` says
  of all hosts' spans. All these assume `Exchanged`.
- `ZTracerInvariant`: pointers lead to another object's strings only between
  tainted objects (`OwnStrings`), hence the strings of the others live exactly as
  long as they do (`LiveStrings`); endpoints live as long as somebody has a share
  (`EndpointsLive`); identities are started spans or garbage of tainted traces
  (`IdentitiesStarted`). `EventsAreSound`, `NothingFreedTwice`, `NoLeaks` and
  `ZTracerImplementsDapper` follow, with or without `Copying`, and `ZTracerTrees`
  by way of `DapperTrees`. `CarefulProgramsAreSound` turns the exceptions round: what
  is tainted comes from a copy or a child made of NULL (`Reckless`) and from nothing
  else, so a program that does neither reads no freed string, frees none twice and
  leaves none behind, however it shares endpoints and in whatever order it drops.
- `PeersInvariant`: as long as both peers go on they take turns (`Lockstep`), so
  that whoever logs an event knows what the other one has logged, and no span is
  wrong; once one is frozen, the other finishes at most the span it works on and
  is stopped by SIGPIPE or by having finished (`Stopping`). `SpansDoNest` and
  `OneWrongSpan` follow for any number of rounds, the former unless somebody was
  killed or gave up. So does `NobodyHangs`: the two
  never wait for each other, and who is gone has closed its socket, so nobody waits
  for him. `StepsRunOut` bounds what they do by `8 * Rounds + 13` steps.
- `BabeltraceInvariant`: the loop moves on only after an answer, so what this run
  stored or had refused marks exactly the way it has come (`StoredSoFar`,
  `AnswerIsHandled`), and it has come over nothing it could not convert
  (`PrefixTaken`). `StoredOrder`, `NoGaps`, `BadEventCutsOff` and `TimeOrder` follow;
  the last needs that cutting digits off is monotonic. `NothingSkipped` speaks of
  the run that goes on and of every earlier one, as far as each stored something,
  which is what the pipeline builds on.
- `BabeltraceImplementsDelivery`: `AnswerIsHandled` gives the place the mapping
  needs, `PrefixTaken` that a message on its way is one `Delivery` may hand over; all
  steps but Scribe's decision, `Skip` and `Again` stutter. `RunsAreFinite` counts the
  steps of a run, three for an event and three more.
- `PipelineInvariant` joins the two. While the programs run, the plugin is in its
  initial state (`NotCollected`). The log is well formed (`LogSound`: A's events are
  of roots, B's of children, a span is started once) and no longer than
  `4 * Rounds` (`LogBounded`), so the trace made of it is one of `ProviderEvents`
  in the order of time, and collecting establishes the plugin's `Init`. From there
  `BabeltraceInv` is kept by the lemmas of `BabeltraceProofs`, instantiated, and
  position k of the trace stays event k of the log (`Collected`).
  `OnlyScribeStops` follows because every event of the provider satisfies `Takes`,
  so `Reject` has no step; `NamesAreShown` and `RootsAreShown` follow from
  `StoredInOrder`; `ShownInsideParent` combines that no span is wrong in the log,
  that an event before a stored one was stored or refused in the same run, and
  that microseconds do not go back. The peers' assumption is the one the code
  makes of its trace: every event later by `Tick` nanoseconds, a natural number,
  possibly 0. The result holds for any number of rounds and of runs of the plugin.

Model-checked only: liveness (`CallReturns`, `CompletesListening`,
`NobodyWaitsForTheDead`, `RunEnds`), which needs fairness and ENABLED and is beyond
the prover. Of each of them the part that does not depend on the scheduler is proved:
that what one waits for is not waiting itself (`CallsAreFinite`, `NobodyHangs`), and
that a number counts down every step while nobody raises it (`CallsAreFinite`,
`StepsRunOut`, `RunsAreFinite`). What run `remote_pack` shows of a program that trusts
the documented direction of pack and unpack stays with TLC as well: the theorems of
`Remote` exclude it. The five refuting runs are counterexamples, and need no proof.

## 5. Not modelled

LTTng, Babeltrace itself and Scribe are external. The thrift types are generated
and the thrift and base64 encodings have no state; what can fail in them (a port
that is not an I16, an address that `inet_aton` does not take) is in `Takes`. The
unused parts of the zipkin plugin (`json_formatter`, the batching that is commented
out) and of the wrapper (`ostr_to_cstr`) have no caller. Build files and
packaging have no behaviour at run time.
