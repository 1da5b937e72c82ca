------------------------------ MODULE BlkinFront ------------------------------
(***************************************************************************)
(* blkin_init() of src/src/blkin-front.c, called any number of times by    *)
(* the threads of one process.  A call opens /dev/urandom and never closes *)
(* it, seeds the process-wide generator of rand(), and then, under         *)
(* blkin_init_mutex, loads libzipkin-c.so and resolves its eleven entry    *)
(* points into the global function pointers unless that was already done.  *)
(*                                                                         *)
(* The dynamic linker is external: a library once loaded under its name is *)
(* found again without touching the file system, otherwise loading it      *)
(* needs a free descriptor and an installed file.                          *)
(***************************************************************************)
EXTENDS Integers

CONSTANTS Threads,     \* the threads that call blkin_init
          NSymbols,    \* entry points looked up by resolve_symbols
          Libraries,   \* builds of libzipkin-c.so that may be installed
          Exports,     \* Exports[l]: the entry points build l exports
          Garbage,     \* what an uninitialised int may hold
          MaxCalls,    \* bound on the calls of one thread
          MaxFds,      \* descriptors the process may hold open
          None         \* no library, no owner

ENOENT == 2
ENXIO == 6
Symbols == 1 .. NSymbols

ASSUME FrontAssumption ==
  /\ NSymbols \in Nat \ {0}
  /\ Exports \in [Libraries -> SUBSET Symbols]
  /\ Garbage \subseteq Int
  /\ Garbage # {}
  /\ MaxCalls \in Nat
  /\ MaxFds \in Nat
  /\ None \notin Threads
  /\ None \notin Libraries

VARIABLES pc,           \* pc[t]: the statement thread t executes next
          ret,          \* ret[t]: the local ret, then what the caller got
          seed,         \* seed[t]: what the local seed holds
          sym,          \* sym[t]: the entry point thread t looks up next
          calls,        \* calls[t]: calls of blkin_init by t so far
          mutex,        \* the owner of blkin_init_mutex
          initialized,  \* the static flag
          ptr,          \* ptr[s]: function pointer s is not NULL
          loaded,       \* the build the dynamic linker has loaded
          installed,    \* the build on the library path
          fds,          \* descriptors of /dev/urandom open and forgotten
          rng           \* what the generator of rand() was last seeded with

vars == <<pc, ret, seed, sym, calls, mutex, initialized, ptr, loaded,
          installed, fds, rng>>
threadVars == <<pc, ret, seed, sym, calls>>
frontVars == <<mutex, initialized, ptr, loaded>>
systemVars == <<installed, fds, rng>>

Resolving == {"dlopen", "dlsym"}
Critical == Resolving \cup {"unlock"}
Steps == {"app", "open", "srand", "lock"} \cup Critical

TypeOK ==
  /\ pc \in [Threads -> Steps]
  /\ ret \in [Threads -> Int]
  /\ seed \in [Threads -> {"garbage", "entropy"}]
  /\ sym \in [Threads -> 1 .. NSymbols + 1]
  /\ calls \in [Threads -> 0 .. MaxCalls]
  /\ mutex \in Threads \cup {None}
  /\ initialized \in BOOLEAN
  /\ ptr \in [Symbols -> BOOLEAN]
  /\ loaded \in Libraries \cup {None}
  /\ installed \in Libraries \cup {None}
  /\ fds \in 0 .. MaxFds
  /\ rng \in {"default", "garbage", "entropy"}

Init ==
  /\ pc = [t \in Threads |-> "app"]
  /\ ret = [t \in Threads |-> 0]
  /\ seed = [t \in Threads |-> "garbage"]
  /\ sym = [t \in Threads |-> 1]
  /\ calls = [t \in Threads |-> 0]
  /\ mutex = None
  /\ initialized = FALSE
  /\ ptr = [s \in Symbols |-> FALSE]
  /\ loaded = None
  /\ installed \in Libraries \cup {None}
  /\ fds = 0
  /\ rng = "default"

Goto(t, step) == pc' = [pc EXCEPT ![t] = step]

-------------------------------------------------------------------------------
\* Entering blkin_init: neither seed nor ret has an initial value.
Call(t) ==
  /\ pc[t] = "app"
  /\ calls[t] < MaxCalls
  /\ Goto(t, "open")
  /\ calls' = [calls EXCEPT ![t] = @ + 1]
  /\ \E g \in Garbage : ret' = [ret EXCEPT ![t] = g]
  /\ seed' = [seed EXCEPT ![t] = "garbage"]
  /\ UNCHANGED <<sym, frontVars, systemVars>>

\* Mutant: the read into seed is forgotten.
OpenUrandomUnread(t) ==
  /\ pc[t] = "open"
  /\ fds < MaxFds
  /\ Goto(t, "srand")
  /\ fds' = fds + 1
  /\ UNCHANGED <<ret, seed, sym, calls, frontVars, installed, rng>>

\* open("/dev/urandom") and the read into seed.
OpenUrandom(t) ==
  /\ pc[t] = "open"
  /\ fds < MaxFds
  /\ Goto(t, "srand")
  /\ fds' = fds + 1
  /\ seed' = [seed EXCEPT ![t] = "entropy"]
  /\ UNCHANGED <<ret, sym, calls, frontVars, installed, rng>>

\* No descriptor left: open gives -1, read fails, nobody looks.
OpenFails(t) ==
  /\ pc[t] = "open"
  /\ fds >= MaxFds
  /\ Goto(t, "srand")
  /\ UNCHANGED <<ret, seed, sym, calls, frontVars, systemVars>>

\* srand(seed), outside the mutex and on every call.
Srand(t) ==
  /\ pc[t] = "srand"
  /\ Goto(t, "lock")
  /\ rng' = seed[t]
  /\ UNCHANGED <<ret, seed, sym, calls, frontVars, installed, fds>>

\* Mutant: initialized is tested and the symbols resolved without the lock.
LockUnguarded(t) ==
  /\ pc[t] = "lock"
  /\ mutex' = t
  /\ Goto(t, IF initialized THEN "unlock" ELSE "dlopen")
  /\ UNCHANGED <<ret, seed, sym, calls, initialized, ptr, loaded, systemVars>>

\* pthread_mutex_lock and the test of initialized it protects.
Lock(t) ==
  /\ pc[t] = "lock"
  /\ mutex = None
  /\ mutex' = t
  /\ Goto(t, IF initialized THEN "unlock" ELSE "dlopen")
  /\ UNCHANGED <<ret, seed, sym, calls, initialized, ptr, loaded, systemVars>>

\* The build a dlopen of libzipkin-c.so yields now, None when it fails.
Handle == IF loaded # None THEN loaded
          ELSE IF fds < MaxFds THEN installed ELSE None

\* Mutant: the flag is set before the entry points are resolved.
DlopenMarks(t) ==
  /\ pc[t] = "dlopen"
  /\ Handle # None
  /\ loaded' = Handle
  /\ initialized' = TRUE
  /\ sym' = [sym EXCEPT ![t] = 1]
  /\ Goto(t, "dlsym")
  /\ UNCHANGED <<ret, seed, calls, mutex, ptr, systemVars>>

Dlopen(t) ==
  /\ pc[t] = "dlopen"
  /\ Handle # None
  /\ loaded' = Handle
  /\ sym' = [sym EXCEPT ![t] = 1]
  /\ Goto(t, "dlsym")
  /\ UNCHANGED <<ret, seed, calls, mutex, initialized, ptr, systemVars>>

DlopenFails(t) ==
  /\ pc[t] = "dlopen"
  /\ Handle = None
  /\ ret' = [ret EXCEPT ![t] = -ENOENT]
  /\ Goto(t, "unlock")
  /\ UNCHANGED <<seed, sym, calls, frontVars, systemVars>>

\* One lookup: the pointer is assigned, then dlerror is consulted.
Dlsym(t) ==
  /\ pc[t] = "dlsym"
  /\ sym[t] \in Exports[loaded]
  /\ ptr' = [ptr EXCEPT ![sym[t]] = TRUE]
  /\ sym' = [sym EXCEPT ![t] = @ + 1]
  /\ UNCHANGED <<pc, ret, seed, calls, mutex, initialized, loaded, systemVars>>

\* Mutant: a failed lookup leaves ret as it was.
DlsymFailsSilently(t) ==
  /\ pc[t] = "dlsym"
  /\ sym[t] \in Symbols \ Exports[loaded]
  /\ ptr' = [ptr EXCEPT ![sym[t]] = FALSE]
  /\ Goto(t, "unlock")
  /\ UNCHANGED <<ret, seed, sym, calls, mutex, initialized, loaded, systemVars>>

\* Mutant: a failed lookup returns to the caller without unlocking.
DlsymFailsLocked(t) ==
  /\ pc[t] = "dlsym"
  /\ sym[t] \in Symbols \ Exports[loaded]
  /\ ptr' = [ptr EXCEPT ![sym[t]] = FALSE]
  /\ ret' = [ret EXCEPT ![t] = -ENXIO]
  /\ Goto(t, "app")
  /\ UNCHANGED <<seed, sym, calls, mutex, initialized, loaded, systemVars>>

DlsymFails(t) ==
  /\ pc[t] = "dlsym"
  /\ sym[t] \in Symbols \ Exports[loaded]
  /\ ptr' = [ptr EXCEPT ![sym[t]] = FALSE]
  /\ ret' = [ret EXCEPT ![t] = -ENXIO]
  /\ Goto(t, "unlock")
  /\ UNCHANGED <<seed, sym, calls, mutex, initialized, loaded, systemVars>>

\* resolve_symbols returns 0 and the caller sets initialized.
Resolved(t) ==
  /\ pc[t] = "dlsym"
  /\ sym[t] > NSymbols
  /\ ret' = [ret EXCEPT ![t] = 0]
  /\ initialized' = TRUE
  /\ Goto(t, "unlock")
  /\ UNCHANGED <<seed, sym, calls, mutex, ptr, loaded, systemVars>>

\* Mutant: every call reports success.
UnlockReturnsOk(t) ==
  /\ pc[t] = "unlock"
  /\ mutex' = None
  /\ ret' = [ret EXCEPT ![t] = 0]
  /\ Goto(t, "app")
  /\ UNCHANGED <<seed, sym, calls, initialized, ptr, loaded, systemVars>>

\* pthread_mutex_unlock and return ret.
Unlock(t) ==
  /\ pc[t] = "unlock"
  /\ mutex' = None
  /\ Goto(t, "app")
  /\ UNCHANGED <<ret, seed, sym, calls, initialized, ptr, loaded, systemVars>>

\* Someone installs, replaces or removes libzipkin-c.so.
Install(l) ==
  /\ installed # l
  /\ installed' = l
  /\ UNCHANGED <<threadVars, frontVars, fds, rng>>

Step(t) == \/ OpenUrandom(t) \/ OpenFails(t) \/ Srand(t) \/ Lock(t)
           \/ Dlopen(t) \/ DlopenFails(t)
           \/ Dlsym(t) \/ DlsymFails(t) \/ Resolved(t)
           \/ Unlock(t)

Next == \/ \E t \in Threads : Call(t) \/ Step(t)
        \/ \E l \in Libraries \cup {None} : Install(l)

SafeSpec == Init /\ [][Next]_vars

\* A thread inside blkin_init is scheduled until it returns; nothing obliges
\* a thread to call again or anyone to install a library.  Calls are finite,
\* so the mutex is not taken from a waiting thread for ever.
Fairness == \A t \in Threads : WF_vars(Step(t))

Spec == SafeSpec /\ Fairness

-------------------------------------------------------------------------------
\* Thread t holds the answer of a finished call, and it is not negative.
ToldOk(t) == pc[t] = "app" /\ calls[t] > 0 /\ ret[t] >= 0

AllResolved == \A s \in Symbols : ptr[s]

\* A caller that got a non-negative answer may go through any of the eleven
\* pointers, although that answer may be the indeterminate ret of a call that
\* found the work done, and although a failed call leaves pointers half set.
SuccessMeansUsable == (\E t \in Threads : ToldOk(t)) => AllResolved

\* The pointers are read without a lock.  Once some caller has been told it
\* may read them, no other thread is inside resolve_symbols, which assigns
\* them again.
NoWriteUnderUse ==
  \A t, u \in Threads : ToldOk(t) => pc[u] \notin Resolving

\* Whoever saw blkin_init return runs with a generator that was seeded, and
\* with real entropy as long as the leaked descriptors have not run out.
SeedProvenance ==
  /\ \A t \in Threads : calls[t] > 0 /\ pc[t] = "app" => rng # "default"
  /\ rng = "garbage" => fds = MaxFds

\* Every call of blkin_init returns, whatever the linker answers.
CallReturns == \A t \in Threads : pc[t] # "app" ~> pc[t] = "app"

\* What holds a call up is the mutex at most, and then somebody else has it who
\* is not held up himself.
HeldUp(t) == pc[t] = "lock" /\ mutex # None

HeldUpByTheBusy ==
  \A t \in Threads : HeldUp(t) => /\ mutex \in Threads \ {t}
                                  /\ pc[mutex] \in Critical /\ ~HeldUp(mutex)

\* How many steps are left of the call of t, at most.
StepsLeft(t) ==
  CASE pc[t] = "open" -> NSymbols + 6 [] pc[t] = "srand" -> NSymbols + 5
    [] pc[t] = "lock" -> NSymbols + 4 [] pc[t] = "dlopen" -> NSymbols + 3
    [] pc[t] = "dlsym" -> NSymbols + 3 - sym[t]
    [] pc[t] = "unlock" -> 1 [] OTHER -> 0

\* Every step of a call brings it nearer to its return, and no other thread and
\* no installation takes it back.
EveryStepCounts ==
  [][\A t \in Threads : /\ Step(t) => StepsLeft(t)' < StepsLeft(t)
                        /\ Call(t) \/ StepsLeft(t)' <= StepsLeft(t)]_vars

\* The front end implements the contract of OnceInit.
Client(t) == IF pc[t] # "app" THEN "inside"
             ELSE IF calls[t] = 0 THEN "idle"
             ELSE IF ret[t] >= 0 THEN "ok" ELSE "failed"

Once == INSTANCE OnceInit WITH usable <- initialized /\ AllResolved,
                               client <- [t \in Threads |-> Client(t)]

ImplementsOnceInit == Once!Spec

\* testc.c, test.cc and test_p.cc read a negative answer as "Could not
\* initialize blkin" and give up: a call about to return one, the mutex still
\* held, would have to leave the front end uninitialised.
NegativeMeansFailed ==
  \A t \in Threads : pc[t] = "unlock" /\ ret[t] < 0 => ~initialized

-------------------------------------------------------------------------------
\* The inductive invariant behind the safety properties.

MutexGuardsCritical == \A t \in Threads : pc[t] \in Critical <=> mutex = t

ResolvingBeforeInit == \A t \in Threads : pc[t] \in Resolving => ~initialized

PrefixResolved ==
  \A t \in Threads : pc[t] = "dlsym" =>
     loaded # None /\ \A s \in Symbols : s < sym[t] => ptr[s]

InitializedIsComplete == initialized => AllResolved

OkMeansInitialized ==
  \A t \in Threads :
     (pc[t] = "unlock" \/ ToldOk(t)) /\ ret[t] >= 0 => initialized

SeededPast == \A t \in Threads :
  \/ pc[t] \in {"lock"} \cup Critical
  \/ pc[t] = "app" /\ calls[t] > 0
  => rng # "default"

GarbageMeansExhausted ==
  /\ rng = "garbage" => fds = MaxFds
  /\ \A t \in Threads : pc[t] = "srand" /\ seed[t] = "garbage" => fds = MaxFds

CallCounted == \A t \in Threads : pc[t] # "app" => calls[t] > 0

\* Why the front end is safe, whatever the interleaving and the library: the
\* mutex covers every write of the pointers, writes happen only before the
\* flag is set, and the flag is set only when every lookup went through.
FrontInv ==
  /\ TypeOK
  /\ MutexGuardsCritical
  /\ ResolvingBeforeInit
  /\ PrefixResolved
  /\ InitializedIsComplete
  /\ OkMeansInitialized
  /\ SeededPast
  /\ GarbageMeansExhausted
  /\ CallCounted
===============================================================================
