--------------------------- MODULE BlkinFrontProofs ---------------------------
(***************************************************************************)
(* Safety of blkin_init for every number of threads, entry points, calls   *)
(* and descriptors, every set of installable builds and every value of an  *)
(* uninitialised int: FrontInv is inductive, the safety properties follow  *)
(* from it, and every step is a step of OnceInit or leaves it unchanged.   *)
(***************************************************************************)
EXTENDS BlkinFront, TLAPS

USE DEF Symbols, Resolving, Critical, Steps

\* Every variable keeps its range.  PrefixResolved is what keeps sym in
\* range: a thread that looks entry points up has a build loaded, and a build
\* exports nothing but entry points.
LEMMA TypeStep == TypeOK /\ PrefixResolved /\ [Next]_vars => TypeOK'
<1> SUFFICES ASSUME TypeOK, PrefixResolved, [Next]_vars PROVE TypeOK'
  OBVIOUS
<1> USE FrontAssumption DEF TypeOK, Goto, threadVars, frontVars, systemVars
<1>1. ASSUME NEW t \in Threads, Call(t) PROVE TypeOK'
  BY <1>1 DEF Call
<1>2. ASSUME NEW t \in Threads, OpenUrandom(t) PROVE TypeOK'
  BY <1>2 DEF OpenUrandom
<1>3. ASSUME NEW t \in Threads, OpenFails(t) PROVE TypeOK'
  BY <1>3 DEF OpenFails
<1>4. ASSUME NEW t \in Threads, Srand(t) PROVE TypeOK'
  BY <1>4 DEF Srand
<1>5. ASSUME NEW t \in Threads, Lock(t) PROVE TypeOK'
  BY <1>5 DEF Lock
<1>6. ASSUME NEW t \in Threads, Dlopen(t) PROVE TypeOK'
  BY <1>6 DEF Dlopen, Handle
<1>7. ASSUME NEW t \in Threads, DlopenFails(t) PROVE TypeOK'
  BY <1>7 DEF DlopenFails, ENOENT
<1>8. ASSUME NEW t \in Threads, Dlsym(t) PROVE TypeOK'
  <2>1. sym[t] \in Symbols
    BY <1>8 DEF Dlsym, PrefixResolved
  <2> QED
    BY <1>8, <2>1 DEF Dlsym
<1>9. ASSUME NEW t \in Threads, DlsymFails(t) PROVE TypeOK'
  BY <1>9 DEF DlsymFails, ENXIO
<1>10. ASSUME NEW t \in Threads, Resolved(t) PROVE TypeOK'
  BY <1>10 DEF Resolved
<1>11. ASSUME NEW t \in Threads, Unlock(t) PROVE TypeOK'
  BY <1>11 DEF Unlock
<1>12. ASSUME NEW l \in Libraries \cup {None}, Install(l) PROVE TypeOK'
  BY <1>12 DEF Install
<1>13. CASE UNCHANGED vars
  BY <1>13 DEF vars
<1> HIDE DEF TypeOK, Goto
<1> QED
  BY <1>1, <1>2, <1>3, <1>4, <1>5, <1>6, <1>7, <1>8, <1>9, <1>10, <1>11,
     <1>12, <1>13 DEF Next, Step

\* No thread is inside blkin_init and nothing is resolved to begin with.
LEMMA InitFront == Init => FrontInv
<1> SUFFICES ASSUME Init PROVE FrontInv
  OBVIOUS
<1> USE FrontAssumption DEF Init
<1>1. TypeOK
  <2>1. 0 \in 0 .. MaxCalls /\ 0 \in 0 .. MaxFds /\ 1 \in 1 .. NSymbols + 1
    OBVIOUS
  <2>2. /\ pc \in [Threads -> Steps]
        /\ ret \in [Threads -> Int]
        /\ seed \in [Threads -> {"garbage", "entropy"}]
    OBVIOUS
  <2>3. /\ sym \in [Threads -> 1 .. NSymbols + 1]
        /\ calls \in [Threads -> 0 .. MaxCalls]
        /\ ptr \in [Symbols -> BOOLEAN]
    BY <2>1
  <2> QED
    BY <2>1, <2>2, <2>3 DEF TypeOK
<1>2. MutexGuardsCritical /\ ResolvingBeforeInit /\ PrefixResolved
  BY DEF MutexGuardsCritical, ResolvingBeforeInit, PrefixResolved
<1>3. InitializedIsComplete /\ OkMeansInitialized
  BY DEF InitializedIsComplete, OkMeansInitialized, ToldOk
<1>4. SeededPast /\ GarbageMeansExhausted /\ CallCounted
  BY DEF SeededPast, GarbageMeansExhausted, CallCounted
<1> QED
  BY <1>1, <1>2, <1>3, <1>4 DEF FrontInv

\* Every step keeps the rest of the invariant.
LEMMA FrontStep == FrontInv /\ [Next]_vars => FrontInv'
<1> SUFFICES ASSUME FrontInv, [Next]_vars PROVE FrontInv'
  OBVIOUS
<1> DEFINE Rest == /\ MutexGuardsCritical
                   /\ ResolvingBeforeInit
                   /\ PrefixResolved
                   /\ InitializedIsComplete
                   /\ OkMeansInitialized
                   /\ SeededPast
                   /\ GarbageMeansExhausted
                   /\ CallCounted
<1>t. TypeOK'
  BY TypeStep DEF FrontInv
<1> SUFFICES Rest'
  BY <1>t DEF FrontInv
<1> USE FrontAssumption
    DEF FrontInv, TypeOK, Goto, threadVars, frontVars, systemVars, AllResolved,
        MutexGuardsCritical, ResolvingBeforeInit, PrefixResolved,
        InitializedIsComplete, OkMeansInitialized, ToldOk, SeededPast,
        GarbageMeansExhausted, CallCounted
<1>1. ASSUME NEW t \in Threads, Call(t) PROVE Rest'
  BY <1>1 DEF Call
<1>2. ASSUME NEW t \in Threads, OpenUrandom(t) PROVE Rest'
  BY <1>2 DEF OpenUrandom
<1>3. ASSUME NEW t \in Threads, OpenFails(t) PROVE Rest'
  BY <1>3 DEF OpenFails
<1>4. ASSUME NEW t \in Threads, Srand(t) PROVE Rest'
  BY <1>4 DEF Srand
<1>5. ASSUME NEW t \in Threads, Lock(t) PROVE Rest'
  BY <1>5 DEF Lock
<1>6. ASSUME NEW t \in Threads, Dlopen(t) PROVE Rest'
  BY <1>6 DEF Dlopen, Handle
<1>7. ASSUME NEW t \in Threads, DlopenFails(t) PROVE Rest'
  BY <1>7 DEF DlopenFails, ENOENT
<1>8. ASSUME NEW t \in Threads, Dlsym(t) PROVE Rest'
  <2> USE <1>8 DEF Dlsym
  <2>1. /\ sym[t] \in Symbols
        /\ sym'[t] = sym[t] + 1
        /\ ptr' = [s \in Symbols |-> IF s = sym[t] THEN TRUE ELSE ptr[s]]
    OBVIOUS
  <2>2. mutex = t /\ \A u \in Threads : pc[u] = "dlsym" => u = t
    OBVIOUS
  <2>3. PrefixResolved'
    <3> SUFFICES ASSUME NEW u \in Threads, pc'[u] = "dlsym",
                        NEW s \in Symbols, s < sym'[u]
                 PROVE  loaded' # None /\ ptr'[s]
      OBVIOUS
    <3>1. u = t /\ s < sym[t] + 1
      BY <2>1, <2>2
    <3> QED
      BY <2>1, <3>1
  <2>4. ~initialized /\ ~initialized'
    OBVIOUS
  <2> QED
    BY <2>3, <2>4
<1>9. ASSUME NEW t \in Threads, DlsymFails(t) PROVE Rest'
  BY <1>9 DEF DlsymFails, ENXIO
<1>10. ASSUME NEW t \in Threads, Resolved(t) PROVE Rest'
  BY <1>10 DEF Resolved
<1>11. ASSUME NEW t \in Threads, Unlock(t) PROVE Rest'
  BY <1>11 DEF Unlock
<1>12. ASSUME NEW l \in Libraries \cup {None}, Install(l) PROVE Rest'
  BY <1>12 DEF Install
<1>13. CASE UNCHANGED vars
  BY <1>13 DEF vars
<1> QED
  BY <1>1, <1>2, <1>3, <1>4, <1>5, <1>6, <1>7, <1>8, <1>9, <1>10, <1>11,
     <1>12, <1>13 DEF Next, Step

\* FrontInv holds in every reachable state of any number of threads calling
\* blkin_init; it contains the type invariant and mutual exclusion.
THEOREM FrontInvariant == Spec => []FrontInv
<1>1. Init => FrontInv
  BY InitFront
<1>2. FrontInv /\ [Next]_vars => FrontInv'
  BY FrontStep
<1> QED
  BY <1>1, <1>2, PTL DEF Spec, SafeSpec

\* A caller told blkin_init succeeded finds all eleven pointers resolved.
THEOREM SuccessIsUsable == Spec => []SuccessMeansUsable
<1>1. FrontInv => SuccessMeansUsable
  BY DEF FrontInv, OkMeansInitialized, ToldOk, InitializedIsComplete,
         SuccessMeansUsable
<1> QED
  BY <1>1, FrontInvariant, PTL

\* While a caller may be reading the pointers, nobody is assigning them.
THEOREM PointersAreQuiet == Spec => []NoWriteUnderUse
<1>1. FrontInv => NoWriteUnderUse
  BY DEF FrontInv, OkMeansInitialized, ToldOk, ResolvingBeforeInit,
         NoWriteUnderUse
<1> QED
  BY <1>1, FrontInvariant, PTL

\* A returned call leaves the generator seeded, and it is seeded with stack
\* garbage only once the descriptors blkin_init leaks have run out.
THEOREM SeedIsTraced == Spec => []SeedProvenance
<1>1. FrontInv => SeedProvenance
  BY DEF FrontInv, SeededPast, GarbageMeansExhausted, SeedProvenance
<1> QED
  BY <1>1, FrontInvariant, PTL

-------------------------------------------------------------------------------
\* What is left of a call is a number.
LEMMA LeftType ==
  FrontInv => \A t \in Threads : StepsLeft(t) \in 0 .. NSymbols + 6
<1> SUFFICES ASSUME FrontInv, NEW t \in Threads
             PROVE  StepsLeft(t) \in 0 .. NSymbols + 6
  OBVIOUS
<1>1. NSymbols \in Nat /\ sym[t] \in 1 .. NSymbols + 1
  BY FrontAssumption DEF FrontInv, TypeOK
<1>2. QED
  BY <1>1 DEF StepsLeft

\* A step of t's call leaves less of it, a number, and as much of every other call.
LEMMA StepLessens ==
  ASSUME FrontInv, NEW t \in Threads, Step(t)
  PROVE  /\ StepsLeft(t)' < StepsLeft(t) /\ StepsLeft(t)' \in Int
         /\ \A u \in Threads \ {t} : StepsLeft(u)' = StepsLeft(u)
<1> USE DEF Goto
<1>1. TypeOK /\ NSymbols \in Nat /\ sym[t] \in 1 .. NSymbols + 1
  BY FrontAssumption DEF FrontInv, TypeOK
<1>2. \A u \in Threads \ {t} : pc'[u] = pc[u] /\ sym'[u] = sym[u]
  BY <1>1 DEF TypeOK, Step, OpenUrandom, OpenFails, Srand, Lock, Dlopen, DlopenFails,
     Dlsym, DlsymFails, Resolved, Unlock, frontVars
<1>3. \A u \in Threads \ {t} : StepsLeft(u)' = StepsLeft(u)
  BY <1>2 DEF StepsLeft
<1>4. CASE \/ OpenUrandom(t) \/ OpenFails(t) \/ Srand(t) \/ Lock(t)
           \/ Dlopen(t) \/ DlopenFails(t)
  <2>1. \/ pc[t] = "open" /\ pc'[t] = "srand"
        \/ pc[t] = "srand" /\ pc'[t] = "lock"
        \/ pc[t] = "lock" /\ pc'[t] \in {"dlopen", "unlock"}
        \/ pc[t] = "dlopen" /\ pc'[t] = "dlsym" /\ sym'[t] = 1
        \/ pc[t] = "dlopen" /\ pc'[t] = "unlock"
    BY <1>1, <1>4 DEF TypeOK, OpenUrandom, OpenFails, Srand, Lock, Dlopen, DlopenFails
  <2>2. QED
    BY <1>1, <1>3, <2>1 DEF StepsLeft
<1>5. CASE Dlsym(t)
  <2>1. pc[t] = "dlsym" /\ pc'[t] = "dlsym" /\ sym'[t] = sym[t] + 1
    BY <1>1, <1>5 DEF TypeOK, Dlsym
  <2>2. QED
    BY <1>1, <1>3, <2>1 DEF StepsLeft
<1>6. CASE DlsymFails(t) \/ Resolved(t) \/ Unlock(t)
  <2>1. \/ pc[t] = "dlsym" /\ pc'[t] = "unlock"
        \/ pc[t] = "unlock" /\ pc'[t] = "app"
    BY <1>1, <1>6 DEF TypeOK, DlsymFails, Resolved, Unlock
  <2>2. QED
    BY <1>1, <1>3, <2>1 DEF StepsLeft
<1>7. QED
  BY <1>4, <1>5, <1>6 DEF Step

\* For any number of threads and entry points: a call takes at most NSymbols + 6
\* steps, whatever the others do, and may have to wait for the mutex only, whose
\* owner does not wait.  CallReturns adds the scheduler to this.
THEOREM CallsAreFinite ==
  Spec => /\ []HeldUpByTheBusy
          /\ [](\A t \in Threads : StepsLeft(t) \in 0 .. NSymbols + 6)
          /\ EveryStepCounts
<1>1. FrontInv => HeldUpByTheBusy
  BY DEF FrontInv, TypeOK, MutexGuardsCritical, HeldUpByTheBusy, HeldUp
<1>2. FrontInv /\ [Next]_vars =>
         [\A t \in Threads : /\ Step(t) => StepsLeft(t)' < StepsLeft(t)
                             /\ Call(t) \/ StepsLeft(t)' <= StepsLeft(t)]_vars
  <2> SUFFICES ASSUME FrontInv, Next, NEW t \in Threads
               PROVE  /\ Step(t) => StepsLeft(t)' < StepsLeft(t)
                      /\ Call(t) \/ StepsLeft(t)' <= StepsLeft(t)
    BY DEF vars
  <2>1. \A u \in Threads : StepsLeft(u) \in Nat
    <3>1. NSymbols \in Nat
      BY FrontAssumption
    <3>2. QED
      BY <3>1, LeftType
  <2>2. Step(t) => StepsLeft(t)' < StepsLeft(t)
    BY StepLessens
  <2>3. Call(t) \/ StepsLeft(t)' <= StepsLeft(t)
    <3>1. ASSUME NEW u \in Threads, Step(u) PROVE StepsLeft(t)' <= StepsLeft(t)
      <4>1. CASE u = t
        BY <2>1, <3>1, <4>1, StepLessens
      <4>2. CASE u # t
        BY <2>1, <3>1, <4>2, StepLessens
      <4>3. QED
        BY <4>1, <4>2
    <3>2. ASSUME NEW u \in Threads, Call(u), u # t PROVE StepsLeft(t)' <= StepsLeft(t)
      <4>1. pc'[t] = pc[t] /\ sym'[t] = sym[t]
        BY <3>2 DEF Call, Goto, FrontInv, TypeOK
      <4>2. QED
        BY <2>1, <4>1 DEF StepsLeft
    <3>3. ASSUME NEW l \in Libraries \cup {None}, Install(l)
          PROVE  StepsLeft(t)' <= StepsLeft(t)
      <4>1. pc' = pc /\ sym' = sym
        BY <3>3 DEF Install, threadVars
      <4>2. QED
        BY <2>1, <4>1 DEF StepsLeft
    <3>4. QED
      BY <3>1, <3>2, <3>3 DEF Next
  <2>4. QED
    BY <2>2, <2>3
<1>3. QED
  BY <1>1, <1>2, LeftType, FrontInvariant, PTL DEF Spec, SafeSpec, EveryStepCounts

-------------------------------------------------------------------------------
\* A step inside a call by thread t that leaves the front end as usable as it
\* was is invisible to the contract.
LEMMA InnerStep ==
  ASSUME NEW t \in Threads,
         pc[t] # "app", pc'[t] # "app",
         calls' = calls,
         \A u \in Threads \ {t} : pc'[u] = pc[u] /\ ret'[u] = ret[u],
         (initialized /\ AllResolved)' = (initialized /\ AllResolved)
  PROVE  UNCHANGED Once!vars
<1>1. \A u \in Threads : Client(u)' = Client(u)
  BY DEF Client
<1> QED
  BY <1>1 DEF Once!vars

\* Every step of the front end is a step of OnceInit or leaves it unchanged.
LEMMA OnceStep == FrontInv /\ FrontInv' /\ [Next]_vars => [Once!Next]_Once!vars
<1> SUFFICES ASSUME FrontInv, FrontInv', [Next]_vars
             PROVE  Once!Next \/ UNCHANGED Once!vars
  OBVIOUS
<1>t. TypeOK
  BY DEF FrontInv
<1> DEFINE Usable == initialized /\ AllResolved
<1>1. ASSUME NEW t \in Threads, Call(t) PROVE Once!Next
  <2> USE <1>1, <1>t DEF Call, Goto, frontVars
  <2>1. Client(t) # "inside" /\ Client(t)' = "inside"
    BY DEF TypeOK, Client
  <2>2. \A u \in Threads \ {t} : Client(u)' = Client(u)
    BY DEF TypeOK, Client
  <2>3. Usable' = Usable
    BY DEF AllResolved
  <2>4. Once!Enter(t)
    BY <2>1, <2>2, <2>3 DEF Once!Enter
  <2> QED
    BY <2>4 DEF Once!Next
<1>2. ASSUME NEW t \in Threads,
             \/ OpenUrandom(t) \/ OpenFails(t) \/ Srand(t) \/ Lock(t)
             \/ Dlopen(t) \/ DlopenFails(t)
      PROVE  UNCHANGED Once!vars
  <2>1. /\ pc[t] # "app" /\ pc'[t] # "app"
        /\ calls' = calls
        /\ \A u \in Threads \ {t} : pc'[u] = pc[u] /\ ret'[u] = ret[u]
    BY <1>2, <1>t DEF TypeOK, OpenUrandom, OpenFails, Srand, Lock, Dlopen,
                      DlopenFails, Goto
  <2>2. UNCHANGED <<initialized, ptr>>
    BY <1>2 DEF OpenUrandom, OpenFails, Srand, Lock, Dlopen, DlopenFails,
                frontVars
  <2>3. Usable' = Usable
    BY <2>2 DEF AllResolved
  <2> QED
    BY <2>1, <2>3, InnerStep
<1>3. ASSUME NEW t \in Threads, Dlsym(t) \/ DlsymFails(t)
      PROVE  UNCHANGED Once!vars
  <2>1. /\ pc[t] # "app" /\ pc'[t] # "app"
        /\ calls' = calls
        /\ \A u \in Threads \ {t} : pc'[u] = pc[u] /\ ret'[u] = ret[u]
    BY <1>3, <1>t DEF TypeOK, Dlsym, DlsymFails, Goto
  <2>2. ~initialized /\ ~initialized'
    BY <1>3 DEF FrontInv, ResolvingBeforeInit, Dlsym, DlsymFails
  <2>3. Usable' = Usable
    BY <2>2
  <2> QED
    BY <2>1, <2>3, InnerStep
<1>4. ASSUME NEW t \in Threads, Resolved(t) PROVE Once!Next
  <2>1. Client(t) = "inside"
    BY <1>4 DEF Resolved, Client
  <2>2. ~Usable /\ Usable'
    BY <1>4 DEF FrontInv, ResolvingBeforeInit, InitializedIsComplete, Resolved
  <2>3. \A u \in Threads : Client(u)' = Client(u)
    BY <1>4, <1>t DEF TypeOK, Resolved, Goto, Client
  <2>4. Once!BecomeUsable(t)
    BY <2>1, <2>2, <2>3 DEF Once!BecomeUsable
  <2> QED
    BY <2>4 DEF Once!Next
<1>5. ASSUME NEW t \in Threads, Unlock(t) PROVE Once!Next
  <2>a. /\ pc[t] = "unlock" /\ pc'[t] = "app"
        /\ calls'[t] = calls[t] /\ ret'[t] = ret[t]
    BY <1>5, <1>t DEF TypeOK, Unlock, Goto
  <2>b. calls[t] # 0
    <3>1. calls[t] > 0
      BY <2>a DEF FrontInv, CallCounted
    <3> QED
      BY <3>1
  <2>1. Client(t) = "inside" /\ Client(t)' \in Once!Answers
    BY <2>a, <2>b DEF Client, Once!Answers
  <2>2. \A u \in Threads \ {t} : Client(u)' = Client(u)
    BY <1>5, <1>t DEF TypeOK, Unlock, Goto, Client
  <2>3. Usable' = Usable
    BY <1>5 DEF Unlock, AllResolved
  <2>4. Client(t)' = "ok" => Usable
    BY <1>5, <1>t DEF FrontInv, OkMeansInitialized, InitializedIsComplete,
                      TypeOK, Unlock, Goto, Client
  <2>5. Once!Return(t)
    BY <2>1, <2>2, <2>3, <2>4 DEF Once!Return
  <2> QED
    BY <2>5 DEF Once!Next
<1>6. ASSUME NEW l \in Libraries \cup {None}, Install(l)
      PROVE  UNCHANGED Once!vars
  BY <1>6 DEF Install, threadVars, frontVars, Once!vars, Client, AllResolved
<1>7. CASE UNCHANGED vars
  BY <1>7 DEF vars, Once!vars, Client, AllResolved
<1> QED
  BY <1>1, <1>2, <1>3, <1>4, <1>5, <1>6, <1>7 DEF Next, Step

\* blkin_init implements the contract stated in OnceInit.
THEOREM FrontImplementsOnceInit == Spec => ImplementsOnceInit
<1>1. Init => Once!Init
  BY DEF Init, Once!Init, Client
<1>2. FrontInv /\ FrontInv' /\ [Next]_vars => [Once!Next]_Once!vars
  BY OnceStep
<1> QED
  BY <1>1, <1>2, FrontInvariant, PTL
  DEF Spec, SafeSpec, ImplementsOnceInit, Once!Spec
===============================================================================
