--------------------------- MODULE RandomBigProofs ---------------------------
(***************************************************************************)
(* The identifiers of any number of processes and threads, for any seeds,  *)
(* any generator and any width of the halves: which calls of rand() two    *)
(* identifiers can share, and that no information of the halves is lost.   *)
(***************************************************************************)
EXTENDS RandomBig, TLAPS

Workers == Procs \X Threads

\* What TypeOK says of the values the steps read.
LEMMA TypeFacts ==
  ASSUME TypeOK
  PROVE  /\ MaxCalls \in Nat /\ Len(used) \in Nat /\ Len(used) <= MaxCalls
         /\ DOMAIN used = 1 .. Len(used)
         /\ \A k \in DOMAIN used : /\ used[k] \in CallRecord
                                   /\ used[k].seed \in Seeds
                                   /\ used[k].place \in Nat
                                   /\ used[k].copied \in BOOLEAN
         /\ \A p \in Procs : /\ gen[p].seed \in Seeds \cup {Unseeded}
                             /\ gen[p].place \in Nat
         /\ \A w \in Workers : half[w] \in 0 .. Len(used)
         /\ Len(drawn) \in Nat /\ DOMAIN drawn = 1 .. Len(drawn)
         /\ \A a \in DOMAIN drawn : /\ drawn[a].first \in DOMAIN used
                                    /\ drawn[a].second \in DOMAIN used
                                    /\ Calls(drawn[a]) \subseteq DOMAIN used
<1>1. MaxCalls \in Nat /\ Len(used) \in Nat /\ Len(used) <= MaxCalls
  BY RandomAssumption DEF TypeOK
<1>2. DOMAIN used = 1 .. Len(used) /\ DOMAIN drawn = 1 .. Len(drawn)
      /\ Len(drawn) \in Nat
  BY DEF TypeOK
<1>3. \A k \in DOMAIN used : used[k] \in CallRecord
  BY <1>2 DEF TypeOK
<1>4. Places \subseteq Nat
  BY <1>1 DEF Places
<1>5. \A k \in DOMAIN used : /\ used[k].seed \in Seeds /\ used[k].place \in Nat
                             /\ used[k].copied \in BOOLEAN
  BY <1>3, <1>4 DEF CallRecord
<1>6. \A p \in Procs : /\ gen[p].seed \in Seeds \cup {Unseeded}
                       /\ gen[p].place \in Nat
  BY <1>4 DEF TypeOK
<1>7. \A w \in Workers : half[w] \in 0 .. Len(used)
  BY DEF TypeOK, Workers
<1>8. \A a \in DOMAIN drawn : /\ drawn[a].first \in DOMAIN used
                              /\ drawn[a].second \in DOMAIN used
  <2> DEFINE Pair == [first : DOMAIN used, second : DOMAIN used]
  <2>1. drawn \in Seq(Pair)
    BY DEF TypeOK
  <2>2. \A a \in DOMAIN drawn : drawn[a] \in Pair
    <3> HIDE DEF Pair
    <3>1. QED
      BY <1>2, <2>1
  <2>3. QED
    BY <2>2
<1>9. QED
  BY <1>1, <1>2, <1>3, <1>5, <1>6, <1>7, <1>8 DEF Calls

\* Nothing was seeded and nothing drawn.
LEMMA RandomInit == Init => RandomInv
<1> SUFFICES ASSUME Init PROVE RandomInv
  OBVIOUS
<1>1. TypeOK
  BY RandomAssumption
  DEF Init, TypeOK, Places, Unseeded, NoCall, Seeds, CallRecord
<1>2. DOMAIN used = {} /\ DOMAIN drawn = {}
  BY DEF Init
<1>3. OneUse
  BY <1>2 DEF Init, OneUse, NoCall
<1>4. QED
  BY <1>1, <1>2, <1>3, RandomAssumption
  DEF Init, RandomInv, Ahead, ReadSeedsOnly, UsedOnce, PlacesCounted, Unseeded

\* The generator of p starts a sequence that nobody else continues: a new seed,
\* or one of those nothing is promised of.
LEMMA SeedKeeps ==
  ASSUME RandomInv, NEW p \in alive, NEW s \in Seeds, Seed(p, s),
         \/ s \in Blind /\ read' = read
         \/ read < MaxSeeds /\ s = read + 1 /\ read' = read + 1
  PROVE  RandomInv'
<1> USE RandomAssumption DEF RandomInv, Seed
<1>1. p \in Procs /\ read \in Nat /\ read' \in 0 .. MaxSeeds /\ read <= read'
  BY DEF TypeOK
<1>2. TypeOK'
  BY <1>1 DEF TypeOK, Places
<1>3. /\ gen'[p].seed = s /\ gen'[p].place = 0
      /\ \A q \in Procs \ {p} : gen'[q] = gen[q]
      /\ used' = used /\ seeded' = seeded \cup {p} /\ seeded \subseteq Procs
  BY <1>1 DEF TypeOK
<1>4. s \in 1 .. MaxSeeds => s = read + 1 /\ read' = read + 1
  OBVIOUS
<1>5. ReadSeedsOnly'
  <2>1. \A k \in DOMAIN used : used[k].seed \in 1 .. MaxSeeds => used[k].seed <= read'
    BY <1>1 DEF ReadSeedsOnly
  <2>2. ASSUME NEW q \in Procs, gen'[q].seed \in 1 .. MaxSeeds
        PROVE  gen'[q].seed <= read'
    BY <1>1, <1>3, <1>4, <2>2 DEF ReadSeedsOnly
  <2>3. QED
    BY <1>3, <2>1, <2>2 DEF ReadSeedsOnly
<1>6. Ahead'
  <2>1. ASSUME NEW q \in seeded', gen'[q].seed \in 1 .. MaxSeeds
        PROVE  /\ gen'[q].seed <= read'
               /\ \A o \in seeded' : gen'[o].seed = gen'[q].seed => q = o
               /\ \A k \in DOMAIN used :
                     used[k].seed = gen'[q].seed /\ ~used[k].copied =>
                        used[k].place < gen'[q].place
    <3>1. gen'[q].seed <= read'
      BY <1>3, <1>5, <2>1 DEF ReadSeedsOnly
    <3>2. \A o \in seeded \ {p} : gen'[o].seed \in 1 .. MaxSeeds => gen'[o].seed <= read
      BY <1>3 DEF ReadSeedsOnly
    <3>3. CASE q = p
      <4>1. gen'[q].seed = read + 1
        BY <1>3, <1>4, <2>1, <3>3
      <4>2. \A k \in DOMAIN used : used[k].seed # gen'[q].seed
        BY <1>1, <2>1, <4>1 DEF ReadSeedsOnly
      <4>3. \A o \in seeded \ {p} : gen'[o].seed # gen'[q].seed
        BY <1>1, <2>1, <3>2, <4>1
      <4>4. QED
        BY <1>3, <3>1, <3>3, <4>2, <4>3
    <3>4. CASE q # p
      <4>1. q \in seeded /\ gen'[q] = gen[q]
        BY <1>3, <3>4
      <4>2. \A o \in seeded \ {p} : gen'[o].seed = gen'[q].seed => q = o
        BY <1>3, <2>1, <4>1 DEF Ahead
      <4>3. gen'[p].seed # gen'[q].seed
        BY <1>1, <1>3, <1>4, <2>1, <3>2, <3>4, <4>1
      <4>4. QED
        BY <1>3, <2>1, <3>1, <4>1, <4>2, <4>3 DEF Ahead
    <3>5. QED
      BY <3>3, <3>4
  <2>2. QED
    BY <1>3, <2>1 DEF Ahead
<1>7. UsedOnce'
  BY DEF UsedOnce, SamePlace
<1>8. OneUse'
  BY DEF OneUse, Calls
<1>9. PlacesCounted'
  BY <1>3, TypeFacts DEF PlacesCounted
<1>10. QED
  BY <1>2, <1>5, <1>6, <1>7, <1>8, <1>9

\* A call of rand() in p takes a place that nobody took before, unless the
\* sequence was copied or its seed never read.
LEMMA RandKeeps ==
  ASSUME RandomInv, NEW p \in alive, Rand(p), UNCHANGED <<alive, seeded, read>>
  PROVE  /\ gen' \in [Procs -> [seed : Seeds \cup {Unseeded}, place : Places]]
         /\ used' \in Seq(CallRecord) /\ Len(used') <= MaxCalls
         /\ Len(used') = Len(used) + 1
         /\ \A k \in DOMAIN used : used'[k] = used[k]
         /\ ReadSeedsOnly' /\ Ahead' /\ UsedOnce' /\ PlacesCounted'
<1> DEFINE n == Len(used) + 1
           call == [seed |-> gen[p].seed, place |-> gen[p].place,
                    copied |-> p \notin seeded]
<1>1. /\ p \in Procs /\ seeded \subseteq Procs
      /\ Len(used) \in Nat /\ MaxCalls \in Nat /\ Len(used) < MaxCalls
      /\ DOMAIN used = 1 .. Len(used)
  BY TypeFacts DEF RandomInv, TypeOK, Rand
<1>2. /\ gen[p].seed \in Seeds /\ gen[p].place \in Nat
      /\ gen[p].place + 1 <= n /\ gen[p].place + 1 \in Places
  BY <1>1, TypeFacts DEF RandomInv, Rand, PlacesCounted, Places
<1>3. /\ \A q \in Procs \ {p} : gen'[q] = gen[q]
      /\ gen'[p].seed = gen[p].seed /\ gen'[p].place = gen[p].place + 1
      /\ gen' \in [Procs -> [seed : Seeds \cup {Unseeded}, place : Places]]
  BY <1>1, <1>2 DEF RandomInv, TypeOK, Rand
<1>4. call \in CallRecord
  BY <1>2, <1>1 DEF CallRecord, Places
<1>5. /\ used' \in Seq(CallRecord) /\ Len(used') = n /\ n <= MaxCalls
      /\ DOMAIN used' = 1 .. n
      /\ \A k \in DOMAIN used : used'[k] = used[k]
      /\ used'[n] = call
  <2> HIDE DEF call
  <2>1. used' = Append(used, call) /\ used \in Seq(CallRecord)
    BY DEF Rand, call, RandomInv, TypeOK
  <2>2. QED
    BY <1>1, <1>4, <2>1
<1>6. /\ used'[n].seed = gen[p].seed /\ used'[n].place = gen[p].place
      /\ used'[n].copied = (p \notin seeded)
  BY <1>5
<1> HIDE DEF call
<1>7. ReadSeedsOnly'
  <2>1. \A q \in Procs : gen'[q].seed = gen[q].seed
    BY <1>3
  <2>2. \A k \in DOMAIN used' : used'[k].seed \in 1 .. MaxSeeds => used'[k].seed <= read
    BY <1>1, <1>5, <1>6 DEF RandomInv, ReadSeedsOnly
  <2>3. QED
    BY <2>1, <2>2 DEF RandomInv, ReadSeedsOnly
<1>8. Ahead'
  <2>1. ASSUME NEW q \in seeded, gen'[q].seed \in 1 .. MaxSeeds
        PROVE  /\ gen'[q].seed <= read
               /\ \A o \in seeded : gen'[o].seed = gen'[q].seed => q = o
               /\ \A k \in DOMAIN used' :
                     used'[k].seed = gen'[q].seed /\ ~used'[k].copied =>
                        used'[k].place < gen'[q].place
    <3>1. \A o \in seeded : gen'[o].seed = gen[o].seed
      BY <1>1, <1>3
    <3>2. /\ gen'[q].seed <= read
          /\ \A o \in seeded : gen'[o].seed = gen'[q].seed => q = o
      BY <2>1, <3>1 DEF RandomInv, Ahead
    <3>3. gen[q].place <= gen'[q].place /\ gen[q].place \in Nat /\ gen'[q].place \in Nat
      BY <1>1, <1>2, <1>3, TypeFacts DEF RandomInv
    <3>4. ASSUME NEW k \in DOMAIN used,
                 used'[k].seed = gen'[q].seed, ~used'[k].copied
          PROVE  used'[k].place < gen'[q].place
      <4>1. used[k].place < gen[q].place /\ used[k].place \in Nat
        BY <1>5, <2>1, <3>1, <3>4, TypeFacts DEF RandomInv, Ahead
      <4>2. QED
        BY <1>5, <3>3, <4>1
    <3>5. ASSUME used'[n].seed = gen'[q].seed, ~used'[n].copied
          PROVE  used'[n].place < gen'[q].place
      <4>1. p \in seeded /\ gen[p].seed = gen[q].seed
        BY <1>6, <3>1, <3>5
      <4>2. p = q
        BY <2>1, <3>1, <4>1 DEF RandomInv, Ahead
      <4>3. QED
        BY <1>2, <1>3, <1>6, <4>2
    <3>6. QED
      BY <1>1, <1>5, <3>2, <3>4, <3>5
  <2>2. QED
    BY <2>1 DEF Ahead
<1>9. UsedOnce'
  <2>1. ASSUME NEW j \in DOMAIN used, used'[j].seed = used'[n].seed,
               used'[j].place = used'[n].place
        PROVE  used'[n].seed \in Blind \/ used'[j].copied \/ used'[n].copied
    <3>1. CASE gen[p].seed \in 1 .. MaxSeeds /\ p \in seeded /\ ~used[j].copied
      <4>1. used[j].place < gen[p].place
        BY <1>5, <1>6, <2>1, <3>1 DEF RandomInv, Ahead
      <4>2. QED
        BY <1>2, <1>5, <1>6, <2>1, <4>1
    <3>2. CASE ~(gen[p].seed \in 1 .. MaxSeeds /\ p \in seeded /\ ~used[j].copied)
      BY <1>2, <1>5, <1>6, <3>2 DEF Seeds
    <3>3. QED
      BY <3>1, <3>2
  <2>2. \A i, j \in DOMAIN used :
           i # j /\ used'[i].seed = used'[j].seed /\ used'[i].place = used'[j].place
           => used'[i].seed \in Blind \/ used'[i].copied \/ used'[j].copied
    BY <1>5 DEF RandomInv, UsedOnce, SamePlace
  <2>3. \A i \in DOMAIN used' : i \in DOMAIN used \/ i = n
    BY <1>1, <1>5
  <2>4. QED
    BY <2>1, <2>2, <2>3 DEF UsedOnce, SamePlace
<1>10. PlacesCounted'
  <2>1. \A q \in Procs : gen[q].place <= Len(used) /\ gen[q].place \in Nat
    BY TypeFacts DEF RandomInv, PlacesCounted
  <2>2. QED
    BY <1>1, <1>2, <1>3, <1>5, <2>1 DEF PlacesCounted
<1>11. QED
  BY <1>3, <1>5, <1>7, <1>8, <1>9, <1>10

\* The call that begins a draw serves nobody else.
LEMMA BeginDrawKeeps ==
  ASSUME RandomInv, NEW p \in alive, NEW t \in Threads, BeginDraw(p, t)
  PROVE  RandomInv'
<1> DEFINE me == <<p, t>>
           n == Len(used) + 1
<1>1. /\ gen' \in [Procs -> [seed : Seeds \cup {Unseeded}, place : Places]]
      /\ used' \in Seq(CallRecord) /\ Len(used') <= MaxCalls
      /\ Len(used') = n
      /\ \A k \in DOMAIN used : used'[k] = used[k]
      /\ ReadSeedsOnly' /\ Ahead' /\ UsedOnce' /\ PlacesCounted'
  BY RandKeeps DEF BeginDraw
<1>2. /\ me \in Workers /\ half \in [Workers -> 0 .. Len(used)]
      /\ Len(used) \in Nat /\ DOMAIN used = 1 .. Len(used) /\ DOMAIN used' = 1 .. n
  BY <1>1, TypeFacts DEF RandomInv, TypeOK, Workers
<1>3. half' = [half EXCEPT ![me] = n] /\ drawn' = drawn
  BY DEF BeginDraw
<1> HIDE DEF me
<1>4. half' \in [Workers -> 0 .. n]
  BY <1>2, <1>3
<1>5. drawn \in Seq([first : DOMAIN used', second : DOMAIN used'])
  <2> DEFINE Old == [first : DOMAIN used, second : DOMAIN used]
             Pair == [first : DOMAIN used', second : DOMAIN used']
  <2>1. Old \subseteq Pair
    BY <1>2
  <2>2. drawn \in Seq(Old)
    BY DEF RandomInv, TypeOK
  <2> HIDE DEF Old, Pair
  <2>3. drawn \in Seq(Pair)
    BY <2>1, <2>2
  <2> USE DEF Pair
  <2>4. QED
    BY <2>3
<1>6. TypeOK'
  BY <1>1, <1>3, <1>4, <1>5 DEF RandomInv, TypeOK, BeginDraw, Workers
<1>7. OneUse'
  <2>1. \A a \in DOMAIN drawn : Calls(drawn[a]) \subseteq 1 .. Len(used)
    BY <1>2, TypeFacts DEF RandomInv
  <2>2. ASSUME NEW w \in Workers, half'[w] # NoCall
        PROVE  /\ \A a \in DOMAIN drawn : half'[w] \notin Calls(drawn[a])
               /\ \A v \in Workers : half'[v] = half'[w] => v = w
    <3>1. CASE w = me
      BY <1>2, <1>3, <2>1, <3>1
    <3>2. CASE w # me
      BY <1>2, <1>3, <2>2, <3>2 DEF RandomInv, OneUse, Workers
    <3>3. QED
      BY <3>1, <3>2
  <2>3. QED
    BY <1>3, <2>2 DEF RandomInv, OneUse, Workers, Calls
<1>8. QED
  BY <1>1, <1>6, <1>7 DEF RandomInv

\* The two calls of a finished draw serve that identifier only.
LEMMA EndDrawKeeps ==
  ASSUME RandomInv, NEW p \in alive, NEW t \in Threads, EndDraw(p, t)
  PROVE  RandomInv'
<1> DEFINE me == <<p, t>>
           n == Len(used) + 1
           m == Len(drawn) + 1
           new == [first |-> half[me], second |-> n]
<1>1. /\ gen' \in [Procs -> [seed : Seeds \cup {Unseeded}, place : Places]]
      /\ used' \in Seq(CallRecord) /\ Len(used') <= MaxCalls
      /\ Len(used') = n
      /\ \A k \in DOMAIN used : used'[k] = used[k]
      /\ ReadSeedsOnly' /\ Ahead' /\ UsedOnce' /\ PlacesCounted'
  BY RandKeeps DEF EndDraw
<1>2. /\ me \in Workers /\ half \in [Workers -> 0 .. Len(used)]
      /\ Len(used) \in Nat /\ DOMAIN used = 1 .. Len(used) /\ DOMAIN used' = 1 .. n
      /\ Len(drawn) \in Nat /\ DOMAIN drawn = 1 .. Len(drawn)
  BY <1>1, TypeFacts DEF RandomInv, TypeOK, Workers
<1>3. half' = [half EXCEPT ![me] = NoCall] /\ half[me] # NoCall
  BY DEF EndDraw
<1>4. half[me] \in 1 .. Len(used)
  BY <1>2, <1>3 DEF NoCall
<1> DEFINE Old == [first : DOMAIN used, second : DOMAIN used]
           Pair == [first : DOMAIN used', second : DOMAIN used']
<1>5. /\ drawn' \in Seq(Pair) /\ Len(drawn') = m /\ DOMAIN drawn' = 1 .. m
      /\ \A a \in DOMAIN drawn : drawn'[a] = drawn[a]
      /\ drawn'[m] = new
  <2>1. Old \subseteq Pair /\ new \in Pair
    BY <1>2, <1>4
  <2>2. drawn \in Seq(Old) /\ drawn' = Append(drawn, new)
    BY DEF RandomInv, TypeOK, EndDraw
  <2> HIDE DEF Old, Pair, new
  <2>3. drawn \in Seq(Pair)
    BY <2>1, <2>2
  <2>4. QED
    BY <1>2, <2>1, <2>2, <2>3
<1>6. Calls(drawn'[m]) = {half[me], n}
  BY <1>5 DEF Calls
<1> HIDE DEF me, new, Old
<1>7. half' \in [Workers -> 0 .. n]
  BY <1>2, <1>3 DEF NoCall
<1>8. TypeOK'
  BY <1>1, <1>5, <1>7 DEF RandomInv, TypeOK, EndDraw, Workers
<1>9. OneUse'
  <2>1. \A a \in DOMAIN drawn : /\ Calls(drawn[a]) \subseteq 1 .. Len(used)
                                /\ Calls(drawn'[a]) = Calls(drawn[a])
    BY <1>2, <1>5, TypeFacts DEF RandomInv
  <2>2. \A a \in DOMAIN drawn : Calls(drawn[a]) \cap Calls(drawn'[m]) = {}
    BY <1>2, <1>3, <1>6, <2>1 DEF RandomInv, OneUse, Workers
  <2>3. \A a, b \in DOMAIN drawn' : a # b => Calls(drawn'[a]) \cap Calls(drawn'[b]) = {}
    <3>1. \A a \in DOMAIN drawn' : a \in DOMAIN drawn \/ a = m
      BY <1>2, <1>5
    <3>2. \A a, b \in DOMAIN drawn : a # b => Calls(drawn[a]) \cap Calls(drawn[b]) = {}
      BY DEF RandomInv, OneUse
    <3>3. QED
      BY <2>1, <2>2, <3>1, <3>2
  <2>4. ASSUME NEW w \in Workers, half'[w] # NoCall
        PROVE  /\ \A a \in DOMAIN drawn' : half'[w] \notin Calls(drawn'[a])
               /\ \A v \in Workers : half'[v] = half'[w] => v = w
    <3>1. w # me /\ half'[w] = half[w] /\ half[w] \in 1 .. Len(used)
      BY <1>2, <1>3, <2>4 DEF NoCall
    <3>2. /\ \A a \in DOMAIN drawn : half[w] \notin Calls(drawn[a])
          /\ \A v \in Workers : half[v] = half[w] => v = w
      BY <2>4, <3>1 DEF RandomInv, OneUse, Workers
    <3>3. half[w] \notin Calls(drawn'[m])
      BY <1>2, <1>6, <3>1, <3>2
    <3>4. \A v \in Workers : half'[v] = half'[w] => v = w
      BY <1>2, <1>3, <2>4, <3>1, <3>2
    <3>5. \A a \in DOMAIN drawn' : a \in DOMAIN drawn \/ a = m
      BY <1>2, <1>5
    <3>6. QED
      BY <2>1, <3>1, <3>2, <3>3, <3>4, <3>5
  <2>5. QED
    BY <2>3, <2>4 DEF OneUse, Workers
<1>10. QED
  BY <1>1, <1>8, <1>9 DEF RandomInv

\* A fork adds a process that has not called blkin_init.
LEMMA ForkKeeps ==
  ASSUME RandomInv, NEW p \in alive, NEW q \in Procs, Fork(p, q)
  PROVE  RandomInv'
<1> USE DEF RandomInv, Fork
<1>1. p \in Procs /\ gen[p] \in [seed : Seeds \cup {Unseeded}, place : Places]
  BY DEF TypeOK
<1>2. TypeOK'
  BY <1>1 DEF TypeOK
<1>3. q \notin seeded
  BY DEF TypeOK
<1>4. \A o \in Procs : gen'[o] = gen[o] \/ gen'[o] = gen[p]
  BY DEF TypeOK
<1>5. \A o \in seeded : gen'[o] = gen[o]
  BY <1>3 DEF TypeOK
<1>6. Ahead'
  BY <1>5 DEF Ahead
<1>7. ReadSeedsOnly' /\ PlacesCounted'
  BY <1>1, <1>4 DEF ReadSeedsOnly, PlacesCounted
<1>8. UsedOnce' /\ OneUse'
  BY DEF UsedOnce, SamePlace, OneUse, Calls
<1>9. QED
  BY <1>2, <1>6, <1>7, <1>8

\* Every step keeps the invariant.
LEMMA RandomStep == RandomInv /\ [Next]_vars => RandomInv'
<1> SUFFICES ASSUME RandomInv, [Next]_vars PROVE RandomInv'
  OBVIOUS
<1>1. ASSUME NEW p \in alive, Srand(p) PROVE RandomInv'
  <2>1. read \in Nat /\ read < MaxSeeds /\ MaxSeeds \in Nat
    BY <1>1, RandomAssumption DEF RandomInv, TypeOK, Srand
  <2>2. read + 1 \in Seeds
    BY <2>1 DEF Seeds
  <2>3. QED
    BY <1>1, <2>1, <2>2, SeedKeeps DEF Srand
<1>2. ASSUME NEW p \in alive, SrandBlind(p) PROVE RandomInv'
  BY <1>2, SeedKeeps DEF SrandBlind, Seeds
<1>3. ASSUME NEW p \in alive, NEW t \in Threads, BeginDraw(p, t) \/ EndDraw(p, t)
      PROVE  RandomInv'
  BY <1>3, BeginDrawKeeps, EndDrawKeeps
<1>4. ASSUME NEW p \in alive, NEW q \in Procs, Fork(p, q) PROVE RandomInv'
  BY <1>4, ForkKeeps
<1>5. CASE UNCHANGED vars
  BY <1>5 DEF vars, RandomInv, TypeOK, Ahead, ReadSeedsOnly, UsedOnce, SamePlace,
              OneUse, Calls, PlacesCounted
<1>6. QED
  BY <1>1, <1>2, <1>3, <1>4, <1>5 DEF Next

\* The inductive invariant holds for any number of processes, threads, seeds
\* and calls, and any generator behind rand().
THEOREM RandomInvariant == Spec => []RandomInv
<1>1. Init => RandomInv
  BY RandomInit
<1>2. RandomInv /\ [Next]_vars => RandomInv'
  BY RandomStep
<1>3. QED
  BY <1>1, <1>2, PTL DEF Spec

\* Identifiers share a call, or a place of a sequence, only where a seed was
\* not read or a generator was inherited by fork.
THEOREM IdentifiersAreIndependent == Spec => []IdentifiersIndependent
<1>1. RandomInv => IdentifiersIndependent
  <2> SUFFICES ASSUME RandomInv,
                      NEW a \in DOMAIN drawn, NEW b \in DOMAIN drawn, a # b,
                      NEW i \in Calls(drawn[a]), NEW j \in Calls(drawn[b]),
                      SamePlace(i, j)
               PROVE  used[i].seed \in Blind \/ used[i].copied \/ used[j].copied
    BY DEF IdentifiersIndependent
  <2>1. i # j
    BY DEF RandomInv, OneUse
  <2>2. i \in DOMAIN used /\ j \in DOMAIN used
    BY TypeFacts DEF RandomInv
  <2>3. QED
    BY <2>1, <2>2 DEF RandomInv, UsedOnce
<1>2. QED
  BY <1>1, RandomInvariant, PTL

\* Of a shifted value and another one a long of 32 bits holds the latter, and
\* one of 64 bits both: no other two values make the same number.
LEMMA RandomBigHalves ==
  ASSUME NEW r \in 0 .. RandMax, NEW s \in 0 .. RandMax
  PROVE  /\ Logged(Base, RandomBig(r, s)) = s
         /\ Logged(Base * Base, RandomBig(r, s)) = r * Base + s
<1>1. Base \in Nat /\ RandMax \in Nat /\ RandMax < Base
  BY RandomAssumption
<1>2. r * Base \in Nat /\ s \in Nat /\ s < Base
  BY <1>1
<1>3. RandomBig(r, s) = r * Base + s
  BY <1>1, <1>2 DEF RandomBig
<1>4. (r * Base + s) % Base = s
  BY <1>1, <1>2
<1>5. r * Base + s < Base * Base
  <2>1. (r + 1) * Base = r * Base + Base
    BY <1>1
  <2>2. (r + 1) * Base <= Base * Base
    BY <1>1
  <2>3. QED
    BY <1>1, <1>2, <2>1, <2>2
<1>6. (r * Base + s) % (Base * Base) = r * Base + s
  <2>1. Base * Base \in Nat
    BY <1>1
  <2>2. \A n \in Nat : \A k \in 0 .. n - 1 : k % n = k
    OBVIOUS
  <2>3. r * Base + s \in 0 .. Base * Base - 1
    BY <1>2, <1>5, <2>1
  <2>4. QED
    BY <2>1, <2>2, <2>3
<1>7. QED
  BY <1>3, <1>4, <1>6 DEF Logged

LEMMA HalvesTellApart ==
  ASSUME NEW r \in 0 .. RandMax, NEW s \in 0 .. RandMax,
         NEW u \in 0 .. RandMax, NEW v \in 0 .. RandMax
  PROVE  /\ r * Base + s = 0 <=> r = 0 /\ s = 0
         /\ r * Base + s = u * Base + v <=> r = u /\ s = v
<1>1. /\ Base \in Nat /\ RandMax \in Nat /\ RandMax < Base
  BY RandomAssumption
<1>2. ASSUME NEW x \in 0 .. RandMax, NEW y \in 0 .. RandMax
      PROVE  /\ x * Base \in Nat
             /\ x * Base + y = 0 => x = 0 /\ y = 0
  <2>1. x * Base \in Nat
    BY <1>1
  <2>2. x # 0 => x * Base >= Base
    BY <1>1
  <2>3. QED
    BY <1>1, <2>1, <2>2
<1>3. ASSUME NEW x \in 0 .. RandMax, NEW y \in 0 .. RandMax,
             NEW z \in 0 .. RandMax, NEW w \in 0 .. RandMax, x < z
      PROVE  x * Base + y < z * Base + w
  <2>1. (x + 1) * Base = x * Base + Base /\ x * Base \in Nat /\ z * Base \in Nat
    BY <1>1
  <2>2. (x + 1) * Base <= z * Base
    BY <1>1, <1>3
  <2>3. QED
    BY <1>1, <2>1, <2>2
<1>4. ASSUME r * Base + s = u * Base + v PROVE r = u
  <2>1. r * Base + s \in Nat /\ u * Base + v \in Nat
    BY <1>2
  <2>2. ~(r < u) /\ ~(u < r)
    BY <1>3, <1>4, <2>1
  <2>3. QED
    BY <2>2
<1>5. ASSUME r * Base + s = u * Base + v PROVE s = v
  <2>1. r * Base = u * Base /\ r * Base \in Nat
    BY <1>2, <1>4, <1>5
  <2>2. QED
    BY <1>5, <2>1
<1>6. r = 0 /\ s = 0 => r * Base + s = 0
  BY <1>1
<1>7. QED
  BY <1>2, <1>4, <1>5, <1>6

\* Whatever a long is, the log tells apart what it has room for: identifiers
\* of different values where it holds both halves, of different second values
\* where it holds one.
THEOREM IdentifiersAreTold == Spec => []LogTellsWhatFits
<1>1. RandomInv => LogTellsWhatFits
  <2> SUFFICES ASSUME RandomInv, NEW long \in Longs,
                      NEW a \in DOMAIN drawn, NEW b \in DOMAIN drawn
               PROVE  LET x == Logged(long, Identifier(drawn[a]))
                          y == Logged(long, Identifier(drawn[b]))
                      IN /\ x = 0 <=> \A h \in Held(long) : ValueOf(drawn[a][h]) = 0
                         /\ x = y <=> \A h \in Held(long) :
                              ValueOf(drawn[a][h]) = ValueOf(drawn[b][h])
    BY DEF LogTellsWhatFits
  <2> DEFINE r == ValueOf(drawn[a].first)
             s == ValueOf(drawn[a].second)
             u == ValueOf(drawn[b].first)
             v == ValueOf(drawn[b].second)
  <2>1. ASSUME NEW i \in DOMAIN used PROVE ValueOf(i) \in 0 .. RandMax
    <3>1. used[i].seed \in Seeds /\ used[i].place \in Places
      BY TypeFacts DEF RandomInv, CallRecord
    <3>2. QED
      BY <3>1, RandomAssumption DEF ValueOf
  <2>2. /\ r \in 0 .. RandMax /\ s \in 0 .. RandMax
        /\ u \in 0 .. RandMax /\ v \in 0 .. RandMax
    BY <2>1, TypeFacts DEF RandomInv
  <2>3. Identifier(drawn[a]) = RandomBig(r, s) /\ Identifier(drawn[b]) = RandomBig(u, v)
    BY DEF Identifier
  <2> HIDE DEF r, s, u, v
  <2>4. CASE long = Base
    <3>1. /\ Logged(long, Identifier(drawn[a])) = s
          /\ Logged(long, Identifier(drawn[b])) = v
      BY <2>2, <2>3, <2>4, RandomBigHalves
    <3>2. Held(long) = {"second"}
      BY <2>4 DEF Held
    <3>3. QED
      BY <3>1, <3>2 DEF s, v
  <2>5. CASE long = Base * Base /\ long # Base
    <3>1. /\ Logged(long, Identifier(drawn[a])) = r * Base + s
          /\ Logged(long, Identifier(drawn[b])) = u * Base + v
      BY <2>2, <2>3, <2>5, RandomBigHalves
    <3>2. Held(long) = {"first", "second"}
      BY <2>5 DEF Held
    <3>3. /\ r * Base + s = 0 <=> r = 0 /\ s = 0
          /\ r * Base + s = u * Base + v <=> r = u /\ s = v
      BY <2>2, HalvesTellApart
    <3>4. QED
      BY <3>1, <3>2, <3>3 DEF r, s, u, v
  <2>6. QED
    BY <2>4, <2>5, RandomAssumption
<1>2. QED
  BY <1>1, RandomInvariant, PTL
===============================================================================
