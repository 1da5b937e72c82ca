------------------------------ MODULE RandomBig ------------------------------
(***************************************************************************)
(* Where identifiers come from: random_big of src/src/zipkin_c.c makes one *)
(* of two calls of rand(), whose generator belongs to the process.  The    *)
(* threads of a process draw at the same time; blkin_init of               *)
(* src/src/blkin-front.c seeds the generator whenever it is called, in the *)
(* middle of a draw of another thread perhaps; fork copies the generator.  *)
(*                                                                         *)
(* A seed read from /dev/urandom is taken to be new every time.  A seed    *)
(* that could not be read is what the stack holds, one of Blind.  That the *)
(* generator yields some number for each place of the sequence that starts *)
(* with a seed is all that is known of it.                                 *)
(***************************************************************************)
EXTENDS Integers, Sequences

CONSTANTS Procs, Threads,
          First,     \* the process there is at first
          Blind,     \* what an unread seed may hold
          Base,      \* 2^32, what << 32 multiplies with
          RandMax,   \* the greatest value of rand(), 2^31 - 1
          Longs,     \* how many values a long has: 2^64, or 2^32
          Out,       \* Out[<<s, n>>]: the n-th value of rand() after srand(s)
          MaxSeeds,  \* bound on the seeds read
          MaxCalls   \* bound on the calls of rand()

Seeds == (1 .. MaxSeeds) \cup Blind
Places == 0 .. MaxCalls

ASSUME RandomAssumption ==
  /\ First \in Procs
  /\ MaxSeeds \in Nat /\ MaxCalls \in Nat
  /\ Blind \cap (0 .. MaxSeeds) = {}
  /\ Base \in Nat /\ RandMax \in Nat
  /\ RandMax < Base
  /\ Longs \subseteq {Base, Base * Base}
  /\ Out \in [Seeds \X Places -> 0 .. RandMax]

VARIABLES gen,        \* gen[p]: the generator of p: its seed and its place
          alive,      \* the processes there are
          seeded,     \* those that ran srand since they were forked
          half,       \* half[<<p, t>>]: the call of rand() thread t of p has made
          read,       \* the seeds read from /dev/urandom
          used,       \* the calls of rand()
          drawn       \* the identifiers, each by its two calls

vars == <<gen, alive, seeded, half, read, used, drawn>>

Unseeded == 0  \* no srand yet, neither here nor before a fork
NoCall == 0    \* the thread is not inside random_big

CallRecord == [seed : Seeds, place : Places, copied : BOOLEAN]

TypeOK ==
  /\ gen \in [Procs -> [seed : Seeds \cup {Unseeded}, place : Places]]
  /\ alive \subseteq Procs
  /\ seeded \subseteq alive
  /\ half \in [Procs \X Threads -> 0 .. Len(used)]
  /\ read \in 0 .. MaxSeeds
  /\ used \in Seq(CallRecord) /\ Len(used) <= MaxCalls
  /\ drawn \in Seq([first : DOMAIN used, second : DOMAIN used])

Init ==
  /\ gen = [p \in Procs |-> [seed |-> Unseeded, place |-> 0]]
  /\ alive = {First}
  /\ seeded = {}
  /\ half = [w \in Procs \X Threads |-> NoCall]
  /\ read = 0
  /\ used = << >>
  /\ drawn = << >>

-------------------------------------------------------------------------------
Seed(p, s) == /\ gen' = [gen EXCEPT ![p] = [seed |-> s, place |-> 0]]
              /\ seeded' = seeded \cup {p}
              /\ UNCHANGED <<alive, half, used, drawn>>

\* Mutant: a constant seed.
SrandConstant(p) == read' = 1 /\ Seed(p, 1)

\* blkin_init in p seeds the generator, whoever is drawing from it.
Srand(p) == /\ read < MaxSeeds
            /\ read' = read + 1
            /\ Seed(p, read + 1)

\* ... with what the stack holds: no descriptor was left.
SrandBlind(p) == /\ \E s \in Blind : Seed(p, s)
                 /\ UNCHANGED read

\* rand() in p.
Rand(p) ==
  /\ Len(used) < MaxCalls
  /\ gen[p].seed # Unseeded
  /\ used' = Append(used, [seed |-> gen[p].seed, place |-> gen[p].place,
                           copied |-> p \notin seeded])
  /\ gen' = [gen EXCEPT ![p].place = @ + 1]

\* The first half of a draw.
BeginDraw(p, t) ==
  /\ half[<<p, t>>] = NoCall
  /\ Rand(p)
  /\ half' = [half EXCEPT ![<<p, t>>] = Len(used) + 1]
  /\ UNCHANGED <<alive, seeded, read, drawn>>

\* The second half.
EndDraw(p, t) ==
  /\ half[<<p, t>>] # NoCall
  /\ Rand(p)
  /\ drawn' = Append(drawn, [first |-> half[<<p, t>>], second |-> Len(used) + 1])
  /\ half' = [half EXCEPT ![<<p, t>>] = NoCall]
  /\ UNCHANGED <<alive, seeded, read>>

\* A thread of p that is not drawing forks q, which has only that thread, and
\* no library call is left in the middle.
Fork(p, q) ==
  /\ q \notin alive
  /\ \E t \in Threads : half[<<p, t>>] = NoCall
  /\ alive' = alive \cup {q}
  /\ gen' = [gen EXCEPT ![q] = gen[p]]
  /\ UNCHANGED <<seeded, half, read, used, drawn>>

Next ==
  \E p \in alive :
     \/ Srand(p)
     \/ SrandBlind(p)
     \/ \E t \in Threads : BeginDraw(p, t) \/ EndDraw(p, t)
     \/ \E q \in Procs : Fork(p, q)

Spec == Init /\ [][Next]_vars

-------------------------------------------------------------------------------
\* Mutant: the shift is forgotten.
RandomBigUnshifted(r, s) == r + s

\* The identifier made of two values of rand(); !a of a negative a is 0.
RandomBig(r, s) ==
  LET a == r * Base + s IN IF a < 0 THEN 0 ELSE a

\* What the events hold of it: their fields are longs, which have 64 bits, but
\* 32 on some of the architectures the library is packaged for.
Logged(long, x) == x % long

ValueOf(k) == Out[<<used[k].seed, used[k].place>>]
Identifier(d) == RandomBig(ValueOf(d.first), ValueOf(d.second))

Calls(d) == {d.first, d.second}
SamePlace(i, j) == used[i].seed = used[j].seed /\ used[i].place = used[j].place

\* Two identifiers rest on the same place of the same sequence only if its seed
\* was never read, or if one of the processes had the generator from the one it
\* was forked from and had not called blkin_init itself: neither threads that
\* draw at once nor a seeding in the middle of a draw are the reason.
IdentifiersIndependent ==
  \A a, b \in DOMAIN drawn : a # b =>
     \A i \in Calls(drawn[a]), j \in Calls(drawn[b]) :
        SamePlace(i, j) => \/ used[i].seed \in Blind
                           \/ used[i].copied \/ used[j].copied

\* What the log tells of two identifiers, however wide its longs are: whether
\* they agree in each of the values a long has room for, the second one at
\* least, and for "no parent" it takes an identifier where these are all 0.
Held(long) == IF long = Base THEN {"second"} ELSE {"first", "second"}

LogTellsWhatFits ==
  \A long \in Longs, a, b \in DOMAIN drawn :
     LET x == Logged(long, Identifier(drawn[a]))
         y == Logged(long, Identifier(drawn[b]))
     IN /\ x = 0 <=> \A h \in Held(long) : ValueOf(drawn[a][h]) = 0
        /\ x = y <=> \A h \in Held(long) :
                       ValueOf(drawn[a][h]) = ValueOf(drawn[b][h])

\* The identifiers are int64_t (zipkin_c.h), "64-bit integer ids" to the plugin
\* (trace.py), and random_big fills both halves: no bit of the two values would
\* be lost on the way into the log.  Identifiers that look the same there were
\* made of the same values, one that looks like "no parent" of two zeros.
IdentifiersTellApart ==
  \A long \in Longs, a, b \in DOMAIN drawn :
     LET x == Logged(long, Identifier(drawn[a]))
         y == Logged(long, Identifier(drawn[b]))
     IN /\ x = 0 => \A i \in Calls(drawn[a]) : ValueOf(i) = 0
        /\ x = y => /\ ValueOf(drawn[a].first) = ValueOf(drawn[b].first)
                    /\ ValueOf(drawn[a].second) = ValueOf(drawn[b].second)

-------------------------------------------------------------------------------
\* The inductive invariant.

\* A sequence that was read is continued by one process that seeded it, from
\* behind the places this process has used.
Ahead ==
  \A p \in seeded : gen[p].seed \in 1 .. MaxSeeds =>
     /\ gen[p].seed <= read
     /\ \A q \in seeded : gen[q].seed = gen[p].seed => p = q
     /\ \A k \in DOMAIN used :
           used[k].seed = gen[p].seed /\ ~used[k].copied =>
              used[k].place < gen[p].place

ReadSeedsOnly ==
  /\ \A k \in DOMAIN used : used[k].seed \in 1 .. MaxSeeds => used[k].seed <= read
  /\ \A p \in Procs : gen[p].seed \in 1 .. MaxSeeds => gen[p].seed <= read

UsedOnce ==
  \A i, j \in DOMAIN used :
     i # j /\ SamePlace(i, j) => \/ used[i].seed \in Blind
                                 \/ used[i].copied \/ used[j].copied

\* A call of rand() serves one identifier.
OneUse ==
  /\ \A a, b \in DOMAIN drawn : a # b => Calls(drawn[a]) \cap Calls(drawn[b]) = {}
  /\ \A w \in Procs \X Threads : half[w] # NoCall =>
        /\ \A a \in DOMAIN drawn : half[w] \notin Calls(drawn[a])
        /\ \A v \in Procs \X Threads : half[v] = half[w] => v = w

PlacesCounted == \A p \in Procs : gen[p].place <= Len(used)

RandomInv == /\ TypeOK /\ Ahead /\ ReadSeedsOnly /\ UsedOnce /\ OneUse
             /\ PlacesCounted
===============================================================================
