------------------------------- MODULE Delivery -------------------------------
(***************************************************************************)
(* What the consumers of src/babeltrace-plugins promise the reader of      *)
(* Scribe's log, with no word of connections, answers and exceptions.      *)
(*                                                                         *)
(* A feed has messages, places with nothing for Scribe and places nobody   *)
(* gets past.  A run takes it place by place from the front: it hands over *)
(* a message once, to be stored or refused for good, in one step with      *)
(* going on.  It may stop anywhere; the next run starts at the front.      *)
(***************************************************************************)
EXTENDS Naturals, Sequences

CONSTANT Messages

VARIABLES feed,     \* the places, never changed
          run,      \* number of the run
          next,     \* the place the run takes next
          stored,   \* the messages stored, with run and place, in their order
          refused   \* the runs and places refused

vars == <<feed, run, next, stored, refused>>

Places == [role : {"message", "nothing", "barrier"}, msg : Messages]

Init == /\ feed \in Seq(Places)
        /\ run = 1
        /\ next = 1
        /\ stored = << >>
        /\ refused = {}

Here == [run |-> run, pos |-> next]

\* The run goes on past a place of the given role.
GoOn(role) == /\ next <= Len(feed)
              /\ feed[next].role = role
              /\ next' = next + 1
              /\ UNCHANGED <<feed, run>>

Pass == /\ GoOn("nothing")
        /\ UNCHANGED <<stored, refused>>

Deliver == /\ GoOn("message")
           /\ stored' = Append(stored, [place |-> Here, msg |-> feed[next].msg])
           /\ UNCHANGED refused

Refuse == /\ GoOn("message")
          /\ refused' = refused \cup {Here}
          /\ UNCHANGED stored

Restart == /\ run' = run + 1
           /\ next' = 1
           /\ UNCHANGED <<feed, stored, refused>>

Next == Pass \/ Deliver \/ Refuse \/ Restart

Spec == Init /\ [][Next]_vars
===============================================================================
