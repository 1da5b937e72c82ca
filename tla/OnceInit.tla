------------------------------- MODULE OnceInit -------------------------------
(***************************************************************************)
(* What a process may rely on when its threads initialise the tracing      *)
(* library: the front end becomes usable at most once, it stays usable,    *)
(* and a thread told "ok" finds it usable.  A thread told "failed" learns  *)
(* nothing: the contract allows that answer at any time.                   *)
(***************************************************************************)

CONSTANT Threads

VARIABLES usable,   \* every entry point of the library may be called
          client    \* client[t]: what thread t knows of its last call

vars == <<usable, client>>

Answers == {"ok", "failed"}

Init == /\ usable = FALSE
        /\ client = [t \in Threads |-> "idle"]

Enter(t) == /\ client[t] # "inside"
            /\ client' = [client EXCEPT ![t] = "inside"]
            /\ UNCHANGED usable

BecomeUsable(t) == /\ client[t] = "inside"
                   /\ ~usable
                   /\ usable' = TRUE
                   /\ UNCHANGED client

Return(t) == /\ client[t] = "inside"
             /\ \E a \in Answers :
                   /\ a = "ok" => usable
                   /\ client' = [client EXCEPT ![t] = a]
             /\ UNCHANGED usable

Next == \E t \in Threads : Enter(t) \/ BecomeUsable(t) \/ Return(t)

Spec == Init /\ [][Next]_vars
===============================================================================
