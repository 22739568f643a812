----------------------------- MODULE LeasedWork -----------------------------
(***************************************************************************)
(* What the workflow's job queue and the delivery outbox both promise:     *)
(* work that is offered once, held by one worker at a time, handed on when *)
(* its holder disappears, and finished once, by the worker that holds it.  *)
(*                                                                         *)
(* There are no clocks, retries, backoffs or payloads here.  A worker that *)
(* was overtaken still believes that it holds its item; all it can do with *)
(* that belief is to give it up.                                           *)
(***************************************************************************)
CONSTANTS
    Item,           \* pieces of work
    Holder,         \* workers
    Free,           \* the holder of an item nobody holds
    Nothing,        \* the item of a worker that works on none
    TakeOver        \* whether an abandoned item goes straight to a new holder

VARIABLES
    status,         \* "absent", "waiting", "held" or "done"
    holder,         \* who holds each item
    belief          \* the item each worker believes to hold

workVars == <<status, holder, belief>>

WorkInit ==
    /\ status = [i \in Item |-> "absent"]
    /\ holder = [i \in Item |-> Free]
    /\ belief = [h \in Holder |-> Nothing]

Offer(i) ==
    /\ status[i] = "absent"
    /\ status' = [status EXCEPT ![i] = "waiting"]
    /\ UNCHANGED <<holder, belief>>

Take(h, i) ==
    /\ belief[h] = Nothing
    /\ status[i] = "waiting" \/ (TakeOver /\ status[i] = "held")
    /\ status' = [status EXCEPT ![i] = "held"]
    /\ holder' = [holder EXCEPT ![i] = h]
    /\ belief' = [belief EXCEPT ![h] = i]

(* The holder is done with its item: finished, or given back for later.    *)
LetGo(h, i, outcome) ==
    /\ belief[h] = i
    /\ status[i] = "held"
    /\ holder[i] = h
    /\ status' = [status EXCEPT ![i] = outcome]
    /\ holder' = [holder EXCEPT ![i] = Free]
    /\ belief' = [belief EXCEPT ![h] = Nothing]

(* A worker forgets its item: it crashed, or it found itself overtaken.    *)
Forget(h) ==
    /\ belief[h] # Nothing
    /\ belief' = [belief EXCEPT ![h] = Nothing]
    /\ UNCHANGED <<status, holder>>

(* Items whose holders took too long wait again.                           *)
Reclaim(lapsed) ==
    /\ \A i \in lapsed : status[i] = "held"
    /\ status' = [i \in Item |-> IF i \in lapsed THEN "waiting" ELSE status[i]]
    /\ holder' = [i \in Item |-> IF i \in lapsed THEN Free ELSE holder[i]]
    /\ UNCHANGED belief

WorkNext ==
    \/ \E i \in Item : Offer(i)
    \/ \E h \in Holder, i \in Item : Take(h, i)
    \/ \E h \in Holder, i \in Item, outcome \in {"waiting", "done"} :
          LetGo(h, i, outcome)
    \/ \E h \in Holder : Forget(h)
    \/ \E lapsed \in SUBSET Item : Reclaim(lapsed)

WorkSpec == WorkInit /\ [][WorkNext]_workVars

=============================================================================
