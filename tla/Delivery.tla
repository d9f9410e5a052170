------------------------------ MODULE Delivery ------------------------------
(***************************************************************************)
(* What the rest of the instance may rely on when it enqueues a task       *)
(* (module Worker implements it): an activity is tried a bounded number of *)
(* times, each try reaches the remote server at most once, however late,   *)
(* and a task is only called delivered after its activity was processed.   *)
(***************************************************************************)
EXTENDS Naturals

CONSTANTS Tasks, MaxRetry

VARIABLE task  \* of each task: its state, the tries begun, the copies processed

States == {"absent", "waiting", "trying", "delivered", "abandoned"}
Status == [state : States, tries : 0..MaxRetry + 1, copies : 0..MaxRetry + 1]

Init == task = [t \in Tasks |-> [state |-> "absent", tries |-> 0, copies |-> 0]]

Submit(old, new) ==
    old.state = "absent" /\ new = [old EXCEPT !.state = "waiting"]

Try(old, new) ==
    /\ old.state = "waiting"
    /\ old.tries <= MaxRetry
    /\ new = [state |-> "trying", tries |-> old.tries + 1, copies |-> old.copies]

\* The activity arrives, perhaps after its task has ended.
Arrive(old, new) ==
    /\ old.copies < old.tries
    /\ new = [old EXCEPT !.copies = @ + 1]

PutBack(old, new) ==
    /\ old.state = "trying"
    /\ old.tries <= MaxRetry
    /\ new = [old EXCEPT !.state = "waiting"]

Deliver(old, new) ==
    /\ old.state = "trying"
    /\ old.copies > 0
    /\ new = [old EXCEPT !.state = "delivered"]

GiveUp(old, new) ==
    /\ old.state = "trying"
    /\ new = [old EXCEPT !.state = "abandoned"]

Move(old, new) ==
    \/ Submit(old, new) \/ Try(old, new) \/ Arrive(old, new)
    \/ PutBack(old, new) \/ Deliver(old, new) \/ GiveUp(old, new)

\* Stopping a process moves every task it has at once.
Next ==
    /\ task' \in [Tasks -> Status]
    /\ \A t \in Tasks : task'[t] = task[t] \/ Move(task[t], task'[t])

Spec == Init /\ [][Next]_task
=============================================================================
