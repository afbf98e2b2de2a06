------------------------------ MODULE TaskLine ------------------------------
(***************************************************************************)
(* What a sequential task queue promises: tasks begin in the order they    *)
(* were accepted, each once, and a task begins only when no earlier one is *)
(* running, except those that have overrun their time.  An open line       *)
(* accepts; a closed one serves what it holds; a cleared one begins        *)
(* nothing more.                                                           *)
(***************************************************************************)
EXTENDS Sequences

CONSTANTS Tasks, Lines

VARIABLES
    gate,      \* Lines -> state
    waiting,   \* Lines -> accepted tasks that have not begun, in order
    home,      \* Tasks -> the line that accepted it
    phase      \* Tasks -> how far it is

vars == <<gate, waiting, home, phase>>

Init ==
    /\ gate = [l \in Lines |-> "none"]
    /\ waiting = [l \in Lines |-> <<>>]
    /\ home \in [Tasks -> Lines]
    /\ phase = [t \in Tasks |-> "new"]

Running(l) == {t \in Tasks : home[t] = l /\ phase[t] = "running"}

Accept(l, t) ==
    /\ gate[l] \in {"none", "open"}
    /\ phase[t] = "new"
    /\ home[t] = l
    /\ gate' = [gate EXCEPT ![l] = "open"]
    /\ waiting' = [waiting EXCEPT ![l] = Append(@, t)]
    /\ phase' = [phase EXCEPT ![t] = "waiting"]
    /\ UNCHANGED home

Begin(l) ==
    /\ gate[l] \in {"open", "closed"}
    /\ waiting[l] # <<>>
    /\ Running(l) = {}
    /\ phase[Head(waiting[l])] = "waiting"
    /\ waiting' = [waiting EXCEPT ![l] = Tail(@)]
    /\ phase' = [phase EXCEPT ![Head(waiting[l])] = "running"]
    /\ UNCHANGED <<gate, home>>

Overrun(t) ==
    /\ phase[t] = "running"
    /\ phase' = [phase EXCEPT ![t] = "late"]
    /\ UNCHANGED <<gate, waiting, home>>

End(t) ==
    /\ phase[t] \in {"running", "late"}
    /\ phase' = [phase EXCEPT ![t] = "done"]
    /\ UNCHANGED <<gate, waiting, home>>

Close(l) ==
    /\ gate[l] = "open"
    /\ gate' = [gate EXCEPT ![l] = "closed"]
    /\ UNCHANGED <<waiting, home, phase>>

\* A line is cleared by force, or once it is closed and empty.
Clear(l) ==
    /\ \/ gate[l] = "open"
       \/ gate[l] = "closed" /\ waiting[l] = <<>>
    /\ gate' = [gate EXCEPT ![l] = "cleared"]
    /\ UNCHANGED <<waiting, home, phase>>

Next ==
    \/ \E l \in Lines : Begin(l) \/ Close(l) \/ Clear(l) \/ \E t \in Tasks : Accept(l, t)
    \/ \E t \in Tasks : Overrun(t) \/ End(t)

Spec == Init /\ [][Next]_vars
=============================================================================
