------------------------------ MODULE Directory ------------------------------
(***************************************************************************)
(* What a shared directory of server infos promises: an operation looks at *)
(* the directory once during its call and stores at most once what it      *)
(* makes of it, which differs in the files it names and in no others.      *)
(* Unless the directory is contended, what it stores is made of the        *)
(* directory as it is then: looking and storing are one step to others.    *)
(***************************************************************************)
CONSTANTS Ops, Names, Infos, None

VARIABLES
    files,      \* Names -> the registered info or None
    stage,      \* Ops -> how far an operation is
    names,      \* Ops -> the files it names
    info,       \* Ops -> what it writes, None to remove
    base,       \* Ops -> the directory it looked at
    contended   \* operations are at work side by side (not restricted here)

vars == <<files, stage, names, info, base>>

Empty == [n \in Names |-> None]

\* What w makes of a directory.
Result(w, dir) == [n \in Names |-> IF n \in names[w] THEN info[w] ELSE dir[n]]

Init ==
    /\ files = Empty
    /\ stage = [w \in Ops |-> "idle"]
    /\ names = [w \in Ops |-> {}]
    /\ info = [w \in Ops |-> None]
    /\ base = [w \in Ops |-> Empty]

Call(w) ==
    /\ stage[w] = "idle"
    /\ stage' = [stage EXCEPT ![w] = "called"]
    /\ \E S \in SUBSET Names, i \in Infos \cup {None} :
           /\ names' = [names EXCEPT ![w] = S]
           /\ info' = [info EXCEPT ![w] = i]
    /\ UNCHANGED <<files, base>>

\* An empty directory is cleared away once more.
Settle(w, dir) ==
    stage' = [stage EXCEPT ![w] = IF dir = Empty THEN "clearing" ELSE "applied"]

Look(w) ==
    /\ stage[w] = "called"
    /\ stage' = [stage EXCEPT ![w] = "looking"]
    /\ base' = [base EXCEPT ![w] = files]
    /\ UNCHANGED <<files, names, info>>

\* There is nothing to change.
Skip(w) ==
    /\ stage[w] = "called"
    /\ Result(w, files) = files
    /\ Settle(w, files)
    /\ base' = [base EXCEPT ![w] = files]
    /\ UNCHANGED <<files, names, info>>

Apply(w) ==
    /\ stage[w] = "looking"
    /\ ~contended => base[w] = files
    /\ files' = Result(w, base[w])
    /\ Settle(w, files')
    /\ UNCHANGED <<names, info, base>>

\* Clearing an empty directory changes nothing, unless it is contended.
Clear(w) ==
    /\ stage[w] = "clearing"
    /\ ~contended => files = Empty
    /\ files' = Empty
    /\ stage' = [stage EXCEPT ![w] = "applied"]
    /\ UNCHANGED <<names, info, base>>

Return(w) ==
    /\ stage[w] = "applied"
    /\ stage' = [stage EXCEPT ![w] = "over"]
    /\ UNCHANGED <<files, names, info, base>>

\* A process dies with its operations.
Die ==
    /\ \E W \in SUBSET {w \in Ops : stage[w] # "over"} :
           stage' = [w \in Ops |-> IF w \in W THEN "over" ELSE stage[w]]
    /\ UNCHANGED <<files, names, info, base>>

Next ==
    \/ Die
    \/ \E w \in Ops : Call(w) \/ Look(w) \/ Skip(w) \/ Apply(w) \/ Clear(w) \/ Return(w)

Spec == Init /\ [][Next]_vars
=============================================================================
