----------------------------- MODULE PropertyMap -----------------------------
(* What properties of objects promise: each is a variable of its own.  A     *)
(* step writes one property of one object, or an object comes or goes with   *)
(* all of its properties.                                                     *)
CONSTANTS Objects, Properties, Unset

VARIABLE value  \* value[o][p]: the value of property p of object o, or Unset

Init == value = [o \in Objects |-> [p \in Properties |-> Unset]]

Write(o, p) ==
    /\ value'[o][p] # Unset
    /\ \A q \in Properties \ {p} : value'[o][q] = value[o][q]
    /\ \A b \in Objects \ {o} : value'[b] = value[b]

\* A new object has the values its construct properties got.
Create(o) ==
    /\ value[o] = [p \in Properties |-> Unset]
    /\ \A b \in Objects \ {o} : value'[b] = value[b]

\* Objects are finalized, several at the end of a request.
Destroy ==
    \A o \in Objects : value'[o] \in {value[o], [p \in Properties |-> Unset]}

Next ==
    /\ DOMAIN value' = Objects
    /\ \A o \in Objects : DOMAIN value'[o] = Properties
    /\ \/ \E o \in Objects, p \in Properties : Write(o, p)
       \/ \E o \in Objects : Create(o)
       \/ Destroy

Spec == Init /\ [][Next]_value
=============================================================================
