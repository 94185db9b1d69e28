------------------------------- MODULE KeyMap -------------------------------
(***************************************************************************)
(* What the hash table of the program promises: a map from keys to values  *)
(* and the answer of the last call.                                        *)
(***************************************************************************)
EXTENDS Integers, FiniteSets

CONSTANTS Keys,    \* the names under which values are stored
          Values,  \* the values, integers
          None     \* the answer when a key has no value

VARIABLES map,     \* the value of each key, or None
          answer   \* what the last call has returned

vars == <<map, answer>>

Init == map = [k \in Keys |-> None] /\ answer = 0

\* A write says whether the key is new.
Write(k, v) ==
  /\ map' = [map EXCEPT ![k] = v]
  /\ answer' = IF map[k] = None THEN 1 ELSE 0

\* An increment answers with the new value; an absent key starts from the
\* increment.
Increment(k, v) ==
  /\ map' = [map EXCEPT ![k] = v]
  /\ answer' = v

\* A removal says whether the key was there.
Remove(k) ==
  /\ map' = [map EXCEPT ![k] = None]
  /\ answer' = IF map[k] = None THEN 0 ELSE 1

Read(k) == answer' = map[k] /\ UNCHANGED map

\* The keys that have a value.
Known == {k \in Keys : map[k] # None}

Count == answer' = Cardinality(Known) /\ UNCHANGED map

Next ==
  \/ \E k \in Keys, v \in Values : Write(k, v) \/ Increment(k, v)
  \/ \E k \in Keys : Remove(k) \/ Read(k)
  \/ Count

Spec == Init /\ [][Next]_vars

=============================================================================
