---- MODULE SymbolTable ----
(* What a symbol set promises its users: a set of names to which names are
   added and from which they are removed, one by one or all of one type, and a
   file that holds what the set held when it was written. *)
CONSTANTS Name, Kind, None
VARIABLES names, file
vars == <<names, file>>

Init == names = {} /\ file = None

Become(N) == names' = N /\ UNCHANGED file
Add(n) == Become(names \cup {n})
Remove(n) == n \in names /\ Become(names \ {n})
RemoveType(k) == Become({n \in names : Kind[n] # k})
Wipe == Become({})
Write == file' = names /\ UNCHANGED names
\* A reader may fail in the middle of the file.
Read == file # None /\ \E N \in SUBSET file : Become(names \cup N)

Next == \/ \E n \in Name : Add(n) \/ Remove(n) \/ RemoveType(Kind[n])
        \/ Wipe \/ Write \/ Read

Spec == Init /\ [][Next]_vars
====
