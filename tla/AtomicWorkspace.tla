-------------------------- MODULE AtomicWorkspace --------------------------
(***************************************************************************)
(* What a code Worker promises of the operations it serialises: a change   *)
(* of the working tree happens all at once, and a search or a test run     *)
(* sees the tree as it was at one moment, between changes.                 *)
(***************************************************************************)
CONSTANTS Calls, Files, Base, Nothing

VARIABLES asked,  \* the files a call is about, {} before it is issued
          tree,   \* the content of each file
          seen    \* what a search or a test run saw

vars == <<asked, tree, seen>>

Init ==
  /\ asked = [c \in Calls |-> {}]
  /\ DOMAIN tree = Files
  /\ seen = [c \in Calls |-> Nothing]

\* Calls are issued, several at a time.
Ask ==
  /\ asked' \in [Calls -> SUBSET Files]
  /\ \A c \in Calls : asked[c] # {} => asked'[c] = asked[c]
  /\ UNCHANGED <<tree, seen>>

Change(c) ==
  /\ asked[c] # {}
  /\ tree' = [f \in Files |-> IF f \in asked[c] THEN c ELSE tree[f]]
  /\ UNCHANGED <<asked, seen>>

Restore ==
  /\ tree' = Base
  /\ UNCHANGED <<asked, seen>>

Observe(c) ==
  /\ asked[c] # {}
  /\ seen[c] = Nothing
  /\ seen' = [seen EXCEPT ![c] = [f \in asked[c] |-> tree[f]]]
  /\ UNCHANGED <<asked, tree>>

Next == Ask \/ Restore \/ \E c \in Calls : Change(c) \/ Observe(c)

Spec == Init /\ [][Next]_vars
=============================================================================
