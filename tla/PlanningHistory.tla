-------------------------- MODULE PlanningHistory --------------------------
(***************************************************************************)
(* What the planning ledger promises: one history of completed             *)
(* invocations, of which the trace and the replies to the planner show     *)
(* prefixes, the trace longer and longer ones.                             *)
(***************************************************************************)
EXTENDS Naturals, Sequences

CONSTANT Calls          \* tool calls of the planner

VARIABLES history,      \* the calls completed, in order
          published,    \* the states the trace shows, in order
          told          \* told[c]: the state the reply to call c carries, or {}

vars == <<history, published, told>>

Prefix(n) == {history[i] : i \in 1..n}
Prefixes == {Prefix(n) : n \in 1..Len(history)}

Init ==
  /\ history = <<>>
  /\ published = <<>>
  /\ told = [c \in Calls |-> {}]

\* An invocation completes, once.
Complete(c) ==
  /\ c \notin Prefix(Len(history))
  /\ history' = Append(history, c)
  /\ UNCHANGED <<published, told>>

\* The trace shows a state that includes the last one it has shown.
Publish(state) ==
  /\ state \in Prefixes
  /\ \A i \in 1..Len(published) :
        published[i] \subseteq state /\ published[i] # state
  /\ published' = Append(published, state)
  /\ UNCHANGED <<history, told>>

\* A reply carries the state as of its own invocation's completion, after
\* the trace has shown it.
Tell(c) ==
  /\ told[c] = {}
  /\ \E n \in 1..Len(history) :
        /\ history[n] = c
        /\ \E i \in 1..Len(published) : published[i] = Prefix(n)
        /\ told' = [told EXCEPT ![c] = Prefix(n)]
  /\ UNCHANGED <<history, published>>

Next ==
  \/ \E c \in Calls : Complete(c) \/ Tell(c)
  \/ \E state \in Prefixes : Publish(state)

Spec == Init /\ [][Next]_vars
=============================================================================
