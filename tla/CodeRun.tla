------------------------------ MODULE CodeRun ------------------------------
(***************************************************************************)
(* Runs of the open-ended code task against one code Worker: the           *)
(* Coordinator's turns (code_tasks/coordinator.py, trace_hooks.py) and the *)
(* tool calls of CodePlannerContext.invoke_tool (context.py), composed     *)
(* with the Worker's handlers (CodeWorkspace).  A run resets the Worker,   *)
(* then a turn of the model issues tool calls, which run concurrently, and *)
(* the next turn starts when all of them have returned or raised.  One run *)
(* follows the other, on one Worker.                                       *)
(*                                                                         *)
(* A request that its client gave up is received all the same, and its     *)
(* handler goes on.  The texts the model sees are left out, and so is the  *)
(* trace but for the artifacts it names.                                   *)
(***************************************************************************)
EXTENDS CodeWorkspace

CONSTANTS Tools,     \* the kinds of calls the model issues
          Parallel,  \* how many calls of a turn the model issues at most
          Budget,    \* max_exploration_calls
          Faults     \* a subset of {"timeout", "reject"}

ASSUME RunAssumption ==
  /\ Tools \subseteq Kinds \ {"reset", "none"}
  /\ Parallel \in Nat \ {0}
  /\ Budget \in Nat

VARIABLES phase,      \* of the Coordinator
          mine,       \* the calls of the current run
          pc,         \* where each call is, seen from the client
          label,      \* the repository version each call was given as input
          version,    \* _repository_version
          explored,   \* _exploration_calls
          submitted,  \* submitted_patch
          pending,    \* calls whose observation no model call has taken yet
          fed,        \* how many model calls took the observation of each call
          serial      \* so far in the run: one call at a time, none given up

contextVars == <<version, explored, submitted, pending>>
clientVars == <<mine, pc, label>>
historyVars == <<fed, serial>>
vars == <<requestVars, serverVars, phase, clientVars, contextVars, historyVars>>

Exploring == {"search", "read"}
Settled == {"idle", "returned", "raised"}

Init ==
  /\ InitServer
  /\ phase = "over"
  /\ mine = {}
  /\ pc = [c \in Calls |-> "idle"]
  /\ label = [c \in Calls |-> 0]
  /\ version = 0
  /\ explored = 0
  /\ submitted = Nothing
  /\ pending = {}
  /\ fed = [c \in Calls |-> 0]
  /\ serial = TRUE

Goto(c, l) == pc' = [pc EXCEPT ![c] = l]
Idle == {c \in Calls : pc[c] = "idle"}

\* Calls have nothing of their own before they are issued: which one is taken
\* does not matter.
NewCall == CHOOSE c \in Idle : TRUE

\* Call c is about some files, which the caller of a change believes to be as
\* they are now.
Prepare(c, k) ==
  /\ kind' = [kind EXCEPT ![c] = k]
  /\ \E files \in Scopes(k) : scope' = [scope EXCEPT ![c] = files]
  /\ basis' = [basis EXCEPT ![c] = IF k \in Changing THEN tree ELSE Base]
-----------------------------------------------------------------------------
(* The run: run_code_benchmark, the Coordinator and its hooks.             *)

\* A run starts with a reset of the Worker.
StartRun ==
  /\ phase = "over" /\ Idle # {}
  /\ LET c == NewCall IN
       /\ Prepare(c, "reset")
       /\ Arrive(c, "reset", Files)
       /\ Goto(c, "sent")
       /\ mine' = {c}
  /\ phase' = "resetting"
  /\ UNCHANGED <<label, contextVars, historyVars>>

\* The Worker is clean: a new context.
CleanStart ==
  /\ phase = "resetting"
  /\ \E c \in mine : job[c] = "done" /\ Goto(c, "returned")
  /\ phase' = "model"
  /\ version' = 0
  /\ explored' = 0
  /\ submitted' = Nothing
  /\ pending' = {}
  /\ serial' = TRUE
  /\ UNCHANGED <<requestVars, serverVars, mine, label, fed>>

\* The reset takes too long, and the run ends before it has begun.
NoStart ==
  /\ "timeout" \in Faults
  /\ phase = "resetting"
  /\ \E c \in mine : Goto(c, "raised")
  /\ phase' = "over"
  /\ UNCHANGED <<requestVars, serverVars, mine, label, contextVars, historyVars>>

\* A turn of the model issues some calls, in an order.
IssueCall ==
  /\ phase \in {"model", "issue"} /\ Idle # {}
  /\ Cardinality({c \in mine : pc[c] = "called"}) < Parallel
  /\ \E k \in Tools : Prepare(NewCall, k)
  /\ Goto(NewCall, "called")
  /\ mine' = mine \cup {NewCall}
  /\ phase' = "issue"
  /\ serial' = (serial /\ phase = "model")
  /\ UNCHANGED <<serverVars, label, contextVars, fed>>

RunTools ==
  /\ phase = "issue"
  /\ phase' = "tools"
  /\ UNCHANGED <<requestVars, serverVars, clientVars, contextVars, historyVars>>

\* Bug: the observations are read but not cleared.
NextTurnBug ==
  /\ phase = "tools"
  /\ \A c \in mine : pc[c] \in Settled
  /\ fed' = [c \in Calls |-> IF c \in pending THEN fed[c] + 1 ELSE fed[c]]
  /\ phase' = "model"
  /\ UNCHANGED <<requestVars, serverVars, clientVars, contextVars, serial>>

\* on_llm_start takes the observations there are.
NextTurn ==
  /\ phase = "tools"
  /\ \A c \in mine : pc[c] \in Settled
  /\ fed' = [c \in Calls |-> IF c \in pending THEN fed[c] + 1 ELSE fed[c]]
  /\ pending' = {}
  /\ phase' = "model"
  /\ UNCHANGED <<requestVars, serverVars, clientVars, version, explored, submitted, serial>>

\* A final text, or an exception: what was submitted becomes model.patch.  At
\* the limit of turns the run ends with its last tool calls, whose observations
\* no model call takes.
EndRun ==
  /\ phase = "model" \/ (phase = "tools" /\ \A c \in mine : pc[c] \in Settled)
  /\ phase' = "over"
  /\ UNCHANGED <<requestVars, serverVars, clientVars, contextVars, historyVars>>
-----------------------------------------------------------------------------
(* invoke_tool.                                                            *)

\* The call is given the current version, and its two start events recorded.
Announce(c) ==
  /\ phase = "tools" /\ pc[c] = "called"
  /\ label' = [label EXCEPT ![c] = version]
  /\ Goto(c, "recorded")
  /\ UNCHANGED <<requestVars, serverVars, phase, mine, contextVars, historyVars>>

\* Searches and reads are counted; one too many is answered here.
Spends(c) == kind[c] \in Exploring

\* Bug: the check before the increment.
ExhaustedBug == explored > Budget

Exhausted == explored + 1 > Budget

Exhaust(c) ==
  /\ pc[c] = "recorded" /\ Spends(c) /\ Exhausted
  /\ explored' = explored + 1
  /\ pending' = pending \cup {c}
  /\ Goto(c, "returned")
  /\ UNCHANGED <<requestVars, serverVars, phase, mine, label, version, submitted, historyVars>>

Send(c) ==
  /\ pc[c] = "recorded" /\ ~(Spends(c) /\ Exhausted)
  /\ explored' = IF Spends(c) THEN explored + 1 ELSE explored
  /\ Arrive(c, kind[c], scope[c])
  /\ Goto(c, "sent")
  /\ UNCHANGED <<requestVars, phase, mine, label, version, submitted, pending, historyVars>>

\* The Worker refuses the request itself, a path for instance, with an error
\* status, and invoke_tool raises.
Reject(c) ==
  /\ "reject" \in Faults
  /\ pc[c] = "recorded" /\ ~(Spends(c) /\ Exhausted)
  /\ explored' = IF Spends(c) THEN explored + 1 ELSE explored
  /\ Goto(c, "raised")
  /\ UNCHANGED <<requestVars, serverVars, phase, mine, label, version, submitted,
                 pending, historyVars>>

Succeeded(c) == job[c] = "done" /\ (kind[c] = "submit" => IsPatch(got[c]))

\* Bug: apply_patch does not make a version of the repository.
ReceiveBug(c) ==
  /\ phase = "tools" /\ pc[c] = "sent" /\ job[c] \in Answered
  /\ submitted' = IF kind[c] = "submit" /\ Succeeded(c) THEN got[c] ELSE submitted
  /\ version' = IF kind[c] = "edit" /\ Succeeded(c) THEN version + 1 ELSE version
  /\ pending' = pending \cup {c}
  /\ Goto(c, "returned")
  /\ UNCHANGED <<requestVars, serverVars, phase, mine, label, explored, historyVars>>

Receive(c) ==
  /\ phase = "tools" /\ pc[c] = "sent" /\ job[c] \in Answered
  /\ submitted' = IF kind[c] = "submit" /\ Succeeded(c) THEN got[c] ELSE submitted
  /\ version' = IF kind[c] \in Changing /\ Succeeded(c) THEN version + 1 ELSE version
  /\ pending' = pending \cup {c}
  /\ Goto(c, "returned")
  /\ UNCHANGED <<requestVars, serverVars, phase, mine, label, explored, historyVars>>

\* Bug: a test run is awaited for as long as it takes.
GiveUpBug(c) ==
  /\ "timeout" \in Faults
  /\ phase = "tools" /\ pc[c] = "sent" /\ kind[c] # "test"
  /\ Goto(c, "raised")
  /\ serial' = FALSE
  /\ UNCHANGED <<requestVars, serverVars, phase, mine, label, contextVars, fed>>

\* The client's timeout: invoke_tool raises, and the model reads an error.
GiveUp(c) ==
  /\ "timeout" \in Faults
  /\ phase = "tools" /\ pc[c] = "sent"
  /\ Goto(c, "raised")
  /\ serial' = FALSE
  /\ UNCHANGED <<requestVars, serverVars, phase, mine, label, contextVars, fed>>

InvokeTool(c) ==
  Announce(c) \/ Exhaust(c) \/ Send(c) \/ Reject(c) \/ Receive(c) \/ GiveUp(c)

Serve(c) ==
  /\ Handler(c)
  /\ UNCHANGED <<requestVars, phase, clientVars, contextVars, historyVars>>

Coordinate ==
  StartRun \/ CleanStart \/ NoStart \/ IssueCall \/ RunTools \/ NextTurn \/ EndRun

Next == Coordinate \/ \E c \in Calls : InvokeTool(c) \/ Serve(c)

Spec == Init /\ [][Next]_vars

\* The tests of the repository run under the lock, and without a limit of time.
Testing(c) == kind[c] = "test" /\ job[c] = "scan"

\* The event loops run what is ready, a client waits no longer than its timeout,
\* and git ends; nothing makes a test run end.
FairSpec ==
  /\ Spec
  /\ WF_vars(CleanStart \/ NoStart)
  /\ \A c \in Calls : WF_vars(InvokeTool(c)) /\ WF_vars(~Testing(c) /\ Serve(c))
-----------------------------------------------------------------------------
(* Properties.                                                             *)

TypeOK ==
  /\ ServerTypeOK
  /\ phase \in {"over", "resetting", "model", "issue", "tools"}
  /\ mine \subseteq Calls
  /\ pc \in [Calls -> Settled \cup {"called", "recorded", "sent"}]
  /\ label \in [Calls -> Nat]
  /\ version \in Nat /\ explored \in Nat
  /\ submitted # Nothing => DOMAIN submitted = Tracked /\ IsPatch(submitted)
  /\ pending \subseteq Calls
  /\ fed \in [Calls -> Nat]
  /\ serial \in BOOLEAN

\* A run starts from the base commit, whatever an earlier run left or has
\* still queued at the Worker: what is in the tree is the run's own.
FreshStart ==
  phase \in {"model", "issue", "tools"} =>
    \A f \in Files : tree[f] = Base[f] \/ tree[f] \in mine

\* No more searches and reads reach the Worker in a run than its budget, even
\* when the calls of a turn race for the last ones.
BudgetHeld ==
  phase # "over" =>
    Cardinality({c \in mine : kind[c] \in Exploring /\ job[c] # "none"}) <= Budget

\* Every tool result is an input of one model call, the one that follows, if the
\* limit of turns lets one follow.
ObservationsFedOnce ==
  \A c \in Calls :
    /\ fed[c] <= 1
    /\ phase = "model" /\ c \in mine /\ pc[c] = "returned" /\ kind[c] # "reset"
         => fed[c] = 1

\* Two calls of a run with the same repository version as input worked on the
\* same contents.  This needs calls one at a time and none given up.
LabelsNameContents ==
  phase # "over" /\ serial =>
    \A c, d \in {e \in mine : kind[e] \in {"test", "search", "submit"} /\ job[e] = "done"} :
      label[c] = label[d] =>
        \A f \in scope[c] \cap scope[d] : got[c][f] = got[d][f]

\* The submission, which is to be "the current non-empty Git diff", holds all of
\* a patch or nothing of it.
WholePatches ==
  \A c \in Calls :
    kind[c] = "patch" /\ (\E f \in DOMAIN submitted : submitted[f] = c) =>
      \A f \in scope[c] \cap Tracked : submitted[f] # "base"

\* While nothing writes, what a submission hands in is what differs from the
\* base commit: "call submit_patch exactly once after the repository contains
\* your final solution".
SubmitsSolution ==
  [][submitted' # submitted /\ submitted' # Nothing =>
       \A f \in Files : tree[f] # Base[f] =>
         f \in DOMAIN submitted' /\ submitted'[f] = tree[f]]_vars

\* Every request that waits for the lock is answered, even one whose client has
\* given up, unless a test run hangs: no path through a handler keeps the lock.
HandlersAnswer ==
  \/ \A c \in Calls : job[c] = "queued" ~> job[c] \in Answered
  \/ <>[](\E c \in Calls : Testing(c))

\* A test run that hangs, and with it the Worker, does not hang the run: the
\* reset, and all the calls of a turn, come back to their callers.
CallsReturn ==
  phase \in {"resetting", "tools"} ~> \A c \in mine : pc[c] \in Settled
=============================================================================
