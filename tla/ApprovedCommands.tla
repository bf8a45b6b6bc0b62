-------------------------- MODULE ApprovedCommands --------------------------
(***************************************************************************)
(* What the administration of the server over Discord promises: a request  *)
(* is carried out at most once, and never again after it was dismissed or  *)
(* forgotten; what only a confirmed request may change, the world, changes *)
(* only in a step that carries out a request that was waiting for its      *)
(* confirmation, and that step writes it down too; a restart forgets every *)
(* request that waits; the log is only added to.                           *)
(*                                                                         *)
(* There is no code for this module: Admin is shown to implement it.       *)
(***************************************************************************)
EXTENDS Naturals

CONSTANT Requests      \* the requests that may ever be made

VARIABLES
  stage,               \* stage[r]: where request r stands
  log,                 \* the requests the audit log tells of
  world,               \* what confirmed requests change
  boots                \* how many times the server has been restarted

vars == <<stage, log, world, boots>>

Stages == {"unmade", "waiting", "done", "dismissed"}

\* Any world may be the first.
Init ==
  /\ stage = [r \in Requests |-> "unmade"]
  /\ log = {} /\ boots = 0

Move(r, from, to) == stage[r] = from /\ stage' = [stage EXCEPT ![r] = to]

WriteDown(r) == log' = log \cup {r}

\* A request that needs a confirmation.
Ask(r) == Move(r, "unmade", "waiting") /\ UNCHANGED <<log, world, boots>>

\* One that needs none.
ExecuteAtOnce(r) ==
  /\ Move(r, "unmade", "done")
  /\ WriteDown(r) \/ UNCHANGED log
  /\ UNCHANGED <<world, boots>>

\* The world may become anything.
Execute(r) ==
  /\ Move(r, "waiting", "done")
  /\ WriteDown(r) \/ UNCHANGED <<log, world>>
  /\ UNCHANGED boots

Dismiss(r) == Move(r, "waiting", "dismissed") /\ UNCHANGED <<log, world, boots>>

Restart ==
  /\ boots' = boots + 1
  /\ stage' = [r \in Requests |-> IF stage[r] = "waiting" THEN "dismissed" ELSE stage[r]]
  /\ UNCHANGED <<log, world>>

Next ==
  \/ Restart
  \/ \E r \in Requests : Ask(r) \/ ExecuteAtOnce(r) \/ Execute(r) \/ Dismiss(r)

Spec == Init /\ [][Next]_vars
==============================================================================
