----------------------------- MODULE RoleLedger -----------------------------
(***************************************************************************)
(* What a setup of the guild's roles promises: each setup asks Discord for *)
(* one role at a time and for each role once, puts it under one heading    *)
(* when the answer is there, and leaves it there; it reports when every    *)
(* role is under a heading, once, and does nothing more.                   *)
(*                                                                         *)
(* There is no code for this module: RoleSetup is shown to implement it.   *)
(***************************************************************************)
CONSTANTS Setups, Names

VARIABLES
  place,               \* place[s][n]: where setup s has role n
  reported             \* reported[s]: setup s has sent its report

vars == <<place, reported>>

Headings == {"created", "existing", "failed"}
Places == {"new", "queued", "asked"} \cup Headings

Init ==
  /\ place = [s \in Setups |-> [n \in Names |-> "new"]]
  /\ reported = [s \in Setups |-> FALSE]

In(s, p) == {n \in Names : place[s][n] = p}

Arrange(s, f) == place' = [place EXCEPT ![s] = f]

Report(s) == ~ reported[s] /\ reported' = [reported EXCEPT ![s] = TRUE]

\* A setup keeps some of the roles, and asks for one of the others if there are any.
Begin(s) ==
  /\ In(s, "new") = Names
  /\ \E kept \in SUBSET Names :
       \/ kept = Names /\ Arrange(s, [n \in Names |-> "existing"]) /\ Report(s)
       \/ \E m \in Names \ kept :
            /\ Arrange(s, [n \in Names |-> IF n \in kept THEN "existing"
                                           ELSE IF n = m THEN "asked" ELSE "queued"])
            /\ UNCHANGED reported

\* Nothing is asked for while an answer is outstanding.
Ask(s, n) ==
  /\ In(s, "new") \cup In(s, "asked") = {}
  /\ place[s][n] = "queued" /\ Arrange(s, [place[s] EXCEPT ![n] = "asked"])
  /\ UNCHANGED reported

Settle(s, n) ==
  /\ place[s][n] = "asked"
  /\ \E h \in Headings : Arrange(s, [place[s] EXCEPT ![n] = h])
  /\ UNCHANGED reported

Finish(s) ==
  /\ \A n \in Names : place[s][n] \in Headings
  /\ Report(s) /\ UNCHANGED place

Next ==
  \E s \in Setups :
    \/ Begin(s) \/ Finish(s)
    \/ \E n \in Names : Ask(s, n) \/ Settle(s, n)

Spec == Init /\ [][Next]_vars
==============================================================================
