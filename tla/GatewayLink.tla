----------------------------- MODULE GatewayLink -----------------------------
(***************************************************************************)
(* What DiscordMgr relies on of the gateway: connections are made one      *)
(* after the other, each with a writer of its own that has ended before    *)
(* the next attempt; the bot counts as connected from READY to the end of  *)
(* the connection that brought it; once Stop has been called no attempt    *)
(* begins any more, and when it returns everything is over.                *)
(*                                                                         *)
(* There is no code for this module: Gateway is shown to implement it.     *)
(***************************************************************************)
EXTENDS Naturals

VARIABLES
  link,                \* "idle", "dialing", "open" or "over"
  writer,              \* whether a writer lives
  up,                  \* whether the bot counts as connected
  made,                \* how many connections there have been
  told,                \* how many READYs DiscordMgr has been told of
  asked                \* Stop: "no", "asked" or "returned"

vars == <<link, writer, up, made, told, asked>>

Init ==
  /\ link = "idle" /\ writer = FALSE /\ up = FALSE
  /\ made = 0 /\ told = 0 /\ asked = "no"

BeginDial ==
  /\ link = "idle" /\ ~writer /\ asked = "no"
  /\ link' = "dialing"
  /\ UNCHANGED <<writer, up, made, told, asked>>

Establish ==
  /\ link = "dialing" /\ link' = "open"
  /\ writer' = TRUE /\ made' = made + 1
  /\ UNCHANGED <<up, told, asked>>

Fail ==
  /\ link = "dialing" /\ link' = "idle"
  /\ UNCHANGED <<writer, up, made, told, asked>>

Ready ==
  /\ link = "open"
  /\ up' = TRUE /\ told' = told + 1
  /\ UNCHANGED <<link, writer, made, asked>>

WriterEnds ==
  /\ writer /\ writer' = FALSE
  /\ UNCHANGED <<link, up, made, told, asked>>

End ==
  /\ link = "open" /\ link' = "idle"
  /\ up' = FALSE
  /\ UNCHANGED <<writer, made, told, asked>>

Ask ==
  /\ asked = "no" /\ asked' = "asked"
  /\ UNCHANGED <<link, writer, up, made, told>>

Finish ==
  /\ link = "idle" /\ ~writer /\ asked = "asked"
  /\ link' = "over"
  /\ UNCHANGED <<writer, up, made, told, asked>>

Return ==
  /\ link = "over" /\ asked = "asked"
  /\ asked' = "returned"
  /\ UNCHANGED <<link, writer, up, made, told>>

Next ==
  \/ BeginDial \/ Establish \/ Fail \/ Ready \/ WriterEnds \/ End
  \/ Ask \/ Finish \/ Return

Spec == Init /\ [][Next]_vars
==============================================================================
