----------------------------- MODULE RestChannel -----------------------------
(***************************************************************************)
(* What the REST side of the module promises to the components that use    *)
(* it (ChatBridge, Admin, ServerStatus, EmojiManager, DiscordMgr): a       *)
(* request handed to DiscordClient is answered on the game thread at most  *)
(* once, or settled without an answer, in no particular order, and nothing *)
(* at all is answered once the channel has been closed by Shutdown.        *)
(*                                                                         *)
(* There is no code for this module: NetWorker is shown to implement it.   *)
(***************************************************************************)
EXTENDS Naturals

CONSTANT Calls         \* the requests that may ever be made

VARIABLES
  chan,                \* chan[c]: where request c stands
  open                 \* FALSE once Shutdown has joined the worker

vars == <<chan, open>>

States == {"idle", "pending", "answered", "settled"}

TypeOK == chan \in [Calls -> States] /\ open \in BOOLEAN

Init == chan = [c \in Calls |-> "idle"] /\ open = TRUE

Move(c, from, to) ==
  /\ open
  /\ chan[c] = from
  /\ chan' = [chan EXCEPT ![c] = to]

Submit(c) == Move(c, "idle", "pending")

Answer(c) == Move(c, "pending", "answered")

\* A request without a callback is done, or a rate-limited one is given up.
Settle(c) == Move(c, "pending", "settled")

Close == open /\ open' = FALSE /\ UNCHANGED chan

Step(c) == (Submit(c) \/ Answer(c) \/ Settle(c)) /\ UNCHANGED open

Next == Close \/ \E c \in Calls : Step(c)

Spec == Init /\ [][Next]_vars

Fairness ==
  \A c \in Calls : WF_vars((Answer(c) \/ Settle(c)) /\ UNCHANGED open)

FairSpec == Spec /\ Fairness
==============================================================================
