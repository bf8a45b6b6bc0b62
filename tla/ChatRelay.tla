------------------------------ MODULE ChatRelay ------------------------------
(***************************************************************************)
(* What the way from the game to Discord promises to the players: what is  *)
(* said waits and is then posted once or lost; of the messages said for    *)
(* one channel under one configuration, none is posted before an earlier   *)
(* one that still waits, unless Discord's rate limit delayed the earlier   *)
(* one; a loss concerns one channel, except that a restart loses whatever  *)
(* waits.                                                                  *)
(*                                                                         *)
(* There is no code for this module: ChatBridge is shown to implement it.  *)
(***************************************************************************)
EXTENDS Naturals, Sequences

CONSTANTS
  Channels,
  Epochs,              \* the configurations the server has in turn
  MaxMessages          \* bound: messages ever said

VARIABLES
  said,                \* the messages said, with their channel and epoch
  waiting,             \* those neither posted nor lost
  delayed,             \* those Discord's rate limit has delayed
  posted               \* what Discord has accepted, in order

vars == <<said, waiting, delayed, posted>>

Init == said = <<>> /\ waiting = {} /\ delayed = {} /\ posted = <<>>

WaitingFor(c) == {w \in waiting : said[w].chan = c}

\* A new message may push out one that waits for the same channel.
Say(c, e) ==
  /\ Len(said) < MaxMessages
  /\ said' = Append(said, [chan |-> c, epoch |-> e])
  /\ \/ waiting' = waiting \cup {Len(said) + 1}
     \/ \E w \in WaitingFor(c) : waiting' = (waiting \ {w}) \cup {Len(said) + 1}
  /\ UNCHANGED <<delayed, posted>>

\* Only once for each message.
Delay(m) ==
  /\ m \notin delayed
  /\ delayed' = delayed \cup {m}
  /\ UNCHANGED <<said, waiting, posted>>

Post(m) ==
  /\ \A w \in waiting \ {m} : said[w] = said[m] => m < w \/ w \in delayed
  /\ posted' = Append(posted, m)
  /\ waiting' = waiting \ {m}
  /\ UNCHANGED <<said, delayed>>

Lose(lost) ==
  /\ waiting' = waiting \ lost
  /\ UNCHANGED <<said, delayed, posted>>

Next ==
  \/ \E c \in Channels, e \in Epochs : Say(c, e)
  \/ \E m \in waiting : Delay(m) \/ Post(m)
  \/ \E c \in Channels : \E lost \in SUBSET WaitingFor(c) : Lose(lost)
  \/ Lose(waiting)

Spec == Init /\ [][Next]_vars
==============================================================================
