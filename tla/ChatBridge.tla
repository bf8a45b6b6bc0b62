------------------------------ MODULE ChatBridge ------------------------------
(***************************************************************************)
(* DiscordChatBridge's way from the game to Discord, with its fast-path    *)
(* sender, DiscordQuickSender.                                             *)
(*                                                                         *)
(* The game thread captures what players say, keeps it back while a        *)
(* channel has no webhook, asks the REST worker (RestChannel) to create    *)
(* one, and gives the messages to the sender; the sender's own thread      *)
(* posts them, retrying each one once after a 429.  Discord, the clock, a  *)
(* reload of the configuration and a restart of the server interleave.     *)
(*                                                                         *)
(* Messages are numbered in the order in which they are captured.          *)
(***************************************************************************)
EXTENDS Naturals, Sequences, FiniteSets, Functions

CONSTANTS
  Players,
  Muted,               \* the players who cannot speak
  Texts,
  Blocked,             \* the texts the chat filter leaves nothing of
  Channels,            \* the Discord channels chat is relayed to
  ChannelOf,           \* the channel of each player's faction
  RelayDirect,         \* Discord.GlobalChat.RelayDirectGameMessages
  DedupWindow,         \* 3 seconds in the code
  RetryWindow,         \* 60 seconds in the code
  PendingCap,          \* 20 in the code
  Replies,             \* how Discord may answer a webhook's creation
  MaxMessages,         \* bound: messages ever captured
  MaxTime,             \* bound: seconds of uptime
  MaxReloads,          \* bound: reloads of the configuration
  MaxStarts            \* bound: how often the server starts

ASSUME ChatBridgeAssumption ==
  /\ Muted \subseteq Players /\ Blocked \subseteq Texts
  /\ ChannelOf \in [Players -> Channels]
  /\ RelayDirect \in BOOLEAN
  /\ {DedupWindow, RetryWindow, MaxMessages, MaxTime, MaxReloads} \subseteq Nat
  /\ PendingCap \in Nat \ {0} /\ MaxStarts \in Nat \ {0}
  /\ Replies \subseteq {"created", "refused", "garbage", "dropped"}

Messages == 1 .. MaxMessages
None     == 0          \* the sender holds no message
Never    == MaxTime + 1

VARIABLES
  now,                 \* GameTime::GetUptime, in seconds
  useWebhooks,         \* Discord.GlobalChat.UseWebhooks
  configured,          \* the channels with a webhook in the configuration
  recent,              \* recentRelays_: when a player last said a text
  optIn,               \* globalChatEnabled_: the players with `.chat on`
  autoUrls,            \* autoWebhookUrls_: the channels with a created one
  attempt,             \* webhookAttemptTime_
  pending,             \* pendingWebhookMessages_
  creating,            \* how many creations the REST worker has under way
  replies,             \* the creations' replies, posted to the game thread
  quick,               \* DiscordQuickSender::queue_
  retried,             \* the messages whose `retried` flag is set
  sending,             \* the message the sender is posting, or None
  captured,            \* history: the messages captured, with their channel
                       \*   and the configuration they were captured under
  posted,              \* history: the messages Discord has accepted
  denied,              \* history: the channels for which a creation has not
                       \*   yielded a webhook since the server started
  reloads, starts      \* history: reloads and starts so far

confVars == <<useWebhooks, configured, reloads>>
gameVars == <<recent, optIn, autoUrls, attempt, pending, captured>>
restVars == <<creating, replies, denied>>
sendVars == <<quick, retried, sending, posted>>
vars == <<now, starts, confVars, gameVars, restVars, sendVars>>

-----------------------------------------------------------------------------
Init ==
  /\ now = 0 /\ reloads = 0 /\ starts = 1
  /\ useWebhooks \in BOOLEAN /\ configured \in SUBSET Channels
  /\ recent = [u \in Players \X Texts |-> Never]
  /\ optIn = {} /\ autoUrls = {}
  /\ attempt = [c \in Channels |-> Never]
  /\ pending = [c \in Channels |-> <<>>]
  /\ creating = [c \in Channels |-> 0] /\ replies = <<>>
  /\ quick = <<>> /\ retried = {} /\ sending = None
  /\ captured = <<>> /\ posted = <<>> /\ denied = {}

\* `now` less than d seconds after t.
Within(t, d) == t # Never /\ now - t < d

(***************************************************************************)
(* Faulty variants.  None is part of the specification: each is a mistake  *)
(* the code could plausibly contain, and substituting it for the operator  *)
(* named after the colon breaks the property that guards against it.       *)
(***************************************************************************)

\* FlushPendingWebhookMessages: the list is emptied from its end.
FlushBackwards(c) ==
  /\ quick' = quick \o [i \in DOMAIN pending[c] |->
                          pending[c][Len(pending[c]) + 1 - i]]
  /\ pending' = [pending EXCEPT ![c] = <<>>]

\* FlushPendingWebhookMessages: only one message is taken out.
FlushOne(c) ==
  IF pending[c] = <<>> THEN UNCHANGED <<quick, pending>>
  ELSE /\ quick' = Append(quick, Head(pending[c]))
       /\ pending' = [pending EXCEPT ![c] = Tail(@)]

\* DiscordQuickSender::Run: a message is queued again with its flag left
\* unset, so that it can be retried for ever.
RateLimitedUnmarked ==
  /\ sending # None
  /\ quick' = Append(quick, sending)
  /\ sending' = None
  /\ UNCHANGED <<now, starts, confVars, gameVars, restVars, retried, posted>>

\* EnsureWebhook: the attempt is noted, and the request is made the next time.
EnsureSecondTime(c) ==
  IF Within(attempt[c], RetryWindow) THEN
    creating' = [creating EXCEPT ![c] = 1] /\ UNCHANGED attempt
  ELSE attempt' = [attempt EXCEPT ![c] = now] /\ UNCHANGED creating

-----------------------------------------------------------------------------
\* Capturing what players say (the game thread).

\* ResolveWebhookUrl is not empty.
HasWebhook(c) == c \in configured \cup autoUrls

EnsureWebhook(c) ==
  IF c \in autoUrls \/ Within(attempt[c], RetryWindow)
  THEN UNCHANGED <<attempt, creating>>
  ELSE /\ attempt' = [attempt EXCEPT ![c] = now]
       /\ creating' = [creating EXCEPT ![c] = @ + 1]

QueuePendingWebhookMessage(c, m) ==
  pending' = [pending EXCEPT ![c] =
    Append(IF Len(@) >= PendingCap THEN Tail(@) ELSE @, m)]

FlushPendingWebhookMessages(c) ==
  /\ quick' = quick \o pending[c]
  /\ pending' = [pending EXCEPT ![c] = <<>>]

\* Whether it goes through a webhook or, for an application emoji or without
\* webhooks, as the bot: a message for a channel is handed to the sender.
SendToChannel(m) == quick' = Append(quick, m)

\* What is left of RelayToDiscord once the filter has let the message pass.
Capture(c) ==
  LET m == Len(captured) + 1 IN
  /\ m <= MaxMessages
  /\ captured' = Append(captured, [chan |-> c, epoch |-> reloads])
  /\ IF useWebhooks /\ ~HasWebhook(c)
     THEN /\ EnsureWebhook(c)
          /\ QueuePendingWebhookMessage(c, m)
          /\ UNCHANGED quick
     ELSE SendToChannel(m) /\ UNCHANGED <<attempt, creating, pending>>

RelayToDiscord(p, t) ==
  /\ IF Within(recent[<<p, t>>], DedupWindow) THEN UNCHANGED recent
     ELSE recent' = [recent EXCEPT ![<<p, t>>] = now]
  /\ IF Within(recent[<<p, t>>], DedupWindow) \/ t \in Blocked
     THEN UNCHANGED <<captured, attempt, creating, pending, quick>>
     ELSE Capture(ChannelOf[p])

Spoken ==
  UNCHANGED <<now, starts, confVars, optIn, autoUrls, replies,
              denied, retried, sending, posted>>

\* `.chat hello`, if the player has said `.chat on`.
HandleGameCommand(p, t) ==
  RelayDirect /\ p \in optIn /\ p \notin Muted /\ RelayToDiscord(p, t) /\ Spoken

\* A message in the game's own chat channel.
HandleChannelChat(p, t) ==
  RelayDirect /\ p \notin Muted /\ RelayToDiscord(p, t) /\ Spoken

\* `.discord say`: whether the player is muted is not asked.
HandleDiscordSay(p, t) == RelayDirect /\ RelayToDiscord(p, t) /\ Spoken

\* `.chat on` and `.chat off`.
SetGlobalChatEnabled(p, enabled) ==
  /\ RelayDirect
  /\ optIn' = IF enabled THEN optIn \cup {p} ELSE optIn \ {p}
  /\ UNCHANGED <<now, starts, confVars, recent, autoUrls, attempt, pending,
                 captured, restVars, sendVars>>

-----------------------------------------------------------------------------
\* Creating a webhook.

\* The worker has an answer and posts it: the new webhook, an error, something
\* that is not JSON (the connection failed, perhaps after Discord had done it),
\* or none, when the request was rate-limited twice.
WebhookAnswered(c, reply) ==
  /\ creating[c] > 0
  /\ creating' = [creating EXCEPT ![c] = @ - 1]
  /\ replies' = IF reply = "dropped" THEN replies
                ELSE Append(replies, [chan |-> c, reply |-> reply])
  /\ denied' = IF reply = "created" THEN denied ELSE denied \cup {c}
  /\ UNCHANGED <<now, starts, confVars, gameVars, sendVars>>

\* The callback of CreateChannelWebhook, on the game thread.
HandleReply ==
  /\ replies # <<>>
  /\ replies' = Tail(replies)
  /\ LET c == Head(replies).chan  reply == Head(replies).reply IN
     \/ /\ reply = "created"
        /\ autoUrls' = autoUrls \cup {c}
        /\ FlushPendingWebhookMessages(c)
     \/ /\ reply = "refused"
        /\ pending' = [pending EXCEPT ![c] = <<>>]
        /\ UNCHANGED <<autoUrls, quick>>
     \/ /\ reply = "garbage"
        /\ UNCHANGED <<autoUrls, pending, quick>>
  /\ UNCHANGED <<now, starts, confVars, recent, optIn, attempt, captured,
                 creating, denied, retried, sending, posted>>

-----------------------------------------------------------------------------
\* DiscordQuickSender::Run.

Pop ==
  /\ sending = None
  /\ quick # <<>>
  /\ sending' = Head(quick)
  /\ quick' = Tail(quick)
  /\ UNCHANGED <<now, starts, confVars, gameVars, restVars, retried, posted>>

\* Discord has accepted the message, or it has not and the message is given up.
Sent(accepted) ==
  /\ sending # None
  /\ posted' = IF accepted THEN Append(posted, sending) ELSE posted
  /\ sending' = None
  /\ UNCHANGED <<now, starts, confVars, gameVars, restVars, quick, retried>>

\* A first 429: back to the end of the queue, after the back-off.
RateLimited ==
  /\ sending # None
  /\ sending \notin retried
  /\ retried' = retried \cup {sending}
  /\ quick' = Append(quick, sending)
  /\ sending' = None
  /\ UNCHANGED <<now, starts, confVars, gameVars, restVars, posted>>

-----------------------------------------------------------------------------
\* The world around it.

Tick ==
  /\ now < MaxTime
  /\ now' = now + 1
  /\ UNCHANGED <<starts, confVars, gameVars, restVars, sendVars>>

\* ReloadConfig reads the new configuration; the bridge is told nothing.
ReloadConfig ==
  /\ reloads < MaxReloads
  /\ reloads' = reloads + 1
  /\ useWebhooks' \in BOOLEAN
  /\ configured' \in SUBSET Channels
  /\ UNCHANGED <<now, starts, gameVars, restVars, sendVars>>

\* The server stops (the sender is joined between two messages) and starts:
\* everything the module kept in memory is gone.
Restart ==
  /\ starts < MaxStarts
  /\ sending = None
  /\ starts' = starts + 1
  /\ now' = 0
  /\ recent' = [u \in Players \X Texts |-> Never]
  /\ optIn' = {} /\ autoUrls' = {}
  /\ attempt' = [c \in Channels |-> Never]
  /\ pending' = [c \in Channels |-> <<>>]
  /\ creating' = [c \in Channels |-> 0] /\ replies' = <<>>
  /\ quick' = <<>> /\ denied' = {}
  /\ UNCHANGED <<confVars, captured, retried, sending, posted>>

Speak ==
  \E p \in Players, t \in Texts :
    HandleGameCommand(p, t) \/ HandleChannelChat(p, t) \/ HandleDiscordSay(p, t)

Answered == \E c \in Channels, reply \in Replies : WebhookAnswered(c, reply)

Next ==
  \/ Speak
  \/ \E p \in Players, enabled \in BOOLEAN : SetGlobalChatEnabled(p, enabled)
  \/ Answered \/ HandleReply
  \/ Pop \/ RateLimited \/ \E accepted \in BOOLEAN : Sent(accepted)
  \/ Tick \/ ReloadConfig \/ Restart

Spec == Init /\ [][Next]_vars

\* The REST worker answers and the game thread runs its tasks.  Nobody has to
\* speak again.
FairSpec == Spec /\ WF_vars(Answered) /\ WF_vars(HandleReply)

-----------------------------------------------------------------------------
(***************************************************************************)
(* Every variable keeps its type; a channel never holds back more than     *)
(* PendingCap messages (QueuePendingWebhookMessage drops the oldest).      *)
(***************************************************************************)
TypeOK ==
  /\ now \in 0 .. MaxTime /\ reloads \in 0 .. MaxReloads
  /\ starts \in 1 .. MaxStarts
  /\ useWebhooks \in BOOLEAN /\ configured \subseteq Channels
  /\ recent \in [Players \X Texts -> 0 .. Never]
  /\ optIn \subseteq Players /\ autoUrls \subseteq Channels
  /\ attempt \in [Channels -> 0 .. Never]
  /\ pending \in [Channels -> Seq(Messages)]
  /\ \A c \in Channels : Len(pending[c]) <= PendingCap
  /\ creating \in [Channels -> Nat]
  /\ replies \in Seq([chan: Channels, reply: Replies])
  /\ quick \in Seq(Messages) /\ sending \in Messages \cup {None}
  /\ retried \subseteq Messages /\ posted \in Seq(Messages)
  /\ captured \in Seq([chan: Channels, epoch: 0 .. MaxReloads])
  /\ denied \subseteq Channels

\* A message is held back only for a channel without a webhook, while one is being
\* created, by whichever of several attempts, or after Discord has failed to create one:
\* nothing else would ever set it free.
HeldBackIsDue ==
  \A c \in Channels :
    pending[c] # <<>> =>
      /\ c \notin autoUrls
      /\ \/ c \in denied \/ creating[c] > 0
         \/ [chan |-> c, reply |-> "created"] \in Range(replies)

(***************************************************************************)
(* No message is posted twice: not by being flushed again when a second    *)
(* creation is answered, not by being retried after Discord took it.       *)
(***************************************************************************)
PostedAtMostOnce == IsInjective(posted)

(***************************************************************************)
(* Messages captured for one channel under one configuration appear in the *)
(* order in which they were said, held back or not, except that one which  *)
(* was rate-limited can be overtaken.                                      *)
(***************************************************************************)
OrderKept ==
  \A i, j \in DOMAIN posted :
    (i < j /\ captured[posted[i]] = captured[posted[j]])
      => posted[i] < posted[j] \/ posted[j] \in retried

\* Unless Discord has failed to create a webhook for the channel, no message is
\* held back for ever, even if nobody speaks again.
WaitingIsFlushed ==
  \A c \in Channels : pending[c] # <<>> ~> pending[c] = <<>> \/ c \in denied

\* "Queued chat message for channel {} while webhook is being created": a
\* message is held back only as long as an answer will come for its channel.
QueuedWhileCreating ==
  \A c \in Channels :
    pending[c] # <<>> =>
      creating[c] > 0 \/ \E r \in Range(replies) : r.chan = c

-----------------------------------------------------------------------------
\* The messages under way: held back, queued, or being sent.
Waiting ==
  {m \in Messages : \/ m = sending \/ m \in Range(quick)
                    \/ \E c \in Channels : m \in Range(pending[c])}

Relay == INSTANCE ChatRelay WITH
  Epochs <- 0 .. MaxReloads, said <- captured, waiting <- Waiting, delayed <- retried

(***************************************************************************)
(* The bridge and its sender keep the relay's promise: whatever is held    *)
(* back, flushed, retried, refused, reloaded or restarted, a message under *)
(* way is posted once and in its turn or lost, and a loss never reaches    *)
(* over to another channel unless the server restarts.                     *)
(***************************************************************************)
ImplementsChatRelay == Relay!Spec
==============================================================================
