-------------------------- MODULE ChatBridgeProofs --------------------------
(***************************************************************************)
(* Proofs about the way from the game to Discord, for any players,         *)
(* channels, texts and bounds: no message is posted twice, and messages    *)
(* keep their order.                                                       *)
(*                                                                         *)
(* All messages under way stand in one line: posted, being sent, in the    *)
(* sender's queue, held back.  Follows(a, b) says that b is behind a in    *)
(* it; every action keeps that order, drops a message, or sends it to the  *)
(* end of the sender's queue with its `retried` flag set.                  *)
(***************************************************************************)
EXTENDS ChatBridge, TLAPS

In(s, a) == \E i \in DOMAIN s : s[i] = a

Ahead(s, a, b) == \E i, j \in DOMAIN s : i < j /\ s[i] = a /\ s[j] = b

Held(a) == \E c \in Channels : In(pending[c], a)

Follows(a, b) ==
  \/ Ahead(posted, a, b)
  \/ In(posted, a) /\ (b = sending \/ In(quick, b) \/ Held(b))
  \/ a = sending /\ (In(quick, b) \/ Held(b))
  \/ Ahead(quick, a, b)
  \/ In(quick, a) /\ Held(b)
  \/ \E c \in Channels : Ahead(pending[c], a, b)

UnderWay(a) == In(posted, a) \/ a = sending \/ In(quick, a) \/ Held(a)

Lined ==
  \A a, b \in Messages : Follows(a, b) =>
    a # b /\ (captured[a] = captured[b] => a < b \/ b \in retried)

\* Whatever is under way has been captured, and not under a later configuration.
Known ==
  /\ \A a \in Messages : UnderWay(a) => a <= Len(captured)
  /\ \A i \in DOMAIN captured : captured[i].epoch <= reloads

\* A message is held back for its channel, and one of the current configuration only
\* where that configuration has no webhook.
Tagged ==
  \A c \in Channels, a \in Messages : In(pending[c], a) =>
    /\ captured[a].chan = c
    /\ captured[a].epoch = reloads => useWebhooks /\ c \notin configured

\* Once a webhook has been created for a channel, nothing is held back for it.
NothingHeldBackBehindAWebhook ==
  \A c \in autoUrls : pending[c] = <<>>

\* The inductive invariant.
IInv == TypeOK /\ NothingHeldBackBehindAWebhook /\ Lined /\ Known /\ Tagged

-----------------------------------------------------------------------------
(***************************************************************************)
(* Sequences of messages.                                                  *)
(***************************************************************************)

LEMMA EmptyFacts ==
  \A a, b : ~In(<<>>, a) /\ ~Ahead(<<>>, a, b)
  BY DEF In, Ahead

LEMMA AppendFacts ==
  ASSUME NEW s \in Seq(Messages), NEW x \in Messages
  PROVE  /\ Append(s, x) \in Seq(Messages)
         /\ \A a : In(Append(s, x), a) <=> In(s, a) \/ a = x
         /\ \A a, b : Ahead(Append(s, x), a, b) <=> Ahead(s, a, b) \/ (In(s, a) /\ b = x)
<1> DEFINE t == Append(s, x)
<1>1. /\ DOMAIN t = 1 .. Len(s) + 1 /\ DOMAIN s = 1 .. Len(s) /\ Len(s) \in Nat
      /\ \A i \in DOMAIN s : t[i] = s[i]
      /\ t[Len(s) + 1] = x /\ t \in Seq(Messages)
  OBVIOUS
<1> HIDE DEF t
<1>2. \A i : i \in DOMAIN t <=> i \in DOMAIN s \/ i = Len(s) + 1
  BY <1>1
<1>3. \A i, j \in DOMAIN t : i < j => i \in DOMAIN s
  BY <1>1
<1>4. \A i \in DOMAIN s : i < Len(s) + 1
  BY <1>1
<1>5. ASSUME NEW a PROVE In(t, a) <=> In(s, a) \/ a = x
  BY <1>1, <1>2 DEF In
<1>6. ASSUME NEW a, NEW b PROVE Ahead(t, a, b) <=> Ahead(s, a, b) \/ (In(s, a) /\ b = x)
  BY <1>1, <1>2, <1>3, <1>4 DEF In, Ahead
<1> QED
  BY <1>1, <1>5, <1>6 DEF t

LEMMA TailFacts ==
  ASSUME NEW s \in Seq(Messages), s # <<>>
  PROVE  /\ Head(s) \in Messages /\ Tail(s) \in Seq(Messages)
         /\ \A a : In(s, a) <=> a = Head(s) \/ In(Tail(s), a)
         /\ \A a, b : Ahead(s, a, b) <=>
                        Ahead(Tail(s), a, b) \/ (a = Head(s) /\ In(Tail(s), b))
<1> DEFINE t == Tail(s)
<1>1. /\ Head(s) \in Messages /\ t \in Seq(Messages) /\ Head(s) = s[1]
      /\ DOMAIN s = 1 .. Len(s) /\ Len(s) \in Nat \ {0} /\ DOMAIN t = 1 .. Len(s) - 1
      /\ \A i \in DOMAIN t : t[i] = s[i + 1]
  OBVIOUS
<1> HIDE DEF t
<1>2. /\ \A i \in DOMAIN t : i + 1 \in DOMAIN s /\ 1 < i + 1
      /\ \A i \in DOMAIN s : i = 1 \/ (i - 1 \in DOMAIN t /\ s[i] = t[i - 1])
      /\ 1 \in DOMAIN s
  BY <1>1
<1>3. /\ \A i, j \in DOMAIN t : i < j => i + 1 < j + 1
      /\ \A i, j \in DOMAIN s : i < j => j # 1 /\ i - 1 < j - 1
  BY <1>1
<1>5. ASSUME NEW a PROVE In(s, a) <=> a = Head(s) \/ In(t, a)
  BY <1>1, <1>2 DEF In
<1>6. ASSUME NEW a, NEW b, Ahead(s, a, b) PROVE Ahead(t, a, b) \/ (a = Head(s) /\ In(t, b))
  <2>1. PICK i, j \in DOMAIN s : i < j /\ s[i] = a /\ s[j] = b
    BY <1>6 DEF Ahead
  <2>2. j - 1 \in DOMAIN t /\ t[j - 1] = b
    BY <1>2, <1>3, <2>1
  <2>3. CASE i = 1
    BY <1>1, <2>1, <2>2, <2>3 DEF In
  <2>4. CASE i # 1
    BY <1>2, <1>3, <2>1, <2>2, <2>4 DEF Ahead
  <2> QED
    BY <2>3, <2>4
<1>7. ASSUME NEW a, NEW b, Ahead(t, a, b) \/ (a = Head(s) /\ In(t, b)) PROVE Ahead(s, a, b)
  BY <1>1, <1>2, <1>3, <1>7, SMTT(20) DEF In, Ahead
<1> QED
  BY <1>1, <1>5, <1>6, <1>7 DEF t

LEMMA ConcatFacts ==
  ASSUME NEW s \in Seq(Messages), NEW t \in Seq(Messages)
  PROVE  /\ s \o t \in Seq(Messages)
         /\ \A a : In(s \o t, a) <=> In(s, a) \/ In(t, a)
         /\ \A a, b : Ahead(s \o t, a, b) =>
                        Ahead(s, a, b) \/ Ahead(t, a, b) \/ (In(s, a) /\ In(t, b))
<1> DEFINE u == s \o t
           n == Len(s)
<1>1. /\ u \in Seq(Messages) /\ DOMAIN u = 1 .. n + Len(t)
      /\ DOMAIN s = 1 .. n /\ DOMAIN t = 1 .. Len(t) /\ n \in Nat /\ Len(t) \in Nat
      /\ \A i \in DOMAIN s : u[i] = s[i]
      /\ \A i \in DOMAIN t : u[n + i] = t[i]
  OBVIOUS
<1> HIDE DEF u, n
<1>2. /\ \A i \in DOMAIN u : i \in DOMAIN s \/ (i - n \in DOMAIN t /\ n + (i - n) = i)
      /\ \A i \in DOMAIN s : i \in DOMAIN u
      /\ \A i \in DOMAIN t : n + i \in DOMAIN u
  BY <1>1
<1>3. \A i \in DOMAIN u : \/ i \in DOMAIN s /\ u[i] = s[i]
                          \/ i - n \in DOMAIN t /\ u[i] = t[i - n]
  <2> TAKE i \in DOMAIN u
  <2>1. CASE i \in DOMAIN s
    <3>1. u[i] = s[i]
      BY <1>1, <2>1
    <3> QED
      BY <2>1, <3>1, Zenon
  <2>2. CASE i \notin DOMAIN s
    <3>1. i - n \in DOMAIN t /\ n + (i - n) = i
      BY <1>2, <2>2
    <3>2. u[n + (i - n)] = t[i - n]
      BY <1>1, <3>1
    <3> QED
      BY <3>1, <3>2
  <2> QED
    BY <2>1, <2>2
<1>4. \A i, j \in DOMAIN u : i < j /\ j \in DOMAIN s => i \in DOMAIN s
  BY <1>1
<1>5. ASSUME NEW a PROVE In(u, a) <=> In(s, a) \/ In(t, a)
  BY <1>1, <1>2, <1>3 DEF In
<1>6. ASSUME NEW a, NEW b, Ahead(u, a, b)
      PROVE  Ahead(s, a, b) \/ Ahead(t, a, b) \/ (In(s, a) /\ In(t, b))
  <2>1. PICK i, j \in DOMAIN u : i < j /\ u[i] = a /\ u[j] = b
    BY <1>6 DEF Ahead
  <2>2. CASE j \in DOMAIN s
    BY <1>1, <1>4, <2>1, <2>2 DEF Ahead
  <2>3. CASE j \notin DOMAIN s /\ i \in DOMAIN s
    BY <1>1, <1>3, <2>1, <2>3 DEF In
  <2>4. CASE j \notin DOMAIN s /\ i \notin DOMAIN s
    <3>1. i - n \in DOMAIN t /\ t[i - n] = a /\ j - n \in DOMAIN t /\ t[j - n] = b
      BY <1>3, <2>1, <2>4
    <3>2. i - n < j - n
      <4>1. i \in Nat /\ j \in Nat /\ n \in Nat /\ i < j
        BY <1>1, <2>1
      <4>2. \A x, y, z \in Nat : x < y => x - z < y - z
        OBVIOUS
      <4> QED
        BY <4>1, <4>2
    <3> QED
      BY <3>1, <3>2 DEF Ahead
  <2> QED
    BY <2>2, <2>3, <2>4
<1> QED
  BY <1>1, <1>5, <1>6 DEF u

-----------------------------------------------------------------------------
(***************************************************************************)
(* Types.                                                                  *)
(***************************************************************************)

Captures  == [chan: Channels, epoch: 0 .. MaxReloads]
Creations == [chan: Channels, reply: Replies]

LEMMA InitType == Init => TypeOK
  BY ChatBridgeAssumption DEF Init, TypeOK, None, Never

\* What Capture does to the variables it touches.
LEMMA CaptureType ==
  ASSUME TypeOK, NEW c \in Channels, Capture(c)
  PROVE  /\ captured' \in Seq(Captures) /\ attempt' \in [Channels -> 0 .. Never]
         /\ creating' \in [Channels -> Nat] /\ quick' \in Seq(Messages)
         /\ pending' \in [Channels -> Seq(Messages)]
         /\ \A d \in Channels : Len(pending'[d]) <= PendingCap
         /\ Len(captured) + 1 \in Messages
<1> DEFINE m == Len(captured) + 1
<1>1. captured \in Seq(Captures) /\ pending \in [Channels -> Seq(Messages)]
      /\ \A d \in Channels : Len(pending[d]) <= PendingCap
  BY DEF TypeOK, Captures
<1>2. m \in Messages
  BY <1>1, ChatBridgeAssumption DEF Capture, Messages
<1>3. captured' \in Seq(Captures)
  <2>1. [chan |-> c, epoch |-> reloads] \in Captures
    BY DEF TypeOK, Captures
  <2> QED
    BY <1>1, <2>1 DEF Capture
<1>4. CASE UNCHANGED <<attempt, creating, pending>> /\ quick' = Append(quick, m)
  BY <1>2, <1>3, <1>4 DEF TypeOK
<1>5. CASE EnsureWebhook(c) /\ QueuePendingWebhookMessage(c, m) /\ UNCHANGED quick
  <2>1. attempt' \in [Channels -> 0 .. Never] /\ creating' \in [Channels -> Nat]
    <3>1. now \in 0 .. Never
      BY ChatBridgeAssumption DEF TypeOK, Never
    <3>2. CASE UNCHANGED <<attempt, creating>>
      BY <3>2 DEF TypeOK
    <3>3. CASE /\ attempt' = [attempt EXCEPT ![c] = now]
               /\ creating' = [creating EXCEPT ![c] = @ + 1]
      BY <3>1, <3>3 DEF TypeOK
    <3> QED
      BY <1>5, <3>2, <3>3 DEF EnsureWebhook
  <2> DEFINE s == pending[c]
             t == IF Len(s) >= PendingCap THEN Tail(s) ELSE s
  <2>2. s \in Seq(Messages) /\ Len(s) <= PendingCap /\ PendingCap \in Nat \ {0}
    BY <1>1, ChatBridgeAssumption
  <2>3. Append(t, m) \in Seq(Messages) /\ Len(Append(t, m)) <= PendingCap
    <3> HIDE DEF m, s
    <3>1. CASE Len(s) >= PendingCap
      BY <1>2, <2>2, <3>1
    <3>2. CASE ~(Len(s) >= PendingCap)
      BY <1>2, <2>2, <3>2
    <3> QED
      BY <3>1, <3>2
  <2>4. pending' = [pending EXCEPT ![c] = Append(t, m)]
    BY <1>5 DEF QueuePendingWebhookMessage
  <2> HIDE DEF t, s, m
  <2>5. pending' \in [Channels -> Seq(Messages)]
        /\ \A d \in Channels : Len(pending'[d]) <= PendingCap
    BY <1>1, <2>3, <2>4
  <2> QED
    BY <1>2, <1>3, <1>5, <2>1, <2>5 DEF TypeOK, m
<1> QED
  BY <1>4, <1>5 DEF Capture, SendToChannel

LEMMA RelayType ==
  ASSUME TypeOK, NEW p \in Players, NEW t \in Texts, RelayToDiscord(p, t), Spoken
  PROVE  TypeOK'
<1>1. recent' \in [Players \X Texts -> 0 .. Never]
  <2>1. now \in 0 .. Never
    BY ChatBridgeAssumption DEF TypeOK, Never
  <2> QED
    BY <2>1 DEF TypeOK, RelayToDiscord
<1>2. CASE UNCHANGED <<captured, attempt, creating, pending, quick>>
  BY <1>1, <1>2 DEF TypeOK, Spoken, confVars
<1>3. CASE Capture(ChannelOf[p])
  <2>1. ChannelOf[p] \in Channels
    BY ChatBridgeAssumption
  <2> QED
    BY <1>1, <1>3, <2>1, CaptureType DEF TypeOK, Spoken, confVars, Captures
<1> QED
  BY <1>2, <1>3 DEF RelayToDiscord

LEMMA ReplyType ==
  ASSUME TypeOK, HandleReply
  PROVE  TypeOK'
<1> DEFINE c == Head(replies).chan
<1>1. /\ replies' \in Seq([chan: Channels, reply: Replies]) /\ c \in Channels
  <2>1. /\ replies \in Seq(Creations) /\ replies # <<>> /\ replies' = Tail(replies)
    BY DEF TypeOK, HandleReply, Creations
  <2>2. Head(replies) \in Creations /\ replies' \in Seq(Creations)
    BY <2>1
  <2> QED
    BY <2>2 DEF Creations
<1>2. autoUrls' \subseteq Channels
  BY <1>1 DEF TypeOK, HandleReply
<1>3. /\ pending' \in [Channels -> Seq(Messages)]
      /\ \A d \in Channels : Len(pending'[d]) <= PendingCap
      /\ quick' \in Seq(Messages)
  <2>1. pending \in [Channels -> Seq(Messages)] /\ quick \in Seq(Messages)
        /\ \A d \in Channels : Len(pending[d]) <= PendingCap
    BY DEF TypeOK
  <2>2. <<>> \in Seq(Messages) /\ Len(<<>>) <= PendingCap
    BY ChatBridgeAssumption
  <2>3. \/ pending' = pending \/ pending' = [pending EXCEPT ![c] = <<>>]
    BY DEF HandleReply, FlushPendingWebhookMessages
  <2>4. quick' = quick \/ quick' = quick \o pending[c]
    BY DEF HandleReply, FlushPendingWebhookMessages
  <2> HIDE DEF c
  <2>5. pending' \in [Channels -> Seq(Messages)]
        /\ \A d \in Channels : Len(pending'[d]) <= PendingCap
    BY <1>1, <2>1, <2>2, <2>3
  <2>6. quick' \in Seq(Messages)
    <3>1. pending[c] \in Seq(Messages)
      BY <1>1, <2>1
    <3> QED
      BY <2>1, <2>4, <3>1, ConcatFacts
  <2> QED
    BY <2>5, <2>6
<1> QED
  BY <1>1, <1>2, <1>3 DEF TypeOK, HandleReply, confVars

LEMMA NextType == TypeOK /\ [Next]_vars => TypeOK'
<1> SUFFICES ASSUME TypeOK, [Next]_vars PROVE TypeOK'
  OBVIOUS
<1>1. CASE Speak
  <2>1. PICK p \in Players, t \in Texts : RelayToDiscord(p, t) /\ Spoken
    BY <1>1 DEF Speak, HandleGameCommand, HandleChannelChat, HandleDiscordSay
  <2> QED
    BY <2>1, RelayType
<1>2. ASSUME NEW p \in Players, NEW enabled \in BOOLEAN, SetGlobalChatEnabled(p, enabled)
      PROVE  TypeOK'
  BY <1>2 DEF TypeOK, SetGlobalChatEnabled, confVars, restVars, sendVars
<1>3. ASSUME NEW c \in Channels, NEW reply \in Replies, WebhookAnswered(c, reply)
      PROVE  TypeOK'
  <2>1. creating' \in [Channels -> Nat] /\ denied' \subseteq Channels
    BY <1>3 DEF TypeOK, WebhookAnswered
  <2>2. replies' \in Seq([chan: Channels, reply: Replies])
    <3> DEFINE r == [chan |-> c, reply |-> reply]
    <3>1. r \in Creations
      BY DEF Creations
    <3>2. replies \in Seq(Creations) /\ (replies' = replies \/ replies' = Append(replies, r))
      BY <1>3 DEF TypeOK, WebhookAnswered, Creations
    <3> HIDE DEF r
    <3>3. replies' \in Seq(Creations)
      BY <3>1, <3>2
    <3> QED
      BY <3>3 DEF Creations
  <2> QED
    BY <1>3, <2>1, <2>2 DEF TypeOK, WebhookAnswered, confVars, gameVars, sendVars
<1>4. CASE HandleReply
  BY <1>4, ReplyType
<1>5. CASE Pop
  BY <1>5, TailFacts DEF TypeOK, Pop, confVars, gameVars, restVars
<1>6. CASE RateLimited
  <2>1. sending \in Messages
    BY <1>6 DEF TypeOK, RateLimited
  <2>2. quick' \in Seq(Messages)
    BY <1>6, <2>1, AppendFacts DEF TypeOK, RateLimited
  <2> QED
    BY <1>6, <2>1, <2>2 DEF TypeOK, RateLimited, confVars, gameVars, restVars
<1>7. ASSUME NEW accepted \in BOOLEAN, Sent(accepted) PROVE TypeOK'
  <2>1. sending \in Messages
    BY <1>7 DEF TypeOK, Sent
  <2>2. posted' \in Seq(Messages)
    BY <1>7, <2>1, AppendFacts DEF TypeOK, Sent
  <2> QED
    BY <1>7, <2>2 DEF TypeOK, Sent, confVars, gameVars, restVars
<1>8. CASE Tick
  BY <1>8, ChatBridgeAssumption DEF TypeOK, Tick, confVars, gameVars, restVars, sendVars
<1>9. CASE ReloadConfig
  BY <1>9, ChatBridgeAssumption DEF TypeOK, ReloadConfig, gameVars, restVars, sendVars
<1>10. CASE Restart
  <2>1. starts' \in 1 .. MaxStarts /\ now' \in 0 .. MaxTime
    BY <1>10, ChatBridgeAssumption DEF TypeOK, Restart
  <2>2. recent' \in [Players \X Texts -> 0 .. Never] /\ attempt' \in [Channels -> 0 .. Never]
    BY <1>10, ChatBridgeAssumption DEF Restart, Never
  <2>3. pending' \in [Channels -> Seq(Messages)]
        /\ \A d \in Channels : Len(pending'[d]) <= PendingCap
    BY <1>10, ChatBridgeAssumption DEF Restart
  <2> QED
    BY <1>10, <2>1, <2>2, <2>3 DEF TypeOK, Restart, confVars
<1>11. CASE UNCHANGED vars
  BY <1>11 DEF TypeOK, vars, confVars, gameVars, restVars, sendVars
<1> QED
  BY <1>1, <1>2, <1>3, <1>4, <1>5, <1>6, <1>7, <1>8, <1>9, <1>10, <1>11
     DEF Next, Answered

-----------------------------------------------------------------------------
(***************************************************************************)
(* The line of messages.                                                   *)
(***************************************************************************)

line == <<captured, pending, quick, sending, posted, retried>>

LEMMA Types ==
  ASSUME TypeOK
  PROVE  /\ posted \in Seq(Messages) /\ quick \in Seq(Messages)
         /\ pending \in [Channels -> Seq(Messages)] /\ captured \in Seq(Captures)
         /\ sending \in Messages \cup {None} /\ reloads \in Nat /\ None \notin Messages
  BY ChatBridgeAssumption DEF TypeOK, Captures, None, Messages

LEMMA SameLine ==
  ASSUME IInv, TypeOK', UNCHANGED <<line, confVars, autoUrls>>
  PROVE  IInv'
<1>1. \A a, b : Follows(a, b)' = Follows(a, b)
  BY DEF line, Follows, Held, In, Ahead
<1>2. \A a : UnderWay(a)' = UnderWay(a)
  BY DEF line, UnderWay, Held, In
<1> QED
  BY <1>1, <1>2 DEF line, confVars, IInv, NothingHeldBackBehindAWebhook, Lined, Known,
                    Tagged, In

LEMMA ReloadStep ==
  ASSUME IInv, TypeOK', ReloadConfig
  PROVE  IInv'
<1>1. /\ UNCHANGED <<line, autoUrls>> /\ reloads' = reloads + 1 /\ reloads \in Nat
  BY Types DEF IInv, ReloadConfig, gameVars, sendVars, line
<1>2. /\ \A a, b : Follows(a, b)' = Follows(a, b)
      /\ \A a : UnderWay(a)' = UnderWay(a)
      /\ \A c, a : In(pending[c], a)' = In(pending[c], a)
  BY <1>1 DEF line, Follows, Held, In, Ahead, UnderWay
<1>3. \A i \in DOMAIN captured : captured[i].epoch \in Nat
  <2>1. captured \in Seq(Captures)
    BY Types DEF IInv
  <2>2. \A i \in DOMAIN captured : captured[i] \in Captures
    BY <2>1
  <2> QED
    BY <2>2 DEF Captures
<1>4. \A i \in DOMAIN captured : captured[i].epoch <= reloads'
                                  /\ captured[i].epoch # reloads'
  BY <1>1, <1>3 DEF IInv, Known
<1>5. Lined' /\ Known' /\ NothingHeldBackBehindAWebhook'
  BY <1>1, <1>2, <1>4 DEF line, IInv, Lined, Known, NothingHeldBackBehindAWebhook
<1>6. ASSUME NEW c \in Channels, NEW a \in Messages, In(pending[c], a)
      PROVE  a \in DOMAIN captured
  <2>1. a <= Len(captured)
    BY <1>6 DEF IInv, Known, UnderWay, Held
  <2>2. DOMAIN captured = 1 .. Len(captured) /\ a \in Nat /\ 1 <= a
    BY Types DEF IInv, Messages
  <2> QED
    BY <2>1, <2>2
<1>7. Tagged'
  BY <1>1, <1>2, <1>4, <1>6 DEF line, IInv, Tagged
<1> QED
  BY <1>5, <1>7 DEF IInv

\* What is only taken out of the line leaves the rest of it in order.
LEMMA Shrinks ==
  ASSUME IInv, TypeOK', UNCHANGED <<captured, confVars>>, retried \subseteq retried',
         NothingHeldBackBehindAWebhook',
         \A a, b \in Messages : Follows(a, b)' =>
           Follows(a, b) \/ (a # b /\ (b \in retried' \/ captured[a] # captured[b])),
         \A a \in Messages : UnderWay(a)' => UnderWay(a),
         \A c \in Channels, a \in Messages : In(pending[c], a)' => In(pending[c], a)
  PROVE  IInv'
<1>1. Lined'
  BY DEF IInv, Lined
<1>2. Known'
  BY DEF IInv, Known, confVars
<1>3. Tagged'
  BY DEF IInv, Tagged, confVars
<1> QED
  BY <1>1, <1>2, <1>3 DEF IInv

LEMMA PopStep ==
  ASSUME IInv, TypeOK', Pop
  PROVE  IInv'
<1>1. /\ sending = None /\ quick # <<>> /\ sending' = Head(quick) /\ quick' = Tail(quick)
      /\ UNCHANGED <<captured, confVars, pending, autoUrls, posted, retried>>
  BY DEF Pop, gameVars
<1>2. /\ \A a : In(quick, a) <=> a = sending' \/ In(quick', a)
      /\ \A a, b : Ahead(quick, a, b) <=> Ahead(quick', a, b) \/ (a = sending' /\ In(quick', b))
  BY <1>1, TailFacts, Types DEF IInv
<1>3. /\ \A a : Held(a)' = Held(a) /\ In(posted, a)' = In(posted, a)
      /\ \A a, b : Ahead(posted, a, b)' = Ahead(posted, a, b)
      /\ \A c, a : In(pending[c], a)' = In(pending[c], a)
      /\ \A c, a, b : Ahead(pending[c], a, b)' = Ahead(pending[c], a, b)
  BY <1>1 DEF Held, In, Ahead
<1>4. \A a : In(quick, a)' = In(quick', a)
  BY DEF In
<1>5. \A a, b : Ahead(quick, a, b)' = Ahead(quick', a, b)
  BY DEF Ahead
<1>6. \A a, b \in Messages : Follows(a, b)' => Follows(a, b)
  BY <1>2, <1>3, <1>4, <1>5 DEF Follows
<1>7. \A a \in Messages : UnderWay(a)' => UnderWay(a)
  BY <1>2, <1>3, <1>4 DEF UnderWay
<1>8. NothingHeldBackBehindAWebhook'
  BY <1>1 DEF IInv, NothingHeldBackBehindAWebhook
<1> QED
  BY <1>1, <1>3, <1>6, <1>7, <1>8, Shrinks

LEMMA SentStep ==
  ASSUME IInv, TypeOK', NEW accepted \in BOOLEAN, Sent(accepted)
  PROVE  IInv'
<1>1. /\ sending \in Messages /\ sending' = None
      /\ posted' = Append(posted, sending) \/ posted' = posted
      /\ UNCHANGED <<captured, confVars, pending, autoUrls, quick, retried>>
  BY Types DEF IInv, Sent, gameVars
<1>2. /\ \A a : In(posted', a) => In(posted, a) \/ a = sending
      /\ \A a, b : Ahead(posted', a, b) => Ahead(posted, a, b) \/ (In(posted, a) /\ b = sending)
  <2>1. CASE posted' = Append(posted, sending)
    <3>1. posted \in Seq(Messages) /\ sending \in Messages
      BY <1>1, Types DEF IInv
    <3> QED
      BY <2>1, <3>1, AppendFacts
  <2>2. CASE posted' = posted
    BY <2>2
  <2> QED
    BY <1>1, <2>1, <2>2
<1>3. /\ \A a : Held(a)' = Held(a) /\ In(quick, a)' = In(quick, a)
      /\ \A a, b : Ahead(quick, a, b)' = Ahead(quick, a, b)
      /\ \A c, a : In(pending[c], a)' = In(pending[c], a)
      /\ \A c, a, b : Ahead(pending[c], a, b)' = Ahead(pending[c], a, b)
  BY <1>1 DEF Held, In, Ahead
<1>4. \A a : In(posted, a)' = In(posted', a)
  BY DEF In
<1>5. \A a, b : Ahead(posted, a, b)' = Ahead(posted', a, b)
  BY DEF Ahead
<1>6. \A a, b \in Messages : Follows(a, b)' => Follows(a, b)
  BY <1>1, <1>2, <1>3, <1>4, <1>5, Types DEF Follows, IInv
<1>7. \A a \in Messages : UnderWay(a)' => UnderWay(a)
  BY <1>1, <1>2, <1>3, <1>4, Types DEF UnderWay, IInv
<1>8. NothingHeldBackBehindAWebhook'
  BY <1>1 DEF IInv, NothingHeldBackBehindAWebhook
<1> QED
  BY <1>1, <1>3, <1>6, <1>7, <1>8, Shrinks

LEMMA RateLimitedStep ==
  ASSUME IInv, TypeOK', RateLimited
  PROVE  IInv'
<1>1. /\ sending \in Messages /\ sending' = None /\ quick' = Append(quick, sending)
      /\ retried' = retried \cup {sending}
      /\ UNCHANGED <<captured, confVars, pending, autoUrls, posted>>
  BY Types DEF IInv, RateLimited, gameVars
<1>2. /\ \A a : In(quick', a) <=> In(quick, a) \/ a = sending
      /\ \A a, b : Ahead(quick', a, b) <=> Ahead(quick, a, b) \/ (In(quick, a) /\ b = sending)
  BY <1>1, AppendFacts, Types DEF IInv
<1>3. /\ \A a : Held(a)' = Held(a) /\ In(posted, a)' = In(posted, a)
      /\ \A a, b : Ahead(posted, a, b)' = Ahead(posted, a, b)
      /\ \A c, a : In(pending[c], a)' = In(pending[c], a)
      /\ \A c, a, b : Ahead(pending[c], a, b)' = Ahead(pending[c], a, b)
  BY <1>1 DEF Held, In, Ahead
<1>4. \A a : In(quick, a)' = In(quick', a)
  BY DEF In
<1>5. \A a, b : Ahead(quick, a, b)' = Ahead(quick', a, b)
  BY DEF Ahead
<1>6. \A a \in Messages : In(quick, a) => a # sending
  BY <1>1 DEF IInv, Lined, Follows
<1>7. \A a, b \in Messages :
        Follows(a, b)' => Follows(a, b) \/ (In(quick, a) /\ b = sending)
  BY <1>1, <1>2, <1>3, <1>4, <1>5, Types DEF Follows, IInv
<1>8. \A a, b \in Messages : Follows(a, b)' => Follows(a, b) \/ (a # b /\ b \in retried')
  BY <1>1, <1>6, <1>7
<1>9. \A a \in Messages : UnderWay(a)' => UnderWay(a)
  BY <1>1, <1>2, <1>3, <1>4, Types DEF UnderWay, IInv
<1>10. NothingHeldBackBehindAWebhook'
  BY <1>1 DEF IInv, NothingHeldBackBehindAWebhook
<1> QED
  BY <1>1, <1>3, <1>8, <1>9, <1>10, Shrinks

LEMMA RestartStep ==
  ASSUME IInv, TypeOK', Restart
  PROVE  IInv'
<1>1. /\ sending = None /\ quick' = <<>> /\ autoUrls' = {}
      /\ \A c \in Channels : pending'[c] = <<>>
      /\ UNCHANGED <<captured, confVars, posted, sending, retried>>
  BY DEF Restart
<1>2. \A a : ~Held(a)' /\ ~In(quick, a)' /\ In(posted, a)' = In(posted, a)
  BY <1>1 DEF Held, In
<1>3. /\ \A a, b : Ahead(posted, a, b)' = Ahead(posted, a, b) /\ ~Ahead(quick, a, b)'
      /\ \A c \in Channels : \A a, b : ~In(pending[c], a)' /\ ~Ahead(pending[c], a, b)'
  BY <1>1 DEF Ahead, In
<1>4. \A a, b \in Messages : Follows(a, b)' => Follows(a, b)
  BY <1>1, <1>2, <1>3, Types DEF Follows, IInv
<1>5. \A a \in Messages : UnderWay(a)' => UnderWay(a)
  BY <1>1, <1>2 DEF UnderWay
<1>6. NothingHeldBackBehindAWebhook'
  BY <1>1 DEF NothingHeldBackBehindAWebhook
<1> QED
  BY <1>1, <1>3, <1>4, <1>5, <1>6, Shrinks

\* A new message is behind everything that is under way for its channel.
LEMMA CaptureStep ==
  ASSUME IInv, TypeOK', NEW c \in Channels, Capture(c),
         UNCHANGED <<confVars, autoUrls, sending, posted, retried>>
  PROVE  IInv'
<1> DEFINE m == Len(captured) + 1
           new == [chan |-> c, epoch |-> reloads]
<1>1. /\ m \in Messages /\ m \in Nat /\ Len(captured) \in Nat
      /\ captured \in Seq(Captures) /\ captured' = Append(captured, new)
  BY CaptureType, Types DEF IInv, Capture, Messages
<1>2. /\ DOMAIN captured = 1 .. Len(captured) /\ DOMAIN captured' = 1 .. m
      /\ \A i \in DOMAIN captured : captured'[i] = captured[i]
      /\ captured'[m] = new /\ Len(captured') = m
  BY <1>1
<1> HIDE DEF m
<1>3. \A a \in Messages : UnderWay(a) => a \in DOMAIN captured /\ a < m /\ a # m
  BY <1>1, <1>2 DEF IInv, Known, m, Messages
<1>4. ASSUME NEW a \in Messages, NEW b \in Messages, Follows(a, b)
      PROVE  /\ UnderWay(a) /\ UnderWay(b)
             /\ a # b /\ (captured'[a] = captured'[b] => a < b \/ b \in retried')
  <2>1. UnderWay(a) /\ UnderWay(b)
    BY <1>4 DEF Follows, UnderWay, Held, Ahead, In
  <2> QED
    BY <1>2, <1>3, <1>4, <2>1 DEF IInv, Lined
<1>5. /\ \A a : In(posted, a)' = In(posted, a)
      /\ \A a, b : Ahead(posted, a, b)' = Ahead(posted, a, b)
  BY DEF In, Ahead
<1>6. reloads' = reloads /\ useWebhooks' = useWebhooks /\ configured' = configured
      /\ autoUrls' = autoUrls /\ sending' = sending /\ retried' = retried
  BY DEF confVars
<1>7. CASE quick' = Append(quick, m) /\ UNCHANGED pending /\ ~(useWebhooks /\ ~HasWebhook(c))
  <2>1. /\ \A a : In(quick', a) <=> In(quick, a) \/ a = m
        /\ \A a, b : Ahead(quick', a, b) <=> Ahead(quick, a, b) \/ (In(quick, a) /\ b = m)
    BY <1>1, <1>7, AppendFacts, Types DEF IInv
  <2>2. /\ \A a : Held(a)' = Held(a) /\ In(quick, a)' = In(quick', a)
        /\ \A a, b : Ahead(quick, a, b)' = Ahead(quick', a, b)
        /\ \A d, a : In(pending[d], a)' = In(pending[d], a)
        /\ \A d, a, b : Ahead(pending[d], a, b)' = Ahead(pending[d], a, b)
    BY <1>7 DEF Held, In, Ahead
  <2>3. \A a, b \in Messages : Follows(a, b)' =>
          Follows(a, b) \/ (UnderWay(a) /\ b = m) \/ (a = m /\ Held(b))
    BY <1>5, <1>6, <2>1, <2>2 DEF Follows, UnderWay
  <2>4. ASSUME NEW b \in Messages, Held(b) PROVE captured'[b] # new /\ b # m
    <3>1. PICK d \in Channels : In(pending[d], b)
      BY <2>4 DEF Held
    <3>2. UnderWay(b) /\ captured'[b] = captured[b] /\ b # m
      BY <1>2, <1>3, <2>4 DEF UnderWay
    <3>3. ASSUME captured[b] = new PROVE FALSE
      <4>1. d = c /\ useWebhooks /\ c \notin configured
        BY <3>1, <3>3 DEF IInv, Tagged
      <4>2. c \in autoUrls
        BY <1>7, <4>1 DEF HasWebhook
      <4>3. pending[d] = <<>>
        BY <4>1, <4>2 DEF IInv, NothingHeldBackBehindAWebhook
      <4> QED
        BY <3>1, <4>3, EmptyFacts
    <3> QED
      BY <3>2, <3>3
  <2>5. Lined'
    <3>1. ASSUME NEW a \in Messages, NEW b \in Messages, Follows(a, b)'
          PROVE  a # b /\ (captured'[a] = captured'[b] => a < b \/ b \in retried')
      <4>1. CASE Follows(a, b)
        BY <1>4, <4>1
      <4>2. CASE UnderWay(a) /\ b = m
        BY <1>3, <4>2
      <4>3. CASE a = m /\ Held(b)
        BY <1>2, <2>4, <4>3
      <4> QED
        BY <2>3, <3>1, <4>1, <4>2, <4>3
    <3> QED
      BY <3>1 DEF Lined
  <2>6. \A a \in Messages : UnderWay(a)' => UnderWay(a) \/ a = m
    BY <1>5, <1>6, <2>1, <2>2 DEF UnderWay
  <2>7. Known'
    <3>1. \A a \in Messages : UnderWay(a)' => a <= Len(captured')
      BY <1>1, <1>2, <1>3, <2>6
    <3>2. \A i \in DOMAIN captured' : captured'[i].epoch <= reloads'
      <4>1. \A i \in DOMAIN captured' : i \in DOMAIN captured \/ i = m
        BY <1>1, <1>2 DEF m
      <4>2. new.epoch <= reloads
        BY Types DEF IInv
      <4>3. \A i \in DOMAIN captured : captured[i].epoch <= reloads
        BY DEF IInv, Known
      <4> QED
        BY <1>2, <1>6, <4>1, <4>2, <4>3
    <3> QED
      BY <3>1, <3>2 DEF Known
  <2>8. Tagged'
    <3>1. ASSUME NEW d \in Channels, NEW a \in Messages, In(pending[d], a)
          PROVE  captured'[a] = captured[a]
      BY <1>2, <1>3, <3>1 DEF UnderWay, Held
    <3> QED
      BY <1>6, <2>2, <3>1 DEF IInv, Tagged
  <2>9. NothingHeldBackBehindAWebhook'
    BY <1>6, <1>7 DEF IInv, NothingHeldBackBehindAWebhook
  <2> QED
    BY <2>5, <2>7, <2>8, <2>9 DEF IInv
<1>8. CASE QueuePendingWebhookMessage(c, m) /\ UNCHANGED quick /\ useWebhooks /\ ~HasWebhook(c)
  <2> DEFINE s == pending[c]
             t == IF Len(s) >= PendingCap THEN Tail(s) ELSE s
  <2>1. pending' = [pending EXCEPT ![c] = Append(t, m)]
    BY <1>8 DEF QueuePendingWebhookMessage
  <2>2. /\ t \in Seq(Messages)
        /\ \A a : In(t, a) => In(s, a)
        /\ \A a, b : Ahead(t, a, b) => Ahead(s, a, b)
    <3>1. s \in Seq(Messages) /\ PendingCap \in Nat \ {0}
      BY Types, ChatBridgeAssumption DEF IInv
    <3> HIDE DEF s
    <3>2. CASE Len(s) >= PendingCap
      <4>1. s # <<>> /\ t = Tail(s)
        BY <3>1, <3>2
      <4> QED
        BY <3>1, <4>1, TailFacts
    <3>3. CASE ~(Len(s) >= PendingCap)
      BY <3>1, <3>3
    <3> QED
      BY <3>2, <3>3
  <2> HIDE DEF t, s
  <2>3. /\ pending'[c] = Append(t, m) /\ \A d \in Channels : d # c => pending'[d] = pending[d]
    BY <2>1, Types DEF IInv
  <2>4. /\ \A a : In(pending'[c], a) => In(pending[c], a) \/ a = m
        /\ \A a, b : Ahead(pending'[c], a, b) =>
                       Ahead(pending[c], a, b) \/ (In(pending[c], a) /\ b = m)
    BY <1>1, <2>2, <2>3, AppendFacts DEF s
  <2>5. /\ \A d \in Channels : \A a : In(pending[d], a)' = In(pending'[d], a)
        /\ \A d \in Channels : \A a, b : Ahead(pending[d], a, b)' = Ahead(pending'[d], a, b)
    BY DEF In, Ahead
  <2>6. \A d \in Channels : \A a : In(pending[d], a)' => In(pending[d], a) \/ (d = c /\ a = m)
    BY <2>3, <2>4, <2>5
  <2>7. \A a : Held(a)' => Held(a) \/ a = m
    BY <2>6 DEF Held
  <2>8. \A d \in Channels : \A a, b :
          Ahead(pending[d], a, b)' => Ahead(pending[d], a, b) \/ (Held(a) /\ b = m)
    BY <2>3, <2>4, <2>5 DEF Held
  <2>9. /\ \A a : In(quick, a)' = In(quick, a)
        /\ \A a, b : Ahead(quick, a, b)' = Ahead(quick, a, b)
    BY <1>8 DEF In, Ahead
  <2>10. \A a, b \in Messages : Follows(a, b)' => Follows(a, b) \/ (UnderWay(a) /\ b = m)
    BY <1>5, <1>6, <2>7, <2>8, <2>9 DEF Follows, UnderWay
  <2>11. Lined'
    BY <1>3, <1>4, <2>10 DEF Lined
  <2>12. \A a \in Messages : UnderWay(a)' => UnderWay(a) \/ a = m
    BY <1>5, <1>6, <2>7, <2>9 DEF UnderWay
  <2>13. Known'
    <3>1. \A a \in Messages : UnderWay(a)' => a <= Len(captured')
      BY <1>1, <1>2, <1>3, <2>12
    <3>2. \A i \in DOMAIN captured' : captured'[i].epoch <= reloads'
      <4>1. \A i \in DOMAIN captured' : i \in DOMAIN captured \/ i = m
        BY <1>1, <1>2 DEF m
      <4>2. new.epoch <= reloads
        BY Types DEF IInv
      <4>3. \A i \in DOMAIN captured : captured[i].epoch <= reloads
        BY DEF IInv, Known
      <4> QED
        BY <1>2, <1>6, <4>1, <4>2, <4>3
    <3> QED
      BY <3>1, <3>2 DEF Known
  <2>14. Tagged'
    <3>1. ASSUME NEW d \in Channels, NEW a \in Messages, In(pending[d], a)
          PROVE  captured'[a] = captured[a]
      BY <1>2, <1>3, <3>1 DEF UnderWay, Held
    <3>2. captured'[m].chan = c /\ useWebhooks /\ c \notin configured
      BY <1>2, <1>8 DEF HasWebhook
    <3> QED
      BY <1>6, <2>6, <3>1, <3>2 DEF IInv, Tagged
  <2>15. NothingHeldBackBehindAWebhook'
    BY <1>6, <1>8, <2>3 DEF IInv, NothingHeldBackBehindAWebhook, TypeOK, HasWebhook
  <2> QED
    BY <2>11, <2>13, <2>14, <2>15 DEF IInv
<1> QED
  BY <1>7, <1>8 DEF Capture, SendToChannel, m

\* Flushing moves what a channel held back to the end of the sender's queue.
LEMMA FlushStep ==
  ASSUME IInv, TypeOK', NEW c \in Channels, FlushPendingWebhookMessages(c),
         autoUrls' = autoUrls \cup {c},
         UNCHANGED <<confVars, captured, sending, posted, retried>>
  PROVE  IInv'
<1>1. /\ quick' = quick \o pending[c] /\ pending'[c] = <<>>
      /\ \A d \in Channels : d # c => pending'[d] = pending[d]
  BY Types DEF IInv, FlushPendingWebhookMessages
<1>2. /\ \A a : In(quick', a) <=> In(quick, a) \/ In(pending[c], a)
      /\ \A a, b : Ahead(quick', a, b) =>
           \/ Ahead(quick, a, b) \/ Ahead(pending[c], a, b)
           \/ In(quick, a) /\ In(pending[c], b)
  <2>1. quick \in Seq(Messages) /\ pending[c] \in Seq(Messages)
    BY Types DEF IInv
  <2> QED
    BY <1>1, <2>1, ConcatFacts
<1>3. /\ \A a : In(posted, a)' = In(posted, a) /\ In(quick, a)' = In(quick', a)
      /\ \A a, b : Ahead(posted, a, b)' = Ahead(posted, a, b)
      /\ \A a, b : Ahead(quick, a, b)' = Ahead(quick', a, b)
  BY DEF In, Ahead
<1>4. \A d \in Channels : \A a : In(pending[d], a)' => d # c /\ In(pending[d], a)
  BY <1>1, EmptyFacts DEF In
<1>5. \A d \in Channels : \A a, b : Ahead(pending[d], a, b)' => Ahead(pending[d], a, b)
  BY <1>1, EmptyFacts DEF Ahead
<1>6. \A a : Held(a)' => Held(a)
  BY <1>4 DEF Held
<1>7. \A a : In(pending[c], a) => Held(a)
  BY DEF Held
<1>8. \A a, b \in Messages : In(pending[c], a) /\ Held(b)' => a # b /\ captured[a] # captured[b]
  <2> SUFFICES ASSUME NEW a \in Messages, NEW b \in Messages, In(pending[c], a), Held(b)'
               PROVE  captured[a].chan # captured[b].chan
    OBVIOUS
  <2>1. PICK d \in Channels : In(pending[d], b)'
    BY DEF Held
  <2>2. d # c /\ In(pending[d], b)
    BY <1>4, <2>1
  <2> QED
    BY <2>2 DEF IInv, Tagged
<1>9. \A a, b \in Messages : Follows(a, b)' =>
        Follows(a, b) \/ (In(pending[c], a) /\ Held(b)')
  <2> SUFFICES ASSUME NEW a \in Messages, NEW b \in Messages, Follows(a, b)'
               PROVE  Follows(a, b) \/ (In(pending[c], a) /\ Held(b)')
    OBVIOUS
  <2>1. CASE Ahead(posted, a, b)'
    BY <1>3, <2>1 DEF Follows
  <2>2. CASE In(posted, a)' /\ (b = sending \/ In(quick, b) \/ Held(b))'
    BY <1>2, <1>3, <1>6, <1>7, <2>2 DEF Follows
  <2>3. CASE (a = sending)' /\ (In(quick, b) \/ Held(b))'
    BY <1>2, <1>3, <1>6, <1>7, <2>3 DEF Follows
  <2>4. CASE Ahead(quick, a, b)'
    BY <1>2, <1>3, <1>7, <2>4 DEF Follows
  <2>5. CASE In(quick, a)' /\ Held(b)'
    BY <1>2, <1>3, <1>6, <2>5 DEF Follows
  <2>6. CASE \E d \in Channels : Ahead(pending[d], a, b)'
    BY <1>5, <2>6 DEF Follows
  <2> QED
    BY <2>1, <2>2, <2>3, <2>4, <2>5, <2>6 DEF Follows
<1>10. \A a, b \in Messages : Follows(a, b)' =>
         Follows(a, b) \/ (a # b /\ (b \in retried' \/ captured[a] # captured[b]))
  BY <1>8, <1>9
<1>11. \A a \in Messages : UnderWay(a)' => UnderWay(a)
  BY <1>2, <1>3, <1>6, <1>7 DEF UnderWay
<1>12. NothingHeldBackBehindAWebhook'
  BY <1>1 DEF IInv, TypeOK, NothingHeldBackBehindAWebhook
<1> QED
  BY <1>4, <1>10, <1>11, <1>12, Shrinks

\* A refusal drops what a channel held back.
LEMMA RefusedStep ==
  ASSUME IInv, TypeOK', NEW c \in Channels, pending' = [pending EXCEPT ![c] = <<>>],
         UNCHANGED <<confVars, captured, autoUrls, quick, sending, posted, retried>>
  PROVE  IInv'
<1>1. \A d \in Channels : pending'[d] = IF d = c THEN <<>> ELSE pending[d]
  BY Types DEF IInv
<1>2. /\ \A a : In(posted, a)' = In(posted, a) /\ In(quick, a)' = In(quick, a)
      /\ \A a, b : Ahead(posted, a, b)' = Ahead(posted, a, b)
      /\ \A a, b : Ahead(quick, a, b)' = Ahead(quick, a, b)
  BY DEF In, Ahead
<1>3. \A d \in Channels : \A a : In(pending[d], a)' => In(pending[d], a)
  BY <1>1, EmptyFacts DEF In
<1>4. \A d \in Channels : \A a, b : Ahead(pending[d], a, b)' => Ahead(pending[d], a, b)
  BY <1>1, EmptyFacts DEF Ahead
<1>5. \A a : Held(a)' => Held(a)
  BY <1>3 DEF Held
<1>6. \A a, b \in Messages : Follows(a, b)' => Follows(a, b)
  BY <1>2, <1>4, <1>5 DEF Follows
<1>7. \A a \in Messages : UnderWay(a)' => UnderWay(a)
  BY <1>2, <1>5 DEF UnderWay
<1>8. NothingHeldBackBehindAWebhook'
  BY <1>1 DEF IInv, TypeOK, NothingHeldBackBehindAWebhook
<1> QED
  BY <1>3, <1>6, <1>7, <1>8, Shrinks

LEMMA ReplyStep ==
  ASSUME IInv, TypeOK', HandleReply
  PROVE  IInv'
<1> DEFINE c == Head(replies).chan
<1>1. c \in Channels
  <2>1. replies \in Seq(Creations) /\ replies # <<>>
    BY DEF IInv, TypeOK, HandleReply, Creations
  <2>2. Head(replies) \in Creations
    BY <2>1
  <2> QED
    BY <2>2 DEF Creations
<1>2. UNCHANGED <<confVars, captured, sending, posted, retried>>
  BY DEF HandleReply
<1>3. \/ autoUrls' = autoUrls \cup {c} /\ FlushPendingWebhookMessages(c)
      \/ pending' = [pending EXCEPT ![c] = <<>>] /\ UNCHANGED <<autoUrls, quick>>
      \/ UNCHANGED <<autoUrls, pending, quick>>
  BY DEF HandleReply
<1> HIDE DEF c
<1>4. CASE autoUrls' = autoUrls \cup {c} /\ FlushPendingWebhookMessages(c)
  BY <1>1, <1>2, <1>4, FlushStep
<1>5. CASE pending' = [pending EXCEPT ![c] = <<>>] /\ UNCHANGED <<autoUrls, quick>>
  BY <1>1, <1>2, <1>5, RefusedStep
<1>6. CASE UNCHANGED <<autoUrls, pending, quick>>
  BY <1>2, <1>6, SameLine DEF line
<1> QED
  BY <1>3, <1>4, <1>5, <1>6

LEMMA SpeakStep ==
  ASSUME IInv, TypeOK', Speak
  PROVE  IInv'
<1>1. PICK p \in Players, t \in Texts : RelayToDiscord(p, t) /\ Spoken
  BY DEF Speak, HandleGameCommand, HandleChannelChat, HandleDiscordSay
<1>2. UNCHANGED <<confVars, autoUrls, sending, posted, retried>>
  BY <1>1 DEF Spoken
<1>3. CASE UNCHANGED <<captured, attempt, creating, pending, quick>>
  BY <1>2, <1>3, SameLine DEF line
<1>4. CASE Capture(ChannelOf[p])
  <2>1. ChannelOf[p] \in Channels
    BY ChatBridgeAssumption
  <2> QED
    BY <1>2, <1>4, <2>1, CaptureStep
<1> QED
  BY <1>1, <1>3, <1>4 DEF RelayToDiscord

-----------------------------------------------------------------------------
(***************************************************************************)
(* The theorems.                                                           *)
(***************************************************************************)

LEMMA InitIInv == Init => IInv
<1> SUFFICES ASSUME Init PROVE IInv
  OBVIOUS
<1>1. TypeOK
  BY InitType
<1>2. /\ posted = <<>> /\ quick = <<>> /\ sending = None /\ autoUrls = {}
      /\ captured = <<>> /\ \A c \in Channels : pending[c] = <<>>
  BY DEF Init
<1>3. \A a \in Messages : ~UnderWay(a)
  BY <1>1, <1>2, EmptyFacts, Types DEF UnderWay, Held
<1>4. \A a, b \in Messages : ~Follows(a, b)
  BY <1>1, <1>2, EmptyFacts, Types DEF Follows, Held
<1>5. NothingHeldBackBehindAWebhook
  BY <1>2 DEF NothingHeldBackBehindAWebhook
<1>6. Tagged
  BY <1>2, EmptyFacts DEF Tagged
<1>7. Known
  BY <1>2, <1>3 DEF Known
<1> QED
  BY <1>1, <1>4, <1>5, <1>6, <1>7 DEF IInv, Lined

LEMMA StepIInv == IInv /\ [Next]_vars => IInv'
<1> SUFFICES ASSUME IInv, [Next]_vars PROVE IInv'
  OBVIOUS
<1>1. TypeOK'
  BY NextType DEF IInv
<1>2. CASE Speak
  BY <1>1, <1>2, SpeakStep
<1>3. CASE HandleReply
  BY <1>1, <1>3, ReplyStep
<1>4. CASE Pop
  BY <1>1, <1>4, PopStep
<1>5. CASE RateLimited
  BY <1>1, <1>5, RateLimitedStep
<1>6. ASSUME NEW accepted \in BOOLEAN, Sent(accepted) PROVE IInv'
  BY <1>1, <1>6, SentStep
<1>7. CASE ReloadConfig
  BY <1>1, <1>7, ReloadStep
<1>8. CASE Restart
  BY <1>1, <1>8, RestartStep
<1>9. ASSUME NEW p \in Players, NEW enabled \in BOOLEAN, SetGlobalChatEnabled(p, enabled)
      PROVE  IInv'
  BY <1>1, <1>9, SameLine DEF SetGlobalChatEnabled, sendVars, line
<1>10. ASSUME NEW c \in Channels, NEW reply \in Replies, WebhookAnswered(c, reply)
       PROVE  IInv'
  BY <1>1, <1>10, SameLine DEF WebhookAnswered, gameVars, sendVars, line
<1>11. CASE Tick
  BY <1>1, <1>11, SameLine DEF Tick, gameVars, sendVars, line
<1>12. CASE UNCHANGED vars
  BY <1>1, <1>12, SameLine DEF vars, gameVars, sendVars, line
<1> QED
  BY <1>2, <1>3, <1>4, <1>5, <1>6, <1>7, <1>8, <1>9, <1>10, <1>11, <1>12
     DEF Next, Answered

\* All messages under way stand in one line, in the order of their capture for each
\* channel and configuration, whatever is said, answered, retried, reloaded or restarted.
THEOREM Invariance == Spec => []IInv
<1> QED
  BY InitIInv, StepIInv, PTL DEF Spec

\* Every variable keeps its type, and no channel holds back more than PendingCap messages:
\* QueuePendingWebhookMessage drops the oldest.
THEOREM TypeCorrect == Spec => []TypeOK
<1>1. IInv => TypeOK
  BY DEF IInv
<1> QED
  BY <1>1, Invariance, PTL

-----------------------------------------------------------------------------
\* A creation that will still yield a webhook is in the replies.
Coming(c) == \E i \in DOMAIN replies : replies[i] = [chan |-> c, reply |-> "created"]

\* What EnsureWebhook once attempted is still attempted, has failed, or has a webhook.
Attempted ==
  \A c \in Channels :
    /\ attempt[c] # Never /\ c \notin autoUrls =>
         c \in denied \/ creating[c] > 0 \/ Coming(c)
    /\ pending[c] # <<>> => attempt[c] # Never

LEMMA AttemptedInit == Init => Attempted
  BY DEF Init, Attempted

LEMMA AttemptedSpeak == IInv /\ Attempted /\ Speak => Attempted'
<1> SUFFICES ASSUME IInv, Attempted, Speak PROVE Attempted'
  OBVIOUS
<1>1. PICK p \in Players, t \in Texts : RelayToDiscord(p, t) /\ Spoken
  BY DEF Speak, HandleGameCommand, HandleChannelChat, HandleDiscordSay
<1>2. UNCHANGED <<now, autoUrls, replies, denied>>
  BY <1>1 DEF Spoken
<1>3. ASSUME UNCHANGED <<attempt, creating, pending>> PROVE Attempted'
  BY <1>2, <1>3 DEF Attempted, Coming
<1>4. ASSUME NEW c \in Channels, Capture(c) PROVE Attempted'
  <2>1. CASE UNCHANGED <<attempt, creating, pending>>
    BY <1>3, <2>1
  <2>2. CASE /\ c \notin autoUrls /\ EnsureWebhook(c)
             /\ QueuePendingWebhookMessage(c, Len(captured) + 1)
    <3>1. /\ attempt \in [Channels -> 0 .. Never] /\ creating \in [Channels -> Nat]
          /\ now \in 0 .. MaxTime /\ MaxTime \in Nat
      BY ChatBridgeAssumption DEF IInv, TypeOK
    <3>2. \A d \in Channels : d # c => pending'[d] = pending[d]
      BY <2>2 DEF IInv, TypeOK, QueuePendingWebhookMessage
    <3>3. \/ Within(attempt[c], RetryWindow) /\ UNCHANGED <<attempt, creating>>
          \/ /\ attempt' = [attempt EXCEPT ![c] = now]
             /\ creating' = [creating EXCEPT ![c] = creating[c] + 1]
      BY <2>2 DEF EnsureWebhook
    <3>4. CASE Within(attempt[c], RetryWindow) /\ UNCHANGED <<attempt, creating>>
      BY <1>2, <2>2, <3>2, <3>4 DEF Attempted, Within, Coming
    <3>5. CASE /\ attempt' = [attempt EXCEPT ![c] = now]
               /\ creating' = [creating EXCEPT ![c] = creating[c] + 1]
      <4>1. attempt'[c] # Never /\ creating'[c] > 0
        BY <3>1, <3>5 DEF Never
      <4>2. \A d \in Channels : d # c => attempt'[d] = attempt[d] /\ creating'[d] = creating[d]
        BY <3>1, <3>5
      <4> QED
        BY <1>2, <3>2, <4>1, <4>2 DEF Attempted, Coming
    <3> QED
      BY <3>3, <3>4, <3>5
  <2> QED
    BY <1>4, <2>1, <2>2 DEF Capture, HasWebhook
<1>5. ChannelOf[p] \in Channels
  BY ChatBridgeAssumption
<1> QED
  BY <1>1, <1>3, <1>4, <1>5 DEF RelayToDiscord

\* A creation's answer becomes a reply or makes its channel a denied one.
LEMMA AttemptedAnswered ==
  ASSUME IInv, Attempted, NEW c \in Channels, NEW reply \in Replies, WebhookAnswered(c, reply)
  PROVE  Attempted'
<1> DEFINE r == [chan |-> c, reply |-> reply]
<1>1. /\ creating' = [creating EXCEPT ![c] = @ - 1] /\ creating \in [Channels -> Nat]
      /\ replies' = (IF reply = "dropped" THEN replies ELSE Append(replies, r))
      /\ denied' = (IF reply = "created" THEN denied ELSE denied \cup {c})
      /\ UNCHANGED <<attempt, autoUrls, pending>>
  BY DEF WebhookAnswered, gameVars, IInv, TypeOK
<1>2. \A d \in Channels : d # c => creating'[d] = creating[d]
  BY <1>1
<1>3. replies \in Seq([chan: Channels, reply: Replies]) /\ r \in [chan: Channels, reply: Replies]
  BY DEF IInv, TypeOK
<1>4. /\ Len(Append(replies, r)) = Len(replies) + 1 /\ Append(replies, r)[Len(replies) + 1] = r
      /\ DOMAIN Append(replies, r) = 1 .. Len(replies) + 1 /\ Len(replies) \in Nat
      /\ \A i \in DOMAIN replies : i \in DOMAIN Append(replies, r)
                                   /\ Append(replies, r)[i] = replies[i]
  <2> HIDE DEF r
  <2> QED
    BY <1>3
<1>5. (\A d : Coming(d) => Coming(d)') /\ (reply = "created" => Coming(c)')
  BY <1>1, <1>4 DEF Coming
<1> QED
  BY <1>1, <1>2, <1>5 DEF Attempted

\* The callback turns a reply into a webhook.
LEMMA AttemptedReply == IInv /\ Attempted /\ HandleReply => Attempted'
<1> SUFFICES ASSUME IInv, Attempted, HandleReply PROVE Attempted'
  OBVIOUS
<1> DEFINE c == Head(replies).chan
           created == Head(replies).reply = "created"
<1>1. replies \in Seq([chan: Channels, reply: Replies]) /\ replies # <<>>
      /\ replies' = Tail(replies) /\ UNCHANGED <<attempt, creating, denied>>
  BY DEF HandleReply, IInv, TypeOK
<1>2. Head(replies) = replies[1] /\ Head(replies) \in [chan: Channels, reply: Replies]
      /\ \A i \in DOMAIN replies : i = 1 \/ /\ i - 1 \in DOMAIN Tail(replies)
                                            /\ Tail(replies)[i - 1] = replies[i]
  <2>1. replies \in Seq(Creations)
    BY <1>1 DEF Creations
  <2>2. Head(replies) = replies[1] /\ Head(replies) \in Creations
    BY <1>1, <2>1
  <2>3. ASSUME NEW i \in DOMAIN replies, i # 1
        PROVE  i - 1 \in DOMAIN Tail(replies) /\ Tail(replies)[i - 1] = replies[i]
    BY <1>1, <2>1, <2>3
  <2> QED
    BY <2>2, <2>3 DEF Creations
<1>3. c \in Channels
  BY <1>2
<1>4. \A d : Coming(d) => Coming(d)' \/ (d = c /\ created)
  <2> SUFFICES ASSUME NEW d, NEW i \in DOMAIN replies,
                      replies[i] = [chan |-> d, reply |-> "created"]
               PROVE  Coming(d)' \/ (d = c /\ created)
    BY DEF Coming
  <2>1. CASE i = 1
    BY <1>2, <2>1
  <2>2. CASE i # 1
    <3>1. i - 1 \in DOMAIN replies' /\ replies'[i - 1] = [chan |-> d, reply |-> "created"]
      BY <1>1, <1>2, <2>2
    <3> QED
      BY <3>1 DEF Coming
  <2> QED
    BY <2>1, <2>2
<1>5. \/ created /\ autoUrls' = autoUrls \cup {c} /\ pending' = [pending EXCEPT ![c] = <<>>]
      \/ autoUrls' = autoUrls /\ pending' \in {pending, [pending EXCEPT ![c] = <<>>]}
  BY <1>3 DEF HandleReply, FlushPendingWebhookMessages
<1>6. created => c \in autoUrls'
  BY DEF HandleReply
<1> HIDE DEF c, created
<1>7. pending \in [Channels -> Seq(Messages)]
  BY DEF IInv, TypeOK
<1>8. \A d \in Channels : pending'[d] # <<>> => pending[d] # <<>>
  BY <1>5, <1>7
<1> QED
  BY <1>1, <1>4, <1>5, <1>6, <1>8 DEF Attempted

LEMMA AttemptedStep == IInv /\ Attempted /\ [Next]_vars => Attempted'
<1> SUFFICES ASSUME IInv, Attempted, [Next]_vars PROVE Attempted'
  OBVIOUS
<1>1. CASE Restart
  BY <1>1 DEF Restart, Attempted
<1>2. ASSUME NEW c \in Channels, NEW reply \in Replies, WebhookAnswered(c, reply)
      PROVE  Attempted'
  BY <1>2, AttemptedAnswered
<1>3. CASE UNCHANGED <<attempt, autoUrls, pending, creating, replies, denied>>
  BY <1>3 DEF Attempted, Coming
<1> QED
  BY <1>1, <1>2, <1>3, AttemptedSpeak, AttemptedReply
  DEF Next, Answered, SetGlobalChatEnabled, Pop, RateLimited, Sent, Tick, ReloadConfig,
      gameVars, restVars, vars

\* What is held back waits for something: once CreateChannelWebhook's callback has stored
\* a URL nothing is held back for that channel, however many other creations are still to
\* be answered, and before that a creation is under way or one has failed.
THEOREM NothingStranded == Spec => []HeldBackIsDue
<1>1. IInv /\ Attempted => HeldBackIsDue
  <2> SUFFICES ASSUME IInv, Attempted, NEW c \in Channels, pending[c] # <<>>
               PROVE  /\ c \notin autoUrls
                      /\ \/ c \in denied \/ creating[c] > 0
                         \/ [chan |-> c, reply |-> "created"] \in Range(replies)
    BY DEF HeldBackIsDue
  <2>1. c \notin autoUrls
    BY DEF IInv, NothingHeldBackBehindAWebhook
  <2>2. c \in denied \/ creating[c] > 0 \/ Coming(c)
    BY <2>1 DEF Attempted
  <2> QED
    BY <2>1, <2>2 DEF Coming, Range
<1> QED
  BY <1>1, AttemptedInit, AttemptedStep, Invariance, PTL DEF Spec

\* Neither FlushPendingWebhookMessages nor the sender's retry makes Discord accept a
\* message twice.
THEOREM NoMessageTwice == Spec => []PostedAtMostOnce
<1>1. IInv => PostedAtMostOnce
  <2> SUFFICES ASSUME IInv PROVE PostedAtMostOnce
    OBVIOUS
  <2>1. posted \in Seq(Messages) /\ DOMAIN posted \subseteq Nat
    BY Types DEF IInv
  <2>2. ASSUME NEW i \in DOMAIN posted, NEW j \in DOMAIN posted, i < j
        PROVE  posted[i] # posted[j]
    <3>1. Ahead(posted, posted[i], posted[j])
      BY <2>2 DEF Ahead
    <3>2. posted[i] \in Messages /\ posted[j] \in Messages
      BY <2>1
    <3> QED
      BY <3>1, <3>2 DEF IInv, Lined, Follows
  <2>3. \A i, j \in DOMAIN posted : i = j \/ i < j \/ j < i
    BY <2>1
  <2>4. \A i, j \in DOMAIN posted : posted[i] = posted[j] => i = j
    BY <2>2, <2>3
  <2> QED
    BY <2>4 DEF PostedAtMostOnce, IsInjective
<1> QED
  BY <1>1, Invariance, PTL

\* Messages captured for one channel under one configuration are posted in the order in
\* which they were said, held back or not; only the sender's retry may let one be overtaken.
THEOREM OrderIsKept == Spec => []OrderKept
<1>1. IInv => OrderKept
  <2> SUFFICES ASSUME IInv, NEW i \in DOMAIN posted, NEW j \in DOMAIN posted, i < j,
                      captured[posted[i]] = captured[posted[j]]
               PROVE  posted[i] < posted[j] \/ posted[j] \in retried
    BY DEF OrderKept
  <2>1. Ahead(posted, posted[i], posted[j])
    BY DEF Ahead
  <2>2. posted[i] \in Messages /\ posted[j] \in Messages
    BY Types DEF IInv
  <2> QED
    BY <2>1, <2>2 DEF IInv, Lined, Follows
<1> QED
  BY <1>1, Invariance, PTL

-----------------------------------------------------------------------------
(***************************************************************************)
(* Refinement: every step is a step of ChatRelay or leaves it alone.       *)
(***************************************************************************)

Behind(a) == a = sending \/ In(quick, a) \/ Held(a)

LEMMA WaitingFacts ==
  /\ \A a : a \in Waiting <=> a \in Messages /\ Behind(a)
  /\ \A a : a \in Waiting' <=> a \in Messages /\ Behind(a)'
  BY DEF Waiting, Behind, Held, In, Range

LEMMA RelayInit == Init => Relay!Init
<1> SUFFICES ASSUME Init PROVE Waiting = {} /\ captured = <<>> /\ retried = {} /\ posted = <<>>
  BY DEF Relay!Init
<1>1. \A a \in Messages : ~Behind(a)
  BY EmptyFacts, InitType, Types DEF Init, Behind, Held
<1> QED
  BY <1>1, WaitingFacts DEF Init

\* A step that moves no message out of sight is a step of the relay only by its history.
LEMMA RelayStutter ==
  ASSUME UNCHANGED <<captured, retried, posted>>,
         \A a \in Messages : Behind(a)' <=> Behind(a)
  PROVE  [Relay!Next]_(Relay!vars)
<1>1. Waiting' = Waiting
  BY WaitingFacts
<1> QED
  BY <1>1 DEF Relay!vars

LEMMA RelaySameLine ==
  ASSUME UNCHANGED line
  PROVE  [Relay!Next]_(Relay!vars)
<1>1. \A a : Behind(a)' <=> Behind(a)
  BY DEF line, Behind, Held, In
<1> QED
  BY <1>1, RelayStutter DEF line

\* A loss concerns one channel.
LEMMA RelayLoss ==
  ASSUME UNCHANGED <<captured, retried, posted>>, NEW c \in Channels,
         \A a \in Messages : Behind(a)' => Behind(a),
         \A a \in Messages : Behind(a) => Behind(a)' \/ captured[a].chan = c
  PROVE  [Relay!Next]_(Relay!vars)
<1> DEFINE lost == Waiting \ Waiting'
<1>1. Waiting' = Waiting \ lost
  BY WaitingFacts
<1>2. lost \in SUBSET Relay!WaitingFor(c)
  BY WaitingFacts DEF Relay!WaitingFor
<1>3. Relay!Lose(lost)
  BY <1>1 DEF Relay!Lose
<1> QED
  BY <1>2, <1>3 DEF Relay!Next

\* Flushing loses nothing, a refusal what its channel held back.
LEMMA RelayReply ==
  ASSUME IInv, HandleReply
  PROVE  [Relay!Next]_(Relay!vars)
<1> DEFINE c == Head(replies).chan
<1>1. c \in Channels
  <2>1. replies \in Seq(Creations) /\ replies # <<>>
    BY DEF IInv, TypeOK, HandleReply, Creations
  <2>2. Head(replies) \in Creations
    BY <2>1
  <2> QED
    BY <2>2 DEF Creations
<1>2. UNCHANGED <<captured, sending, posted, retried>>
  BY DEF HandleReply
<1>3. \/ FlushPendingWebhookMessages(c)
      \/ pending' = [pending EXCEPT ![c] = <<>>] /\ UNCHANGED quick
      \/ UNCHANGED <<pending, quick>>
  BY DEF HandleReply
<1> HIDE DEF c
<1>4. ASSUME pending' = [pending EXCEPT ![c] = <<>>]
      PROVE  /\ \A a : Held(a)' => Held(a)
             /\ \A a : Held(a) => Held(a)' \/ In(pending[c], a)
  <2>1. \A d \in Channels : pending'[d] = IF d = c THEN <<>> ELSE pending[d]
    BY <1>4, Types DEF IInv
  <2> QED
    BY <2>1, EmptyFacts DEF Held, In
<1>5. CASE FlushPendingWebhookMessages(c)
  <2>1. quick \in Seq(Messages) /\ pending[c] \in Seq(Messages)
    BY <1>1, Types DEF IInv
  <2>2. \A a : In(quick', a) <=> In(quick, a) \/ In(pending[c], a)
    BY <1>5, <2>1, ConcatFacts DEF FlushPendingWebhookMessages
  <2>3. \A a : In(quick, a)' = In(quick', a)
    BY DEF In
  <2>4. \A a : In(pending[c], a) => Held(a)
    BY <1>1 DEF Held
  <2>5. \A a \in Messages : Behind(a)' <=> Behind(a)
    BY <1>2, <1>4, <1>5, <2>2, <2>3, <2>4 DEF Behind, FlushPendingWebhookMessages
  <2> QED
    BY <1>2, <2>5, RelayStutter
<1>6. CASE pending' = [pending EXCEPT ![c] = <<>>] /\ UNCHANGED quick
  <2>1. \A a : In(quick, a)' = In(quick, a)
    BY <1>6 DEF In
  <2>2. \A a \in Messages : In(pending[c], a) => captured[a].chan = c
    BY <1>1 DEF IInv, Tagged
  <2>3. \A a \in Messages : Behind(a)' => Behind(a)
    BY <1>2, <1>4, <1>6, <2>1 DEF Behind
  <2>4. \A a \in Messages : Behind(a) => Behind(a)' \/ captured[a].chan = c
    BY <1>2, <1>4, <1>6, <2>1, <2>2 DEF Behind
  <2> QED
    BY <1>1, <1>2, <2>3, <2>4, RelayLoss
<1>7. CASE UNCHANGED <<pending, quick>>
  BY <1>2, <1>7, RelaySameLine DEF line
<1> QED
  BY <1>3, <1>5, <1>6, <1>7

LEMMA RelayPop ==
  ASSUME IInv, Pop
  PROVE  [Relay!Next]_(Relay!vars)
<1>1. /\ sending = None /\ quick # <<>> /\ sending' = Head(quick) /\ quick' = Tail(quick)
      /\ UNCHANGED <<captured, pending, posted, retried>>
  BY DEF Pop, gameVars
<1>2. \A a : In(quick, a) <=> a = sending' \/ In(quick', a)
  BY <1>1, TailFacts, Types DEF IInv
<1>3. \A a : Held(a)' = Held(a) /\ In(quick, a)' = In(quick', a)
  BY <1>1 DEF Held, In
<1>4. \A a \in Messages : Behind(a)' <=> Behind(a)
  BY <1>1, <1>2, <1>3, Types DEF Behind, IInv
<1> QED
  BY <1>1, <1>4, RelayStutter

\* The sender's message is accepted in its turn, or lost.
LEMMA RelaySent ==
  ASSUME IInv, NEW accepted \in BOOLEAN, Sent(accepted)
  PROVE  [Relay!Next]_(Relay!vars)
<1>1. /\ sending \in Messages /\ sending' = None
      /\ UNCHANGED <<captured, pending, quick, retried>>
  BY Types DEF IInv, Sent, gameVars
<1>2. \A a : Held(a)' = Held(a) /\ In(quick, a)' = In(quick, a)
  BY <1>1 DEF Held, In
<1>3. \A a \in Messages : In(quick, a) \/ Held(a) => a # sending
  BY <1>1 DEF IInv, Lined, Follows
<1>4. Waiting' = Waiting \ {sending} /\ sending \in Waiting
  BY <1>1, <1>2, <1>3, WaitingFacts, Types DEF Behind, IInv
<1>5. CASE accepted
  <2>1. ASSUME NEW w \in Waiting \ {sending}, captured[w] = captured[sending]
        PROVE  sending < w \/ w \in retried
    <3>1. w \in Messages /\ Follows(sending, w)
      BY WaitingFacts DEF Behind, Follows
    <3> QED
      BY <1>1, <2>1, <3>1 DEF IInv, Lined
  <2>2. Relay!Post(sending)
    BY <1>1, <1>4, <1>5, <2>1 DEF Relay!Post, Sent
  <2> QED
    BY <1>4, <2>2 DEF Relay!Next
<1>6. CASE ~accepted
  <2>1. posted' = posted
    BY <1>6 DEF Sent
  <2>2. Relay!Lose({sending}) /\ {sending} \in SUBSET Relay!WaitingFor(captured[sending].chan)
    BY <1>1, <1>4, <2>1 DEF Relay!Lose, Relay!WaitingFor
  <2>3. captured[sending].chan \in Channels
    <3>1. sending \in DOMAIN captured
      <4>1. sending <= Len(captured)
        BY <1>1 DEF IInv, Known, UnderWay
      <4> QED
        BY <1>1, <4>1, Types DEF IInv, Messages
    <3>2. captured[sending] \in Captures
      BY <3>1, Types DEF IInv
    <3> QED
      BY <3>2 DEF Captures
  <2> QED
    BY <2>2, <2>3 DEF Relay!Next
<1> QED
  BY <1>5, <1>6

LEMMA RelayRateLimited ==
  ASSUME IInv, RateLimited
  PROVE  [Relay!Next]_(Relay!vars)
<1>1. /\ sending \in Messages /\ sending' = None /\ quick' = Append(quick, sending)
      /\ retried' = retried \cup {sending} /\ sending \notin retried
      /\ UNCHANGED <<captured, pending, posted>>
  BY Types DEF IInv, RateLimited, gameVars
<1>2. \A a : In(quick', a) <=> In(quick, a) \/ a = sending
  BY <1>1, AppendFacts, Types DEF IInv
<1>3. \A a : Held(a)' = Held(a) /\ In(quick, a)' = In(quick', a)
  BY <1>1 DEF Held, In
<1>4. Waiting' = Waiting /\ sending \in Waiting
  BY <1>1, <1>2, <1>3, WaitingFacts, Types DEF Behind, IInv
<1>5. Relay!Delay(sending)
  BY <1>1, <1>4 DEF Relay!Delay
<1> QED
  BY <1>4, <1>5 DEF Relay!Next

LEMMA RelayRestart ==
  ASSUME IInv, Restart
  PROVE  [Relay!Next]_(Relay!vars)
<1>1. /\ sending' = None /\ quick' = <<>> /\ \A c \in Channels : pending'[c] = <<>>
      /\ UNCHANGED <<captured, posted, retried>>
  BY DEF Restart
<1>2. \A a : ~Held(a)' /\ ~In(quick, a)'
  BY <1>1 DEF Held, In
<1>3. Waiting' = {}
  BY <1>1, <1>2, WaitingFacts, Types DEF Behind, IInv
<1>4. Relay!Lose(Waiting)
  BY <1>1, <1>3 DEF Relay!Lose
<1> QED
  BY <1>4 DEF Relay!Next

\* A message is said; at the limit, the oldest held back for its channel is pushed out.
LEMMA RelayCapture ==
  ASSUME IInv, NEW c \in Channels, Capture(c), UNCHANGED <<confVars, sending, posted, retried>>
  PROVE  [Relay!Next]_(Relay!vars)
<1> DEFINE m == Len(captured) + 1
           new == [chan |-> c, epoch |-> reloads]
<1>1. /\ m \in Messages /\ captured' = Append(captured, new) /\ Len(captured) < MaxMessages
      /\ reloads \in 0 .. MaxReloads
  <2>1. Len(captured) \in Nat /\ m <= MaxMessages /\ MaxMessages \in Nat
    BY Types, ChatBridgeAssumption DEF IInv, Capture
  <2> QED
    BY <2>1 DEF IInv, TypeOK, Capture, Messages
<1>2. \/ Waiting' = Waiting \cup {m}
      \/ \E w \in Relay!WaitingFor(c) : Waiting' = (Waiting \ {w}) \cup {m}
  <2> HIDE DEF m
  <2>1. CASE quick' = Append(quick, m) /\ UNCHANGED pending
    <3>1. \A a : In(quick', a) <=> In(quick, a) \/ a = m
      BY <1>1, <2>1, AppendFacts, Types DEF IInv
    <3>2. \A a : Held(a)' = Held(a) /\ In(quick, a)' = In(quick', a)
      BY <2>1 DEF Held, In
    <3> QED
      BY <1>1, <3>1, <3>2, WaitingFacts DEF Behind
  <2>2. CASE QueuePendingWebhookMessage(c, m) /\ UNCHANGED quick
    <3> DEFINE s == pending[c]
               t == IF Len(s) >= PendingCap THEN Tail(s) ELSE s
    <3>1. s \in Seq(Messages) /\ PendingCap \in Nat \ {0}
      BY Types, ChatBridgeAssumption DEF IInv
    <3>2. pending'[c] = Append(t, m) /\ \A d \in Channels : d # c => pending'[d] = pending[d]
      BY <2>2, Types DEF IInv, QueuePendingWebhookMessage
    <3>3. \A a : In(quick, a)' = In(quick, a)
      BY <2>2 DEF In
    <3>4. \A d \in Channels : \A a : In(pending[d], a)' = In(pending'[d], a)
      BY DEF In
    <3> HIDE DEF s, t
    <3>5. CASE ~(Len(s) >= PendingCap)
      <4>1. \A a : In(pending'[c], a) <=> In(pending[c], a) \/ a = m
        BY <1>1, <3>1, <3>2, <3>5, AppendFacts DEF t, s
      <4>2. \A a : Held(a)' <=> Held(a) \/ a = m
        BY <3>2, <3>4, <4>1 DEF Held
      <4> QED
        BY <1>1, <3>3, <4>2, WaitingFacts DEF Behind
    <3>6. CASE Len(s) >= PendingCap
      <4> DEFINE w == Head(s)
      <4>1. s # <<>> /\ t = Tail(s)
        BY <3>1, <3>6 DEF t
      <4>2. /\ w \in Messages /\ t \in Seq(Messages) /\ In(s, w)
            /\ \A a : In(s, a) <=> a = w \/ In(t, a)
            /\ \A a : In(t, a) => Ahead(s, w, a)
        BY <3>1, <4>1, TailFacts
      <4> HIDE DEF w
      <4>3. \A a : In(pending'[c], a) <=> In(t, a) \/ a = m
        BY <1>1, <3>2, <4>2, AppendFacts
      <4>4. Behind(w) /\ captured[w].chan = c
        BY <4>2 DEF s, Behind, Held, IInv, Tagged
      <4>5. w \in Relay!WaitingFor(c)
        BY <4>2, <4>4, WaitingFacts DEF Relay!WaitingFor
      <4>6. ~In(t, w) /\ w # sending /\ ~In(quick, w)
        <5>1. Held(w)
          BY <4>2 DEF s, Held
        <5> QED
          BY <4>2, <5>1 DEF s, IInv, Lined, Follows
      <4>7. \A d \in Channels : d # c => ~In(pending[d], w)
        BY <4>2, <4>4 DEF IInv, Tagged
      <4>8. \A a : Held(a)' <=> (Held(a) /\ a # w) \/ a = m
        <5>1. \A d \in Channels : \A a :
                In(pending[d], a)' <=> (In(pending[d], a) /\ a # w) \/ (d = c /\ a = m)
          BY <3>2, <3>4, <4>2, <4>3, <4>6, <4>7 DEF s
        <5> QED
          BY <5>1 DEF Held
      <4>9. \A a \in Messages : Behind(a)' <=> (Behind(a) /\ a # w) \/ a = m
        BY <3>3, <4>6, <4>8 DEF Behind
      <4>10. Waiting' = (Waiting \ {w}) \cup {m}
        BY <1>1, <4>9, WaitingFacts
      <4> QED
        BY <4>5, <4>10
    <3> QED
      BY <3>5, <3>6
  <2> QED
    BY <2>1, <2>2 DEF Capture, SendToChannel, m
<1>3. Relay!Say(c, reloads)
  BY <1>1, <1>2 DEF Relay!Say
<1> QED
  BY <1>1, <1>3 DEF Relay!Next

LEMMA RelaySpeak ==
  ASSUME IInv, Speak
  PROVE  [Relay!Next]_(Relay!vars)
<1>1. PICK p \in Players, t \in Texts : RelayToDiscord(p, t) /\ Spoken
  BY DEF Speak, HandleGameCommand, HandleChannelChat, HandleDiscordSay
<1>2. UNCHANGED <<confVars, sending, posted, retried>>
  BY <1>1 DEF Spoken
<1>3. CASE UNCHANGED <<captured, attempt, creating, pending, quick>>
  BY <1>2, <1>3, RelaySameLine DEF line
<1>4. CASE Capture(ChannelOf[p])
  <2>1. ChannelOf[p] \in Channels
    BY ChatBridgeAssumption
  <2> QED
    BY <1>2, <1>4, <2>1, RelayCapture
<1> QED
  BY <1>1, <1>3, <1>4 DEF RelayToDiscord

LEMMA RelayStep == IInv /\ [Next]_vars => [Relay!Next]_(Relay!vars)
<1> SUFFICES ASSUME IInv, [Next]_vars PROVE [Relay!Next]_(Relay!vars)
  OBVIOUS
<1>1. CASE Speak
  BY <1>1, RelaySpeak
<1>2. CASE HandleReply
  BY <1>2, RelayReply
<1>3. CASE Pop
  BY <1>3, RelayPop
<1>4. CASE RateLimited
  BY <1>4, RelayRateLimited
<1>5. ASSUME NEW accepted \in BOOLEAN, Sent(accepted) PROVE [Relay!Next]_(Relay!vars)
  BY <1>5, RelaySent
<1>6. CASE Restart
  BY <1>6, RelayRestart
<1>7. CASE ReloadConfig
  BY <1>7, RelaySameLine DEF ReloadConfig, gameVars, sendVars, line
<1>8. ASSUME NEW p \in Players, NEW enabled \in BOOLEAN, SetGlobalChatEnabled(p, enabled)
      PROVE  [Relay!Next]_(Relay!vars)
  BY <1>8, RelaySameLine DEF SetGlobalChatEnabled, sendVars, line
<1>9. ASSUME NEW c \in Channels, NEW reply \in Replies, WebhookAnswered(c, reply)
      PROVE  [Relay!Next]_(Relay!vars)
  BY <1>9, RelaySameLine DEF WebhookAnswered, gameVars, sendVars, line
<1>10. CASE Tick
  BY <1>10, RelaySameLine DEF Tick, gameVars, sendVars, line
<1>11. CASE UNCHANGED vars
  BY <1>11, RelaySameLine DEF vars, gameVars, sendVars, line
<1> QED
  BY <1>1, <1>2, <1>3, <1>4, <1>5, <1>6, <1>7, <1>8, <1>9, <1>10, <1>11
     DEF Next, Answered

\* For any players, channels, texts and bounds, DiscordChatBridge and DiscordQuickSender keep
\* ChatRelay's promise: nothing under way is posted twice or out of its turn, and a loss
\* stays within one channel unless the server restarts.
THEOREM Implements == Spec => ImplementsChatRelay
<1> QED
  BY RelayInit, RelayStep, Invariance, PTL DEF Spec, ImplementsChatRelay, Relay!Spec
-----------------------------------------------------------------------------
(***************************************************************************)
(* What ChatRelay promises is enough: of the bridge nothing is used here   *)
(* but that it implements it.                                              *)
(***************************************************************************)

\* A posted message does not wait any more; no message was posted before an earlier one
\* of its kind that still waits, unless that one is delayed.
PromiseInv ==
  /\ captured \in Seq([chan: Channels, epoch: 0 .. MaxReloads])
  /\ Waiting \subseteq 1 .. Len(captured)
  /\ posted \in Seq(1 .. Len(captured))
  /\ \A i \in DOMAIN posted : posted[i] \notin Waiting
  /\ \A i, j \in DOMAIN posted : posted[i] = posted[j] => i = j
  /\ OrderKept
  /\ \A i \in DOMAIN posted, w \in Waiting :
       captured[w] = captured[posted[i]] => posted[i] < w \/ w \in retried

LEMMA PromiseInit == Relay!Init => PromiseInv
  BY DEF Relay!Init, PromiseInv, OrderKept

\* A new message is later than all that were posted.
LEMMA PromiseSay ==
  ASSUME PromiseInv, NEW c \in Channels, NEW e \in 0 .. MaxReloads, Relay!Say(c, e)
  PROVE  PromiseInv'
<1> DEFINE n == Len(captured) + 1
           r == [chan |-> c, epoch |-> e]
<1>1. /\ captured' = Append(captured, r)
      /\ Waiting' \subseteq Waiting \cup {n}
      /\ retried' = retried /\ posted' = posted
  BY DEF Relay!Say
<1>2. r \in [chan: Channels, epoch: 0 .. MaxReloads]
  OBVIOUS
<1> HIDE DEF r
<1>3. /\ captured' \in Seq([chan: Channels, epoch: 0 .. MaxReloads])
      /\ Len(captured') = n /\ Len(captured) \in Nat
      /\ \A m \in 1 .. Len(captured) : captured'[m] = captured[m]
  BY <1>1, <1>2 DEF PromiseInv
<1>4. \A i \in DOMAIN posted : posted[i] \in 1 .. Len(captured)
  BY DEF PromiseInv
<1>5. posted' \in Seq(1 .. Len(captured'))
  <2>1. posted \in Seq(1 .. Len(captured)) /\ 1 .. Len(captured) \subseteq 1 .. n
    BY <1>3 DEF PromiseInv
  <2> QED
    BY <1>1, <1>3, <2>1
<1>6. Waiting' \subseteq 1 .. Len(captured')
  <2>1. Waiting \subseteq 1 .. Len(captured)
    BY DEF PromiseInv
  <2>2. 1 .. Len(captured) \subseteq 1 .. n /\ n \in 1 .. n
    BY <1>3
  <2>3. Len(captured') = n
    BY <1>3
  <2> HIDE DEF n
  <2> QED
    BY <1>1, <2>1, <2>2, <2>3
<1>7. \A i \in DOMAIN posted : captured'[posted[i]] = captured[posted[i]]
  BY <1>3, <1>4
<1>8. OrderKept'
  BY <1>1, <1>7 DEF PromiseInv, OrderKept
<1>9. \A i \in DOMAIN posted : posted[i] \notin Waiting'
  BY <1>1, <1>3, <1>4 DEF PromiseInv
<1>10. ASSUME NEW i \in DOMAIN posted, NEW w \in Waiting',
              captured'[w] = captured'[posted[i]]
       PROVE  posted[i] < w \/ w \in retried
  <2>1. CASE w = n
    BY <2>1, <1>3, <1>4
  <2>2. CASE w \in Waiting
    <3>1. captured'[w] = captured[w]
      BY <2>2, <1>3 DEF PromiseInv
    <3> QED
      BY <2>2, <3>1, <1>7, <1>10 DEF PromiseInv
  <2> QED
    BY <1>1, <2>1, <2>2
<1> QED
  BY <1>1, <1>3, <1>5, <1>6, <1>8, <1>9, <1>10 DEF PromiseInv

\* What is posted is later than all of its kind that were, or delayed.
LEMMA PromisePost ==
  ASSUME PromiseInv, NEW m \in Waiting, Relay!Post(m)
  PROVE  PromiseInv'
<1>1. /\ \A w \in Waiting \ {m} : captured[w] = captured[m] => m < w \/ w \in retried
      /\ posted' = Append(posted, m) /\ Waiting' = Waiting \ {m}
      /\ captured' = captured /\ retried' = retried
  BY DEF Relay!Post
<1>2. m \in 1 .. Len(captured) /\ posted \in Seq(1 .. Len(captured))
  BY DEF PromiseInv
<1>3. /\ posted' \in Seq(1 .. Len(captured))
      /\ DOMAIN posted' = DOMAIN posted \cup {Len(posted) + 1}
      /\ Len(posted) \in Nat /\ DOMAIN posted = 1 .. Len(posted)
      /\ \A i \in DOMAIN posted : posted'[i] = posted[i]
      /\ posted'[Len(posted) + 1] = m
  BY <1>1, <1>2
<1>4. \A i \in DOMAIN posted' : posted'[i] \notin Waiting'
  BY <1>1, <1>3 DEF PromiseInv
<1>5. \A i, j \in DOMAIN posted' : posted'[i] = posted'[j] => i = j
  BY <1>3 DEF PromiseInv
<1>6. ASSUME NEW i \in DOMAIN posted', NEW j \in DOMAIN posted', i < j,
             captured[posted'[i]] = captured[posted'[j]]
      PROVE  posted'[i] < posted'[j] \/ posted'[j] \in retried
  <2>1. i \in DOMAIN posted
    BY <1>3, <1>6
  <2>2. CASE j \in DOMAIN posted
    BY <1>3, <1>6, <2>1, <2>2 DEF PromiseInv, OrderKept
  <2>3. CASE j = Len(posted) + 1
    BY <1>3, <1>6, <2>1, <2>3 DEF PromiseInv
  <2> QED
    BY <1>3, <2>2, <2>3
<1>7. OrderKept'
  BY <1>1, <1>6 DEF OrderKept
<1>8. ASSUME NEW i \in DOMAIN posted', NEW w \in Waiting \ {m},
             captured[w] = captured[posted'[i]]
      PROVE  posted'[i] < w \/ w \in retried
  <2>1. CASE i \in DOMAIN posted
    BY <1>3, <1>8, <2>1 DEF PromiseInv
  <2>2. CASE i = Len(posted) + 1
    BY <1>1, <1>3, <1>8, <2>2
  <2> QED
    BY <1>3, <2>1, <2>2
<1> QED
  BY <1>1, <1>3, <1>4, <1>5, <1>7, <1>8 DEF PromiseInv

\* What is delayed may only come later; what is lost does not come.
LEMMA PromiseShrinks ==
  ASSUME PromiseInv, UNCHANGED <<captured, posted>>,
         Waiting' \subseteq Waiting, retried \subseteq retried'
  PROVE  PromiseInv'
<1>1. OrderKept'
  BY DEF PromiseInv, OrderKept
<1> QED
  BY <1>1 DEF PromiseInv

LEMMA PromiseNext == PromiseInv /\ [Relay!Next]_(Relay!vars) => PromiseInv'
<1> SUFFICES ASSUME PromiseInv, [Relay!Next]_(Relay!vars) PROVE PromiseInv'
  OBVIOUS
<1>1. CASE \E c \in Channels, e \in 0 .. MaxReloads : Relay!Say(c, e)
  BY <1>1, PromiseSay
<1>2. CASE \E m \in Waiting : Relay!Post(m)
  BY <1>2, PromisePost
<1>3. CASE \E m \in Waiting : Relay!Delay(m)
  BY <1>3, PromiseShrinks DEF Relay!Delay
<1>4. CASE \E lost : Relay!Lose(lost)
  BY <1>4, PromiseShrinks DEF Relay!Lose
<1>5. CASE UNCHANGED Relay!vars
  BY <1>5, PromiseShrinks DEF Relay!vars
<1> QED
  BY <1>1, <1>2, <1>3, <1>4, <1>5 DEF Relay!Next

\* Whatever keeps the promise of ChatRelay posts no message twice, and each kind in
\* order: the abstract specification says at least what the two invariants say.
THEOREM PromiseSuffices == ImplementsChatRelay => [](PostedAtMostOnce /\ OrderKept)
<1>1. PromiseInv => PostedAtMostOnce /\ OrderKept
  BY DEF PromiseInv, PostedAtMostOnce, IsInjective
<1> QED
  BY <1>1, PromiseInit, PromiseNext, PTL DEF ImplementsChatRelay, Relay!Spec
=============================================================================
