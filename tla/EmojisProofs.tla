---------------------------- MODULE EmojisProofs ----------------------------
(***************************************************************************)
(* Proofs about DiscordEmojiManager, for any emojis, any text and any      *)
(* number of refreshes and changes: once nothing is outstanding, what was  *)
(* found is what Discord has, and messages are routed accordingly.         *)
(*                                                                         *)
(* As long as the last refresh is not tainted, the two answers are merged  *)
(* in one order: the application's before the guild's if both are fetched, *)
(* and the empty one that needs no request before the other.  OnCourse     *)
(* lists the six places in which they can be on that way.                  *)
(***************************************************************************)
EXTENDS Emojis, TLAPS

First  == IF "app" \in ids /\ "guild" \notin ids THEN "guild" ELSE "app"
Second == IF First = "app" THEN "guild" ELSE "app"

Full(o) == Reply(o, TRUE, IF o \in ids THEN Of(o) ELSE {})

Blank ==
  /\ nameToEmoji = [n \in Names |-> "none"]
  /\ appEmojiIds = {} /\ guildEmojiIds = {}

Half ==
  /\ nameToEmoji = [n \in Names |-> IF Has(First, n) THEN First ELSE "none"]
  /\ appEmojiIds = {n \in Names : First = "app" /\ Has("app", n)}
  /\ guildEmojiIds = {n \in Names : First = "guild" /\ Has("guild", n)}

\* What the request queue and the game queue hold.
Asking(o) == Len(requests) = 1 /\ requests[1].owner = o
AskingBoth ==
  /\ Len(requests) = 2 /\ requests[1].owner = First /\ requests[2].owner = Second
Come(o) == Len(gameQueue) = 1 /\ gameQueue[1] = Full(o)
ComeBoth ==
  Len(gameQueue) = 2 /\ gameQueue[1] = Full(First) /\ gameQueue[2] = Full(Second)

OnCourse ==
  \/ AskingBoth       /\ gameQueue = <<>> /\ Blank /\ First \in ids
  \/ Asking(Second)   /\ Come(First)      /\ Blank
  \/ requests = <<>>  /\ ComeBoth         /\ Blank
  \/ Asking(Second)   /\ gameQueue = <<>> /\ Half
  \/ requests = <<>>  /\ Come(Second)     /\ Half
  \/ requests = <<>>  /\ gameQueue = <<>> /\ Accurate

IdsOK == ids # {} /\ \A i \in DOMAIN requests : requests[i].owner \in ids

\* The inductive invariant.
IInv ==
  /\ TypeOK /\ IdsOK /\ notices <= changes
  /\ (~tainted /\ notices = 0 => OnCourse)

-----------------------------------------------------------------------------
LEMMA IdsCases ==
  ASSUME ids \subseteq Owners, ids # {}
  PROVE  ids = {"app", "guild"} \/ ids = {"app"} \/ ids = {"guild"}
  BY DEF Owners

\* What a refresh asks for, and what it is told at once.
LEMMA AskedIs ==
  /\ ids = {"app", "guild"} =>
       Asked = <<Request("app"), Request("guild")>> /\ Immediate = <<>>
  /\ ids = {"app"} => Asked = <<Request("app")>> /\ Immediate = <<Reply("guild", TRUE, {})>>
  /\ ids = {"guild"} => Asked = <<Request("guild")>> /\ Immediate = <<Reply("app", TRUE, {})>>
<1>1. ids = {"app", "guild"} <=> ids = Owners
  BY DEF Owners
<1>2. ids = {"app"} => ids # Owners /\ "app" \in ids
  BY DEF Owners
<1>3. ids = {"guild"} => ids # Owners /\ "app" \notin ids
  BY DEF Owners
<1>4. ids = Owners =>
        Asked = <<Request("app"), Request("guild")>> /\ Immediate = <<>>
  BY Zenon DEF Asked, Immediate
<1>5. ids # Owners /\ "app" \in ids =>
        Asked = <<Request("app")>> /\ Immediate = <<Reply("guild", TRUE, {})>>
  BY Zenon DEF Asked, Immediate
<1>6. ids # Owners /\ "app" \notin ids =>
        Asked = <<Request("guild")>> /\ Immediate = <<Reply("app", TRUE, {})>>
  BY Zenon DEF Asked, Immediate
<1> QED
  BY <1>1, <1>2, <1>3, <1>4, <1>5, <1>6, Zenon

LEMMA AskedType ==
  ASSUME ids \subseteq Owners, ids # {}
  PROVE  /\ Asked \in Seq(Requests) /\ Immediate \in Seq(Replies)
         /\ \A i \in DOMAIN Asked : Asked[i].owner \in ids
<1> DEFINE app == Request("app")
           guild1 == Request("guild")
           noApp == Reply("app", TRUE, {})
           noGuild == Reply("guild", TRUE, {})
<1>1. /\ app \in Requests /\ app.owner = "app"
      /\ guild1 \in Requests /\ guild1.owner = "guild"
      /\ noApp \in Replies /\ noGuild \in Replies
  BY DEF Request, Reply, Requests, Replies, Owners
<1>2. \/ /\ ids = {"app", "guild"} /\ Asked = <<app, guild1>> /\ Immediate = <<>>
      \/ /\ ids = {"app"} /\ Asked = <<app>> /\ Immediate = <<noGuild>>
      \/ /\ ids = {"guild"} /\ Asked = <<guild1>> /\ Immediate = <<noApp>>
  BY AskedIs, IdsCases
<1> HIDE DEF app, guild1, noApp, noGuild
<1>3. CASE ids = {"app", "guild"} /\ Asked = <<app, guild1>> /\ Immediate = <<>>
  BY <1>1, <1>3
<1>4. CASE ids = {"app"} /\ Asked = <<app>> /\ Immediate = <<noGuild>>
  BY <1>1, <1>4
<1>5. CASE ids = {"guild"} /\ Asked = <<guild1>> /\ Immediate = <<noApp>>
  BY <1>1, <1>5
<1> QED
  BY <1>2, <1>3, <1>4, <1>5

\* A refresh begins on course.
LEMMA Begun ==
  /\ ids \subseteq Owners /\ ids # {} /\ Blank
  /\ requests = Asked /\ gameQueue = Immediate
  => OnCourse
<1> SUFFICES ASSUME ids \subseteq Owners, ids # {}, Blank,
                    requests = Asked, gameQueue = Immediate
             PROVE  OnCourse
  OBVIOUS
<1>1. Request("app").owner = "app" /\ Request("guild").owner = "guild"
  BY DEF Request
<1>2. CASE ids = {"app", "guild"}
  <2>1. First = "app" /\ Second = "guild"
    BY <1>2 DEF First, Second
  <2>2. requests = <<Request("app"), Request("guild")>> /\ gameQueue = <<>>
    BY <1>2, AskedIs
  <2>3. AskingBoth
    BY <1>1, <2>1, <2>2 DEF AskingBoth
  <2> QED
    BY <1>2, <2>1, <2>2, <2>3 DEF OnCourse
<1>3. CASE ids = {"app"}
  <2>1. First = "guild" /\ Second = "app" /\ Full("guild") = Reply("guild", TRUE, {})
    BY <1>3 DEF First, Second, Full
  <2>2. requests = <<Request("app")>> /\ gameQueue = <<Reply("guild", TRUE, {})>>
    BY <1>3, AskedIs
  <2>3. Asking("app") /\ Come("guild")
    <3>1. Asking("app")
      BY <1>1, <2>2 DEF Asking
    <3>2. PICK r : gameQueue = <<r>> /\ r = Full("guild")
      BY <2>1, <2>2, Zenon
    <3>3. Come("guild")
      BY <3>2 DEF Come
    <3> QED
      BY <3>1, <3>3
  <2> QED
    BY <2>1, <2>3 DEF OnCourse
<1>4. CASE ids = {"guild"}
  <2>1. First = "app" /\ Second = "guild" /\ Full("app") = Reply("app", TRUE, {})
    BY <1>4 DEF First, Second, Full
  <2>2. requests = <<Request("guild")>> /\ gameQueue = <<Reply("app", TRUE, {})>>
    BY <1>4, AskedIs
  <2>3. Asking("guild") /\ Come("app")
    <3>1. Asking("guild")
      BY <1>1, <2>2 DEF Asking
    <3>2. PICK r : gameQueue = <<r>> /\ r = Full("app")
      BY <2>1, <2>2, Zenon
    <3>3. Come("app")
      BY <3>2 DEF Come
    <3> QED
      BY <3>1, <3>3
  <2> QED
    BY <2>1, <2>3 DEF OnCourse
<1> QED
  BY <1>2, <1>3, <1>4, IdsCases

LEMMA InitIInv == Init => IInv
<1> SUFFICES ASSUME Init PROVE IInv
  OBVIOUS
<1>1. ids \subseteq Owners /\ ids # {}
  BY DEF Init
<1>2. requests \in Seq(Requests) /\ gameQueue \in Seq(Replies) /\ IdsOK
  BY <1>1, AskedType DEF Init, IdsOK
<1>3. TypeOK
  <2>1. notices \in 0 .. MaxChanges /\ changes \in 0 .. MaxChanges
        /\ refreshes \in 0 .. MaxRefreshes
    BY EmojiAssumption DEF Init
  <2>2. /\ nameToEmoji \in [Names -> Values] /\ resolved \in [Names -> Values]
        /\ appEmojiIds \subseteq Names /\ guildEmojiIds \subseteq Names
    BY DEF Init, Values
  <2>3. guild \subseteq Names /\ tainted \in BOOLEAN
    BY DEF Init
  <2> QED
    BY <1>1, <1>2, <2>1, <2>2, <2>3 DEF TypeOK
<1>4. OnCourse
  BY <1>1, Begun DEF Init, Blank
<1> QED
  BY <1>2, <1>3, <1>4 DEF IInv, Init

-----------------------------------------------------------------------------
\* A refresh that meets nothing is on course, whatever was found before.
LEMMA RefreshStep ==
  ASSUME IInv, Refresh, UNCHANGED <<ids, guild, resolved>>,
         notices' \in 0 .. MaxChanges, changes' \in 0 .. MaxChanges,
         refreshes' \in 0 .. MaxRefreshes, notices' <= changes'
  PROVE  IInv'
<1>1. ids \subseteq Owners /\ ids # {}
  BY DEF IInv, TypeOK, IdsOK
<1>2. requests \in Seq(Requests) /\ gameQueue \in Seq(Replies)
  BY DEF IInv, TypeOK
<1>3. /\ requests' = requests \o Asked /\ requests' \in Seq(Requests)
      /\ gameQueue' = gameQueue \o Immediate /\ gameQueue' \in Seq(Replies)
  BY <1>1, <1>2, AskedType DEF Refresh
<1>4. TypeOK'
  <2>1. nameToEmoji' \in [Names -> Values] /\ appEmojiIds' = {} /\ guildEmojiIds' = {}
    BY DEF Refresh, Values
  <2>2. tainted' \in BOOLEAN
    BY DEF Refresh, Outstanding
  <2> QED
    BY <1>3, <2>1, <2>2 DEF IInv, TypeOK
<1>5. IdsOK'
  <2>1. \A i \in DOMAIN requests : requests[i].owner \in ids
    BY DEF IInv, IdsOK
  <2>2. Asked \in Seq(Requests) /\ \A i \in DOMAIN Asked : Asked[i].owner \in ids
    BY <1>1, AskedType
  <2>3. \A i \in DOMAIN requests' : requests'[i].owner \in ids
    BY <1>2, <1>3, <2>1, <2>2
  <2> QED
    BY <1>1, <2>3 DEF IdsOK
<1>6. ASSUME ~tainted' PROVE OnCourse'
  <2>1. requests = <<>> /\ gameQueue = <<>>
    BY <1>6 DEF Refresh, Outstanding
  <2>2. requests' = Asked /\ gameQueue' = Immediate
    BY <1>1, <1>3, <2>1, AskedType
  <2>3. Asked' = Asked /\ Immediate' = Immediate
    BY DEF Asked, Immediate
  <2>4. Blank'
    BY DEF Refresh, Blank
  <2>5. (/\ ids \subseteq Owners /\ ids # {} /\ Blank
         /\ requests = Asked /\ gameQueue = Immediate
         => OnCourse)'
    BY Begun, PTL
  <2> QED
    BY <1>1, <2>2, <2>3, <2>4, <2>5
<1> QED
  BY <1>4, <1>5, <1>6 DEF IInv

\* What an answer adds.
LEMMA FullIs ==
  ASSUME IInv, NEW o \in Owners
  PROVE  /\ Full(o).owner = o /\ Full(o).ok = TRUE /\ Full(o).names \subseteq Names
         /\ \A n : n \in Full(o).names <=> Has(o, n)
         /\ o \in ids => Reply(o, TRUE, Of(o)) = Full(o)
<1>1. Of(o) \subseteq Names
  BY EmojiAssumption DEF IInv, TypeOK, Of
<1> QED
  BY <1>1 DEF Full, Reply, Has

LEMMA Order ==
  /\ First \in Owners /\ Second \in Owners
  /\ \/ First = "app" /\ Second = "guild"
     \/ First = "guild" /\ Second = "app"
<1>1. CASE "app" \in ids /\ "guild" \notin ids
  <2>1. First = "guild"
    BY <1>1 DEF First
  <2>2. Second = "app"
    BY <2>1 DEF Second
  <2> QED
    BY <2>1, <2>2 DEF Owners
<1>2. CASE ~("app" \in ids /\ "guild" \notin ids)
  <2>1. First = "app"
    BY <1>2 DEF First
  <2>2. Second = "guild"
    BY <2>1 DEF Second
  <2> QED
    BY <2>1, <2>2 DEF Owners
<1> QED
  BY <1>1, <1>2

LEMMA AnswerStep ==
  ASSUME IInv, Answer
  PROVE  IInv'
<1> DEFINE o == Head(requests).owner
           good == Reply(o, TRUE, Of(o))
           bad == Reply(o, FALSE, {NoName})
<1>a. \/ gameQueue' = Append(gameQueue, good) /\ tainted' = tainted
      \/ gameQueue' = Append(gameQueue, bad) /\ tainted' = TRUE
  BY Zenon DEF Answer
<1>b. gameQueue' = Append(gameQueue, good) \/ gameQueue' = Append(gameQueue, bad)
  BY <1>a
<1>1. /\ requests \in Seq(Requests) /\ requests # <<>> /\ requests' = Tail(requests)
      /\ gameQueue \in Seq(Replies)
  BY DEF IInv, TypeOK, Answer
<1>2. o \in ids /\ o \in Owners /\ o = requests[1].owner
  BY <1>1 DEF IInv, IdsOK, TypeOK
<1>3. Of(o) \in SUBSET Names
  BY EmojiAssumption DEF IInv, TypeOK, Of
<1>4. requests' \in Seq(Requests)
  BY <1>1
<1>5. gameQueue' \in Seq(Replies)
  <2>1. good \in Replies /\ bad \in Replies
    BY <1>2, <1>3 DEF Reply, Replies
  <2> HIDE DEF good, bad
  <2>2. Append(gameQueue, good) \in Seq(Replies) /\ Append(gameQueue, bad) \in Seq(Replies)
    BY <1>1, <2>1
  <2> QED
    BY <1>b, <2>2
<1>6. TypeOK'
  BY <1>4, <1>5 DEF IInv, TypeOK, Answer, maps
<1>7. IdsOK'
  <2>1. \A i \in DOMAIN requests' : requests'[i].owner \in ids
    BY <1>1 DEF IInv, IdsOK
  <2> QED
    BY <2>1 DEF IInv, IdsOK, Answer
<1>8. ASSUME ~tainted', notices' = 0 PROVE OnCourse'
  <2>1. /\ ~tainted /\ notices = 0 /\ UNCHANGED <<ids, guild, maps, resolved>>
        /\ gameQueue' = Append(gameQueue, good)
    <3> HIDE DEF good, bad
    <3> QED
      BY <1>8, <1>a DEF Answer
  <2>2. gameQueue' = Append(gameQueue, Full(o))
    BY <1>2, <2>1, FullIs
  <2>3. First' = First /\ Second' = Second /\ \A x : Full(x)' = Full(x)
    BY <2>1 DEF First, Second, Full, Of
  <2>4. /\ Blank => Blank'
        /\ Half => Half'
    BY <2>1, <2>3 DEF Blank, Half, maps, Has, Of
  <2>5. OnCourse
    BY <2>1 DEF IInv
  <2>6. CASE AskingBoth /\ gameQueue = <<>> /\ Blank
    <3>1. o = First /\ Len(requests') = 1 /\ requests'[1].owner = Second
      BY <1>1, <1>2, <2>6 DEF AskingBoth
    <3>2. Len(gameQueue') = 1 /\ gameQueue'[1] = Full(First)
      BY <2>2, <2>6, <3>1
    <3> QED
      BY <2>3, <2>4, <2>6, <3>1, <3>2 DEF OnCourse, Asking, Come
  <2>7. CASE Asking(Second) /\ Come(First) /\ Blank
    <3>1. o = Second /\ requests' = <<>>
      BY <1>1, <1>2, <2>7 DEF Asking
    <3>2. ComeBoth'
      BY <1>1, <2>2, <2>3, <2>7, <3>1 DEF Come, ComeBoth
    <3> QED
      BY <2>4, <2>7, <3>1, <3>2 DEF OnCourse
  <2>8. CASE Asking(Second) /\ gameQueue = <<>> /\ Half
    <3>1. o = Second /\ requests' = <<>>
      BY <1>1, <1>2, <2>8 DEF Asking
    <3>2. Len(gameQueue') = 1 /\ gameQueue'[1] = Full(Second)
      BY <2>2, <2>8, <3>1
    <3> QED
      BY <2>3, <2>4, <2>8, <3>1, <3>2 DEF OnCourse, Come
  <2> QED
    BY <1>1, <2>5, <2>6, <2>7, <2>8 DEF OnCourse
<1>9. (notices <= changes)'
  BY DEF IInv, Answer
<1> QED
  BY <1>6, <1>7, <1>8, <1>9 DEF IInv

\* The first list finds its own emojis, the second one completes the picture.
LEMMA MergeFirst ==
  ASSUME IInv, Blank, Merge(Full(First)), UNCHANGED <<ids, guild>>
  PROVE  Half'
<1> DEFINE r == Full(First)
<1>1. /\ r.owner = First /\ r.ok = TRUE /\ r.names \subseteq Names
      /\ \A n : n \in r.names <=> Has(First, n)
  BY Order, FullIs
<1> HIDE DEF r
<1>2. /\ nameToEmoji' = [n \in Names |-> IF n \in r.names THEN r.owner ELSE nameToEmoji[n]]
      /\ appEmojiIds' = (IF r.owner = "app" THEN appEmojiIds \cup r.names ELSE appEmojiIds)
      /\ guildEmojiIds' =
           (IF r.owner = "guild" THEN guildEmojiIds \cup r.names ELSE guildEmojiIds)
  BY <1>1 DEF Merge, r
<1>3. First' = First /\ \A o, n : Has(o, n)' <=> Has(o, n)
  BY DEF First, Has, Of
<1>4. nameToEmoji' = [n \in Names |-> IF Has(First, n) THEN First ELSE "none"]
  BY <1>1, <1>2 DEF Blank
<1>5. appEmojiIds' = {n \in Names : First = "app" /\ Has("app", n)}
  BY <1>1, <1>2 DEF Blank
<1>6. guildEmojiIds' = {n \in Names : First = "guild" /\ Has("guild", n)}
  BY <1>1, <1>2 DEF Blank
<1> QED
  BY <1>3, <1>4, <1>5, <1>6 DEF Half

LEMMA MergeSecond ==
  ASSUME IInv, Half, Merge(Full(Second)), ResolveAll, UNCHANGED <<ids, guild>>
  PROVE  Accurate'
<1> DEFINE r == Full(Second)
<1>1. /\ r.owner = Second /\ r.ok = TRUE /\ r.names \subseteq Names
      /\ \A n : n \in r.names <=> Has(Second, n)
  BY Order, FullIs
<1> HIDE DEF r
<1>2. /\ nameToEmoji' = [n \in Names |-> IF n \in r.names THEN r.owner ELSE nameToEmoji[n]]
      /\ appEmojiIds' = (IF r.owner = "app" THEN appEmojiIds \cup r.names ELSE appEmojiIds)
      /\ guildEmojiIds' =
           (IF r.owner = "guild" THEN guildEmojiIds \cup r.names ELSE guildEmojiIds)
  BY <1>1 DEF Merge, r
<1>3. \A o, n : Has(o, n)' <=> Has(o, n)
  BY DEF Has, Of
<1>4. \A n : Expected(n)' = Expected(n)
  BY <1>3 DEF Expected
<1>5. nameToEmoji' = [n \in Names |-> Expected(n)]
  <2>1. ASSUME NEW n \in Names PROVE nameToEmoji'[n] = Expected(n)
    <3>1. nameToEmoji[n] = IF Has(First, n) THEN First ELSE "none"
      BY <2>1 DEF Half
    <3>2. nameToEmoji'[n] = IF Has(Second, n) THEN Second ELSE nameToEmoji[n]
      BY <1>1, <1>2, <2>1
    <3>3. CASE First = "app" /\ Second = "guild"
      BY <3>1, <3>2, <3>3 DEF Expected
    <3>4. CASE First = "guild" /\ Second = "app"
      <4>1. "guild" \notin ids \/ "app" \notin ids
        BY <3>4 DEF First
      <4>2. ~Has("guild", n) \/ ~Has("app", n)
        BY <4>1 DEF Has
      <4> QED
        BY <3>1, <3>2, <3>4, <4>2 DEF Expected
    <3> QED
      BY <3>3, <3>4, Order
  <2>2. nameToEmoji' = [n \in Names |-> nameToEmoji'[n]]
    BY <1>2
  <2> QED
    BY <2>1, <2>2
<1>6. appEmojiIds' = {n \in Names : Has("app", n)}
  BY <1>1, <1>2, Order DEF Half
<1>7. guildEmojiIds' = {n \in Names : Has("guild", n)}
  BY <1>1, <1>2, Order DEF Half
<1> QED
  BY <1>3, <1>4, <1>5, <1>6, <1>7 DEF Accurate, ResolveAll

LEMMA ProcessEmojisStep ==
  ASSUME IInv, ProcessEmojis
  PROVE  IInv'
<1> DEFINE r == Head(gameQueue)
<1>1. /\ gameQueue \in Seq(Replies) /\ gameQueue # <<>> /\ gameQueue' = Tail(gameQueue)
      /\ UNCHANGED <<ids, guild, notices, requests, tainted, changes, refreshes>>
      /\ Merge(r) /\ ResolveAll
  BY DEF IInv, TypeOK, ProcessEmojis
<1>2. r = gameQueue[1] /\ r \in Replies /\ gameQueue' \in Seq(Replies)
  BY <1>1
<1>3. TypeOK'
  <2> DEFINE found == IF r.ok THEN r.names ELSE {}
  <2>1. found \subseteq Names /\ r.owner \in Values
    BY <1>2 DEF Replies, Values
  <2>2. nameToEmoji' \in [Names -> Values]
    <3>1. nameToEmoji' = [n \in Names |-> IF n \in found THEN r.owner ELSE nameToEmoji[n]]
      BY <1>1 DEF Merge
    <3>2. nameToEmoji \in [Names -> Values]
      BY DEF IInv, TypeOK
    <3> HIDE DEF found, r
    <3> QED
      BY <2>1, <3>1, <3>2
  <2>3. appEmojiIds' \subseteq Names /\ guildEmojiIds' \subseteq Names
    <3>1. appEmojiIds \subseteq Names /\ guildEmojiIds \subseteq Names
      BY DEF IInv, TypeOK
    <3>2. /\ appEmojiIds' = (IF r.owner = "app" THEN appEmojiIds \cup found ELSE appEmojiIds)
          /\ guildEmojiIds' =
               (IF r.owner = "guild" THEN guildEmojiIds \cup found ELSE guildEmojiIds)
      BY <1>1 DEF Merge
    <3> HIDE DEF found, r
    <3> QED
      BY <2>1, <3>1, <3>2
  <2>4. resolved' \in [Names -> Values]
    BY <1>1, <2>2 DEF ResolveAll
  <2> QED
    BY <1>1, <1>2, <2>2, <2>3, <2>4 DEF IInv, TypeOK
<1>4. ASSUME ~tainted', notices' = 0 PROVE OnCourse'
  <2>1. OnCourse
    BY <1>1, <1>4 DEF IInv
  <2>2. /\ First' = First /\ Second' = Second /\ \A x : Full(x)' = Full(x)
        /\ \A x : Asking(x) => Asking(x)'
    BY <1>1 DEF First, Second, Full, Of, Asking
  <2>3. CASE Asking(Second) /\ Come(First) /\ Blank
    <3>1. r = Full(First) /\ gameQueue' = <<>>
      BY <1>1, <1>2, <2>3 DEF Come
    <3>2. Half'
      BY <1>1, <2>3, <3>1, MergeFirst
    <3> QED
      BY <2>2, <2>3, <3>1, <3>2 DEF OnCourse
  <2>4. CASE requests = <<>> /\ ComeBoth /\ Blank
    <3>1. r = Full(First) /\ Len(gameQueue') = 1 /\ gameQueue'[1] = Full(Second)
      BY <1>1, <1>2, <2>4 DEF ComeBoth
    <3>2. Half'
      BY <1>1, <2>4, <3>1, MergeFirst
    <3> QED
      BY <1>1, <2>2, <2>4, <3>1, <3>2 DEF OnCourse, Come
  <2>5. CASE requests = <<>> /\ Come(Second) /\ Half
    <3>1. r = Full(Second) /\ gameQueue' = <<>>
      BY <1>1, <1>2, <2>5 DEF Come
    <3>2. Accurate'
      BY <1>1, <2>5, <3>1, MergeSecond
    <3> QED
      BY <1>1, <2>5, <3>1, <3>2 DEF OnCourse
  <2> QED
    BY <1>1, <2>1, <2>3, <2>4, <2>5 DEF OnCourse
<1>5. IdsOK' /\ (notices <= changes)'
  BY <1>1 DEF IInv, IdsOK
<1> QED
  BY <1>3, <1>4, <1>5 DEF IInv

LEMMA RateLimitStep ==
  ASSUME IInv, RateLimit
  PROVE  IInv'
<1> DEFINE r == Head(requests)
           again == [r EXCEPT !.retried = TRUE]
<1>1. /\ requests \in Seq(Requests) /\ requests # <<>> /\ tainted \in BOOLEAN
      /\ UNCHANGED <<ids, guild, notices, gameQueue, maps, resolved, changes, refreshes>>
  BY DEF IInv, TypeOK, RateLimit
<1>2. r = requests[1] /\ r \in Requests /\ r.owner \in ids
  BY <1>1 DEF IInv, IdsOK
<1>3. again \in Requests /\ again.owner = r.owner
  BY <1>2 DEF Requests
<1>4. \/ requests' = Tail(requests) /\ tainted' = TRUE
      \/ /\ requests' = Append(Tail(requests), again)
         /\ tainted' = (tainted \/ Len(requests) > 1)
  BY Zenon DEF RateLimit
<1> HIDE DEF again, r
<1>5. requests' = Tail(requests) \/ requests' = Append(Tail(requests), again)
  BY <1>4
<1>6. requests' \in Seq(Requests)
  BY <1>1, <1>3, <1>5
<1>7. TypeOK'
  <2>1. tainted' \in BOOLEAN
    BY <1>4
  <2> QED
    BY <1>1, <1>6, <2>1 DEF IInv, TypeOK, maps
<1>8. IdsOK'
  <2>1. \A i \in DOMAIN requests : requests[i].owner \in ids
    BY DEF IInv, IdsOK
  <2>2. \A i \in DOMAIN requests' : requests'[i].owner \in ids
    BY <1>1, <1>2, <1>3, <1>5, <2>1
  <2> QED
    BY <1>1, <2>2 DEF IInv, IdsOK
<1>9. ASSUME ~tainted', notices' = 0 PROVE OnCourse'
  <2>1. /\ ~tainted /\ ~(Len(requests) > 1) /\ requests' = Append(Tail(requests), again)
    BY <1>4, <1>9
  <2>2. OnCourse
    BY <1>1, <1>9, <2>1 DEF IInv
  <2>3. Len(requests) = 1
    <3>1. requests \in Seq(Requests) /\ requests # <<>>
      BY <1>1
    <3>2. Len(requests) \in Nat /\ Len(requests) # 0
      BY <3>1
    <3>3. ~(Len(requests) > 1)
      BY <2>1
    <3>4. \A n \in Nat : n # 0 /\ ~(n > 1) => n = 1
      OBVIOUS
    <3> QED
      BY <3>2, <3>3, <3>4, Zenon
  <2>4. Len(requests') = 1 /\ requests'[1] = again
    <3>1. requests \in Seq(Requests)
      BY <1>1
    <3>2. Tail(requests) = <<>>
      <4>1. Len(Tail(requests)) = 0 /\ Tail(requests) \in Seq(Requests)
        BY <2>3, <3>1
      <4>2. \A t \in Seq(Requests) : Len(t) = 0 => t = <<>>
        OBVIOUS
      <4> QED
        BY <4>1, <4>2, Zenon
    <3>3. requests' = Append(Tail(requests), again)
      BY <2>1
    <3> QED
      <4>1. requests' = Append(<<>>, again)
        BY <3>2, <3>3, Zenon
      <4>2. \A x : Len(Append(<<>>, x)) = 1 /\ Append(<<>>, x)[1] = x
        OBVIOUS
      <4> QED
        BY <4>1, <4>2, Zenon
  <2>5. /\ First' = First /\ Second' = Second /\ \A x : Come(x)' <=> Come(x)
        /\ Blank' <=> Blank
        /\ Half' <=> Half
    BY <1>1 DEF First, Second, Full, Of, Come, Blank, Half, maps, Has
  <2>6. \A x : Asking(x) => Asking(x)'
    BY <1>2, <1>3, <2>3, <2>4 DEF Asking
  <2>7. \/ Asking(Second) /\ Come(First)      /\ Blank
        \/ Asking(Second) /\ gameQueue = <<>> /\ Half
    BY <2>2, <2>3 DEF OnCourse, AskingBoth
  <2> QED
    BY <1>1, <2>5, <2>6, <2>7 DEF OnCourse
<1>10. (notices <= changes)'
  BY <1>1 DEF IInv
<1> QED
  BY <1>7, <1>8, <1>9, <1>10 DEF IInv

LEMMA GuildChangeStep ==
  ASSUME IInv, GuildChange
  PROVE  IInv'
<1>1. notices \in Nat /\ changes \in Nat /\ notices <= changes /\ MaxChanges \in Nat
  BY EmojiAssumption DEF IInv, TypeOK
<1>2. /\ notices' \in 0 .. MaxChanges /\ changes' \in 0 .. MaxChanges
      /\ notices' <= changes' /\ notices' # 0
  BY <1>1 DEF GuildChange
<1>3. TypeOK' /\ IdsOK'
  BY <1>2 DEF IInv, TypeOK, IdsOK, GuildChange, maps
<1> QED
  BY <1>2, <1>3 DEF IInv

LEMMA StepIInv == IInv /\ [Next]_vars => IInv'
<1> SUFFICES ASSUME IInv, [Next]_vars PROVE IInv'
  OBVIOUS
<1>1. /\ notices \in 0 .. MaxChanges /\ changes \in 0 .. MaxChanges /\ notices <= changes
      /\ refreshes \in 0 .. MaxRefreshes /\ MaxRefreshes \in Nat /\ MaxChanges \in Nat
  BY EmojiAssumption DEF IInv, TypeOK
<1>2. CASE RefreshAgain
  BY <1>1, <1>2, RefreshStep DEF RefreshAgain
<1>3. CASE ProcessEmojiUpdate
  BY <1>1, <1>3, RefreshStep DEF ProcessEmojiUpdate
<1>4. CASE ProcessEmojis
  BY <1>4, ProcessEmojisStep
<1>5. CASE Answer
  BY <1>5, AnswerStep
<1>6. CASE RateLimit
  BY <1>6, RateLimitStep
<1>7. CASE GuildChange
  BY <1>7, GuildChangeStep
<1>8. CASE UNCHANGED vars
  <2>1. UNCHANGED <<ids, guild, requests, gameQueue, nameToEmoji, appEmojiIds,
                    guildEmojiIds, resolved, tainted, notices, changes, refreshes>>
    BY <1>8 DEF vars, maps
  <2>2. OnCourse' = OnCourse
    <3>1. First' = First /\ Second' = Second
      BY <2>1 DEF First, Second
    <3>2. \A o : Full(o)' = Full(o) /\ Asking(o)' = Asking(o)
      BY <2>1 DEF Full, Of, Asking
    <3>3. Blank' = Blank /\ Half' = Half /\ Accurate' = Accurate
      BY <2>1 DEF Blank, Half, Accurate, Has, Of, First, Expected
    <3> QED
      BY <2>1, <3>1, <3>2, <3>3 DEF OnCourse, AskingBoth, Asking, Come, ComeBoth
  <2> QED
    BY <2>1, <2>2 DEF IInv, TypeOK, IdsOK
<1> QED
  BY <1>2, <1>3, <1>4, <1>5, <1>6, <1>7, <1>8 DEF Next

\* As long as nothing has tainted the last refresh, its two answers are on course: asked
\* for, come, or merged, the guild's after the application's.
THEOREM Invariance == Spec => []IInv
<1> QED
  BY InitIInv, StepIInv, PTL DEF Spec

-----------------------------------------------------------------------------
\* Every variable keeps its type: in particular no name enters the maps that is not
\* an emoji's, whatever a failed request's body contains (Merge).
THEOREM TypeCorrect == Spec => []TypeOK
<1>1. IInv => TypeOK
  BY DEF IInv
<1> QED
  BY <1>1, Invariance, PTL

\* Once all answers are in, the maps are Discord's lists with the guild's emojis
\* before the application's, unless the last refresh met another or a failure.
THEOREM Settles == Spec => []SettledIsAccurate
<1>1. IInv => SettledIsAccurate
  BY DEF IInv, SettledIsAccurate, OnCourse, AskingBoth, Asking, Come, ComeBoth, Outstanding
<1> QED
  BY <1>1, Invariance, PTL

\* What a message consists of before it is rewritten.
Pieces == Emoji \cup {Word}

LEMMA ContentType ==
  ASSUME IInv, NEW p \in Prefixes, NEW t \in Typed
  PROVE  p \o t \in Seq(Pieces)
<1>1. p \in Seq(Pieces)
  <2>1. CASE p = <<>>
    BY <2>1
  <2>2. ASSUME NEW n \in Names, resolved[n] # "none",
               p = <<[owner |-> resolved[n], name |-> n]>>
        PROVE  p \in Seq(Pieces)
    <3>1. [owner |-> resolved[n], name |-> n] \in Pieces
      BY <2>2 DEF IInv, TypeOK, Values, Pieces, Emoji
    <3> QED
      BY <2>2, <3>1
  <2> QED
    BY <2>1, <2>2 DEF Prefixes
<1>2. t \in Seq(Pieces)
  <2>1. PICK k \in 0 .. MaxText : t \in [1 .. k -> Pieces]
    BY DEF Typed, Pieces
  <2> QED
    BY <2>1, EmojiAssumption
<1> QED
  BY <1>1, <1>2

\* Once all answers are in, a message is sent as the bot exactly when it needs an
\* emoji that only the application has (ContainsAppEmoji, RewriteAppEmojisToGuild).
THEOREM MessagesAreRoutedRight == Spec => []RoutedRight
<1>1. ASSUME IInv, ~Outstanding /\ notices = 0 /\ ~tainted, NEW text \in Contents
      PROVE  /\ ContainsAppEmoji(text) => \E n \in AppEmojis(text) : ~Has("guild", n)
             /\ ~ContainsAppEmoji(text) => \A n \in AppEmojis(text) : ~Has("app", n)
  <2>1. Accurate
    BY <1>1 DEF IInv, OnCourse, AskingBoth, Asking, Come, ComeBoth, Outstanding
  <2>2. PICK p \in Prefixes, t \in Typed : text = RewriteAppEmojisToGuild(p \o t)
    BY <1>1 DEF Contents
  <2> DEFINE q == p \o t
  <2>3. q \in Seq(Pieces)
    BY <1>1, ContentType
  <2> HIDE DEF q
  <2>4. /\ DOMAIN text = DOMAIN q
        /\ \A i \in DOMAIN q : text[i] =
             IF /\ IsAppOnlyEmojiId(q[i])
                /\ nameToEmoji[q[i].name] = "guild"
                /\ q[i].name \in guildEmojiIds
             THEN [q[i] EXCEPT !.owner = "guild"] ELSE q[i]
    BY <2>2 DEF RewriteAppEmojisToGuild, q
  <2>5. ASSUME NEW i \in DOMAIN text, IsAppOnlyEmojiId(text[i])
        PROVE  \E n \in AppEmojis(text) : ~Has("guild", n)
    <3>1. q[i] \in Pieces
      BY <2>3, <2>4
    <3>2. text[i].owner = "app" /\ text[i].name \in appEmojiIds
      BY <2>5 DEF IsAppOnlyEmojiId
    <3>3. text[i] = q[i]
      BY <2>4, <3>1, <3>2 DEF Pieces, Emoji, Word
    <3>4. text[i] \in Emoji /\ text[i].name \in Names
      BY <3>1, <3>2, <3>3 DEF Pieces, Emoji, Word
    <3>5. text[i] = [owner |-> "app", name |-> text[i].name]
      BY <3>2, <3>4 DEF Emoji
    <3>6. ~Has("guild", text[i].name)
      <4>1. SUFFICES ASSUME Has("guild", text[i].name) PROVE FALSE
        OBVIOUS
      <4>2. nameToEmoji[text[i].name] = "guild" /\ text[i].name \in guildEmojiIds
        BY <2>1, <3>4, <4>1 DEF Accurate, Expected
      <4>3. text[i].owner = "guild"
        BY <2>4, <2>5, <3>1, <3>3, <3>4, <4>2 DEF Emoji
      <4> QED
        BY <3>2, <4>3
    <3> QED
      BY <3>4, <3>5, <3>6 DEF AppEmojis
  <2>6. ASSUME ~ContainsAppEmoji(text), NEW n \in AppEmojis(text)
        PROVE  ~Has("app", n)
    <3>1. PICK i \in DOMAIN text : text[i] = [owner |-> "app", name |-> n]
      BY <2>6 DEF AppEmojis
    <3>2. n \in Names
      BY <2>6 DEF AppEmojis
    <3>3. n \notin appEmojiIds
      BY <2>6, <3>1 DEF ContainsAppEmoji, IsAppOnlyEmojiId
    <3> QED
      BY <2>1, <3>2, <3>3 DEF Accurate
  <2> QED
    BY <2>5, <2>6 DEF ContainsAppEmoji
<1>2. IInv => RoutedRight
  BY <1>1 DEF RoutedRight
<1> QED
  BY <1>2, Invariance, PTL

-----------------------------------------------------------------------------
\* What holds whatever happens to the answers: what is shown is what the map says, or
\* the map says nothing, and the application's emojis are known by their ids.
Agree ==
  /\ resolved = nameToEmoji \/ Forgotten
  /\ \A n \in Names : nameToEmoji[n] = "app" => n \in appEmojiIds

LEMMA AgreeStep == IInv /\ Agree /\ [Next]_vars => Agree'
<1> SUFFICES ASSUME IInv, Agree, [Next]_vars PROVE Agree'
  OBVIOUS
<1>1. CASE Refresh
  BY <1>1 DEF Refresh, Agree, Forgotten
<1>2. CASE ProcessEmojis
  <2> DEFINE r == Head(gameQueue)
             found == IF r.ok THEN r.names ELSE {}
  <2>1. r \in Replies
    BY <1>2 DEF ProcessEmojis, IInv, TypeOK
  <2>2. found \subseteq Names
    BY <2>1 DEF Replies
  <2>3. /\ nameToEmoji' = [n \in Names |-> IF n \in found THEN r.owner ELSE nameToEmoji[n]]
        /\ appEmojiIds' = IF r.owner = "app" THEN appEmojiIds \cup found ELSE appEmojiIds
        /\ resolved' = nameToEmoji'
    BY <1>2 DEF ProcessEmojis, Merge, ResolveAll
  <2> HIDE DEF found, r
  <2> QED
    BY <2>2, <2>3 DEF Agree
<1>3. CASE UNCHANGED <<maps, resolved>>
  BY <1>3 DEF Agree, Forgotten, maps
<1> QED
  BY <1>1, <1>2, <1>3
  DEF Next, RefreshAgain, ProcessEmojiUpdate, Answer, RateLimit, GuildChange, vars

\* Then only a forgotten map lets a prefix of the application's pass for the guild's.
LEMMA AgreeRenders ==
  ASSUME IInv, Agree
  PROVE  PrefixRenders
<1> SUFFICES ASSUME resolved = nameToEmoji,
                    NEW p \in Prefixes, NEW t \in Typed, NEW i \in DOMAIN p,
                    ~ContainsAppEmoji(RewriteAppEmojisToGuild(p \o t))
             PROVE  RewriteAppEmojisToGuild(p \o t)[i].owner # "app"
  BY DEF PrefixRenders, Agree
<1>1. PICK n \in Names : resolved[n] # "none" /\ p = <<[owner |-> resolved[n], name |-> n]>>
  BY DEF Prefixes
<1> DEFINE piece == [owner |-> resolved[n], name |-> n]
           q == p \o t
           text == RewriteAppEmojisToGuild(q)
<1>2. t \in Seq(Pieces)
  <2>1. PICK k \in 0 .. MaxText : t \in [1 .. k -> Pieces]
    BY DEF Typed, Pieces
  <2> QED
    BY <2>1, EmojiAssumption
<1>3. i = 1 /\ 1 \in DOMAIN q /\ q[1] = piece
  <2>1. piece \in Pieces
    BY <1>1 DEF IInv, TypeOK, Values, Pieces, Emoji
  <2> HIDE DEF piece
  <2> QED
    BY <1>1, <1>2, <2>1 DEF piece
<1> HIDE DEF q
<1>4. /\ 1 \in DOMAIN text
      /\ text[1] = IF /\ IsAppOnlyEmojiId(q[1])
                      /\ nameToEmoji[q[1].name] = "guild"
                      /\ q[1].name \in guildEmojiIds
                   THEN [q[1] EXCEPT !.owner = "guild"] ELSE q[1]
  BY <1>3 DEF RewriteAppEmojisToGuild
<1>5. ~IsAppOnlyEmojiId(text[1])
  BY <1>4 DEF ContainsAppEmoji, q
<1>6. ASSUME text[1].owner = "app" PROVE FALSE
  <2>1. text[1] = piece /\ piece.owner = "app" /\ piece.name = n
    BY <1>3, <1>4, <1>6
  <2>2. n \in appEmojiIds
    BY <2>1 DEF Agree
  <2> QED
    BY <1>5, <2>1, <2>2 DEF IsAppOnlyEmojiId
<1> QED
  BY <1>3, <1>6 DEF q

\* A refresh that crosses another, an answer that fails, comes late or in the wrong order:
\* a webhook is given a prefix of the application's only between a refresh and the
\* first answer that finds something (Refresh, ResolveAll, RewriteAppEmojisToGuild).
THEOREM PrefixesRender == Spec => []PrefixRenders
<1>1. Init => Agree
  BY DEF Init, Agree, Forgotten
<1>2. IInv /\ Agree => PrefixRenders
  BY AgreeRenders
<1> QED
  BY <1>1, <1>2, AgreeStep, Invariance, PTL DEF Spec
=============================================================================
