------------------------------- MODULE Emojis -------------------------------
(***************************************************************************)
(* DiscordEmojiManager: the emojis of the application and of the guild,    *)
(* fetched with two requests and merged as their answers come, and what    *)
(* the chat bridge asks of them before it picks webhook or bot for a       *)
(* message.                                                                *)
(*                                                                         *)
(* An emoji is its owner and its name: the application's and the guild's   *)
(* emoji of one name have different ids.  Only the guild's can change.     *)
(***************************************************************************)
EXTENDS Naturals, Sequences

CONSTANTS
  Names,               \* emoji names; the configuration uses each of them once
  App,                 \* those the application has
  NoName,              \* what a reply that is no list contains
  MaxText,             \* bound: pieces of text a player types
  MaxChanges,          \* bound: how often the guild's emojis change
  MaxRefreshes         \* bound: READY, reloads and /discord emojis reload

ASSUME EmojiAssumption ==
  /\ App \subseteq Names /\ NoName \notin Names
  /\ MaxText \in Nat /\ MaxChanges \in Nat /\ MaxRefreshes \in Nat

Owners   == {"app", "guild"}
Values   == Owners \cup {"none"}
Emoji    == [owner: Owners, name: Names]
Requests == [owner: Owners, retried: BOOLEAN]
Replies  == {r \in [owner: Owners, ok: BOOLEAN, names: SUBSET (Names \cup {NoName})] :
               r.ok => r.names \subseteq Names}
Word     == [owner |-> "none", name |-> NoName]     \* text that is no emoji

VARIABLES
  ids,                 \* whose ids are configured: ApplicationId, GuildId
  guild,               \* the names of the guild's emojis on Discord
  notices,             \* GUILD_EMOJIS_UPDATE events on their way
  requests,            \* the REST worker's queue
  gameQueue,           \* answers on their way to the game thread
  nameToEmoji,         \* nameToEmoji_[n]: the owner of the emoji found for n
  appEmojiIds, guildEmojiIds,
  resolved,            \* resolvedFaction_, resolvedClass_, ...: by name
  tainted,             \* history: the last refresh met another one, or failed
  changes, refreshes   \* how many there have been

maps  == <<nameToEmoji, appEmojiIds, guildEmojiIds>>
vars == <<ids, guild, notices, requests, gameQueue, maps, resolved, tainted, changes,
          refreshes>>

Outstanding == requests # <<>> \/ gameQueue # <<>>

Of(owner) == IF owner = "app" THEN App ELSE guild

Request(owner) == [owner |-> owner, retried |-> FALSE]

\* The body of a reply: a list of names, or something that is no array.
Reply(owner, ok, names) == [owner |-> owner, ok |-> ok, names |-> names]

\* Refresh hands both requests over, the application's first.
Asked ==
  IF ids = Owners THEN <<Request("app"), Request("guild")>>
  ELSE IF "app" \in ids THEN <<Request("app")>> ELSE <<Request("guild")>>

\* Without an id DiscordClient calls back at once, with an empty list.
Immediate ==
  IF ids = Owners THEN <<>>
  ELSE IF "app" \in ids THEN <<Reply("guild", TRUE, {})>> ELSE <<Reply("app", TRUE, {})>>

-----------------------------------------------------------------------------
\* The state in which Start leaves the manager.
Init ==
  /\ ids \in (SUBSET Owners) \ {{}}
  /\ guild \in SUBSET Names /\ notices = 0
  /\ requests = Asked /\ gameQueue = Immediate
  /\ nameToEmoji = [n \in Names |-> "none"]
  /\ appEmojiIds = {} /\ guildEmojiIds = {}
  /\ resolved = [n \in Names |-> "none"]
  /\ tainted = FALSE /\ changes = 0 /\ refreshes = 0

(***************************************************************************)
(* Faulty variants, not part of the specification.                         *)
(***************************************************************************)

\* Refresh: what was found before is kept.
RefreshKeeps ==
  /\ requests' = requests \o Asked
  /\ gameQueue' = gameQueue \o Immediate
  /\ tainted' = Outstanding
  /\ UNCHANGED maps

\* ProcessEmojiUpdate: the event is ignored.
UpdateIgnored ==
  /\ notices > 0 /\ notices' = notices - 1
  /\ UNCHANGED <<ids, guild, requests, gameQueue, maps, resolved, tainted, changes,
                 refreshes>>

\* Merge: the ids of the application's emojis are not kept.
MergeNoAppIds(r) ==
  LET found == IF r.ok THEN r.names ELSE {} IN
  /\ nameToEmoji' = [n \in Names |-> IF n \in found THEN r.owner ELSE nameToEmoji[n]]
  /\ guildEmojiIds' = IF r.owner = "guild" THEN guildEmojiIds \cup found
                      ELSE guildEmojiIds
  /\ UNCHANGED appEmojiIds

\* ResolveAll: an emoji that is not found any more stays as it was.
ResolveFound ==
  resolved' = [n \in Names |-> IF nameToEmoji'[n] = "none" THEN resolved[n]
                               ELSE nameToEmoji'[n]]

(***************************************************************************)
(* The game thread.                                                        *)
(***************************************************************************)

\* Everything but resolved is cleared; the rest comes with the answers.
Refresh ==
  /\ requests' = requests \o Asked
  /\ gameQueue' = gameQueue \o Immediate
  /\ nameToEmoji' = [n \in Names |-> "none"]
  /\ appEmojiIds' = {} /\ guildEmojiIds' = {}
  /\ tainted' = Outstanding

\* HandleReady, ReloadConfig and /discord emojis reload.
RefreshAgain ==
  /\ refreshes < MaxRefreshes /\ refreshes' = refreshes + 1
  /\ Refresh
  /\ UNCHANGED <<ids, guild, notices, resolved, changes>>

ProcessEmojiUpdate ==
  /\ notices > 0 /\ notices' = notices - 1
  /\ Refresh
  /\ UNCHANGED <<ids, guild, resolved, changes, refreshes>>

\* A later answer overrides an earlier one; one that is no array adds nothing.
Merge(r) ==
  LET found == IF r.ok THEN r.names ELSE {} IN
  /\ nameToEmoji' = [n \in Names |-> IF n \in found THEN r.owner ELSE nameToEmoji[n]]
  /\ appEmojiIds' = IF r.owner = "app" THEN appEmojiIds \cup found ELSE appEmojiIds
  /\ guildEmojiIds' = IF r.owner = "guild" THEN guildEmojiIds \cup found
                      ELSE guildEmojiIds

ResolveAll == resolved' = nameToEmoji'

\* ProcessApplicationEmojis and ProcessGuildEmojis.
ProcessEmojis ==
  /\ gameQueue # <<>>
  /\ gameQueue' = Tail(gameQueue)
  /\ Merge(Head(gameQueue))
  /\ ResolveAll
  /\ UNCHANGED <<ids, guild, notices, requests, tainted, changes, refreshes>>

(***************************************************************************)
(* The REST worker and Discord.                                            *)
(***************************************************************************)

\* Discord answers the first request with its list, with an error, or not at all.
Answer ==
  /\ requests # <<>>
  /\ requests' = Tail(requests)
  /\ LET o == Head(requests).owner IN
       \/ /\ gameQueue' = Append(gameQueue, Reply(o, TRUE, Of(o)))
          /\ UNCHANGED tainted
       \/ /\ gameQueue' = Append(gameQueue, Reply(o, FALSE, {NoName}))
          /\ tainted' = TRUE
  /\ UNCHANGED <<ids, guild, notices, maps, resolved, changes, refreshes>>

\* 429: once to the end of the queue, then dropped.
RateLimit ==
  /\ requests # <<>>
  /\ LET r == Head(requests) IN
       IF r.retried
       THEN requests' = Tail(requests) /\ tainted' = TRUE
       ELSE /\ requests' = Append(Tail(requests), [r EXCEPT !.retried = TRUE])
            /\ tainted' = (tainted \/ Len(requests) > 1)
  /\ UNCHANGED <<ids, guild, notices, gameQueue, maps, resolved, changes, refreshes>>

\* Somebody changes the guild's emojis, and Discord says so.
GuildChange ==
  /\ changes < MaxChanges /\ changes' = changes + 1
  /\ guild' \in (SUBSET Names) \ {guild}
  /\ notices' = notices + 1
  /\ UNCHANGED <<ids, requests, gameQueue, maps, resolved, tainted, refreshes>>

-----------------------------------------------------------------------------
Next ==
  \/ RefreshAgain \/ ProcessEmojiUpdate \/ ProcessEmojis
  \/ Answer \/ RateLimit \/ GuildChange

Spec == Init /\ [][Next]_vars

\* Update runs what is in the game queue, the worker works its queue off, and the
\* gateway delivers its events.
Fairness ==
  /\ WF_vars(ProcessEmojiUpdate) /\ WF_vars(ProcessEmojis)
  /\ WF_vars(Answer \/ RateLimit)

FairSpec == Spec /\ Fairness

(***************************************************************************)
(* What the bridge asks before it sends.                                   *)
(***************************************************************************)

IsAppOnlyEmojiId(piece) ==
  piece.owner = "app" /\ piece.name \in appEmojiIds

ContainsAppEmoji(text) == \E i \in DOMAIN text : IsAppOnlyEmojiId(text[i])

\* Each emoji that only the application has becomes the guild's of the same name.
RewriteAppEmojisToGuild(text) ==
  [i \in DOMAIN text |->
     IF /\ IsAppOnlyEmojiId(text[i])
        /\ nameToEmoji[text[i].name] = "guild"
        /\ text[i].name \in guildEmojiIds
     THEN [text[i] EXCEPT !.owner = "guild"] ELSE text[i]]

\* RenderPrefix puts resolved emojis before what the player types.
Typed == UNION {[1 .. k -> Emoji \cup {Word}] : k \in 0 .. MaxText}
Prefixes ==
  {<<>>} \cup {<<[owner |-> resolved[n], name |-> n]>> :
                 n \in {m \in Names : resolved[m] # "none"}}

Contents == {RewriteAppEmojisToGuild(p \o t) : p \in Prefixes, t \in Typed}

AppEmojis(text) ==
  {n \in Names : \E i \in DOMAIN text : text[i] = [owner |-> "app", name |-> n]}

-----------------------------------------------------------------------------
TypeOK ==
  /\ ids \subseteq Owners /\ guild \subseteq Names
  /\ notices \in 0 .. MaxChanges
  /\ requests \in Seq(Requests) /\ gameQueue \in Seq(Replies)
  /\ nameToEmoji \in [Names -> Values]
  /\ appEmojiIds \subseteq Names /\ guildEmojiIds \subseteq Names
  /\ resolved \in [Names -> Values]
  /\ tainted \in BOOLEAN
  /\ changes \in 0 .. MaxChanges /\ refreshes \in 0 .. MaxRefreshes

Has(owner, n) == owner \in ids /\ n \in Of(owner)

\* The guild's emoji where there is one, else the application's.
Expected(n) ==
  IF Has("guild", n) THEN "guild" ELSE IF Has("app", n) THEN "app" ELSE "none"

Accurate ==
  /\ nameToEmoji = [n \in Names |-> Expected(n)]
  /\ resolved = nameToEmoji
  /\ appEmojiIds = {n \in Names : Has("app", n)}
  /\ guildEmojiIds = {n \in Names : Has("guild", n)}

\* Once all answers are in, what was found is what Discord has: nothing that was
\* deleted lingers, and the guild overrides the application.  The last refresh must
\* not have met another one, an error, or a rate limit that turned the order round;
\* the next one that meets none puts everything right.
SettledIsAccurate == ~Outstanding /\ notices = 0 /\ ~tainted => Accurate

\* Then a message goes out as the bot only if it needs an emoji the guild does not
\* have, and a webhook is never given one that it cannot render.
RoutedRight ==
  ~Outstanding /\ notices = 0 /\ ~tainted =>
    \A text \in Contents :
      /\ ContainsAppEmoji(text) => \E n \in AppEmojis(text) : ~Has("guild", n)
      /\ ~ContainsAppEmoji(text) => \A n \in AppEmojis(text) : ~Has("app", n)

\* Refresh has cleared what was found, and no answer has found anything since.
Forgotten ==
  /\ nameToEmoji = [n \in Names |-> "none"]
  /\ appEmojiIds = {} /\ guildEmojiIds = {}

\* Whatever happens to the answers, only then can a webhook be given a prefix of the
\* application's: at any other time the emoji is the guild's, or the bot sends.
PrefixRenders ==
  Forgotten \/
    \A p \in Prefixes, t \in Typed :
      LET text == RewriteAppEmojisToGuild(p \o t) IN
        ~ContainsAppEmoji(text) => \A i \in DOMAIN p : text[i].owner # "app"

\* However the guild's emojis change, what is shown catches up with them, unless a
\* refresh has met another one or failed.
ChangesAreSeen == []<>(Accurate \/ tainted)
=============================================================================
