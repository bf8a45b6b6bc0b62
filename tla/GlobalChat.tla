----------------------------- MODULE GlobalChat -----------------------------
(***************************************************************************)
(* Global chat, both ways: the commands and channel messages of the game   *)
(* that the bridge takes for chat, the messages of Discord that it         *)
(* delivers to the players, and the in-game module both belong to.         *)
(*                                                                         *)
(* The bridge keeps its own note of who has said `.chat on`, taken from    *)
(* the commands it sees; the in-game module keeps the real one.  How a     *)
(* relayed message is sent is ChatBridge's subject.                        *)
(***************************************************************************)
EXTENDS ChatFilter

CONSTANTS
  Players,
  Team,                \* Team[p]: "alliance" or "horde"
  Muted,               \* players who cannot speak
  Installed,           \* commands in the world database: "chat", "world", "global"
  Configs,             \* the configurations Discord.GlobalChat.* may have
  Said                 \* the texts that are ever said

Commands  == {"chat", "world", "global"}
Providers == {"none", "azerothcore", "world-chat", "gozzim"}
Channels  == {"global", "alliance", "horde", "extra", "elsewhere"}

Configurations ==
  [enable: BOOLEAN, direct: BOOLEAN, split: BOOLEAN, toGame: BOOLEAN, toDiscord: BOOLEAN,
   provider: Providers \cup {"auto"}, filter: {"off", "censor", "block"}]

ASSUME ChatAssumption ==
  /\ Team \in [Players -> {"alliance", "horde"}]
  /\ Muted \subseteq Players /\ Installed \subseteq Commands
  /\ Configs \subseteq Configurations
  /\ Said \subseteq Seq(Characters) /\ <<>> \notin Said

VARIABLES
  config,              \* the configuration as it was loaded last
  provider,            \* GlobalChatProviderMgr::provider_
  globalChatEnabled,   \* players with globalChatEnabled_ set
  optedIn,             \* players the in-game module has switched on
  unnoticed,           \* history: players who have switched it unseen by the bridge
  event,               \* the MESSAGE_CREATE event on its way to the game thread, one
                       \*   at a time
  did                  \* history: what the last handler did

vars == <<config, provider, globalChatEnabled, optedIn, unnoticed, event, did>>

CommandName == [p \in Providers |->
  CASE p = "azerothcore" -> "chat" [] p = "world-chat" -> "world"
    [] p = "gozzim" -> "global" [] p = "none" -> "none"]

\* The first word of a command: as it is, in capitals, with more letters after it,
\* or abbreviated.
Forms == {"exact", "capitals", "longer", "short"}

NoEvent == [kind |-> "none"]
Nothing == [op |-> "nothing"]

Authors == {"user", "bot", "webhook", "interaction"}

-----------------------------------------------------------------------------
(***************************************************************************)
(* Faulty variants, not part of the specification.                         *)
(***************************************************************************)

\* FromUser: messages of webhooks are not told apart.
FromBotOnly(e) == e.kind \notin {"bot", "interaction"}

\* Recipients: the bridge's own list is not asked.
RecipientsUnasked(team) == {p \in Players : team \in {"neutral", Team[p]}}

\* AppliesTo: the two directions are swapped.
AppliesToOther(crossing) ==
  IF crossing = "toGame" THEN config.toDiscord ELSE config.toGame

\* GlobalChatProviderMgr::Detect and Initialize.
Detect ==
  CASE "chat" \in Installed -> "azerothcore"
    [] "chat" \notin Installed /\ "global" \in Installed -> "gozzim"
    [] Installed = {"world"} -> "world-chat"
    [] Installed = {} -> "none"

Select(c) ==
  IF ~c.enable \/ c.provider = "none" THEN "none"
  ELSE IF c.provider \in Providers THEN c.provider ELSE Detect

Init ==
  /\ config \in Configs
  /\ provider = Select(config)
  /\ globalChatEnabled = {} /\ optedIn = {} /\ unnoticed = {}
  /\ event = NoEvent /\ did = Nothing

(***************************************************************************)
(* What becomes of a text that crosses: the filter, then the conversions.  *)
(* What they take out leaves a gap, "", so that places stay comparable.    *)
(***************************************************************************)

\* AppliesToGame, AppliesToDiscord.
AppliesTo(crossing) ==
  IF crossing = "toGame" THEN config.toGame ELSE config.toDiscord

Filtered(crossing, text) ==
  IF AppliesTo(crossing) THEN Handle(config.filter, text) ELSE text

\* A mention goes from "<@" to the next ">", an emoji's included.
Closes(c) == c \in {">", "<:e:1>"}

Mentioned(text, i) ==
  \/ text[i] = "@here"
  \/ \E j \in 1 .. i, k \in i .. Len(text) :
       text[j] = "<@" /\ Closes(text[k]) /\ \A m \in j .. i - 1 : ~Closes(text[m])

StripDiscordMentions(text) ==
  [i \in DOMAIN text |-> IF Mentioned(text, i) THEN "" ELSE text[i]]

\* An emoji is left its name; "|" is doubled, as "|" alone begins a code of the game.
ConvertCustomEmojisToNames(text) ==
  [i \in DOMAIN text |->
     CASE text[i] = "<:e:1>" -> ":e:" [] text[i] = "|" -> "||" [] OTHER -> text[i]]

\* RelayToDiscord, BuildGameMessage.
Shown(crossing, text) ==
  IF crossing = "toGame" THEN StripDiscordMentions(ConvertCustomEmojisToNames(text))
  ELSE StripDiscordMentions(text)

Crossing(crossing, text) == Shown(crossing, Filtered(crossing, text))

Empty(text) == \A i \in DOMAIN text : text[i] = ""

(***************************************************************************)
(* From the game to Discord.                                               *)
(***************************************************************************)

\* RelayToDiscord; the rest of it is ChatBridge's, which drops a repetition.  Discord
\* may refuse the message (an empty one, for instance); else it reports it back to the
\* module, as the webhook's or the bot's.
Relay(p, text) ==
  \/ UNCHANGED event
  \/ /\ config.enable /\ Filtered("toDiscord", text) # <<>>
     /\ \E kind \in {"bot", "webhook"} :
          event' = [kind |-> kind, from |-> "game", text |-> Crossing("toDiscord", text),
                    channel |-> IF config.split THEN Team[p] ELSE "global"]

Blank(text) == \A i \in DOMAIN text : text[i] = " "

Listening == config.enable /\ config.direct /\ provider # "none"

\* StartsWithCI(first, cmdName): a longer word that begins alike is taken for it.
IsChatCommand(cmd, form) ==
  Listening /\ cmd = CommandName[provider] /\ form # "short"

\* mod-global-chat understands capitals and abbreviations.
Understood(cmd, form) == cmd = "chat" /\ "chat" \in Installed /\ form # "longer"

Switch(set, p, on) == IF on THEN set \cup {p} ELSE set \ {p}

\* `.chat on` and `.chat off`, which OnTryExecuteCommand sees before the game does.
Toggle(p, cmd, form, on) ==
  LET seen == IsChatCommand(cmd, form)  meant == Understood(cmd, form) IN
  /\ globalChatEnabled' = IF seen THEN Switch(globalChatEnabled, p, on)
                          ELSE globalChatEnabled
  /\ optedIn' = IF meant THEN Switch(optedIn, p, on) ELSE optedIn
  /\ unnoticed' = IF seen # meant THEN unnoticed \cup {p}
                  ELSE IF seen THEN unnoticed \ {p} ELSE unnoticed
  /\ did' = Nothing
  /\ UNCHANGED <<config, provider, event>>

\* `.chat hello`, which the in-game module broadcasts if it is switched on.
Say(p, cmd, form, text) ==
  /\ event = NoEvent
  /\ IF /\ IsChatCommand(cmd, form) /\ ~Blank(text)
        /\ p \in globalChatEnabled /\ p \notin Muted
     THEN Relay(p, text)
     ELSE UNCHANGED event
  /\ did' = IF event' = NoEvent THEN Nothing
            ELSE [op |-> "say", player |-> p, form |-> form, text |-> text,
                  event |-> event',
                  heard |-> Understood(cmd, form) /\ p \in optedIn /\ p \notin Muted]
  /\ UNCHANGED <<config, provider, globalChatEnabled, optedIn, unnoticed>>

\* A message in the channel of a provider that has one.
HandleChannelChat(p, text) ==
  /\ Listening /\ provider # "azerothcore" /\ event = NoEvent
  /\ ~Blank(text) /\ p \notin Muted
  /\ Relay(p, text)
  /\ did' = Nothing
  /\ UNCHANGED <<config, provider, globalChatEnabled, optedIn, unnoticed>>

(***************************************************************************)
(* From Discord to the game.                                               *)
(***************************************************************************)

\* Somebody on Discord says something, a bot of another make included.
Post(kind, channel, text) ==
  /\ event = NoEvent
  /\ event' = [kind |-> kind, from |-> "discord", channel |-> channel, text |-> text]
  /\ did' = Nothing
  /\ UNCHANGED <<config, provider, globalChatEnabled, optedIn, unnoticed>>

IsChannelAllowedForChat(channel) ==
  \/ config.split /\ channel \in {"alliance", "horde"}
  \/ ~config.split /\ channel = "global"
  \/ channel = "extra"

TeamOf(channel) ==
  IF config.split /\ channel \in {"alliance", "horde"} THEN channel ELSE "neutral"

\* HandleDiscordToGame: providers with an opt-in are not asked for their own list.
Recipients(team) ==
  {p \in Players :
     /\ team \in {"neutral", Team[p]}
     /\ provider = "azerothcore" => p \in globalChatEnabled}

\* Bots, webhooks and interactions are not users, whoever has made them.
FromUser(e) == e.kind = "user"

\* What begins with "/" is an attempt at a command.
HandleMessageCreate ==
  /\ event # NoEvent
  /\ event' = NoEvent
  /\ LET text == Crossing("toGame", event.text) IN
     did' = IF /\ config.enable /\ FromUser(event)
               /\ IsChannelAllowedForChat(event.channel)
               /\ event.text[1] # "/" /\ ~Empty(text) /\ provider # "none"
            THEN [op |-> "deliver", event |-> event, text |-> text,
                  to |-> Recipients(TeamOf(event.channel))]
            ELSE Nothing
  /\ UNCHANGED <<config, provider, globalChatEnabled, optedIn, unnoticed>>

\* ReloadConfig: the configuration, the filter and the provider.
Reload ==
  /\ config' \in Configs
  /\ provider' = Select(config')
  /\ did' = Nothing
  /\ UNCHANGED <<globalChatEnabled, optedIn, unnoticed, event>>

-----------------------------------------------------------------------------
Next ==
  \/ Reload \/ HandleMessageCreate
  \/ \E p \in Players, cmd \in Commands, form \in Forms, on \in BOOLEAN :
       Toggle(p, cmd, form, on)
  \/ \E p \in Players, cmd \in Commands, form \in Forms, text \in Said :
       Say(p, cmd, form, text)
  \/ \E p \in Players, text \in Said : HandleChannelChat(p, text)
  \/ \E kind \in Authors, channel \in Channels, text \in Said :
       Post(kind, channel, text)

Spec == Init /\ [][Next]_vars

-----------------------------------------------------------------------------
Shapes == Characters \cup {Asterisk, ":e:", "||", ""}

Event == [kind: Authors, from: {"game", "discord"}, channel: Channels,
          text: Seq(Shapes) \ {<<>>}]

TypeOK ==
  /\ config \in Configs /\ provider \in Providers
  /\ globalChatEnabled \subseteq Players /\ optedIn \subseteq Players
  /\ unnoticed \subseteq Players
  /\ event \in {NoEvent} \cup Event
  /\ did.op \in {"nothing", "say", "deliver"}

\* "deliver only to players who enabled global chat", "Only relay what would actually
\* be broadcast in-game": what crosses follows the in-game module's own switches,
\* as long as the player has thrown them in a spelling the bridge understands, while
\* it was listening, and does not use a longer word than the command.
FollowsOptIn ==
  provider = "azerothcore" =>
    /\ did.op = "deliver" => did.to \ unnoticed =
         {p \in optedIn \ unnoticed : TeamOf(did.event.channel) \in {"neutral", Team[p]}}
    /\ did.op = "say" /\ did.form # "longer" =>
         did.heard \/ did.player \in unnoticed

\* What the module itself puts on Discord, as the bot or through a webhook, is never
\* said in the game again, and nothing said by another bot is.
NothingComesBack ==
  did.op = "deliver" => did.event.from = "discord" /\ did.event.kind = "user"

\* The banned words of a text outside links: whole words, as intervals.
BannedIn(text) ==
  {w \in (DOMAIN text) \X (DOMAIN text) :
     /\ w[1] <= w[2] /\ \A i \in w[1] .. w[2] : text[i] \in Letters
     /\ w[1] > 1 => text[w[1] - 1] \notin Letters \cup {"@here"}
     /\ w[2] < Len(text) => text[w[2] + 1] \notin Letters
     /\ ~InLink(text, w[1])
     /\ IsBannedWord(SubSeq(text, w[1], w[2]))}

Covered(text, i) == \E w \in BannedIn(text) : i \in w[1] .. w[2]

\* A link that follows a letter without a space is taken for part of the word by
\* Censor, but not by HasBannedWord.
Glued(text) == \E i \in 2 .. Len(text) : text[i] = "www." /\ text[i - 1] \in Letters

\* What is taken out stands apart: no letter is left beside it, which it could join to
\* another one or have hidden from the filter, and no link has begun in it.
Apart(text, shown) ==
  \A i \in DOMAIN text : shown[i] = "" =>
    /\ text[i] # "www."
    /\ i > 1 => shown[i - 1] \notin Letters
    /\ i < Len(text) => shown[i + 1] \notin Letters

\* shown is what would cross without the filter, out is what crosses.
FilterRight(mode, text, shown, out) ==
  /\ mode = "block" => BannedIn(text) = {}
  /\ DOMAIN out = DOMAIN text
  /\ \A i \in DOMAIN text :
       out[i] = IF shown[i] # "" /\ Covered(text, i) THEN Asterisk ELSE shown[i]
  /\ Apart(text, shown) => BannedIn(out) = {}

\* In a direction the filter is switched on for, a text with a banned word outside links
\* is blocked, or crosses with the whole word made unreadable, look-alikes included; all
\* else crosses as it would without the filter, mentions taken out and emojis named.
\* Nothing that is taken out after the filter makes up a banned word again, unless it
\* touched a letter or began a link.
FilterHolds ==
  config.filter # "off" =>
    /\ did.op = "deliver" /\ config.toGame /\ ~Glued(did.event.text) =>
         FilterRight(config.filter, did.event.text, Shown("toGame", did.event.text),
                     did.text)
    /\ did.op = "say" /\ config.toDiscord /\ ~Glued(did.text) =>
         FilterRight(config.filter, did.text, Shown("toDiscord", did.text),
                     did.event.text)
=============================================================================
