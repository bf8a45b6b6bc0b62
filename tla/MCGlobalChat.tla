---------------------------- MODULE MCGlobalChat ----------------------------
\* GlobalChat with one player of each team, for TLC.
EXTENDS GlobalChat

Teams == [p \in {"anduin", "thrall"} |-> IF p = "anduin" THEN "alliance" ELSE "horde"]

Plain == [enable |-> TRUE, direct |-> TRUE, split |-> FALSE, provider |-> "auto",
          filter |-> "off", toGame |-> TRUE, toDiscord |-> TRUE]

\* One option at a time away from the default, and the two together that matter.
SomeConfigs == {
  Plain,
  [Plain EXCEPT !.split = TRUE, !.filter = "block"],
  [Plain EXCEPT !.filter = "censor"],
  [Plain EXCEPT !.filter = "censor", !.toGame = FALSE],
  [Plain EXCEPT !.filter = "block", !.toDiscord = FALSE],
  [Plain EXCEPT !.direct = FALSE],
  [Plain EXCEPT !.provider = "world-chat", !.split = TRUE],
  [Plain EXCEPT !.provider = "none"]}

\* One letter alone is banned, and a word of two.
SomeBannedWords == {<<"x">>, <<"y", "y">>}

\* Clean and banned words, by themselves and as part of others, beside a link and in
\* one, beside mentions and parted by one, emojis, a blank text and an attempt at a
\* command.
SomeTexts == {
  <<"y">>, <<"7">>, <<" ">>, <<"x", "y">>, <<"y", " ", "x">>, <<"/", "x">>,
  <<"www.", "x">>, <<"www.", "y", "y", " ", "7">>, <<"x", "www.">>, <<"@here">>,
  <<"y", "<@", ">", "y">>, <<"y", "y", " ", "<@", ">">>, <<"<:e:1>", "x", "|">>}

\* A text as it is read, without the gaps.
Read(text) == SelectSeq(text, LAMBDA c : c # "")

\* The filter and the conversions by themselves, on every text of up to four characters.
ASSUME CrossingAssumption ==
  \A mode \in {"censor", "block"}, text \in Texts(4), crossing \in {"toGame", "toDiscord"} :
    LET filtered == Handle(mode, text)
        shown    == Shown(crossing, text)
        out      == Shown(crossing, filtered)
    IN filtered # <<>> /\ ~Glued(text) =>
         /\ FilterRight(mode, text, shown, out)
         /\ Apart(text, shown) => BannedIn(Read(out)) = {}
=============================================================================
