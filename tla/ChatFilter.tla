----------------------------- MODULE ChatFilter -----------------------------
(***************************************************************************)
(* DiscordFilter: words are looked up in a list of banned words after case *)
(* and look-alike digits have been normalised; links are left alone.       *)
(*                                                                         *)
(* A text is a sequence of the characters below.  "x" and "y" are letters, *)
(* "7" is a digit that is read as "x", "/" is any mark, and "www." stands  *)
(* for the four characters a link begins with.  The others matter to the   *)
(* conversions of DiscordChatBridge: "<@" and ">" around a mention,        *)
(* "@here" (or "@everyone"), a custom emoji "<:e:1>", and "|".             *)
(***************************************************************************)
EXTENDS Naturals, Sequences

CONSTANT BannedWords                      \* banned_: words, normalised

Characters == {"x", "7", "y", " ", "/", "www.", "<@", ">", "@here", "<:e:1>", "|"}
Texts(n)   == UNION {[1 .. k -> Characters] : k \in 0 .. n}

ASSUME FilterAssumption == BannedWords \subseteq Seq({"x", "y"})

Letters  == {"x", "7", "y"}
Asterisk == "*"                           \* the "***" in place of a banned word

\* From "www." on, a link extends to the next space.
InLink(text, i) ==
  \E j \in 1 .. i : text[j] = "www." /\ \A k \in j .. i : text[k] # " "

MaskUrls(text) == [i \in DOMAIN text |-> IF InLink(text, i) THEN " " ELSE text[i]]

\* "www." continues a word and ends it; what follows "@here" continues the word "here",
\* which is left out here, as it is not banned.
Starts(text, i) == i = 1 \/ text[i - 1] \notin Letters \cup {"@here"}
Continues(text, i) == text[i] \in Letters \cup {"www."}

\* The words of a text, as intervals: SplitWords, and the same loop in Censor.
Words(text) ==
  {w \in (DOMAIN text) \X (DOMAIN text) :
     /\ w[1] <= w[2] /\ Starts(text, w[1])
     /\ \A i \in w[1] .. w[2] - 1 : text[i] \in Letters
     /\ Continues(text, w[2])
     /\ \/ text[w[2]] = "www."
        \/ w[2] = Len(text)
        \/ ~Continues(text, w[2] + 1)}

NormalizeWord(word) == [i \in DOMAIN word |-> IF word[i] = "7" THEN "x" ELSE word[i]]

IsBannedWord(word) == NormalizeWord(word) \in BannedWords

HasBannedWord(text) ==
  LET masked == MaskUrls(text)
  IN \E w \in Words(masked) : IsBannedWord(SubSeq(masked, w[1], w[2]))

\* Words are taken from the text; one that starts in a masked region is kept.
Censored(text) ==
  LET masked == MaskUrls(text)
  IN {w \in Words(text) :
        masked[w[1]] \in Letters /\ IsBannedWord(SubSeq(text, w[1], w[2]))}

Censor(text) ==
  [i \in DOMAIN text |->
     IF \E w \in Censored(text) : i \in w[1] .. w[2] THEN Asterisk ELSE text[i]]

\* What is left of a text; nothing of one that is blocked.
Handle(mode, text) ==
  CASE mode = "off" -> text
    [] mode = "censor" -> Censor(text)
    [] mode = "block" -> IF HasBannedWord(text) THEN <<>> ELSE text
=============================================================================
