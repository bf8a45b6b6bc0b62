-------------------------- MODULE GlobalChatProofs --------------------------
(***************************************************************************)
(* Proofs about global chat, for any players, any list of banned words,    *)
(* texts of any length and any configurations.                             *)
(*                                                                         *)
(* First a text that crosses: what Censor and HasBannedWord do to it, then *)
(* what the conversions do to what the filter has left.  Then the state    *)
(* machine.                                                                *)
(***************************************************************************)
EXTENDS GlobalChat, TLAPS

Written == Seq(Shapes)

-----------------------------------------------------------------------------
(***************************************************************************)
(* The filter.                                                             *)
(***************************************************************************)

LEMMA Places ==
  ASSUME NEW text \in Written
  PROVE  /\ Len(text) \in Nat /\ DOMAIN text = 1 .. Len(text)
         /\ \A i \in DOMAIN text : i \in Nat /\ text[i] \in Shapes
  BY DEF Written

\* A function over the places of a text is a text.
LEMMA TextOver ==
  ASSUME NEW text \in Written, NEW out, out = [i \in DOMAIN text |-> out[i]],
         \A i \in DOMAIN text : out[i] \in Shapes
  PROVE  out \in Written /\ Len(out) = Len(text)
<1>1. Len(text) \in Nat /\ DOMAIN text = 1 .. Len(text)
  BY Places
<1>2. out \in [1 .. Len(text) -> Shapes]
  BY <1>1
<1> QED
  BY <1>1, <1>2 DEF Written

LEMMA Parts ==
  ASSUME NEW text \in Written, NEW i \in DOMAIN text, NEW k \in DOMAIN text, i <= k
  PROVE  /\ DOMAIN SubSeq(text, i, k) = 1 .. (k - i + 1)
         /\ \A n \in 1 .. (k - i + 1) : SubSeq(text, i, k)[n] = text[i + n - 1]
  BY Places DEF Written

\* A banned word consists of letters.
LEMMA BannedLetters ==
  ASSUME NEW text \in Written, NEW i \in DOMAIN text, NEW k \in DOMAIN text, i <= k,
         IsBannedWord(SubSeq(text, i, k)), NEW j \in i .. k
  PROVE  text[j] \in Letters
<1> DEFINE part == SubSeq(text, i, k)  n == j - i + 1
<1>1. i \in Nat /\ k \in Nat /\ j \in Nat
  BY Places
<1>2. n \in 1 .. (k - i + 1) /\ i + n - 1 = j
  BY <1>1
<1>3. DOMAIN part = 1 .. (k - i + 1) /\ part[n] = text[j]
  BY <1>2, Parts
<1> HIDE DEF part, n
<1> DEFINE word == NormalizeWord(part)
<1>4. word \in Seq({"x", "y"})
  BY FilterAssumption DEF IsBannedWord, part
<1>5. n \in DOMAIN word /\ word[n] = IF part[n] = "7" THEN "x" ELSE part[n]
  BY <1>2, <1>3 DEF NormalizeWord
<1> HIDE DEF word
<1>6. word[n] \in {"x", "y"}
  BY <1>4, <1>5
<1> QED
  BY <1>3, <1>5, <1>6 DEF Letters

LEMMA SamePart ==
  ASSUME NEW a \in Written, NEW b \in Written, DOMAIN a = DOMAIN b,
         NEW i \in DOMAIN a, NEW k \in DOMAIN a, i <= k, \A j \in i .. k : a[j] = b[j]
  PROVE  SubSeq(a, i, k) = SubSeq(b, i, k)
<1>1. i \in Nat /\ k \in Nat
  BY Places
<1>2. /\ DOMAIN SubSeq(a, i, k) = 1 .. (k - i + 1)
      /\ DOMAIN SubSeq(b, i, k) = 1 .. (k - i + 1)
      /\ \A n \in 1 .. (k - i + 1) : SubSeq(a, i, k)[n] = a[i + n - 1]
      /\ \A n \in 1 .. (k - i + 1) : SubSeq(b, i, k)[n] = b[i + n - 1]
  <2>1. i \in DOMAIN b /\ k \in DOMAIN b
    OBVIOUS
  <2> QED
    BY <2>1, Parts
<1>3. \A n \in 1 .. (k - i + 1) : i + n - 1 \in i .. k
  BY <1>1
<1>4. \A n \in 1 .. (k - i + 1) : SubSeq(a, i, k)[n] = SubSeq(b, i, k)[n]
  BY <1>2, <1>3
<1>5. SubSeq(a, i, k) \in Seq(Shapes) /\ SubSeq(b, i, k) \in Seq(Shapes)
  BY <1>1, Places DEF Written
<1> QED
  BY <1>2, <1>4, <1>5

\* What a banned word is made of.
LEMMA BannedPlaces ==
  ASSUME NEW text \in Written, NEW w \in BannedIn(text)
  PROVE  /\ w = <<w[1], w[2]>> /\ w[1] \in DOMAIN text /\ w[2] \in DOMAIN text
         /\ w[1] \in 1 .. Len(text) /\ w[2] \in 1 .. Len(text) /\ w[1] <= w[2]
         /\ \A i \in w[1] .. w[2] : i \in DOMAIN text /\ text[i] \in Letters
<1>1. /\ w \in (DOMAIN text) \X (DOMAIN text) /\ w[1] <= w[2]
      /\ \A i \in w[1] .. w[2] : text[i] \in Letters
  BY DEF BannedIn
<1>2. Len(text) \in Nat /\ DOMAIN text = 1 .. Len(text)
  BY Places
<1> QED
  BY <1>1, <1>2

\* A word is in a link where it ends if it is where it begins.
LEMMA LinkReaches ==
  ASSUME NEW text \in Written, NEW w \in BannedIn(text), NEW i \in w[1] .. w[2]
  PROVE  ~InLink(text, i)
<1>1. ~InLink(text, w[1]) /\ \A j \in w[1] .. w[2] : text[j] \in Letters
  BY DEF BannedIn
<1>2. w[1] \in Nat /\ w[2] \in Nat /\ i \in Nat /\ w[1] >= 1
  BY BannedPlaces, Places
<1>3. SUFFICES ASSUME NEW j \in 1 .. i, text[j] = "www.", \A k \in j .. i : text[k] # " "
               PROVE  FALSE
  BY DEF InLink
<1>4. j < w[1]
  <2>1. "www." \notin Letters
    BY DEF Letters
  <2>2. j \notin w[1] .. w[2]
    BY <1>1, <1>3, <2>1
  <2> QED
    BY <1>2, <2>2
<1>5. j \in 1 .. w[1] /\ \A k \in j .. w[1] : k \in j .. i
  BY <1>2, <1>4
<1> QED
  BY <1>1, <1>3, <1>5 DEF InLink

\* What is censored is a banned word, whatever it touches.
LEMMA CensoredIsBanned ==
  ASSUME NEW text \in Written, NEW w \in Censored(text)
  PROVE  w \in BannedIn(text)
<1>1. /\ w \in (DOMAIN text) \X (DOMAIN text) /\ w[1] <= w[2] /\ Starts(text, w[1])
      /\ \/ text[w[2]] = "www."
         \/ w[2] = Len(text)
         \/ ~Continues(text, w[2] + 1)
      /\ MaskUrls(text)[w[1]] \in Letters /\ IsBannedWord(SubSeq(text, w[1], w[2]))
  BY DEF Censored, Words
<1>2. w[1] \in DOMAIN text /\ w[2] \in DOMAIN text /\ w[1] \in Nat /\ w[2] \in Nat
  BY <1>1, Places
<1>3. \A i \in w[1] .. w[2] : text[i] \in Letters
  BY <1>1, <1>2, BannedLetters
<1>4. w[1] > 1 => text[w[1] - 1] \notin Letters \cup {"@here"}
  BY <1>1 DEF Starts
<1>5. w[2] < Len(text) => text[w[2] + 1] \notin Letters
  <2>1. text[w[2]] # "www."
    BY <1>1, <1>2, <1>3 DEF Letters
  <2>2. Len(text) \in Nat
    BY Places
  <2> QED
    BY <1>1, <1>2, <2>1, <2>2 DEF Continues
<1>6. ~InLink(text, w[1])
  BY <1>1, <1>2 DEF MaskUrls, Letters
<1> QED
  BY <1>1, <1>3, <1>4, <1>5, <1>6 DEF BannedIn

\* Every banned word is censored, unless a link is glued to it.
LEMMA BannedIsCensored ==
  ASSUME NEW text \in Written, ~Glued(text), NEW w \in BannedIn(text)
  PROVE  w \in Censored(text)
<1>1. /\ w \in (DOMAIN text) \X (DOMAIN text)
      /\ w[1] > 1 => text[w[1] - 1] \notin Letters \cup {"@here"}
      /\ w[2] < Len(text) => text[w[2] + 1] \notin Letters
      /\ ~InLink(text, w[1]) /\ IsBannedWord(SubSeq(text, w[1], w[2]))
  BY DEF BannedIn
<1>2. /\ w[1] \in 1 .. Len(text) /\ w[2] \in 1 .. Len(text) /\ w[1] <= w[2]
      /\ \A i \in w[1] .. w[2] : text[i] \in Letters
      /\ w[1] \in DOMAIN text /\ Len(text) \in Nat
  BY BannedPlaces, Places
<1>3. text[w[1]] \in Letters /\ text[w[2]] \in Letters
  BY <1>2
<1>4. w[2] = Len(text) \/ ~Continues(text, w[2] + 1)
  <2>1. SUFFICES ASSUME w[2] # Len(text) PROVE ~Continues(text, w[2] + 1)
    OBVIOUS
  <2>2. w[2] < Len(text) /\ w[2] + 1 \in 2 .. Len(text) /\ (w[2] + 1) - 1 = w[2]
    BY <1>2, <2>1
  <2>3. ~(text[w[2] + 1] = "www." /\ text[(w[2] + 1) - 1] \in Letters)
    BY <2>2 DEF Glued
  <2> QED
    BY <1>1, <1>3, <2>2, <2>3 DEF Continues
<1>5. Starts(text, w[1]) /\ Continues(text, w[2])
  BY <1>1, <1>2, <1>3 DEF Starts, Continues
<1>6. \A i \in w[1] .. w[2] - 1 : text[i] \in Letters
  BY <1>2
<1>7. w \in Words(text)
  BY <1>1, <1>2, <1>4, <1>5, <1>6 DEF Words
<1>8. MaskUrls(text)[w[1]] \in Letters
  BY <1>1, <1>2, <1>3 DEF MaskUrls
<1> QED
  BY <1>1, <1>7, <1>8 DEF Censored

\* A text that is not blocked has no banned word.
LEMMA BlockFindsAll ==
  ASSUME NEW text \in Written, ~HasBannedWord(text)
  PROVE  BannedIn(text) = {}
<1>1. SUFFICES ASSUME NEW w \in BannedIn(text) PROVE FALSE
  OBVIOUS
<1> DEFINE masked == MaskUrls(text)
<1>2. /\ DOMAIN masked = DOMAIN text
      /\ \A j \in DOMAIN text : masked[j] = IF InLink(text, j) THEN " " ELSE text[j]
  BY DEF MaskUrls
<1>3. masked \in Written /\ Len(masked) = Len(text)
  <2>1. \A i \in DOMAIN text : masked[i] \in Shapes
    BY <1>2, Places DEF Shapes, Characters
  <2>2. masked = [i \in DOMAIN text |-> masked[i]]
    BY <1>2 DEF MaskUrls
  <2> HIDE DEF masked
  <2> QED
    BY <2>1, <2>2, TextOver
<1>4. /\ w \in (DOMAIN text) \X (DOMAIN text)
      /\ w[1] > 1 => text[w[1] - 1] \notin Letters \cup {"@here"}
      /\ w[2] < Len(text) => text[w[2] + 1] \notin Letters
      /\ IsBannedWord(SubSeq(text, w[1], w[2]))
  BY DEF BannedIn
<1>5. /\ w[1] \in 1 .. Len(text) /\ w[2] \in 1 .. Len(text) /\ w[1] <= w[2]
      /\ \A i \in w[1] .. w[2] : i \in DOMAIN text /\ text[i] \in Letters
      /\ w[1] \in DOMAIN text /\ w[2] \in DOMAIN text
      /\ Len(text) \in Nat /\ DOMAIN text = 1 .. Len(text)
  BY BannedPlaces, Places
<1> HIDE DEF masked
<1>6. \A i \in w[1] .. w[2] : masked[i] = text[i]
  BY <1>2, <1>5, LinkReaches
<1>7. " " \notin Letters \cup {"@here"} /\ " " \notin Letters \cup {"www."}
  BY DEF Letters
<1>8. Starts(masked, w[1])
  <2>1. ASSUME w[1] # 1 PROVE w[1] > 1 /\ w[1] - 1 \in DOMAIN text
    BY <1>5, <2>1
  <2> QED
    BY <1>2, <1>4, <1>7, <2>1 DEF Starts
<1>9. w[2] = Len(masked) \/ ~Continues(masked, w[2] + 1)
  <2>1. SUFFICES ASSUME w[2] # Len(text) PROVE ~Continues(masked, w[2] + 1)
    BY <1>3
  <2> DEFINE k == w[2] + 1
  <2>2. w[2] < Len(text) /\ k \in DOMAIN text /\ k \in 1 .. k /\ k \in Nat
    BY <1>5, <2>1
  <2>3. text[k] \notin Letters
    BY <1>4, <2>2
  <2>4. text[k] = "www." => InLink(text, k)
    <3>1. \A j \in k .. k : j = k
      BY <2>2
    <3> HIDE DEF k
    <3> QED
      BY <2>2, <3>1 DEF InLink
  <2> HIDE DEF k
  <2>5. ~Continues(masked, k)
    BY <1>2, <1>7, <2>2, <2>3, <2>4 DEF Continues
  <2> QED
    BY <2>5 DEF k
<1>10. w \in Words(masked)
  <2>1. masked[w[2]] \in Letters /\ \A i \in w[1] .. w[2] - 1 : masked[i] \in Letters
    BY <1>5, <1>6
  <2> QED
    BY <1>2, <1>4, <1>5, <1>8, <1>9, <2>1 DEF Words, Continues
<1>11. SubSeq(masked, w[1], w[2]) = SubSeq(text, w[1], w[2])
  BY <1>2, <1>3, <1>5, <1>6, SamePart
<1> QED
  BY <1>4, <1>10, <1>11 DEF HasBannedWord, masked

\* What the filter makes of a text, place by place.
Masked(text, out) ==
  /\ out \in Written /\ DOMAIN out = DOMAIN text
  /\ \A i \in DOMAIN text : out[i] = IF Covered(text, i) THEN Asterisk ELSE text[i]

LEMMA HandleMasks ==
  ASSUME NEW mode \in {"censor", "block"}, NEW text \in Written, ~Glued(text),
         Handle(mode, text) # <<>>
  PROVE  /\ Masked(text, Handle(mode, text))
         /\ mode = "block" => BannedIn(text) = {}
<1>1. CASE mode = "censor"
  <2>1. Handle(mode, text) = Censor(text)
    BY <1>1 DEF Handle
  <2>2. \A i : (\E w \in Censored(text) : i \in w[1] .. w[2]) <=> Covered(text, i)
    BY CensoredIsBanned, BannedIsCensored DEF Covered
  <2>3. /\ DOMAIN Censor(text) = DOMAIN text
        /\ Censor(text) = [i \in DOMAIN text |-> Censor(text)[i]]
        /\ \A i \in DOMAIN text :
             Censor(text)[i] = IF Covered(text, i) THEN Asterisk ELSE text[i]
    BY <2>2 DEF Censor
  <2>4. \A i \in DOMAIN text : Censor(text)[i] \in Shapes
    BY <2>3, Places DEF Shapes
  <2>5. Censor(text) \in Written
    BY <2>3, <2>4, TextOver
  <2> QED
    BY <1>1, <2>1, <2>3, <2>5 DEF Masked
<1>2. CASE mode = "block"
  <2>1. Handle(mode, text) = IF HasBannedWord(text) THEN <<>> ELSE text
    BY <1>2 DEF Handle
  <2>2. ~HasBannedWord(text) /\ Handle(mode, text) = text
    BY <1>1, <2>1
  <2>3. BannedIn(text) = {}
    BY <2>2, BlockFindsAll
  <2> QED
    BY <2>2, <2>3 DEF Masked, Covered
<1> QED
  BY <1>1, <1>2

-----------------------------------------------------------------------------
(***************************************************************************)
(* The conversions.                                                        *)
(***************************************************************************)

\* The same places are mentions in texts that differ in nothing a mention is made of.
LEMMA SameMentions ==
  ASSUME NEW a \in Written, NEW b \in Written, DOMAIN a = DOMAIN b,
         \A i \in DOMAIN a :
           \/ a[i] = b[i]
           \/ {a[i], b[i]} \cap {"<@", ">", "<:e:1>", "@here"} = {},
         NEW i \in DOMAIN a
  PROVE  Mentioned(a, i) <=> Mentioned(b, i)
<1>1. /\ Len(a) = Len(b) /\ Len(a) \in Nat /\ DOMAIN a = 1 .. Len(a)
      /\ i \in 1 .. Len(a)
  BY Places
<1>2. \A j \in DOMAIN a : /\ a[j] = "<@" <=> b[j] = "<@"
                          /\ a[j] = "@here" <=> b[j] = "@here"
                          /\ Closes(a[j]) <=> Closes(b[j])
  BY DEF Closes
<1>3. /\ \A j \in 1 .. i : j \in DOMAIN a
      /\ \A k \in i .. Len(a) : k \in DOMAIN a
      /\ \A j \in 1 .. i : \A m \in j .. i - 1 : m \in DOMAIN a
  BY <1>1
<1>4. \A j \in 1 .. i, k \in i .. Len(a) :
        (a[j] = "<@" /\ Closes(a[k]) /\ \A m \in j .. i - 1 : ~Closes(a[m]))
        <=> (b[j] = "<@" /\ Closes(b[k]) /\ \A m \in j .. i - 1 : ~Closes(b[m]))
  BY <1>2, <1>3
<1> QED
  BY <1>1, <1>2, <1>4 DEF Mentioned

LEMMA ConvertOK ==
  ASSUME NEW text \in Written
  PROVE  /\ ConvertCustomEmojisToNames(text) \in Written
         /\ DOMAIN ConvertCustomEmojisToNames(text) = DOMAIN text
         /\ \A i \in DOMAIN text :
              ConvertCustomEmojisToNames(text)[i] =
                (CASE text[i] = "<:e:1>" -> ":e:" [] text[i] = "|" -> "||"
                   [] OTHER -> text[i])
<1> DEFINE named == ConvertCustomEmojisToNames(text)
<1>1. /\ named = [i \in DOMAIN text |-> named[i]] /\ DOMAIN named = DOMAIN text
      /\ \A i \in DOMAIN text :
           named[i] = (CASE text[i] = "<:e:1>" -> ":e:" [] text[i] = "|" -> "||"
                         [] OTHER -> text[i])
  BY DEF ConvertCustomEmojisToNames
<1> HIDE DEF named
<1>2. \A i \in DOMAIN text : named[i] \in Shapes
  BY <1>1, Places DEF Shapes
<1>3. named \in Written
  BY <1>1, <1>2, TextOver
<1> QED
  BY <1>1, <1>3 DEF named

LEMMA StripOK ==
  ASSUME NEW text \in Written
  PROVE  /\ StripDiscordMentions(text) \in Written
         /\ DOMAIN StripDiscordMentions(text) = DOMAIN text
         /\ \A i \in DOMAIN text :
              StripDiscordMentions(text)[i] = IF Mentioned(text, i) THEN "" ELSE text[i]
<1> DEFINE out == StripDiscordMentions(text)
<1>1. /\ out = [i \in DOMAIN text |-> out[i]] /\ DOMAIN out = DOMAIN text
      /\ \A i \in DOMAIN text : out[i] = IF Mentioned(text, i) THEN "" ELSE text[i]
  BY DEF StripDiscordMentions
<1> HIDE DEF out
<1>2. \A i \in DOMAIN text : out[i] \in Shapes
  BY <1>1, Places DEF Shapes
<1>3. out \in Written
  BY <1>1, <1>2, TextOver
<1> QED
  BY <1>1, <1>3 DEF out

\* A conversion takes a place out, names what is there, or leaves it alone.
Converted(text, shown) ==
  /\ shown \in Written /\ DOMAIN shown = DOMAIN text
  /\ \A i \in DOMAIN text :
       /\ \/ shown[i] = "" \/ shown[i] = text[i]
          \/ text[i] \in {"<:e:1>", "|"} /\ shown[i] \in {":e:", "||"}
       /\ text[i] = "@here" => shown[i] = ""

LEMMA ShownOK ==
  ASSUME NEW text \in Written, NEW crossing \in {"toGame", "toDiscord"}
  PROVE  Converted(text, Shown(crossing, text))
<1>1. CASE crossing = "toDiscord"
  BY <1>1, StripOK DEF Shown, Mentioned, Converted
<1>2. CASE crossing = "toGame"
  <2> DEFINE named == ConvertCustomEmojisToNames(text)
  <2>1. /\ named \in Written /\ DOMAIN named = DOMAIN text
        /\ \A i \in DOMAIN text :
             named[i] = (CASE text[i] = "<:e:1>" -> ":e:" [] text[i] = "|" -> "||"
                           [] OTHER -> text[i])
    BY ConvertOK
  <2>2. Shown(crossing, text) = StripDiscordMentions(named)
    BY <1>2 DEF Shown
  <2> HIDE DEF named
  <2>3. \A i \in DOMAIN text : text[i] = "@here" => named[i] = "@here" /\ Mentioned(named, i)
    BY <2>1 DEF Mentioned
  <2>4. \A i \in DOMAIN text :
          \/ named[i] = text[i]
          \/ text[i] \in {"<:e:1>", "|"} /\ named[i] \in {":e:", "||"}
    BY <2>1
  <2> QED
    BY <2>1, <2>2, <2>3, <2>4, StripOK DEF Converted
<1> QED
  BY <1>1, <1>2

\* The conversions of what the filter has left of a text are those of the text, but for
\* the banned words.
LEMMA ShownMasked ==
  ASSUME NEW text \in Written, NEW left, Masked(text, left),
         NEW crossing \in {"toGame", "toDiscord"}, NEW i \in DOMAIN text
  PROVE  Shown(crossing, left)[i] =
           IF Shown(crossing, text)[i] # "" /\ Covered(text, i) THEN Asterisk
           ELSE Shown(crossing, text)[i]
<1>1. /\ left \in Written /\ DOMAIN left = DOMAIN text
      /\ \A j \in DOMAIN text : left[j] = IF Covered(text, j) THEN Asterisk ELSE text[j]
  BY DEF Masked
<1>2. \A j \in DOMAIN text : Covered(text, j) => text[j] \in Letters
  BY BannedPlaces DEF Covered
<1>3. ASSUME NEW a \in Written, NEW b \in Written,
             DOMAIN a = DOMAIN text, DOMAIN b = DOMAIN text,
             \A j \in DOMAIN text :
               IF Covered(text, j) THEN a[j] \in Letters /\ b[j] = Asterisk
               ELSE a[j] = b[j]
      PROVE  StripDiscordMentions(b)[i] =
               IF StripDiscordMentions(a)[i] # "" /\ Covered(text, i) THEN Asterisk
               ELSE StripDiscordMentions(a)[i]
  <2>1. \A j \in DOMAIN a : \/ a[j] = b[j]
                            \/ {a[j], b[j]} \cap {"<@", ">", "<:e:1>", "@here"} = {}
    BY <1>3 DEF Letters, Asterisk
  <2>2. Mentioned(a, i) <=> Mentioned(b, i)
    BY <1>3, <2>1, SameMentions
  <2>3. /\ StripDiscordMentions(a)[i] = IF Mentioned(a, i) THEN "" ELSE a[i]
        /\ StripDiscordMentions(b)[i] = IF Mentioned(b, i) THEN "" ELSE b[i]
    BY <1>3, StripOK
  <2>4. Covered(text, i) => a[i] # "" /\ b[i] = Asterisk
    BY <1>3 DEF Letters
  <2> QED
    BY <1>3, <2>2, <2>3, <2>4
<1>4. CASE crossing = "toDiscord"
  <2>1. StripDiscordMentions(left)[i] =
          IF StripDiscordMentions(text)[i] # "" /\ Covered(text, i) THEN Asterisk
          ELSE StripDiscordMentions(text)[i]
    BY <1>1, <1>2, <1>3
  <2> QED
    BY <1>4, <2>1 DEF Shown
<1>5. CASE crossing = "toGame"
  <2> DEFINE a == ConvertCustomEmojisToNames(text)  b == ConvertCustomEmojisToNames(left)
  <2>1. /\ a \in Written /\ b \in Written /\ DOMAIN a = DOMAIN text /\ DOMAIN b = DOMAIN text
        /\ \A j \in DOMAIN text :
             /\ a[j] = (CASE text[j] = "<:e:1>" -> ":e:" [] text[j] = "|" -> "||"
                          [] OTHER -> text[j])
             /\ b[j] = (CASE left[j] = "<:e:1>" -> ":e:" [] left[j] = "|" -> "||"
                          [] OTHER -> left[j])
    BY <1>1, ConvertOK
  <2> HIDE DEF a, b
  <2>2. \A j \in DOMAIN text : IF Covered(text, j) THEN a[j] \in Letters /\ b[j] = Asterisk
                               ELSE a[j] = b[j]
    BY <1>1, <1>2, <2>1 DEF Letters, Asterisk
  <2>3. StripDiscordMentions(b)[i] =
          IF StripDiscordMentions(a)[i] # "" /\ Covered(text, i) THEN Asterisk
          ELSE StripDiscordMentions(a)[i]
    BY <1>3, <2>1, <2>2
  <2> QED
    BY <1>5, <2>3 DEF Shown, a, b
<1> QED
  BY <1>4, <1>5

\* out is shown with the banned words of text made unreadable.
Struck(text, shown, out) ==
  /\ DOMAIN out = DOMAIN text
  /\ \A i \in DOMAIN text :
       out[i] = IF shown[i] # "" /\ Covered(text, i) THEN Asterisk ELSE shown[i]

\* Where what is taken out stands apart, no banned word comes about.
LEMMA NothingJoined ==
  ASSUME NEW text \in Written, NEW shown, Converted(text, shown), NEW out \in Written,
         Struck(text, shown, out), Apart(text, shown)
  PROVE  BannedIn(out) = {}
<1>0. /\ shown \in Written /\ DOMAIN shown = DOMAIN text /\ DOMAIN out = DOMAIN text
      /\ Len(text) \in Nat /\ DOMAIN text = 1 .. Len(text) /\ Len(out) = Len(text)
  <2>1. shown \in Written /\ DOMAIN shown = DOMAIN text /\ DOMAIN out = DOMAIN text
    BY DEF Converted, Struck
  <2>2. /\ Len(text) \in Nat /\ DOMAIN text = 1 .. Len(text)
        /\ Len(out) \in Nat /\ DOMAIN out = 1 .. Len(out)
    BY Places
  <2> QED
    BY <2>1, <2>2
<1>1. SUFFICES ASSUME NEW w \in BannedIn(out) PROVE FALSE
  OBVIOUS
<1>2. /\ w \in (DOMAIN out) \X (DOMAIN out)
      /\ w[1] > 1 => out[w[1] - 1] \notin Letters
      /\ w[2] < Len(out) => out[w[2] + 1] \notin Letters
      /\ ~InLink(out, w[1]) /\ IsBannedWord(SubSeq(out, w[1], w[2]))
  BY DEF BannedIn
<1>3. /\ w[1] \in 1 .. Len(text) /\ w[2] \in 1 .. Len(text) /\ w[1] <= w[2]
      /\ w[1] \in DOMAIN text /\ w[2] \in DOMAIN text
      /\ \A i \in w[1] .. w[2] : i \in DOMAIN text /\ out[i] \in Letters
      /\ Len(text) \in Nat /\ DOMAIN text = 1 .. Len(text) /\ Len(out) = Len(text)
  BY <1>0, BannedPlaces
<1>4. \A i \in DOMAIN text :
        out[i] \in Letters => text[i] = out[i] /\ shown[i] = out[i] /\ ~Covered(text, i)
  BY DEF Converted, Struck, Letters, Asterisk
\* A letter that would continue the word in the text is there in out, too.
<1>5. ASSUME NEW i \in DOMAIN text, NEW k \in DOMAIN text, i + 1 = k \/ k + 1 = i,
             out[i] \in Letters, out[k] \notin Letters
      PROVE  text[k] \notin Letters \cup {"@here"}
  <2>0. i \in Nat /\ k \in Nat
    BY Places
  <2>1. shown[k] # ""
    <3>1. SUFFICES ASSUME shown[k] = "" PROVE FALSE
      OBVIOUS
    <3>2. (k > 1 => shown[k - 1] \notin Letters) /\ (k < Len(text) => shown[k + 1] \notin Letters)
      BY <3>1 DEF Apart
    <3>3. \/ k > 1 /\ k - 1 = i
          \/ k < Len(text) /\ k + 1 = i
      BY <1>3, <1>5, <2>0
    <3> QED
      BY <1>4, <1>5, <3>2, <3>3
  <2>2. text[k] # "@here"
    BY <2>1 DEF Converted
  <2>3. ASSUME text[k] \in Letters PROVE FALSE
    <3>1. shown[k] = text[k]
      BY <2>1, <2>3 DEF Converted, Letters
    <3>2. Covered(text, k)
      BY <1>5, <2>3, <3>1 DEF Struck
    <3>3. PICK u \in BannedIn(text) : k \in u[1] .. u[2]
      BY <3>2 DEF Covered
    <3>4. /\ u[1] > 1 => text[u[1] - 1] \notin Letters
          /\ u[2] < Len(text) => text[u[2] + 1] \notin Letters
      BY DEF BannedIn
    <3>5. u[1] \in 1 .. Len(text) /\ u[2] \in 1 .. Len(text)
      BY BannedPlaces
    <3>6. text[i] \in Letters /\ ~Covered(text, i)
      BY <1>4, <1>5
    <3>7. i \notin u[1] .. u[2]
      BY <3>6 DEF Covered
    <3>8. \/ i = u[1] - 1 /\ u[1] > 1
          \/ i = u[2] + 1 /\ u[2] < Len(text)
      BY <1>3, <1>5, <2>0, <3>3, <3>5, <3>7
    <3> QED
      BY <3>4, <3>6, <3>8
  <2> QED
    BY <2>2, <2>3
<1>6. w[1] > 1 => text[w[1] - 1] \notin Letters \cup {"@here"}
  <2>1. SUFFICES ASSUME w[1] > 1 PROVE text[w[1] - 1] \notin Letters \cup {"@here"}
    OBVIOUS
  <2>2. w[1] - 1 \in DOMAIN text /\ (w[1] - 1) + 1 = w[1]
    BY <1>3, <2>1
  <2>3. out[w[1]] \in Letters
    BY <1>3
  <2> QED
    BY <1>2, <1>3, <1>5, <2>1, <2>2, <2>3
<1>7. w[2] < Len(text) => text[w[2] + 1] \notin Letters
  <2>1. SUFFICES ASSUME w[2] < Len(text) PROVE text[w[2] + 1] \notin Letters
    OBVIOUS
  <2>2. w[2] + 1 \in DOMAIN text
    BY <1>3, <2>1
  <2>3. out[w[2]] \in Letters
    BY <1>3
  <2> QED
    BY <1>2, <1>3, <1>5, <2>1, <2>2, <2>3
<1>8. ~InLink(text, w[1])
  <2>1. SUFFICES ASSUME NEW j \in 1 .. w[1], text[j] = "www.",
                        \A k \in j .. w[1] : text[k] # " "
                 PROVE  InLink(out, w[1])
    BY <1>2 DEF InLink
  <2>2. j \in DOMAIN text /\ \A k \in j .. w[1] : k \in DOMAIN text
    BY <1>3
  <2>3. out[j] = "www."
    <3>1. shown[j] # ""
      BY <2>1, <2>2 DEF Apart
    <3>2. shown[j] = "www."
      BY <2>1, <2>2, <3>1 DEF Converted
    <3>3. ~Covered(text, j)
      BY <2>1, <2>2, BannedPlaces DEF Covered, Letters
    <3> QED
      BY <2>2, <3>2, <3>3 DEF Struck
  <2>4. \A k \in j .. w[1] : out[k] # " "
    BY <2>1, <2>2 DEF Asterisk, Converted, Struck
  <2> QED
    BY <2>3, <2>4 DEF InLink
<1>9. SubSeq(text, w[1], w[2]) = SubSeq(out, w[1], w[2])
  <2>1. \A j \in w[1] .. w[2] : text[j] = out[j]
    BY <1>3, <1>4
  <2> QED
    BY <1>3, <2>1, SamePart
<1>10. w \in BannedIn(text)
  <2>1. \A i \in w[1] .. w[2] : text[i] \in Letters
    BY <1>3, <1>4
  <2> QED
    BY <1>2, <1>3, <1>6, <1>7, <1>8, <1>9, <2>1 DEF BannedIn
<1>11. Covered(text, w[1])
  <2>1. w[1] \in w[1] .. w[2]
    BY <1>3
  <2> QED
    BY <1>10, <2>1 DEF Covered
<1> QED
  BY <1>3, <1>4, <1>11

\* A text through the filter and the conversions.
LEMMA CrossingRight ==
  ASSUME NEW mode \in {"censor", "block"}, NEW text \in Written, ~Glued(text),
         Handle(mode, text) # <<>>, NEW crossing \in {"toGame", "toDiscord"}
  PROVE  FilterRight(mode, text, Shown(crossing, text), Shown(crossing, Handle(mode, text)))
<1> DEFINE left == Handle(mode, text)  shown == Shown(crossing, text)
           out == Shown(crossing, left)
<1>1. Masked(text, left) /\ (mode = "block" => BannedIn(text) = {})
  BY HandleMasks
<1>2. left \in Written /\ DOMAIN left = DOMAIN text
  BY <1>1 DEF Masked
<1> HIDE DEF left
<1>3. Converted(text, shown) /\ Converted(left, out)
  BY <1>2, ShownOK
<1>4. out \in Written /\ DOMAIN out = DOMAIN text
  BY <1>2, <1>3 DEF Converted
<1>5. Struck(text, shown, out)
  BY <1>1, <1>4, ShownMasked DEF Struck
<1> HIDE DEF shown, out
<1>6. Apart(text, shown) => BannedIn(out) = {}
  BY <1>3, <1>4, <1>5, NothingJoined
<1>7. FilterRight(mode, text, shown, out)
  BY <1>1, <1>5, <1>6 DEF FilterRight, Struck
<1> QED
  BY <1>7 DEF shown, out, left

-----------------------------------------------------------------------------
(***************************************************************************)
(* The state machine.                                                      *)
(***************************************************************************)

\* What the module has heard of is what has happened, except for those it knows to be
\* unnoticed; nobody is switched on in a module that is not installed.
Mirrored ==
  /\ \A p \in Players : p \notin unnoticed => (p \in globalChatEnabled <=> p \in optedIn)
  /\ optedIn # {} => "chat" \in Installed

\* The messages of the game are the bot's or a webhook's.
FromGame == event # NoEvent => event.from = "discord" \/ event.kind \in {"bot", "webhook"}

Delivered ==
  did.op = "deliver" =>
    /\ did.event \in Event /\ did.event.kind = "user" /\ did.event.from = "discord"
    /\ did.text = Crossing("toGame", did.event.text) /\ ~Empty(did.text)
    /\ did.to = Recipients(TeamOf(did.event.channel))

Spoken ==
  did.op = "say" =>
    /\ did.player \in Players /\ did.text \in Said
    /\ Filtered("toDiscord", did.text) # <<>>
    /\ did.event.text = Crossing("toDiscord", did.text)
    /\ provider = "azerothcore" /\ did.form # "longer" =>
         did.heard \/ did.player \in unnoticed

\* The inductive invariant.
IInv == TypeOK /\ Mirrored /\ FromGame /\ Delivered /\ Spoken

LEMMA SelectType == ASSUME NEW c \in Configs PROVE Select(c) \in Providers
<1>1. Detect \in Providers
  <2>1. CASE "chat" \in Installed
    BY <2>1 DEF Detect, Providers
  <2>2. CASE "chat" \notin Installed /\ "global" \in Installed
    BY <2>2 DEF Detect, Providers
  <2>3. CASE Installed = {"world"}
    BY <2>3 DEF Detect, Providers
  <2>4. CASE Installed = {}
    BY <2>4 DEF Detect, Providers
  <2> QED
    BY <2>1, <2>2, <2>3, <2>4, ChatAssumption DEF Commands
<1> QED
  BY <1>1 DEF Select, Providers

LEMMA ConfigType ==
  ASSUME TypeOK
  PROVE  config.filter \in {"off", "censor", "block"}
  BY ChatAssumption DEF TypeOK, Configurations

LEMMA SaidType == Said \subseteq Written /\ <<>> \notin Said
<1>1. Characters \subseteq Shapes
  BY DEF Shapes
<1>2. ASSUME NEW text \in Seq(Characters) PROVE text \in Seq(Shapes)
  BY <1>1
<1> QED
  BY <1>2, ChatAssumption DEF Written

\* The filter and the conversions keep texts within the alphabet, and leave something of
\* a text that is not blocked, a gap at least.
LEMMA CrossingType ==
  ASSUME TypeOK, NEW text \in Written, NEW crossing \in {"toGame", "toDiscord"}
  PROVE  /\ Filtered(crossing, text) \in Written
         /\ Crossing(crossing, text) \in Written
         /\ DOMAIN Crossing(crossing, text) = DOMAIN Filtered(crossing, text)
<1>1. Censor(text) \in Written
  <2>1. /\ Censor(text) = [i \in DOMAIN text |-> Censor(text)[i]]
        /\ \A i \in DOMAIN text : Censor(text)[i] \in {Asterisk, text[i]}
    BY DEF Censor
  <2>2. \A i \in DOMAIN text : Censor(text)[i] \in Shapes
    BY <2>1, Places DEF Shapes
  <2> QED
    BY <2>1, <2>2, TextOver
<1>2. <<>> \in Written
  BY DEF Written
<1>3. Handle(config.filter, text) \in Written
  <2>1. CASE config.filter = "off"
    BY <2>1 DEF Handle
  <2>2. CASE config.filter = "censor"
    BY <1>1, <2>2 DEF Handle
  <2>3. CASE config.filter = "block"
    BY <1>2, <2>3 DEF Handle
  <2> QED
    BY <2>1, <2>2, <2>3, ConfigType
<1>4. Filtered(crossing, text) \in Written
  BY <1>3 DEF Filtered
<1> QED
  BY <1>4, ShownOK DEF Crossing, Converted

LEMMA InitIInv == Init => IInv
<1> SUFFICES ASSUME Init PROVE IInv
  OBVIOUS
<1>1. provider \in Providers
  BY SelectType DEF Init
<1>2. did.op = "nothing"
  BY DEF Init, Nothing
<1>3. TypeOK
  BY <1>1, <1>2 DEF Init, TypeOK
<1> QED
  BY <1>2, <1>3 DEF IInv, Init, Mirrored, FromGame, Delivered, Spoken

\* What RelayToDiscord puts on Discord comes back as the bot's or a webhook's.
LEMMA RelayStep ==
  ASSUME IInv, NEW p \in Players, NEW text \in Said, event = NoEvent, Relay(p, text)
  PROVE  \/ event' = NoEvent
         \/ /\ event' \in Event /\ event'.from = "game"
            /\ event'.kind \in {"bot", "webhook"}
            /\ Filtered("toDiscord", text) # <<>>
            /\ event'.text = Crossing("toDiscord", text)
<1> DEFINE left == Filtered("toDiscord", text)  out == Crossing("toDiscord", text)
<1>1. left \in Written /\ out \in Written /\ DOMAIN out = DOMAIN left
  BY CrossingType, SaidType DEF IInv
<1>2. \/ event' = event
      \/ /\ left # <<>>
         /\ \E kind \in {"bot", "webhook"} :
              event' = [kind |-> kind, from |-> "game", text |-> out,
                        channel |-> IF config.split THEN Team[p] ELSE "global"]
  BY DEF Relay
<1> HIDE DEF left, out
<1>3. (IF config.split THEN Team[p] ELSE "global") \in Channels
  BY ChatAssumption DEF Channels
<1>4. CASE event' = event
  BY <1>4
<1>5. ASSUME left # <<>>, NEW kind \in {"bot", "webhook"},
             event' = [kind |-> kind, from |-> "game", text |-> out,
                       channel |-> IF config.split THEN Team[p] ELSE "global"]
      PROVE  /\ event' \in Event /\ event'.from = "game"
             /\ event'.kind \in {"bot", "webhook"} /\ event'.text = out
  <2>1. out # <<>>
    BY <1>1, <1>5 DEF Written
  <2> QED
    BY <1>1, <1>3, <1>5, <2>1 DEF Event, Authors, Written
<1> QED
  BY <1>2, <1>4, <1>5 DEF left, out

LEMMA ToggleStep ==
  ASSUME IInv, NEW p \in Players, NEW cmd \in Commands, NEW form \in Forms,
         NEW on \in BOOLEAN, Toggle(p, cmd, form, on)
  PROVE  IInv'
<1>1. did'.op = "nothing"
  BY DEF Toggle, Nothing
<1>2. UNCHANGED <<config, provider, event>>
  BY DEF Toggle
<1>3. /\ globalChatEnabled' \subseteq Players /\ optedIn' \subseteq Players
      /\ unnoticed' \subseteq Players
  BY DEF Toggle, Switch, IInv, TypeOK
<1>4. TypeOK'
  BY <1>1, <1>2, <1>3 DEF IInv, TypeOK
<1>5. Mirrored'
  <2>1. optedIn' # {} => "chat" \in Installed
    BY DEF IInv, Mirrored, Toggle, Switch, Understood
  <2>2. ASSUME NEW q \in Players, q \notin unnoticed'
        PROVE  q \in globalChatEnabled' <=> q \in optedIn'
    BY <2>2 DEF IInv, Mirrored, Toggle, Switch
  <2> QED
    BY <2>1, <2>2 DEF Mirrored
<1>6. FromGame'
  BY <1>2 DEF IInv, FromGame, NoEvent
<1>7. Delivered' /\ Spoken'
  BY <1>1 DEF Delivered, Spoken
<1> QED
  BY <1>4, <1>5, <1>6, <1>7 DEF IInv

\* What crosses depends on the configuration only.
LEMMA CrossingStays ==
  ASSUME UNCHANGED config
  PROVE  \A crossing, text :
           /\ Filtered(crossing, text)' = Filtered(crossing, text)
           /\ Crossing(crossing, text)' = Crossing(crossing, text)
  BY DEF Filtered, AppliesTo, Crossing

LEMMA SayStep ==
  ASSUME IInv, NEW p \in Players, NEW cmd \in Commands, NEW form \in Forms,
         NEW text \in Said, Say(p, cmd, form, text)
  PROVE  IInv'
<1>1. UNCHANGED <<config, provider, globalChatEnabled, optedIn, unnoticed>>
  BY DEF Say
<1>2. \/ event' = NoEvent /\ did' = Nothing
      \/ /\ event' \in Event /\ event' # NoEvent
         /\ event'.kind \in {"bot", "webhook"}
         /\ Filtered("toDiscord", text) # <<>>
         /\ event'.text = Crossing("toDiscord", text)
         /\ did' = [op |-> "say", player |-> p, form |-> form, text |-> text,
                    event |-> event',
                    heard |-> Understood(cmd, form) /\ p \in optedIn /\ p \notin Muted]
         /\ IsChatCommand(cmd, form) /\ p \in globalChatEnabled /\ p \notin Muted
  <2>1. CASE event' = NoEvent
    BY <2>1 DEF Say
  <2>2. CASE event' # NoEvent
    <3>1. IsChatCommand(cmd, form) /\ p \in globalChatEnabled /\ p \notin Muted
          /\ Relay(p, text) /\ event = NoEvent
      BY <2>2 DEF Say
    <3> QED
      BY <2>2, <3>1, RelayStep DEF Say
  <2> QED
    BY <2>1, <2>2
<1>3. CASE event' = NoEvent /\ did' = Nothing
  <2>1. did'.op = "nothing"
    BY <1>3 DEF Nothing
  <2>2. TypeOK'
    BY <1>1, <1>3, <2>1 DEF IInv, TypeOK
  <2> QED
    BY <1>1, <1>3, <2>1, <2>2 DEF IInv, Mirrored, FromGame, Delivered, Spoken
<1>4. CASE event' # NoEvent
  <2>1. /\ did'.op = "say" /\ did'.player = p /\ did'.form = form /\ did'.text = text
        /\ did'.event = event'
    BY <1>2, <1>4
  <2>h. did'.heard = (Understood(cmd, form) /\ p \in optedIn /\ p \notin Muted)
    <3> DEFINE h == Understood(cmd, form) /\ p \in optedIn /\ p \notin Muted
    <3>1. did' = [op |-> "say", player |-> p, form |-> form, text |-> text,
                  event |-> event', heard |-> h]
      BY <1>2, <1>4, Zenon DEF Nothing
    <3> HIDE DEF h
    <3>2. did'.heard = h
      BY <3>1, Zenon
    <3> QED
      BY <3>2 DEF h
  <2>2. TypeOK'
    BY <1>1, <1>2, <1>4, <2>1 DEF IInv, TypeOK
  <2>3. Mirrored' /\ FromGame' /\ Delivered'
    BY <1>1, <1>2, <1>4, <2>1 DEF IInv, Mirrored, FromGame, Delivered
  <2>4. ASSUME provider = "azerothcore", form # "longer", p \notin unnoticed
        PROVE  did'.heard
    <3>1. cmd = "chat"
      BY <1>2, <1>4, <2>4 DEF IsChatCommand, CommandName, Providers
    <3>2. p \in optedIn /\ "chat" \in Installed
      BY <1>2, <1>4, <2>4 DEF IInv, Mirrored
    <3> QED
      <4>1. Understood(cmd, form) /\ p \in optedIn /\ p \notin Muted
        BY <1>2, <1>4, <2>4, <3>1, <3>2 DEF Understood
      <4> QED
        BY <2>h, <4>1, Zenon
  <2>c. UNCHANGED config => /\ Filtered("toDiscord", text)' = Filtered("toDiscord", text)
                            /\ Crossing("toDiscord", text)' = Crossing("toDiscord", text)
    BY CrossingStays
  <2>5. Spoken'
    BY <1>1, <1>2, <1>4, <2>1, <2>4, <2>c DEF Spoken
  <2> QED
    BY <2>2, <2>3, <2>5 DEF IInv
<1> QED
  BY <1>2, <1>3, <1>4

LEMMA ChannelStep ==
  ASSUME IInv, NEW p \in Players, NEW text \in Said, HandleChannelChat(p, text)
  PROVE  IInv'
<1>1. /\ UNCHANGED <<config, provider, globalChatEnabled, optedIn, unnoticed>>
      /\ event = NoEvent /\ Relay(p, text) /\ did'.op = "nothing"
  BY DEF HandleChannelChat, Nothing
<1>2. event' = NoEvent \/ (event' \in Event /\ event'.kind \in {"bot", "webhook"})
  BY <1>1, RelayStep
<1>3. TypeOK'
  BY <1>1, <1>2 DEF IInv, TypeOK
<1> QED
  BY <1>1, <1>2, <1>3 DEF IInv, Mirrored, FromGame, Delivered, Spoken

LEMMA PostStep ==
  ASSUME IInv, NEW kind \in Authors, NEW channel \in Channels, NEW text \in Said,
         Post(kind, channel, text)
  PROVE  IInv'
<1>1. /\ UNCHANGED <<config, provider, globalChatEnabled, optedIn, unnoticed>>
      /\ did'.op = "nothing" /\ event'.from = "discord"
      /\ event' = [kind |-> kind, from |-> "discord", channel |-> channel, text |-> text]
  BY DEF Post, Nothing
<1>2. event' \in Event
  BY <1>1, SaidType DEF Event, Written
<1>3. TypeOK'
  BY <1>1, <1>2 DEF IInv, TypeOK
<1> QED
  BY <1>1, <1>3 DEF IInv, Mirrored, FromGame, Delivered, Spoken

LEMMA MessageStep ==
  ASSUME IInv, HandleMessageCreate
  PROVE  IInv'
<1>1. /\ UNCHANGED <<config, provider, globalChatEnabled, optedIn, unnoticed>>
      /\ event # NoEvent /\ event' = NoEvent
  BY DEF HandleMessageCreate
<1>2. event \in Event /\ (event.kind = "user" => event.from = "discord")
  BY <1>1 DEF IInv, TypeOK, FromGame, Event
<1>3. \/ did' = Nothing
      \/ /\ FromUser(event) /\ ~Empty(Crossing("toGame", event.text))
         /\ did' = [op |-> "deliver", event |-> event, text |-> Crossing("toGame", event.text),
                    to |-> Recipients(TeamOf(event.channel))]
  BY DEF HandleMessageCreate
<1>4. CASE did' = Nothing
  <2>1. did'.op = "nothing"
    BY <1>4 DEF Nothing
  <2>2. TypeOK'
    BY <1>1, <2>1 DEF IInv, TypeOK
  <2> QED
    BY <1>1, <2>1, <2>2 DEF IInv, Mirrored, FromGame, Delivered, Spoken
<1>5. CASE /\ FromUser(event) /\ ~Empty(Crossing("toGame", event.text))
           /\ did' = [op |-> "deliver", event |-> event, text |-> Crossing("toGame", event.text),
                      to |-> Recipients(TeamOf(event.channel))]
  <2>1. /\ did'.op = "deliver" /\ did'.event = event
        /\ did'.text = Crossing("toGame", event.text)
        /\ did'.to = Recipients(TeamOf(event.channel))
    BY <1>5
  <2>2. TypeOK'
    BY <1>1, <2>1 DEF IInv, TypeOK
  <2>3. /\ \A t : Crossing("toGame", t)' = Crossing("toGame", t)
        /\ \A c : TeamOf(c)' = TeamOf(c)
        /\ \A t : Recipients(t)' = Recipients(t)
    BY <1>1, CrossingStays DEF TeamOf, Recipients
  <2>4. Delivered'
    BY <1>2, <1>5, <2>1, <2>3 DEF Delivered, FromUser, Empty
  <2> QED
    BY <1>1, <2>1, <2>2, <2>4 DEF IInv, Mirrored, FromGame, Spoken
<1> QED
  BY <1>3, <1>4, <1>5

LEMMA StepIInv == IInv /\ [Next]_vars => IInv'
<1> SUFFICES ASSUME IInv, [Next]_vars PROVE IInv'
  OBVIOUS
<1>1. CASE Reload
  <2>1. /\ did'.op = "nothing" /\ config' \in Configs
        /\ UNCHANGED <<globalChatEnabled, optedIn, unnoticed, event>>
    BY <1>1 DEF Reload, Nothing
  <2>2. provider' \in Providers
    BY <1>1, SelectType DEF Reload
  <2>3. TypeOK'
    BY <2>1, <2>2 DEF IInv, TypeOK
  <2> QED
    BY <2>1, <2>3 DEF IInv, Mirrored, FromGame, Delivered, Spoken
<1>2. CASE HandleMessageCreate
  BY <1>2, MessageStep
<1>3. CASE \E p \in Players, cmd \in Commands, form \in Forms, on \in BOOLEAN :
             Toggle(p, cmd, form, on)
  BY <1>3, ToggleStep
<1>4. CASE \E p \in Players, cmd \in Commands, form \in Forms, text \in Said :
             Say(p, cmd, form, text)
  BY <1>4, SayStep
<1>5. CASE \E p \in Players, text \in Said : HandleChannelChat(p, text)
  BY <1>5, ChannelStep
<1>6. CASE \E kind \in Authors, channel \in Channels, text \in Said :
             Post(kind, channel, text)
  BY <1>6, PostStep
<1>7. CASE UNCHANGED vars
  BY <1>7, CrossingStays
     DEF vars, IInv, TypeOK, Mirrored, FromGame, Delivered, Spoken, Recipients, TeamOf
<1> QED
  BY <1>1, <1>2, <1>3, <1>4, <1>5, <1>6, <1>7 DEF Next

\* The bridge's note of the opt-ins agrees with the in-game module's but for what it could
\* not notice; what the last handler did was right.
THEOREM Invariance == Spec => []IInv
<1> QED
  BY InitIInv, StepIInv, PTL DEF Spec

-----------------------------------------------------------------------------
\* Every variable keeps its type.
THEOREM TypeCorrect == Spec => []TypeOK
<1>1. IInv => TypeOK
  BY DEF IInv
<1> QED
  BY <1>1, Invariance, PTL

\* What the module itself has put on Discord is never said in the game again
\* (HandleMessageCreate, ParseChannelMessage).
THEOREM NoEcho == Spec => []NothingComesBack
<1>1. IInv => NothingComesBack
  BY DEF IInv, NothingComesBack, Delivered
<1> QED
  BY <1>1, Invariance, PTL

\* With an opt-in provider, messages cross to and from whoever the in-game module has
\* switched on (HandleGameCommand, HandleDiscordToGame).
THEOREM OptInFollowed == Spec => []FollowsOptIn
<1>1. ASSUME IInv, provider = "azerothcore", did.op = "deliver"
      PROVE  did.to \ unnoticed =
        {p \in optedIn \ unnoticed : TeamOf(did.event.channel) \in {"neutral", Team[p]}}
  <2> DEFINE team == TeamOf(did.event.channel)
  <2>1. did.to = {p \in Players : team \in {"neutral", Team[p]} /\ p \in globalChatEnabled}
    BY <1>1 DEF IInv, Delivered, Recipients
  <2>2. optedIn \subseteq Players
    BY <1>1 DEF IInv, TypeOK
  <2>3. \A p \in Players : p \notin unnoticed => (p \in globalChatEnabled <=> p \in optedIn)
    BY <1>1 DEF IInv, Mirrored
  <2> HIDE DEF team
  <2>4. did.to \ unnoticed = {p \in optedIn \ unnoticed : team \in {"neutral", Team[p]}}
    BY <2>1, <2>2, <2>3
  <2> QED
    BY <2>4 DEF team
<1>2. IInv => FollowsOptIn
  BY <1>1 DEF IInv, FollowsOptIn, Spoken
<1> QED
  BY <1>2, Invariance, PTL

\* In a direction the filter is on for, every banned word of a text is unreadable in what
\* crosses, whatever its length and the list of words, all else is as without the filter,
\* and the conversions make up no banned word of what stands apart (Handle, Censor,
\* HasBannedWord, StripDiscordMentions, ConvertCustomEmojisToNames).
THEOREM FilterWorks == Spec => []FilterHolds
<1>1. ASSUME IInv, config.filter # "off" PROVE config.filter \in {"censor", "block"}
  BY <1>1, ConfigType DEF IInv
<1>2. ASSUME IInv, config.filter # "off", did.op = "deliver", config.toGame,
             ~Glued(did.event.text)
      PROVE  FilterRight(config.filter, did.event.text, Shown("toGame", did.event.text),
                         did.text)
  <2> DEFINE left == Handle(config.filter, did.event.text)
  <2>1. did.text = Shown("toGame", left) /\ ~Empty(did.text)
    BY <1>2 DEF IInv, Delivered, Crossing, Filtered, AppliesTo
  <2>2. did.event.text \in Written
    BY <1>2 DEF IInv, Delivered, Event, Written
  <2>3. left # <<>>
    <3>1. SUFFICES ASSUME left = <<>> PROVE Empty(did.text)
      BY <2>1
    <3>2. <<>> \in Written /\ DOMAIN <<>> = {}
      BY DEF Written
    <3>3. DOMAIN Shown("toGame", <<>>) = {}
      BY <3>2, ShownOK DEF Converted
    <3> QED
      BY <2>1, <3>1, <3>3 DEF Empty
  <2> QED
    BY <1>1, <1>2, <2>1, <2>2, <2>3, CrossingRight
<1>3. ASSUME IInv, config.filter # "off", did.op = "say", config.toDiscord,
             ~Glued(did.text)
      PROVE  FilterRight(config.filter, did.text, Shown("toDiscord", did.text),
                         did.event.text)
  <2>1. /\ did.event.text = Shown("toDiscord", Handle(config.filter, did.text))
        /\ Handle(config.filter, did.text) # <<>> /\ did.text \in Written
    BY <1>3, SaidType DEF IInv, Spoken, Crossing, Filtered, AppliesTo
  <2> QED
    BY <1>1, <1>3, <2>1, CrossingRight
<1>4. IInv => FilterHolds
  BY <1>2, <1>3 DEF FilterHolds
<1> QED
  BY <1>4, Invariance, PTL
=============================================================================
