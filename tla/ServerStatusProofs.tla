------------------------- MODULE ServerStatusProofs -------------------------
(***************************************************************************)
(* Proofs about DiscordServerStatus, for any interval and any number of    *)
(* posts, reloads and restarts: one message is enough as long as answers   *)
(* come in time, and memory and database agree whenever nothing is under   *)
(* way.                                                                    *)
(*                                                                         *)
(* Both rest on what a message's id is worth while it travels: One says    *)
(* where the one message's id can be, Agree which of the two copies is     *)
(* ahead of the other.                                                     *)
(***************************************************************************)
EXTENDS ServerStatus, FiniteSetTheorems, TLAPS

Pending(p) == post[p] = "pending"

\* A POST that has not been made has no reply, and ids come from Discord.
Sound == \A p \in Posts : post[p] = "idle" => reply[p] = "none"

\* No message yet, and no id anywhere.
NoneYet ==
  /\ created = {} /\ messageId = 0 /\ row = 0
  /\ \A p \in Posts : reply[p] # "id"
  /\ \/ dbQueue = <<>> /\ loaded = <<>>
     \/ /\ \/ dbQueue = <<Load>> /\ loaded = <<>>
           \/ dbQueue = <<>> /\ loaded = <<0>>
        /\ \A p \in Posts : ~Pending(p)

\* One message, p: its id is in the reply, in memory, on its way into the database,
\* there, or on its way back.
OneIs(p) ==
  /\ created = {p}
  /\ \A q \in Posts : q # p => ~Pending(q)
  /\ \/ /\ Pending(p) /\ reply[p] = "id"
        /\ messageId = 0 /\ dbQueue = <<>> /\ loaded = <<>> /\ row = 0
     \/ /\ ~Pending(p)
        /\ \/ messageId = p /\ dbQueue = <<p>>    /\ loaded = <<>>
           \/ messageId = p /\ dbQueue = <<>>     /\ loaded = <<>>  /\ row = p
           \/ messageId = 0 /\ dbQueue = <<Load>> /\ loaded = <<>>  /\ row = p
           \/ messageId = 0 /\ dbQueue = <<>>     /\ loaded = <<p>> /\ row = p

One ==
  \/ ConfigId # 0 /\ messageId # 0 /\ created = {} /\ \A p \in Posts : ~Pending(p)
  \/ /\ ConfigId = 0
     /\ \A p, q \in Posts : Pending(p) /\ Pending(q) => p = q
     /\ NoneYet \/ \E p \in Posts : OneIs(p)

\* The row will be x once the statements under way have been executed.
WillBe(x) ==
  \/ /\ \A i \in DOMAIN dbQueue : dbQueue[i] = Load
     /\ row = x
  \/ \E i \in DOMAIN dbQueue :
       /\ dbQueue[i] = x /\ x # Load
       /\ \A j \in DOMAIN dbQueue : j > i => dbQueue[j] = Load

Agree ==
  \/ messageId # 0 /\ WillBe(messageId)
  \/ /\ messageId = 0
     /\ \/ dbQueue = <<Load>> /\ loaded = <<>>
        \/ dbQueue = <<>> /\ loaded = <<row>>
        \/ dbQueue = <<>> /\ loaded = <<>> /\ row = 0

\* The inductive invariant.
IInv ==
  /\ TypeOK /\ Sound
  /\ (late = {} => One)
  /\ (ConfigId = 0 /\ "reload" \notin late => Agree)

-----------------------------------------------------------------------------
(***************************************************************************)
(* Types.                                                                  *)
(***************************************************************************)

LEMMA InitType == Init => TypeOK
<1>1. <<Load>> \in Seq({Load} \cup Posts)
  BY DEF Load
<1> QED
  BY <1>1, StatusAssumption DEF Init, TypeOK, Ids, Rest!States

LEMMA InterruptType ==
  ASSUME TypeOK, NEW e \in Interruptions, Interrupt(e)
  PROVE  late' \subseteq Interruptions
  BY DEF TypeOK, Interrupt

LEMMA NextType == TypeOK /\ [Next]_vars => TypeOK'
<1> SUFFICES ASSUME TypeOK, [Next]_vars PROVE TypeOK'
  OBVIOUS
<1>i. "update" \in Interruptions /\ "reload" \in Interruptions
      /\ "restart" \in Interruptions /\ "no reply" \in Interruptions
  BY DEF Interruptions
<1>r. {"idle", "pending", "answered", "settled"} = Rest!States
  BY DEF Rest!States
<1>1. CASE Update
  <2>1. /\ UNCHANGED <<messageId, dbVars, reloads, restarts, reply, created>>
        /\ post' \in [Posts -> Rest!States]
    BY <1>1, <1>r DEF TypeOK, Update, SendOrUpdate, restVars, Rest!Submit, Rest!Move
  <2>2. timer' \in 0 .. Interval - 1
    BY <1>1, StatusAssumption DEF TypeOK, Update
  <2>3. late' \subseteq Interruptions
    BY <1>1, <1>i, InterruptType DEF TypeOK, Update
  <2> QED
    BY <2>1, <2>2, <2>3 DEF TypeOK, dbVars
<1>2. CASE Reload
  <2>1. dbQueue' \in Seq({Load} \cup Posts)
    BY <1>2 DEF TypeOK, Reload
  <2>2. late' \subseteq Interruptions
    BY <1>2, <1>i, InterruptType DEF Reload
  <2>3. messageId' \in Ids /\ timer' \in 0 .. Interval - 1 /\ reloads' \in 0 .. MaxReloads
    BY <1>2, StatusAssumption DEF TypeOK, Reload, Ids
  <2> QED
    BY <1>2, <2>1, <2>2, <2>3 DEF TypeOK, Reload, restVars
<1>3. CASE LoadCallback
  <2>1. loaded' \in Seq(Ids) /\ Head(loaded) \in Ids
    BY <1>3 DEF TypeOK, LoadCallback
  <2> QED
    BY <1>3, <2>1 DEF TypeOK, LoadCallback, restVars, resets
<1>4. CASE Database
  <2>1. dbQueue' \in Seq({Load} \cup Posts) /\ Head(dbQueue) \in {Load} \cup Posts
    BY <1>4 DEF TypeOK, Database
  <2>2. loaded' \in Seq(Ids) /\ row' \in Ids
    <3>1. CASE Head(dbQueue) = Load
      BY <1>4, <3>1, SMTT(20) DEF TypeOK, Database
    <3>2. CASE Head(dbQueue) # Load
      BY <1>4, <2>1, <3>2 DEF TypeOK, Database, Ids
    <3> QED
      BY <3>1, <3>2
  <2> QED
    BY <1>4, <2>1, <2>2 DEF TypeOK, Database, restVars, resets
<1>5. CASE Restart
  <2>1. post' \in [Posts -> Rest!States]
    BY <1>5, <1>r DEF TypeOK, Restart
  <2>2. row' \in Ids /\ messageId' \in Ids
    BY <1>5 DEF TypeOK, Restart, Ids
  <2>3. dbQueue' \in Seq({Load} \cup Posts) /\ loaded' \in Seq(Ids)
    BY <1>5 DEF Restart, Load
  <2>4. late' \subseteq Interruptions
    BY <1>5, <1>i, InterruptType DEF Restart
  <2>5. timer' \in 0 .. Interval - 1 /\ restarts' \in 0 .. MaxRestarts
    BY <1>5, StatusAssumption DEF TypeOK, Restart
  <2> QED
    BY <1>5, <2>1, <2>2, <2>3, <2>4, <2>5 DEF TypeOK, Restart
<1>6. ASSUME NEW p \in Posts, Answer(p) PROVE TypeOK'
  <2>1. post' \in [Posts -> Rest!States] /\ messageId' \in Ids
        /\ dbQueue' \in Seq({Load} \cup Posts)
    BY <1>6, <1>r DEF TypeOK, Answer, Ids, Rest!Answer, Rest!Move
  <2> QED
    BY <1>6, <2>1 DEF TypeOK, Answer, resets
<1>7. ASSUME NEW p \in Posts, Discord(p) PROVE TypeOK'
  <2>1. reply' \in [Posts -> {"none", "id", "other"}] /\ created' \subseteq Posts
    BY <1>7 DEF TypeOK, Discord
  <2>2. late' \subseteq Interruptions
    BY <1>7, <1>i, InterruptType DEF TypeOK, Discord
  <2> QED
    BY <1>7, <2>1, <2>2 DEF TypeOK, Discord, dbVars
<1>8. ASSUME NEW p \in Posts, GiveUp(p) PROVE TypeOK'
  <2>1. post' \in [Posts -> Rest!States]
    BY <1>8, <1>r DEF TypeOK, GiveUp, Rest!Settle, Rest!Move
  <2> QED
    BY <1>8, <2>1 DEF TypeOK, GiveUp, dbVars, resets
<1>9. CASE UNCHANGED vars
  BY <1>9 DEF vars, restVars, dbVars, resets, TypeOK
<1> QED
  BY <1>1, <1>2, <1>3, <1>4, <1>5, <1>6, <1>7, <1>8, <1>9 DEF Next

-----------------------------------------------------------------------------
(***************************************************************************)
(* Memory and database.                                                    *)
(***************************************************************************)

\* Interrupt never forgets, and at rest it adds nothing.
LEMMA InterruptGrows ==
  ASSUME NEW e, Interrupt(e)
  PROVE  late \subseteq late' /\ (e \notin late' => late' = late /\ Quiet)
  BY DEF Interrupt

LEMMA LateGrows ==
  ASSUME [Next]_vars
  PROVE  late \subseteq late'
<1>1. CASE Update
  BY <1>1, InterruptGrows DEF Update
<1>2. CASE Reload
  BY <1>2, InterruptGrows DEF Reload
<1>3. CASE LoadCallback \/ Database
  BY <1>3 DEF LoadCallback, Database, resets
<1>4. CASE Restart
  BY <1>4, InterruptGrows DEF Restart
<1>5. ASSUME NEW p \in Posts, Answer(p) \/ Discord(p) \/ GiveUp(p)
      PROVE  late \subseteq late'
  BY <1>5, InterruptGrows DEF Answer, Discord, GiveUp, resets
<1>6. CASE UNCHANGED vars
  BY <1>6 DEF vars, resets
<1> QED
  BY <1>1, <1>2, <1>3, <1>4, <1>5, <1>6 DEF Next

LEMMA SavedLast ==
  ASSUME TypeOK, NEW p \in Posts, dbQueue' = Append(dbQueue, p)
  PROVE  WillBe(p)'
<1> DEFINE n == Len(dbQueue) + 1
<1>1. n \in DOMAIN dbQueue' /\ dbQueue'[n] = p /\ p # Load
      /\ \A j \in DOMAIN dbQueue' : ~(j > n)
  BY DEF TypeOK, Posts, Load
<1> QED
  BY <1>1 DEF WillBe

\* Executing a statement does not change what will be.
LEMMA Executed ==
  ASSUME TypeOK, NEW x, WillBe(x), Database
  PROVE  WillBe(x)'
<1>1. /\ dbQueue \in Seq({Load} \cup Posts) /\ dbQueue # <<>> /\ dbQueue' = Tail(dbQueue)
      /\ Head(dbQueue) = dbQueue[1]
      /\ row' = IF dbQueue[1] = Load THEN row ELSE dbQueue[1]
  BY DEF TypeOK, Database
<1>2. /\ \A i \in DOMAIN dbQueue' : i \in Nat /\ i + 1 \in DOMAIN dbQueue
                                     /\ dbQueue'[i] = dbQueue[i + 1]
      /\ \A i \in DOMAIN dbQueue : i = 1 \/ (i - 1 \in DOMAIN dbQueue' /\ i > 1)
      /\ 1 \in DOMAIN dbQueue /\ \A i \in DOMAIN dbQueue : i \in Nat
  BY <1>1
<1>3. CASE (\A i \in DOMAIN dbQueue : dbQueue[i] = Load) /\ row = x
  <2>1. \A i \in DOMAIN dbQueue' : dbQueue'[i] = Load
    BY <1>2, <1>3
  <2>2. row' = x
    BY <1>1, <1>2, <1>3
  <2> QED
    BY <2>1, <2>2 DEF WillBe
<1>4. ASSUME NEW i \in DOMAIN dbQueue, dbQueue[i] = x, x # Load,
             \A j \in DOMAIN dbQueue : j > i => dbQueue[j] = Load
      PROVE  WillBe(x)'
  <2>1. CASE i = 1
    <3>1. \A j \in DOMAIN dbQueue' : dbQueue'[j] = Load
      <4>1. \A j \in Nat : j \in DOMAIN dbQueue' => j + 1 > 1 \/ j = 0
        OBVIOUS
      <4>2. 0 \notin DOMAIN dbQueue'
        BY <1>1
      <4> QED
        BY <1>2, <1>4, <2>1, <4>1, <4>2
    <3>2. row' = x
      BY <1>1, <1>4, <2>1
    <3> QED
      BY <3>1, <3>2 DEF WillBe
  <2>2. CASE i # 1
    <3>1. i - 1 \in DOMAIN dbQueue' /\ i \in Nat /\ i - 1 \in Nat /\ (i - 1) + 1 = i
      BY <1>1, <1>2, <2>2
    <3>2. dbQueue'[i - 1] = x
      BY <1>2, <1>4, <3>1
    <3>3. ASSUME NEW j \in DOMAIN dbQueue', j > i - 1 PROVE dbQueue'[j] = Load
      <4>1. j \in Nat /\ j + 1 \in DOMAIN dbQueue /\ dbQueue'[j] = dbQueue[j + 1]
        BY <1>2
      <4>2. j + 1 > i
        BY <3>1, <3>3, <4>1
      <4> QED
        BY <1>4, <4>1, <4>2
    <3> QED
      BY <1>4, <3>1, <3>2, <3>3 DEF WillBe
  <2> QED
    BY <2>1, <2>2
<1> QED
  BY <1>3, <1>4 DEF WillBe

LEMMA AgreeStep ==
  ASSUME TypeOK, ConfigId = 0, Agree, "reload" \notin late', [Next]_vars
  PROVE  Agree'
<1>1. CASE Update
  BY <1>1 DEF Update, Agree, WillBe, dbVars
<1>2. CASE Reload
  <2>1. messageId' = 0 /\ Quiet /\ dbQueue' = Append(dbQueue, Load) /\ loaded' = loaded
    BY <1>2, InterruptGrows DEF Reload
  <2>2. dbQueue = <<>> /\ loaded = <<>>
    BY <2>1 DEF Quiet
  <2>3. dbQueue' = <<Load>>
    BY <2>1, <2>2
  <2> QED
    BY <2>1, <2>2, <2>3 DEF Agree
<1>3. CASE LoadCallback
  <2>1. /\ loaded # <<>> /\ loaded' = Tail(loaded) /\ row' = row /\ dbQueue' = dbQueue
        /\ messageId' = IF messageId = 0 THEN Head(loaded) ELSE messageId
    BY <1>3 DEF LoadCallback
  <2>2. CASE messageId # 0
    BY <2>1, <2>2 DEF Agree, WillBe
  <2>3. CASE messageId = 0
    <3>1. dbQueue = <<>> /\ loaded = <<row>>
      BY <2>1, <2>3 DEF Agree
    <3>2. dbQueue' = <<>> /\ loaded' = <<>> /\ messageId' = row
      BY <2>1, <2>3, <3>1
    <3> QED
      BY <2>1, <3>2 DEF Agree, WillBe
  <2> QED
    BY <2>2, <2>3
<1>4. CASE Database
  <2>1. messageId' = messageId /\ dbQueue # <<>> /\ dbQueue' = Tail(dbQueue)
    BY <1>4 DEF Database
  <2>2. CASE messageId # 0
    BY <1>4, <2>1, <2>2, Executed DEF Agree
  <2>3. CASE messageId = 0
    <3>1. dbQueue = <<Load>> /\ loaded = <<>>
      BY <2>1, <2>3 DEF Agree
    <3>2. Head(dbQueue) = Load
      BY <3>1
    <3>3. loaded' = Append(<<>>, row) /\ row' = row
      BY <1>4, <3>1, <3>2 DEF Database
    <3>4. dbQueue' = <<>> /\ loaded' = <<row>>
      BY <2>1, <3>1, <3>3
    <3> QED
      BY <2>1, <2>3, <3>3, <3>4 DEF Agree
  <2> QED
    BY <2>2, <2>3
<1>5. CASE Restart
  BY <1>5 DEF Restart, Agree
<1>6. ASSUME NEW p \in Posts, Answer(p) PROVE Agree'
  <2>1. messageId' = p /\ p # 0 /\ dbQueue' = Append(dbQueue, p)
    BY <1>6 DEF Answer, Posts
  <2>2. WillBe(p)'
    BY <2>1, SavedLast
  <2> QED
    BY <2>1, <2>2 DEF Agree, WillBe
<1>7. ASSUME NEW p \in Posts, Discord(p) \/ GiveUp(p) PROVE Agree'
  BY <1>7 DEF Discord, GiveUp, Agree, WillBe, dbVars
<1>8. CASE UNCHANGED vars
  BY <1>8 DEF vars, dbVars, Agree, WillBe
<1> QED
  BY <1>1, <1>2, <1>3, <1>4, <1>5, <1>6, <1>7, <1>8 DEF Next

-----------------------------------------------------------------------------
(***************************************************************************)
(* One message.                                                            *)
(***************************************************************************)

LEMMA SoundStep ==
  ASSUME TypeOK, Sound, [Next]_vars
  PROVE  Sound'
<1>1. CASE Update
  BY <1>1 DEF TypeOK, Sound, Update, SendOrUpdate, restVars, Rest!Submit, Rest!Move
<1>2. CASE Reload \/ LoadCallback \/ Database \/ UNCHANGED vars
  BY <1>2 DEF Sound, Reload, LoadCallback, Database, vars, restVars
<1>3. CASE Restart
  BY <1>3 DEF TypeOK, Sound, Restart
<1>4. ASSUME NEW p \in Posts, Answer(p) PROVE Sound'
  BY <1>4 DEF TypeOK, Sound, Answer, Rest!Answer, Rest!Move
<1>5. ASSUME NEW p \in Posts, Discord(p) PROVE Sound'
  BY <1>5 DEF TypeOK, Sound, Discord
<1>6. ASSUME NEW p \in Posts, GiveUp(p) PROVE Sound'
  BY <1>6 DEF TypeOK, Sound, GiveUp, Rest!Settle, Rest!Move
<1> QED
  BY <1>1, <1>2, <1>3, <1>4, <1>5, <1>6 DEF Next

\* At rest and without an id there is no message, or the database knows it.
LEMMA QuietCases ==
  ASSUME One, Quiet
  PROVE  /\ dbQueue = <<>> /\ loaded = <<>> /\ \A p \in Posts : ~Pending(p)
         /\ \/ ConfigId # 0 /\ messageId # 0 /\ created = {}
            \/ ConfigId = 0 /\ messageId = 0 /\ NoneYet
            \/ \E p \in Posts : /\ ConfigId = 0 /\ created = {p}
                                /\ messageId = p /\ row = p
<1>1. dbQueue = <<>> /\ loaded = <<>> /\ \A p \in Posts : ~Pending(p)
  BY DEF Quiet, Pending
<1>2. <<Load>> # <<>>
  OBVIOUS
<1>3. ASSUME NEW p \in Posts, OneIs(p)
      PROVE  created = {p} /\ messageId = p /\ row = p
  <2>1. <<p>> # <<>>
    OBVIOUS
  <2> QED
    BY <1>1, <1>2, <1>3, <2>1 DEF OneIs
<1> QED
  BY <1>1, <1>3 DEF One, NoneYet

LEMMA UpdateOne ==
  ASSUME TypeOK, Sound, One, late' = {}, Update
  PROVE  One'
<1>1. CASE UNCHANGED restVars
  BY <1>1 DEF Update, One, NoneYet, OneIs, Pending, restVars, dbVars
<1>2. ASSUME Quiet, messageId = 0, NEW p \in Posts, Rest!Submit(p),
             UNCHANGED <<reply, created, messageId, dbVars>>
      PROVE  One'
  <2>1. /\ dbQueue = <<>> /\ loaded = <<>> /\ \A q \in Posts : ~Pending(q)
        /\ ConfigId = 0 /\ NoneYet
    BY <1>2, QuietCases DEF Posts
  <2>2. \A q \in Posts : Pending(q)' => q = p
    BY <1>2, <2>1 DEF TypeOK, Pending, Rest!Submit, Rest!Move
  <2>3. NoneYet'
    BY <1>2, <2>1 DEF NoneYet, dbVars
  <2> QED
    BY <2>1, <2>2, <2>3 DEF One
<1>3. \/ UNCHANGED restVars
      \/ /\ Interrupt("update") /\ messageId = 0 /\ UNCHANGED <<reply, created>>
         /\ \E p \in Posts : Rest!Submit(p)
  BY DEF Update, SendOrUpdate, restVars
<1>4. CASE Interrupt("update") /\ UNCHANGED <<reply, created>>
  <2>1. Quiet
    BY <1>4, InterruptGrows
  <2> QED
    BY <1>1, <1>2, <1>3, <2>1 DEF Update
<1> QED
  BY <1>1, <1>3, <1>4

\* A reset at rest forgets the id and asks the database.
LEMMA ResetOne ==
  ASSUME TypeOK, One, Quiet, messageId' = ConfigId, dbQueue' = <<Load>>, loaded' = <<>>,
         row' = row, UNCHANGED <<reply, created>>,
         \A p \in Posts : ~Pending(p)'
  PROVE  One'
<1>1. CASE ConfigId # 0
  BY <1>1 DEF One
<1>2. CASE ConfigId = 0 /\ messageId = 0 /\ NoneYet
  <2>1. NoneYet'
    BY <1>2 DEF NoneYet
  <2> QED
    BY <1>2, <2>1 DEF One
<1>3. ASSUME NEW p \in Posts, ConfigId = 0, created = {p}, messageId = p, row = p
      PROVE  One'
  <2>1. OneIs(p)'
    BY <1>3 DEF OneIs
  <2> QED
    BY <1>3, <2>1 DEF One
<1> QED
  BY <1>1, <1>2, <1>3, QuietCases

LEMMA LoadOne ==
  ASSUME TypeOK, One, LoadCallback
  PROVE  One'
<1>1. /\ loaded # <<>> /\ loaded' = Tail(loaded)
      /\ UNCHANGED <<post, reply, created, dbQueue, row>>
      /\ messageId' = IF messageId = 0 THEN Head(loaded) ELSE messageId
      /\ \A p : Pending(p)' = Pending(p)
  BY DEF LoadCallback, restVars, Pending
<1>2. CASE ConfigId # 0
  BY <1>1, <1>2 DEF One
<1>3. CASE NoneYet /\ ConfigId = 0
  <2>1. loaded = <<0>> /\ dbQueue = <<>> /\ messageId = 0
    BY <1>1, <1>3 DEF NoneYet
  <2>2. loaded' = <<>> /\ messageId' = 0
    BY <1>1, <2>1
  <2>3. NoneYet'
    BY <1>1, <1>3, <2>1, <2>2 DEF NoneYet
  <2> QED
    BY <1>1, <1>3, <2>3 DEF One
<1>4. ASSUME NEW p \in Posts, OneIs(p), ConfigId = 0 PROVE One'
  <2>1. loaded = <<p>> /\ messageId = 0 /\ row = p /\ ~Pending(p) /\ dbQueue = <<>>
    BY <1>1, <1>4 DEF OneIs
  <2>2. loaded' = <<>> /\ messageId' = p
    BY <1>1, <2>1
  <2>3. OneIs(p)'
    BY <1>1, <1>4, <2>1, <2>2 DEF OneIs
  <2> QED
    BY <1>1, <1>4, <2>3 DEF One
<1> QED
  BY <1>2, <1>3, <1>4 DEF One

LEMMA DatabaseOne ==
  ASSUME TypeOK, One, Database
  PROVE  One'
<1>1. /\ dbQueue # <<>> /\ dbQueue' = Tail(dbQueue)
      /\ UNCHANGED <<post, reply, created, messageId>>
      /\ \/ /\ Head(dbQueue) = Load /\ loaded' = Append(loaded, row) /\ row' = row
         \/ /\ Head(dbQueue) # Load /\ row' = Head(dbQueue) /\ loaded' = loaded
      /\ \A p : Pending(p)' = Pending(p)
  BY DEF Database, restVars, Pending
<1>2. CASE ConfigId # 0
  BY <1>1, <1>2 DEF One
<1>3. CASE NoneYet /\ ConfigId = 0
  <2>1. dbQueue = <<Load>> /\ loaded = <<>> /\ row = 0 /\ \A p \in Posts : ~Pending(p)
    BY <1>1, <1>3 DEF NoneYet
  <2>2. Head(dbQueue) = Load /\ dbQueue' = <<>>
    BY <1>1, <2>1
  <2>3. loaded' = Append(<<>>, 0) /\ row' = 0
    BY <1>1, <2>1, <2>2
  <2>4. loaded' = <<0>>
    BY <2>3
  <2>5. NoneYet'
    BY <1>1, <1>3, <2>1, <2>2, <2>3, <2>4 DEF NoneYet
  <2> QED
    BY <1>1, <1>3, <2>5 DEF One
<1>4. ASSUME NEW p \in Posts, OneIs(p), ConfigId = 0 PROVE One'
  <2>1. p # Load
    BY DEF Posts, Load
  <2>2. CASE dbQueue = <<p>> /\ loaded = <<>> /\ messageId = p /\ ~Pending(p)
    <3>1. Head(dbQueue) = p /\ dbQueue' = <<>>
      BY <1>1, <2>2
    <3>2. row' = p /\ loaded' = <<>>
      BY <1>1, <2>1, <2>2, <3>1
    <3>3. OneIs(p)'
      BY <1>1, <1>4, <2>2, <3>1, <3>2 DEF OneIs
    <3> QED
      BY <1>1, <1>4, <3>3 DEF One
  <2>3. CASE dbQueue = <<Load>> /\ loaded = <<>> /\ messageId = 0 /\ row = p /\ ~Pending(p)
    <3>1. Head(dbQueue) = Load /\ dbQueue' = <<>>
      BY <1>1, <2>3
    <3>2. row' = p /\ loaded' = Append(<<>>, p)
      BY <1>1, <2>3, <3>1
    <3>3. loaded' = <<p>>
      BY <3>2
    <3>4. OneIs(p)'
      BY <1>1, <1>4, <2>3, <3>1, <3>2, <3>3 DEF OneIs
    <3> QED
      BY <1>1, <1>4, <3>4 DEF One
  <2> QED
    BY <1>1, <1>4, <2>2, <2>3 DEF OneIs
<1> QED
  BY <1>2, <1>3, <1>4 DEF One

LEMMA AnswerOne ==
  ASSUME TypeOK, One, NEW p \in Posts, Answer(p)
  PROVE  One'
<1>1. /\ reply[p] = "id" /\ Pending(p) /\ messageId' = p /\ dbQueue' = Append(dbQueue, p)
      /\ UNCHANGED <<reply, created, loaded, row>>
      /\ \A q \in Posts : Pending(q)' <=> (q # p /\ Pending(q))
  BY DEF TypeOK, Answer, Pending, Rest!Answer, Rest!Move
<1>2. ConfigId = 0 /\ OneIs(p)
  BY <1>1 DEF One, NoneYet, OneIs
<1>3. dbQueue = <<>> /\ loaded = <<>>
  BY <1>1, <1>2 DEF OneIs
<1>4. dbQueue' = <<p>>
  BY <1>1, <1>3
<1>5. OneIs(p)'
  BY <1>1, <1>2, <1>3, <1>4 DEF OneIs
<1> QED
  BY <1>1, <1>2, <1>5 DEF One, OneIs

LEMMA DiscordOne ==
  ASSUME TypeOK, Sound, One, late' = {}, NEW p \in Posts, Discord(p)
  PROVE  One'
<1>1. /\ Pending(p) /\ reply[p] = "none" /\ UNCHANGED <<messageId, post, dbQueue, loaded, row>>
      /\ \A q \in Posts : Pending(q)' <=> Pending(q)
  BY DEF Discord, Pending, dbVars
<1>2. ~Quiet
  BY <1>1 DEF Quiet, Pending
<1>3. \/ reply' = [reply EXCEPT ![p] = "id"] /\ created' = created \cup {p}
      \/ reply' = [reply EXCEPT ![p] = "other"] /\ created' = created
  BY <1>2 DEF Discord, Interrupt
<1>4. ConfigId = 0 /\ NoneYet /\ dbQueue = <<>> /\ loaded = <<>>
      /\ \A q \in Posts : q # p => ~Pending(q)
  BY <1>1 DEF One, NoneYet, OneIs
<1>5. CASE reply' = [reply EXCEPT ![p] = "id"] /\ created' = created \cup {p}
  <2>1. OneIs(p)'
    BY <1>1, <1>4, <1>5 DEF OneIs, NoneYet, TypeOK
  <2> QED
    BY <1>1, <1>4, <2>1 DEF One
<1>6. CASE reply' = [reply EXCEPT ![p] = "other"] /\ created' = created
  <2>1. NoneYet'
    BY <1>1, <1>4, <1>6 DEF NoneYet, TypeOK
  <2> QED
    BY <1>1, <1>4, <2>1 DEF One
<1> QED
  BY <1>3, <1>5, <1>6

LEMMA GiveUpOne ==
  ASSUME TypeOK, One, NEW p \in Posts, GiveUp(p)
  PROVE  One'
<1>1. /\ reply[p] = "other" /\ Pending(p)
      /\ UNCHANGED <<messageId, reply, created, dbQueue, loaded, row>>
      /\ \A q \in Posts : Pending(q)' <=> (q # p /\ Pending(q))
  BY DEF TypeOK, GiveUp, Pending, Rest!Settle, Rest!Move, dbVars
<1>2. ConfigId = 0 /\ NoneYet
  BY <1>1 DEF One, OneIs
<1>3. NoneYet'
  BY <1>1, <1>2 DEF NoneYet
<1> QED
  BY <1>1, <1>2, <1>3 DEF One

LEMMA OneStep ==
  ASSUME TypeOK, Sound, One, late' = {}, [Next]_vars
  PROVE  One'
<1>1. CASE Update
  BY <1>1, UpdateOne
<1>2. CASE Reload
  <2>1. Quiet /\ messageId' = ConfigId /\ dbQueue' = Append(dbQueue, Load)
        /\ UNCHANGED <<post, reply, created, loaded, row>>
    BY <1>2, InterruptGrows DEF Reload, restVars
  <2>2. dbQueue = <<>> /\ loaded = <<>> /\ \A p \in Posts : ~Pending(p)'
    BY <2>1 DEF Quiet, Pending
  <2>3. dbQueue' = <<Load>>
    BY <2>1, <2>2
  <2> QED
    BY <2>1, <2>2, <2>3, ResetOne
<1>3. CASE LoadCallback
  BY <1>3, LoadOne
<1>4. CASE Database
  BY <1>4, DatabaseOne
<1>5. CASE Restart
  <2>1. Quiet /\ messageId' = ConfigId /\ dbQueue' = <<Load>> /\ loaded' = <<>>
        /\ UNCHANGED <<reply, created>>
    BY <1>5, InterruptGrows DEF Restart
  <2>2. dbQueue = <<>> /\ row' = row
    BY <1>5, <2>1 DEF Restart, Quiet
  <2>3. \A p \in Posts : ~Pending(p)'
    BY <1>5 DEF Restart, Pending
  <2> QED
    BY <2>1, <2>2, <2>3, ResetOne
<1>6. ASSUME NEW p \in Posts, Answer(p) PROVE One'
  BY <1>6, AnswerOne
<1>7. ASSUME NEW p \in Posts, Discord(p) PROVE One'
  BY <1>7, DiscordOne
<1>8. ASSUME NEW p \in Posts, GiveUp(p) PROVE One'
  BY <1>8, GiveUpOne
<1>9. CASE UNCHANGED vars
  BY <1>9 DEF vars, restVars, dbVars, One, NoneYet, OneIs, Pending
<1> QED
  BY <1>1, <1>2, <1>3, <1>4, <1>5, <1>6, <1>7, <1>8, <1>9 DEF Next

-----------------------------------------------------------------------------
LEMMA InitIInv == Init => IInv
<1> SUFFICES ASSUME Init PROVE IInv
  OBVIOUS
<1>1. TypeOK
  BY InitType
<1>2. Sound
  BY DEF Init, Sound
<1>3. One
  BY DEF Init, One, NoneYet, Pending
<1>4. ConfigId = 0 => Agree
  BY DEF Init, Agree
<1> QED
  BY <1>1, <1>2, <1>3, <1>4 DEF IInv

LEMMA StepIInv == IInv /\ [Next]_vars => IInv'
<1> SUFFICES ASSUME IInv, [Next]_vars PROVE IInv'
  OBVIOUS
<1>1. TypeOK' /\ Sound' /\ late \subseteq late'
  BY NextType, SoundStep, LateGrows DEF IInv
<1>2. ASSUME late' = {} PROVE One'
  <2>1. late = {}
    BY <1>1, <1>2
  <2> QED
    BY <1>2, <2>1, OneStep DEF IInv
<1>3. ASSUME ConfigId = 0, "reload" \notin late' PROVE Agree'
  <2>1. "reload" \notin late
    BY <1>1, <1>3
  <2> QED
    BY <1>3, <2>1, AgreeStep DEF IInv
<1> QED
  BY <1>1, <1>2, <1>3 DEF IInv

\* Wherever the id of a message is - in a reply, in memory, on its way into the
\* database or out of it - nothing that could replace it is under way.
THEOREM Invariance == Spec => []IInv
<1> QED
  BY InitIInv, StepIInv, PTL DEF Spec

\* Every variable keeps its type.
THEOREM TypeCorrect == Spec => []TypeOK
<1>1. IInv => TypeOK
  BY DEF IInv
<1> QED
  BY <1>1, Invariance, PTL

\* As long as no answer comes late, at most one message is ever put into the channel,
\* whatever the intervals, reloads and restarts (SendOrUpdate, Initialize).
THEOREM OneIsEnough == Spec => []OneMessageWhenPrompt
<1>1. ASSUME IInv, late = {} PROVE OneMessage
  <2>1. created = {} \/ \E p \in Posts : created = {p}
    BY <1>1 DEF IInv, One, NoneYet, OneIs
  <2>2. Cardinality({}) = 0 /\ \A p \in Posts : Cardinality({p}) = 1
    BY FS_EmptySet, FS_Singleton
  <2> QED
    BY <2>1, <2>2 DEF OneMessage
<1>2. IInv => OneMessageWhenPrompt
  BY <1>1 DEF OneMessageWhenPrompt
<1> QED
  BY <1>2, Invariance, PTL

\* Whenever nothing is under way, memory and database agree, unless a reload has met
\* something (SendOrUpdate's callback, the load at boot).
THEOREM CopiesAgree == Spec => []MemoryMatchesWithoutReload
<1>1. ASSUME IInv, ConfigId = 0, "reload" \notin late, Quiet PROVE messageId = row
  <2>1. Agree
    BY <1>1 DEF IInv
  <2>2. dbQueue = <<>> /\ loaded = <<>>
    BY <1>1 DEF Quiet
  <2>3. <<Load>> # <<>> /\ <<row>> # <<>>
    OBVIOUS
  <2> QED
    BY <2>1, <2>2, <2>3 DEF Agree, WillBe
<1>2. IInv => MemoryMatchesWithoutReload
  BY <1>1 DEF MemoryMatchesWithoutReload, MemoryMatchesDatabase
<1> QED
  BY <1>2, Invariance, PTL
-----------------------------------------------------------------------------
(***************************************************************************)
(* Ids of messages that exist.                                             *)
(***************************************************************************)

\* Every id on its way to memory or to the row is that of a message Discord created.
Real ==
  /\ EditsWhatExists
  /\ \A p \in Posts : reply[p] = "id" => p \in created
  /\ \A i \in DOMAIN dbQueue : dbQueue[i] \in {Load} \cup created
  /\ \A i \in DOMAIN loaded : loaded[i] \in {0} \cup created

LEMMA InitReal == Init => Real
  BY DEF Init, Real, EditsWhatExists, Load

\* What is in a sequence from the second element on, and with one more at its end.
LEMMA Tails ==
  ASSUME NEW T, NEW s \in Seq(T), s # <<>>
  PROVE  /\ Head(s) = s[1] /\ 1 \in DOMAIN s
         /\ \A i \in DOMAIN Tail(s) : \E j \in DOMAIN s : Tail(s)[i] = s[j]
<1>1. Len(s) \in Nat \ {0} /\ DOMAIN s = 1 .. Len(s)
  OBVIOUS
<1>2. ASSUME NEW i \in DOMAIN Tail(s) PROVE i + 1 \in DOMAIN s /\ Tail(s)[i] = s[i + 1]
  BY <1>1
<1> QED
  BY <1>1, <1>2

LEMMA Appends ==
  ASSUME NEW T, NEW s \in Seq(T), NEW e \in T
  PROVE  \A i \in DOMAIN Append(s, e) :
           Append(s, e)[i] = e \/ (i \in DOMAIN s /\ Append(s, e)[i] = s[i])
<1>1. Len(s) \in Nat /\ DOMAIN s = 1 .. Len(s) /\ DOMAIN Append(s, e) = 1 .. Len(s) + 1
  OBVIOUS
<1> QED
  BY <1>1

LEMMA StepReal == ASSUME TypeOK, TypeOK', Real, [Next]_vars PROVE Real'
<1>0. dbQueue \in Seq({Load} \cup Posts) /\ loaded \in Seq(Ids)
  BY DEF TypeOK
<1>1. CASE Update \/ (\E p \in Posts : GiveUp(p)) \/ UNCHANGED vars
  <2>1. UNCHANGED <<messageId, reply, created, dbQueue, loaded, row>>
    BY <1>1 DEF Update, SendOrUpdate, GiveUp, vars, restVars, dbVars
  <2> QED
    BY <2>1 DEF Real, EditsWhatExists
<1>2. CASE Reload
  <2>1. /\ messageId' = ConfigId /\ dbQueue' = Append(dbQueue, Load)
        /\ UNCHANGED <<reply, created, loaded, row>>
    BY <1>2 DEF Reload, restVars
  <2>2. \A i \in DOMAIN dbQueue' : dbQueue'[i] \in {Load} \cup created
    BY <1>0, <2>1, Appends DEF Real
  <2> QED
    BY <2>1, <2>2 DEF Real, EditsWhatExists
<1>3. ASSUME NEW p \in Posts, Answer(p) PROVE Real'
  <2>1. /\ reply[p] = "id" /\ messageId' = p /\ dbQueue' = Append(dbQueue, p)
        /\ UNCHANGED <<reply, created, loaded, row>>
    BY <1>3 DEF Answer
  <2>2. p \in created
    BY <2>1 DEF Real
  <2>3. \A i \in DOMAIN dbQueue' : dbQueue'[i] \in {Load} \cup created
    BY <1>0, <2>1, <2>2, Appends DEF Real
  <2> QED
    BY <2>1, <2>2, <2>3 DEF Real, EditsWhatExists
<1>4. CASE LoadCallback
  <2>1. /\ loaded # <<>> /\ loaded' = Tail(loaded)
        /\ messageId' \in {messageId, Head(loaded)}
        /\ UNCHANGED <<reply, created, dbQueue, row>>
    BY <1>4 DEF LoadCallback, restVars
  <2>2. /\ Head(loaded) \in {0} \cup created
        /\ \A i \in DOMAIN loaded' : loaded'[i] \in {0} \cup created
    BY <1>0, <2>1, Tails DEF Real
  <2> QED
    BY <2>1, <2>2 DEF Real, EditsWhatExists
<1>5. ASSUME NEW p \in Posts, Discord(p) PROVE Real'
  <2>1. /\ UNCHANGED <<messageId, dbQueue, loaded, row>>
        /\ created \subseteq created'
    BY <1>5 DEF Discord, dbVars
  <2>2. \A q \in Posts : reply'[q] = "id" => q \in created'
    BY <1>5 DEF Discord, Real, TypeOK
  <2> QED
    BY <2>1, <2>2 DEF Real, EditsWhatExists
<1>6. CASE Database
  <2>1. /\ dbQueue # <<>> /\ dbQueue' = Tail(dbQueue)
        /\ UNCHANGED <<messageId, reply, created>>
    BY <1>6 DEF Database, restVars
  <2>2. /\ Head(dbQueue) \in {Load} \cup created
        /\ \A i \in DOMAIN dbQueue' : dbQueue'[i] \in {Load} \cup created
    BY <1>0, <2>1, Tails DEF Real
  <2>3. CASE Head(dbQueue) = Load
    <3>1. loaded' = Append(loaded, row) /\ row' = row /\ row \in Ids
      BY <1>6, <2>3 DEF Database, TypeOK
    <3>2. \A i \in DOMAIN loaded' : loaded'[i] \in {0} \cup created
      BY <1>0, <3>1, Appends DEF Real, EditsWhatExists
    <3> QED
      BY <2>1, <2>2, <3>1, <3>2 DEF Real, EditsWhatExists
  <2>4. CASE Head(dbQueue) # Load
    <3>1. row' = Head(dbQueue) /\ loaded' = loaded
      BY <1>6, <2>4 DEF Database
    <3> QED
      BY <2>1, <2>2, <2>4, <3>1 DEF Real, EditsWhatExists
  <2> QED
    BY <2>3, <2>4
<1>7. CASE Restart
  <2>1. /\ messageId' = ConfigId
        /\ row' \in {row} \cup {p \in Posts : \E i \in DOMAIN dbQueue : dbQueue[i] = p}
        /\ dbQueue' = <<Load>> /\ loaded' = <<>>
        /\ UNCHANGED <<reply, created>>
    BY <1>7 DEF Restart
  <2>2. row' \in {0} \cup created
    BY <2>1 DEF Real, EditsWhatExists, Posts, Load
  <2>3. \A i \in DOMAIN dbQueue' : dbQueue'[i] = Load
    BY <2>1
  <2> QED
    BY <2>1, <2>2, <2>3 DEF Real, EditsWhatExists
<1> QED
  BY <1>1, <1>2, <1>3, <1>4, <1>5, <1>6, <1>7 DEF Next

\* Whatever is refused, lost, late, reloaded or restarted, the server never edits a
\* message that Discord has not created and nobody has configured (SendOrUpdate's
\* callback, the SELECT's, SaveMessageId).
THEOREM NoPhantom == Spec => []EditsWhatExists
<1>1. TypeOK /\ TypeOK' /\ Real /\ [Next]_vars => Real'
  BY StepReal
<1>2. Real => EditsWhatExists
  BY DEF Real
<1> QED
  BY <1>1, <1>2, InitReal, TypeCorrect, PTL DEF Spec
=============================================================================
