----------------------------- MODULE ServerStatus -----------------------------
(***************************************************************************)
(* DiscordServerStatus: the one status message that is posted once, edited *)
(* at every interval and remembered in the characters database.            *)
(*                                                                         *)
(* Three things answer late: the REST channel (RestChannel is its          *)
(* contract), the asynchronous SELECT, and the asynchronous REPLACE.       *)
(* Until one of the first two has answered the id is unknown, and every    *)
(* interval that elapses posts another message.                            *)
(*                                                                         *)
(* A message created by the n-th POST is called n; 0 is "no message".      *)
(***************************************************************************)
EXTENDS Naturals, Sequences, FiniteSets

CONSTANTS
  Interval,            \* Discord.ServerStatus.UpdateInterval
  ConfigId,            \* Discord.ServerStatus.MessageId, 0 when not set
  MaxPosts,            \* bound: how many POSTs are ever made
  MaxReloads,          \* bound: how many times the configuration is reloaded
  MaxRestarts          \* bound: how many times the server restarts

ASSUME StatusAssumption ==
  /\ Interval \in Nat \ {0}
  /\ ConfigId \in Nat
  /\ MaxPosts \in Nat /\ MaxReloads \in Nat /\ MaxRestarts \in Nat

Posts == 1 .. MaxPosts
Ids   == {0, ConfigId} \cup Posts

VARIABLES
  messageId,           \* messageId_
  timer,               \* timer_, in the unit of Interval
  post,                \* state of each POST in the REST channel
  reply,               \* what Discord replied to it: nothing yet, the id, else
  created,             \* the messages these POSTs have put into the channel
  dbQueue,             \* statements the database has not executed yet
  loaded,              \* results of SELECTs whose callback has not run yet
  row,                 \* message_id in mod_discord_status, 0 when there is none
  late,                \* history: what has come before all answers were there
  reloads,             \* how many reloads there have been
  restarts             \* how many restarts there have been

dbVars   == <<dbQueue, loaded, row>>
restVars == <<post, reply, created>>
resets   == <<late, reloads, restarts>>
vars == <<messageId, timer, restVars, dbVars, resets>>

Rest == INSTANCE RestChannel WITH Calls <- Posts, chan <- post, open <- TRUE

Load == 0                                \* the SELECT; a REPLACE is its id

Quiet ==
  /\ dbQueue = <<>> /\ loaded = <<>>
  /\ \A p \in Posts : post[p] # "pending"

Interruptions == {"update", "reload", "restart", "no reply"}

\* Something comes that should not come while an answer is outstanding.
Interrupt(e) == late' = IF Quiet THEN late ELSE late \cup {e}

-----------------------------------------------------------------------------
\* The state after Initialize on a first boot.
Init ==
  /\ messageId = ConfigId
  /\ timer = 0
  /\ post  = [p \in Posts |-> "idle"]
  /\ reply = [p \in Posts |-> "none"]
  /\ created = {}
  /\ dbQueue = <<Load>> /\ loaded = <<>> /\ row = 0
  /\ late = {} /\ reloads = 0 /\ restarts = 0

(***************************************************************************)
(* Faulty variants, not part of the specification.                         *)
(***************************************************************************)

\* Answer: the id is not saved.
AnswerUnsaved(p) ==
  /\ reply[p] = "id"
  /\ Rest!Answer(p)
  /\ messageId' = p
  /\ UNCHANGED <<timer, reply, created, dbVars, resets>>

\* Answer: any reply is taken for a message, an error for one that does not exist.
AnswerUntested(p) ==
  /\ reply[p] # "none"
  /\ Rest!Answer(p)
  /\ messageId' = p
  /\ dbQueue' = Append(dbQueue, p)
  /\ UNCHANGED <<timer, reply, created, loaded, row, resets>>

\* LoadCallback: the loaded id overrides one that is known already.
LoadCallbackAlways ==
  /\ loaded # <<>>
  /\ loaded' = Tail(loaded)
  /\ messageId' = IF Head(loaded) = 0 THEN messageId ELSE Head(loaded)
  /\ UNCHANGED <<timer, restVars, dbQueue, row, resets>>

(***************************************************************************)
(* The game thread.                                                        *)
(***************************************************************************)

\* SendOrUpdate: post the message if its id is not known.  An edit (PATCH) has
\* no callback and changes none of this state.
SendOrUpdate ==
  \/ /\ messageId = 0
     /\ \E p \in Posts :
          /\ \A q \in Posts : post[q] = "idle" <=> q >= p     \* the next POST
          /\ Rest!Submit(p)
     /\ UNCHANGED <<reply, created>>
  \/ /\ messageId # 0
     /\ UNCHANGED restVars

\* Update adds the time since the last one.
Update ==
  /\ IF timer + 1 >= Interval
     THEN timer' = 0 /\ Interrupt("update") /\ SendOrUpdate
     ELSE timer' = timer + 1 /\ UNCHANGED <<restVars, late>>
  /\ UNCHANGED <<messageId, dbVars, reloads, restarts>>

\* ReloadConfig runs Initialize again.
Reload ==
  /\ reloads < MaxReloads /\ Interrupt("reload")
  /\ reloads' = reloads + 1
  /\ timer' = 0
  /\ messageId' = ConfigId
  /\ dbQueue' = Append(dbQueue, Load)
  /\ UNCHANGED <<restVars, loaded, row, restarts>>

\* The continuation of the POST's callback.
Answer(p) ==
  /\ reply[p] = "id"
  /\ Rest!Answer(p)
  /\ messageId' = p
  /\ dbQueue' = Append(dbQueue, p)                            \* REPLACE
  /\ UNCHANGED <<timer, reply, created, loaded, row, resets>>

\* The SELECT's callback fills in an id that is still unknown.
LoadCallback ==
  /\ loaded # <<>>
  /\ loaded' = Tail(loaded)
  /\ messageId' = IF messageId = 0 THEN Head(loaded) ELSE messageId
  /\ UNCHANGED <<timer, restVars, dbQueue, row, resets>>

(***************************************************************************)
(* Discord, the REST worker and the database.                              *)
(***************************************************************************)

\* Discord carries out a POST, or does not; its reply may be lost either way.
Discord(p) ==
  /\ post[p] = "pending" /\ reply[p] = "none"
  /\ \/ reply' = [reply EXCEPT ![p] = "id"] /\ created' = created \cup {p} /\ UNCHANGED late
     \/ reply' = [reply EXCEPT ![p] = "other"] /\ UNCHANGED <<created, late>>
     \/ /\ reply' = [reply EXCEPT ![p] = "other"] /\ created' = created \cup {p}
        /\ Interrupt("no reply")
  /\ UNCHANGED <<messageId, timer, post, dbVars, reloads, restarts>>

\* A reply without an id, or none at all, ends the POST.
GiveUp(p) ==
  /\ reply[p] = "other"
  /\ Rest!Settle(p)
  /\ UNCHANGED <<messageId, timer, reply, created, dbVars, resets>>

\* The database executes its statements in order.
Database ==
  /\ dbQueue # <<>>
  /\ dbQueue' = Tail(dbQueue)
  /\ IF Head(dbQueue) = Load
     THEN loaded' = Append(loaded, row) /\ UNCHANGED row
     ELSE row' = Head(dbQueue) /\ UNCHANGED loaded
  /\ UNCHANGED <<messageId, timer, restVars, resets>>

\* The server stops or crashes, and boots again.  What was in flight is gone; the
\* row is what it was or what an outstanding REPLACE has made of it.
Restart ==
  /\ restarts < MaxRestarts /\ Interrupt("restart")
  /\ restarts' = restarts + 1
  /\ timer' = 0
  /\ messageId' = ConfigId
  /\ post' = [p \in Posts |-> IF post[p] = "pending" THEN "settled" ELSE post[p]]
  /\ row' \in {row} \cup {p \in Posts : \E i \in DOMAIN dbQueue : dbQueue[i] = p}
  /\ dbQueue' = <<Load>> /\ loaded' = <<>>
  /\ UNCHANGED <<reply, created, reloads>>

-----------------------------------------------------------------------------
Next ==
  \/ Update \/ Reload \/ LoadCallback \/ Database \/ Restart
  \/ \E p \in Posts : Answer(p) \/ Discord(p) \/ GiveUp(p)

Spec == Init /\ [][Next]_vars

-----------------------------------------------------------------------------
TypeOK ==
  /\ messageId \in Ids /\ row \in Ids
  /\ timer \in 0 .. Interval - 1
  /\ post \in [Posts -> Rest!States]
  /\ reply \in [Posts -> {"none", "id", "other"}]
  /\ created \subseteq Posts
  /\ dbQueue \in Seq({Load} \cup Posts)
  /\ loaded \in Seq(Ids)
  /\ late \subseteq Interruptions
  /\ reloads \in 0 .. MaxReloads /\ restarts \in 0 .. MaxRestarts

\* "One persistent message, edited in place": at most one message is ever put
\* into the channel.  Across intervals, reloads and restarts at any time it is not so.
OneMessage == Cardinality(created) <= 1

\* The same, as long as every answer has come before the next Update that is due,
\* the next reload and the next restart, and Discord has not kept one back.
OneMessageWhenPrompt == late = {} => OneMessage

\* "so the same message is edited again after a restart": whenever nothing is
\* outstanding, the id in memory is the id in the database.  Not so after a reload
\* that met a POST on its way.
MemoryMatchesDatabase == ConfigId = 0 /\ Quiet => messageId = row

\* The same, as long as no reload has come in between: answers, saves, the load at
\* boot and restarts that cross each other do not set the two apart.
MemoryMatchesWithoutReload == "reload" \notin late => MemoryMatchesDatabase

\* What is edited, now or after a restart, is a message Discord has created, or the
\* configured one: no refused or lost POST, late answer, save or load that crosses a
\* reload or a restart ever leaves the server editing one that was never there.
EditsWhatExists ==
  /\ messageId \in {0, ConfigId} \cup created
  /\ row \in {0} \cup created
==============================================================================
