------------------------------ MODULE RoleSetup ------------------------------
(***************************************************************************)
(* /setup roles and .discord setup roles: the chain of requests that       *)
(* creates the recommended roles one by one, each a second after the reply *)
(* to the one before, and reports at the end.                              *)
(*                                                                         *)
(* What a setup creates is decided once, from the role cache, before the   *)
(* first request.  The cache is only as new as the last list that was      *)
(* fetched, and a second setup may be started while the first is running.  *)
(***************************************************************************)
EXTENDS Naturals, Sequences, FiniteSets

CONSTANTS
  Names,               \* the names in kRoleTemplates; taken in any order here
  NoName,              \* before the first request
  Taken,               \* those the guild has a role for before the first setup
  Setups,              \* runs of /setup roles and .discord setup roles
  Delay,               \* the 1000 ms between a reply and the next request
  Wrap,                \* getMSTime() is a uint32: time is counted modulo Wrap
  MaxRefreshes         \* bound: how often the roles are fetched

ASSUME SetupAssumption ==
  /\ IsFiniteSet(Names) /\ NoName \notin Names /\ Taken \subseteq Names
  /\ Delay \in Nat \ {0}
  /\ Wrap \in Nat /\ Wrap > Delay
  /\ MaxRefreshes \in Nat

VARIABLES
  hasGuild,            \* Discord.Bot.GuildId is set
  now,                 \* getMSTime()
  guild,               \* guild[n]: how many roles called n the guild has
  cache,               \* the names in roleCache_
  lists,               \* lists of roles on their way to the game thread
  refreshes,           \* how many of them there have been
  phase,               \* where the chain of each setup goes on
  pending,             \* RoleSetupState::pendingRoles
  current,             \* the role whose creation was requested last
  reply,               \* the reply to that request
  limited,             \* Discord has answered it 429 once
  fire,                \* DelayedTask::fireMs of the next CreateNextRole
  created, existing, failed,  \* RoleSetupState
  blind,               \* history: names queued although they are there or coming
  errored,             \* history: names whose request Discord has not carried out
  age,                 \* history: time since the setup's last creation, up to Delay
  early                \* history: the setup's timer wrapped around

timeVars  == <<now, fire, age, early>>
guildVars == <<guild, blind, errored>>
cacheVars == <<cache, lists, refreshes>>
chainVars == <<phase, pending, current, reply, limited>>
results   == <<created, existing, failed>>
vars == <<hasGuild, timeVars, guildVars, cacheVars, chainVars, results>>

Present == {n \in Names : guild[n] > 0}

\* Setup s may still create the role n.
Coming(s, n) == n \in pending[s] \/ (phase[s] = "request" /\ current[s] = n)

Phases  == {"idle", "request", "reply", "wait", "done", "dropped"}
Replies == {"none", "id", "50013", "other"}

-----------------------------------------------------------------------------
\* The state in Start: the cache is empty, the roles have not been asked for yet.
Init ==
  /\ hasGuild \in BOOLEAN
  /\ now \in 0 .. Wrap - 1
  /\ guild = [n \in Names |-> IF n \in Taken THEN 1 ELSE 0]
  /\ cache = {} /\ lists = <<>> /\ refreshes = 0
  /\ phase = [s \in Setups |-> "idle"]
  /\ pending = [s \in Setups |-> {}]
  /\ current = [s \in Setups |-> NoName]
  /\ reply = [s \in Setups |-> "none"]
  /\ limited = [s \in Setups |-> FALSE]
  /\ fire = [s \in Setups |-> 0]
  /\ created = [s \in Setups |-> {}]
  /\ existing = [s \in Setups |-> {}]
  /\ failed = [s \in Setups |-> {}]
  /\ blind = {} /\ errored = {}
  /\ age = [s \in Setups |-> Delay]
  /\ early = [s \in Setups |-> FALSE]

(***************************************************************************)
(* Faulty variants of PostDelayed, not part of the specification.          *)
(***************************************************************************)

\* PostDelayed: the time of the task does not include the delay.
PostAtOnce(s) ==
  /\ phase' = [phase EXCEPT ![s] = "wait"]
  /\ current' = [current EXCEPT ![s] = NoName]
  /\ reply' = [reply EXCEPT ![s] = "none"]
  /\ fire'  = [fire EXCEPT ![s] = now]
  /\ early' = [early EXCEPT ![s] = now + Delay >= Wrap]

(***************************************************************************)
(* The game thread.                                                        *)
(***************************************************************************)

\* CreateNextRole, when queue is what is left of pendingRoles.  When nothing is left,
\* onDone sends the report, which has no effect on any of this.  Without a guild
\* CreateGuildRole calls back at once, with nothing.
CreateNextRole(s, queue) ==
  \/ /\ queue = {}
     /\ phase' = [phase EXCEPT ![s] = "done"]
     /\ pending' = [pending EXCEPT ![s] = {}]
     /\ UNCHANGED <<current, reply, errored>>
  \/ \E n \in queue :
       /\ pending' = [pending EXCEPT ![s] = queue \ {n}]
       /\ current' = [current EXCEPT ![s] = n]
       /\ IF hasGuild
          THEN /\ phase' = [phase EXCEPT ![s] = "request"]
               /\ reply' = [reply EXCEPT ![s] = "none"]
               /\ UNCHANGED errored
          ELSE /\ phase' = [phase EXCEPT ![s] = "reply"]
               /\ reply' = [reply EXCEPT ![s] = "other"]
               /\ errored' = errored \cup {n}

\* PostToGameThreadDelayed, in uint32 arithmetic.
PostDelayed(s) ==
  /\ phase' = [phase EXCEPT ![s] = "wait"]
  /\ current' = [current EXCEPT ![s] = NoName]
  /\ reply' = [reply EXCEPT ![s] = "none"]
  /\ fire'  = [fire EXCEPT ![s] = (now + Delay) % Wrap]
  /\ early' = [early EXCEPT ![s] = now + Delay >= Wrap]

(***************************************************************************)
(* Faulty variants of Reply, not part of the specification.                *)
(***************************************************************************)

\* Reply: a reply without an id puts the role back into the queue.
ReplyTriesAgain(s) ==
  /\ phase[s] = "reply"
  /\ LET n == current[s] IN
       IF reply[s] = "id"
       THEN created' = [created EXCEPT ![s] = @ \cup {n}] /\ UNCHANGED pending
       ELSE pending' = [pending EXCEPT ![s] = @ \cup {n}] /\ UNCHANGED created
  /\ PostDelayed(s)
  /\ UNCHANGED <<hasGuild, now, age, guildVars, cacheVars, limited, existing, failed>>

\* Reply: an error is taken for a role that was created.
ReplyUntested(s) ==
  /\ phase[s] = "reply"
  /\ created' = [created EXCEPT ![s] = @ \cup {current[s]}]
  /\ PostDelayed(s)
  /\ UNCHANGED <<hasGuild, now, age, guildVars, cacheVars, pending, limited, existing,
                 failed>>

\* Reply: the chain goes on only when the role has been created.
ReplyNextIfCreated(s) ==
  /\ phase[s] = "reply" /\ reply[s] = "id"
  /\ created' = [created EXCEPT ![s] = @ \cup {current[s]}]
  /\ PostDelayed(s)
  /\ UNCHANGED <<hasGuild, now, age, guildVars, cacheVars, pending, limited, existing,
                 failed>>

(***************************************************************************)
(* The game thread, continued.                                             *)
(***************************************************************************)

\* CreateRoles, CreateRolesInGame: FireRoleCreations keeps what the cache has
\* and starts the chain for the rest.
Start(s) ==
  /\ phase[s] = "idle"
  /\ existing' = [existing EXCEPT ![s] = Names \cap cache]
  /\ blind' = blind \cup {n \in Names \ cache :
                            n \in Present \/ \E t \in Setups : Coming(t, n)}
  /\ CreateNextRole(s, Names \ cache)
  /\ UNCHANGED <<hasGuild, timeVars, guild, cacheVars, limited, created, failed>>

\* The continuation of CreateGuildRole's callback.  Admin and Moderator are moved
\* to the top by a PATCH without a callback, which changes nothing of this.
Reply(s) ==
  /\ phase[s] = "reply"
  /\ LET n == current[s] IN
       \/ /\ reply[s] = "id"
          /\ created' = [created EXCEPT ![s] = @ \cup {n}]
          /\ UNCHANGED <<existing, failed>>
       \/ /\ reply[s] = "50013"
          /\ failed' = [failed EXCEPT ![s] = @ \cup {n}]
          /\ UNCHANGED <<created, existing>>
       \/ /\ reply[s] = "other"
          /\ existing' = [existing EXCEPT ![s] = @ \cup {n}]
          /\ UNCHANGED <<created, failed>>
  /\ PostDelayed(s)
  /\ UNCHANGED <<hasGuild, now, age, guildVars, cacheVars, pending, limited>>

\* ProcessDelayedTasks runs the task that is due.
Fire(s) ==
  /\ phase[s] = "wait" /\ fire[s] <= now
  /\ fire' = [fire EXCEPT ![s] = 0]
  /\ CreateNextRole(s, pending[s])
  /\ UNCHANGED <<hasGuild, now, age, early, limited, guild, blind, cacheVars, results>>

\* Start, READY and GUILD_ROLES_UPDATE ask for the roles.  The answer is the list
\* as it is when Discord gets to it, or an error; none at all changes nothing.
RefreshRoles ==
  /\ hasGuild /\ refreshes < MaxRefreshes
  /\ refreshes' = refreshes + 1
  /\ \E answer \in {Present, {}} : lists' = Append(lists, answer)
  /\ UNCHANGED <<hasGuild, timeVars, guildVars, cache, chainVars, results>>

\* The list replaces the cache; one that cannot be parsed empties it.
ProcessGuildRoles ==
  /\ lists # <<>>
  /\ cache' = Head(lists) /\ lists' = Tail(lists)
  /\ UNCHANGED <<hasGuild, timeVars, guildVars, refreshes, chainVars,
                 results>>

(***************************************************************************)
(* Discord, the REST worker and the clock.                                 *)
(***************************************************************************)

\* Discord carries the request out, or does not; its reply may be lost.  Names
\* need not be unique in a guild.
CreateRole(s) ==
  /\ phase[s] = "request"
  /\ \E r \in Replies \ {"none"}, done \in BOOLEAN :
       /\ r = "id" => done
       /\ r = "50013" => ~done
       /\ phase' = [phase EXCEPT ![s] = "reply"]
       /\ reply' = [reply EXCEPT ![s] = r]
       /\ limited' = [limited EXCEPT ![s] = FALSE]
       /\ early' = [early EXCEPT ![s] = FALSE]
       /\ IF done
          THEN /\ guild' = [guild EXCEPT ![current[s]] = @ + 1]
               /\ age' = [age EXCEPT ![s] = 0]
               /\ UNCHANGED errored
          ELSE errored' = errored \cup {current[s]} /\ UNCHANGED <<guild, age>>
  /\ UNCHANGED <<hasGuild, now, fire, blind, cacheVars, pending, current, results>>

\* 429: the worker tries once more, then drops the request and its callback.
RateLimit(s) ==
  /\ phase[s] = "request"
  /\ IF limited[s]
     THEN /\ phase' = [phase EXCEPT ![s] = "dropped"]
          /\ limited' = [limited EXCEPT ![s] = FALSE]
     ELSE limited' = [limited EXCEPT ![s] = TRUE] /\ UNCHANGED phase
  /\ UNCHANGED <<hasGuild, timeVars, guildVars, cacheVars, pending, current,
                 reply, results>>

\* The game loop is faster than the unit of time: no task that is due is left
\* behind.  Nothing reads the clock while no task waits.
Tick ==
  /\ \E s \in Setups : phase[s] = "wait"
  /\ \A s \in Setups : phase[s] = "wait" => fire[s] > now
  /\ now' = (now + 1) % Wrap
  /\ age' = [s \in Setups |-> IF age[s] < Delay THEN age[s] + 1 ELSE Delay]
  /\ UNCHANGED <<hasGuild, fire, early, guildVars, cacheVars, chainVars, results>>

-----------------------------------------------------------------------------
Chain(s) == Start(s) \/ Reply(s) \/ Fire(s) \/ CreateRole(s) \/ RateLimit(s)

Next ==
  \/ RefreshRoles \/ ProcessGuildRoles \/ Tick
  \/ \E s \in Setups : Chain(s)

Spec == Init /\ [][Next]_vars

\* The worldserver calls Update for ever, the REST worker works its queue off, and
\* time passes.  Nobody has to start a setup.
Fairness ==
  /\ WF_vars(Tick)
  /\ \A s \in Setups : WF_vars(Reply(s)) /\ WF_vars(Fire(s)) /\ WF_vars(CreateRole(s))

FairSpec == Spec /\ Fairness

-----------------------------------------------------------------------------
TypeOK ==
  /\ hasGuild \in BOOLEAN
  /\ now \in 0 .. Wrap - 1
  /\ guild \in [Names -> Nat]
  /\ cache \subseteq Names /\ refreshes \in Nat
  /\ lists \in Seq(SUBSET Names)
  /\ phase \in [Setups -> Phases]
  /\ pending \in [Setups -> SUBSET Names]
  /\ current \in [Setups -> Names \cup {NoName}]
  /\ reply \in [Setups -> Replies]
  /\ limited \in [Setups -> BOOLEAN]
  /\ fire \in [Setups -> 0 .. Wrap - 1]
  /\ created \in [Setups -> SUBSET Names]
  /\ existing \in [Setups -> SUBSET Names]
  /\ failed \in [Setups -> SUBSET Names]
  /\ blind \subseteq Names /\ errored \subseteq Names
  /\ age \in [Setups -> 0 .. Delay]
  /\ early \in [Setups -> BOOLEAN]

\* BuildRoleSummary lists every role once, and under the right heading: what is
\* said to be created or to exist is in the guild, unless Discord has answered its
\* request with an error the code takes for "exists".
SummaryTruthful ==
  \A s \in Setups : phase[s] = "done" =>
    /\ created[s] \cup existing[s] \cup failed[s] = Names
    /\ created[s] \cap existing[s] = {}
    /\ failed[s] \cap (created[s] \cup existing[s]) = {}
    /\ created[s] \subseteq Present
    /\ existing[s] \subseteq Present \cup errored

\* Lost replies, errors, retries and two chains side by side never put a second
\* role of a name into the guild.  A second one is only ever created by a setup
\* that queued the name, at its start, though it was there or on its way already.
NoDuplicateRoles == \A n \in Names \ blind : guild[n] <= 1

\* "every template role not already present in the guild": a setup that is started
\* while no other one runs does not queue what the guild has.
CreatesMissingOnly ==
  [][\A s \in Setups :
       /\ phase[s] = "idle" /\ phase'[s] # "idle"
       /\ \A t \in Setups : phase[t] \in {"idle", "done"}
       => blind' = blind]_vars

\* Discord's limit is why they are created one at a time: two creations of one
\* setup are Delay apart, unless the 32-bit clock wrapped around in between.
Paced ==
  [][\A s \in Setups : (phase[s] = "request" /\ guild' # guild /\ phase'[s] = "reply")
        => (age[s] = Delay \/ early[s])]_vars

\* A setup comes to its end, whatever Discord answers, unless it answers 429 twice
\* to one request.
Finishes ==
  \A s \in Setups :
    (phase[s] = "request") ~> phase[s] \in {"done", "dropped"}

-----------------------------------------------------------------------------
\* Where setup s has role n.
Place(s, n) ==
  IF phase[s] = "idle" THEN "new"
  ELSE IF n \in pending[s] THEN "queued"
  ELSE IF current[s] = n THEN "asked"
  ELSE IF n \in created[s] THEN "created"
  ELSE IF n \in existing[s] THEN "existing"
  ELSE "failed"

Placed == [s \in Setups |-> [n \in Names |-> Place(s, n)]]
Reported == [s \in Setups |-> phase[s] = "done"]

Ledger == INSTANCE RoleLedger WITH place <- Placed, reported <- Reported

\* A chain keeps the promise of RoleLedger: from reply to reply, through lost and
\* limited requests and a timer that wraps, it asks for each role once, one at a time,
\* and a role that is under a heading is neither asked for again nor moved.
ImplementsRoleLedger == Ledger!Spec
=============================================================================
