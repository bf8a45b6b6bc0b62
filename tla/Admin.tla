-------------------------------- MODULE Admin --------------------------------
(***************************************************************************)
(* DiscordAdmin: slash commands of Discord users, the Confirm and Cancel   *)
(* buttons of the destructive ones, their execution, and the audit log.    *)
(*                                                                         *)
(* Every action below is one interaction handled on the game thread.       *)
(* Between two of them anything may happen: time passes, the configuration *)
(* is reloaded, the player concerned logs in or out, other users press     *)
(* buttons of the same or of other messages, the server restarts.  Buttons *)
(* stay in the Discord channel and can be pressed at any later time.       *)
(*                                                                         *)
(* The n-th accepted command is request n, and n stands for the token of   *)
(* its buttons: MakeToken (a millisecond clock and four random letters) is *)
(* assumed never to repeat a token.  An interaction that is refused only   *)
(* sends a reply; it is a stuttering step.                                 *)
(***************************************************************************)
EXTENDS Integers, Sequences

CONSTANTS
  Users, Roles, Channels,   \* Discord snowflakes; 0 is not a channel
  Configs,                  \* the configurations a (re)load may find
  Commands,                 \* the commands users give
  Values,                   \* the numbers they give with them
  MaxLevel,                 \* CONFIG_MAX_PLAYER_LEVEL
  MaxRequests,              \* bound: how many commands are accepted
  MaxTime,                  \* bound: how long the server is up
  MaxRestarts               \* bound: how many times the server restarts

\* The commands of each category.  player.kick stands for every command that is
\* executed and audited at once; setup.roles and config.reload are such too.
Group == [server  |-> {"server.restart", "server.shutdown"},
          player  |-> {"player.level", "player.money", "player.item", "player.kick"},
          account |-> {"account.ban", "account.unban"},
          config  |-> {"config.reload"},
          setup   |-> {"setup.roles"},
          console |-> {"console"}]

Immediate == {"player.kick", "config.reload", "setup.roles"}

ConfigRecords ==
  [enable : BOOLEAN, channel : {0} \cup Channels, timeout : Nat, selfOnly : BOOLEAN,
   users : SUBSET Users, roles : SUBSET Roles, groups : SUBSET DOMAIN Group,
   rawConsole : BOOLEAN]

ASSUME AdminAssumption ==
  /\ Configs # {} /\ Configs \subseteq ConfigRecords
  /\ Commands \subseteq UNION {Group[g] : g \in DOMAIN Group}
  /\ Values \subseteq Nat /\ MaxLevel \in 1 .. 255
  /\ MaxRequests \in Nat /\ MaxTime \in Nat /\ MaxRestarts \in Nat

Tokens == 1 .. MaxRequests

VARIABLES
  config,              \* DiscordConfig
  now,                 \* NowSeconds(), the uptime
  pending,             \* pendingActions_, as a function on the pending tokens
  online, level, money,\* the player the player.* commands are about
  asked,               \* history: the requests, in the order they were accepted
  ended,               \* history: ended[n] lists the ends request n has come to
  audit,               \* audit[n]: the rows about request n in the audit log
  restarts             \* how many times the server has restarted

player == <<online, level, money>>
vars == <<config, now, pending, player, asked, ended, audit, restarts>>

-----------------------------------------------------------------------------
\* An interaction comes with its user and the roles Discord says the user has.
IsAdminAuthorized(u, roles) == u \in config.users \/ roles \cap config.roles # {}

IsAdmin(u, roles) == config.enable /\ IsAdminAuthorized(u, roles)

CategoryEnabled(g) ==
  CASE g = "setup"   -> "config" \in config.groups
    [] g = "console" -> g \in config.groups /\ config.rawConsole
    [] OTHER         -> g \in config.groups

\* The part of HandleInteraction that lets a command through.
Accepted(u, roles, ch, cmd) ==
  /\ config.enable
  /\ config.channel # 0 => ch = config.channel
  /\ IsAdmin(u, roles)
  /\ \E g \in DOMAIN Group : cmd \in Group[g] /\ CategoryEnabled(g)

\* The arguments of a pending action, split at '|': text, or a number.
Text == [number |-> FALSE, value |-> 0]
Number(v) == [number |-> TRUE, value |-> v]

Args(cmd, v) ==
  CASE cmd \in {"player.level", "player.money", "player.item", "account.ban"}
         -> <<Text, Number(v)>>                 \* "<name>|<value>"
    [] OTHER -> <<Text>>                        \* "restart in <delay>s - <reason>"

-----------------------------------------------------------------------------
Init ==
  /\ config \in Configs
  /\ now = 0
  /\ pending = [n \in {} |-> 0]
  /\ online = FALSE /\ level = 1 /\ money = 1
  /\ asked = <<>>
  /\ ended = [n \in Tokens |-> <<>>]
  /\ audit = [n \in Tokens |-> <<>>]
  /\ restarts = 0

\* Request n comes to an end, brought about by user u: what was carried out and
\* the circumstances are remembered for the properties.
End(n, how, a, u, roles) ==
  ended' = [ended EXCEPT ![n] = Append(@,
    [how |-> how, cmd |-> a.cmd, args |-> a.args, user |-> u, at |-> now,
     admin |-> IsAdmin(u, roles), selfOnly |-> config.selfOnly,
     timeout |-> config.timeout])]

\* std::clamp(uint8(v), 1, MaxLevel)
ClampLevel(v) ==
  LET l == v % 256 IN IF l < 1 THEN 1 ELSE IF l > MaxLevel THEN MaxLevel ELSE l

(***************************************************************************)
(* Faulty variants, not part of the specification.                         *)
(***************************************************************************)

\* Erase: the action stays in the map.
EraseNothing(n) == pending

\* MayConfirm: any admin may confirm, whatever SelfConfirmOnly says.
MayConfirmAnyAdmin(a, u, roles) == u = a.user \/ IsAdmin(u, roles)

\* LogAudit: only what has been carried out is written.
LogAuditSuccess(n, how, u) ==
  audit' = IF how = "ran"
           THEN [audit EXCEPT ![n] = Append(@, [how |-> how, user |-> u])] ELSE audit

\* Restart: the actions outlive the clock their age is measured with.
RestartKeepsPending ==
  /\ restarts < MaxRestarts
  /\ restarts' = restarts + 1
  /\ now' = 0 /\ online' = FALSE /\ config' \in Configs
  /\ UNCHANGED <<pending, level, money, asked, ended, audit>>

(***************************************************************************)
(* Executing an action.                                                    *)
(***************************************************************************)

\* What executing a can come to.  ExecuteServerAction reads the delay with
\* std::stoul, which throws unless its argument starts with a number; the
\* exception ends the handling of the interaction in ProcessGameQueue.
Outcomes(a) ==
  CASE a.cmd \in Group.server /\ ~ a.args[1].number -> {"threw"}
    [] a.cmd \in Group.player \ Immediate /\ ~ online -> {"failed"}
    [] a.cmd = "player.item" /\ online -> {"ran", "failed"}       \* AddItem
    [] OTHER -> {"ran"}

LogAudit(n, how, u) ==
  audit' = [audit EXCEPT ![n] = Append(@, [how |-> how, user |-> u])]

\* GiveLevel sets, and ModifyMoney adds to, what the player has.
Affect(a, how) ==
  /\ UNCHANGED online
  /\ level' = IF how = "ran" /\ a.cmd = "player.level"
              THEN ClampLevel(a.args[2].value) ELSE level
  /\ money' = IF how = "ran" /\ a.cmd = "player.money"
              THEN money + a.args[2].value ELSE money

ExecuteAction(n, a, u, roles) ==
  \E how \in Outcomes(a) :
    /\ End(n, how, a, u, roles)
    /\ Affect(a, how)
    /\ IF how = "threw" THEN UNCHANGED audit ELSE LogAudit(n, how, u)

(***************************************************************************)
(* Slash commands.                                                         *)
(***************************************************************************)

Ask(u, roles, cmd, v) ==
  /\ Len(asked) < MaxRequests
  /\ asked' = Append(asked, [user |-> u, admin |-> IsAdmin(u, roles), cmd |-> cmd,
                            value |-> v, at |-> now])

Token == Len(asked) + 1

\* A destructive command is remembered until a button is pressed.
RequestConfirmation(u, roles, ch, cmd, v) ==
  /\ cmd \notin Immediate
  /\ Accepted(u, roles, ch, cmd)
  /\ Ask(u, roles, cmd, v)
  /\ pending' = [n \in DOMAIN pending \cup {Token} |->
                   IF n = Token
                   THEN [user |-> u, cmd |-> cmd, args |-> Args(cmd, v), at |-> now]
                   ELSE pending[n]]
  /\ UNCHANGED <<config, now, player, ended, audit, restarts>>

\* Any other command is executed at once.  /setup roles is not audited.
HandleCommand(u, roles, ch, cmd, v) ==
  /\ cmd \in Immediate
  /\ Accepted(u, roles, ch, cmd)
  /\ Ask(u, roles, cmd, v)
  /\ End(Token, "ran", [cmd |-> cmd, args |-> Args(cmd, v)], u, roles)
  /\ IF cmd = "config.reload" THEN config' \in Configs ELSE UNCHANGED config
  /\ IF cmd = "setup.roles" THEN UNCHANGED audit ELSE LogAudit(Token, "ran", u)
  /\ UNCHANGED <<now, pending, player, restarts>>

(***************************************************************************)
(* Buttons.  HandleComponentInteraction refuses one whose action is no     *)
(* longer in the map, and one pressed by somebody who may not confirm.     *)
(***************************************************************************)

Erase(n) == [m \in DOMAIN pending \ {n} |-> pending[m]]

Expired(a) == now - a.at > config.timeout

MayConfirm(a, u, roles) ==
  /\ config.selfOnly => u = a.user
  /\ ~ config.selfOnly => IsAdmin(u, roles)

\* Whoever presses a button of an action that has expired removes it.
PressExpired(n, u, roles) ==
  /\ n \in DOMAIN pending
  /\ Expired(pending[n])
  /\ pending' = Erase(n)
  /\ End(n, "expired", pending[n], u, roles)
  /\ UNCHANGED <<config, now, player, asked, audit, restarts>>

PressConfirm(n, u, roles) ==
  /\ n \in DOMAIN pending
  /\ ~ Expired(pending[n])
  /\ MayConfirm(pending[n], u, roles)
  /\ pending' = Erase(n)
  /\ ExecuteAction(n, pending[n], u, roles)
  /\ UNCHANGED <<config, now, asked, restarts>>

PressCancel(n, u, roles) ==
  /\ n \in DOMAIN pending
  /\ ~ Expired(pending[n])
  /\ MayConfirm(pending[n], u, roles)
  /\ pending' = Erase(n)
  /\ End(n, "cancelled", pending[n], u, roles)
  /\ UNCHANGED <<config, now, player, asked, audit, restarts>>

(***************************************************************************)
(* The rest of the server.                                                 *)
(***************************************************************************)

Clock ==
  /\ now < MaxTime
  /\ now' = now + 1
  /\ UNCHANGED <<config, pending, player, asked, ended, audit, restarts>>

LogInOrOut ==
  /\ online' = ~ online
  /\ UNCHANGED <<config, now, pending, level, money, asked, ended, audit, restarts>>

\* From the worldserver's own console.  The pending actions stay.
ReloadConfig ==
  /\ config' \in Configs
  /\ UNCHANGED <<now, pending, player, asked, ended, audit, restarts>>

\* The map is in memory only; the buttons in the channel stay.
Restart ==
  /\ restarts < MaxRestarts
  /\ restarts' = restarts + 1
  /\ now' = 0
  /\ pending' = [n \in {} |-> 0]
  /\ online' = FALSE
  /\ config' \in Configs
  /\ UNCHANGED <<level, money, asked, ended, audit>>

-----------------------------------------------------------------------------
Next ==
  \/ \E u \in Users, roles \in SUBSET Roles, ch \in Channels, cmd \in Commands, v \in Values :
       \/ RequestConfirmation(u, roles, ch, cmd, v)
       \/ HandleCommand(u, roles, ch, cmd, v)
  \/ \E n \in Tokens, u \in Users, roles \in SUBSET Roles :
       \/ PressExpired(n, u, roles)
       \/ PressConfirm(n, u, roles)
       \/ PressCancel(n, u, roles)
  \/ Clock \/ LogInOrOut \/ ReloadConfig \/ Restart

Spec == Init /\ [][Next]_vars

-----------------------------------------------------------------------------
TypeOK ==
  /\ config \in Configs
  /\ now \in 0 .. MaxTime
  /\ DOMAIN pending \subseteq 1 .. Len(asked)
  /\ \A n \in DOMAIN pending :
       /\ pending[n].user \in Users /\ pending[n].at \in 0 .. now
       /\ pending[n].cmd \in Commands \ Immediate
  /\ online \in BOOLEAN /\ level \in 1 .. MaxLevel /\ money \in Nat
  /\ Len(asked) <= MaxRequests
  /\ DOMAIN ended = Tokens /\ DOMAIN audit = Tokens
  /\ restarts \in 0 .. MaxRestarts

Ran(n) == {i \in DOMAIN ended[n] : ended[n][i].how \in {"ran", "failed", "threw"}}

\* "This action no longer exists or has already been handled": however often and
\* by whomever the buttons of a message are pressed, a request comes to one end
\* at most - executed, cancelled or expired - and not while it is still pending.
ResolvedOnce ==
  \A n \in Tokens :
    /\ Len(ended[n]) <= 1
    /\ n \in DOMAIN pending => ended[n] = <<>>

\* What is executed is the command an admin asked for, while its time had not run
\* out, and at the will of that admin or - when SelfConfirmOnly was off at that
\* moment - of somebody who was an admin then.
RunsAsApproved ==
  \A n \in Tokens : \A i \in Ran(n) :
    LET e == ended[n][i]
        r == asked[n]
    IN /\ n <= Len(asked) /\ r.admin
       /\ e.cmd = r.cmd /\ e.args = Args(r.cmd, r.value)
       /\ r.cmd \notin Immediate =>
            /\ e.at - r.at \in 0 .. e.timeout
            /\ IF e.selfOnly THEN e.user = r.user ELSE e.admin
       /\ r.cmd \in Immediate => e.user = r.user /\ e.admin

\* The audit log of request n names everyone who executed it, and how it went.
AuditedAs(n) ==
  LET Entry(e) == [how |-> e.how, user |-> e.user]
  IN /\ Len(audit[n]) <= 1
     /\ {audit[n][i] : i \in DOMAIN audit[n]} =
          {Entry(ended[n][i]) : i \in {j \in Ran(n) : ended[n][j].how # "threw"}}

\* Every action but /setup roles is written to the audit log, once, under the name
\* of the user who set it off, failed ones too; nothing else is written.
AuditMatches ==
  \A n \in 1 .. Len(asked) : asked[n].cmd # "setup.roles" => AuditedAs(n)

StageOf(n) ==
  IF n > Len(asked) THEN "unmade"
  ELSE IF n \in DOMAIN pending THEN "waiting"
  ELSE IF Ran(n) # {} THEN "done" ELSE "dismissed"

Stage == [n \in Tokens |-> StageOf(n)]
Logged == {n \in Tokens : audit[n] # <<>>}

Approval == INSTANCE ApprovedCommands
  WITH Requests <- Tokens, stage <- Stage, log <- Logged,
       world <- <<level, money>>, boots <- restarts

\* The confirmation flow keeps the promise of ApprovedCommands: whatever buttons are
\* pressed in whatever order, a player changes only when a request that waited for its
\* confirmation is carried out, which is written down in the same step; and none that
\* a restart has forgotten is ever carried out.
ImplementsApproval == Approval!Spec

Executed(n) ==
  \E i \in DOMAIN ended'[n] \ DOMAIN ended[n] : ended'[n][i].how \in {"ran", "threw"}

\* The highest level there is, if the level asked for is higher.
Capped(v) == IF v > MaxLevel THEN MaxLevel ELSE v

\* What the dialogue says before its button is pressed - "Confirm to execute",
\* "Set <name>'s money to <amount> copper.", "Set the level of <name> to <level>."
\* - is what is done, unless it is reported as failed.
DialogueHolds ==
  [][\A n \in 1 .. Len(asked) : Executed(n) =>
       /\ \A i \in DOMAIN ended'[n] : ended'[n][i].how # "threw"
       /\ asked[n].cmd = "player.money" => money' = asked[n].value
       /\ asked[n].cmd = "player.level" => level' = Capped(asked[n].value)]_vars
==============================================================================
