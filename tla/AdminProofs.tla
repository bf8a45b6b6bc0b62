----------------------------- MODULE AdminProofs -----------------------------
(***************************************************************************)
(* Proofs about the confirmation flow of DiscordAdmin: whatever is         *)
(* pressed, by whomever, in whichever order, across reloads and restarts,  *)
(* a request comes to at most one end, is carried out only as approved,    *)
(* and is in the audit log exactly when it has been carried out.           *)
(***************************************************************************)
EXTENDS Admin, TLAPS

Ends == {"ran", "failed", "threw", "cancelled", "expired"}

Request == [user : Users, admin : BOOLEAN, cmd : Commands, value : Values, at : Nat]

EndRecord ==
  [how : Ends, cmd : Commands, args : Seq([number : BOOLEAN, value : Nat]),
   user : Users, at : Nat, admin : BOOLEAN, selfOnly : BOOLEAN, timeout : Nat]

Row == [how : {"ran", "failed"}, user : Users]

\* The part of the state that does not depend on one request.
StateOK ==
  /\ config \in Configs
  /\ now \in 0 .. MaxTime
  /\ online \in BOOLEAN /\ level \in 1 .. MaxLevel /\ money \in Nat
  /\ asked \in Seq(Request) /\ Len(asked) <= MaxRequests
  /\ DOMAIN pending \subseteq 1 .. Len(asked)
  /\ ended \in [Tokens -> Seq(EndRecord)]
  /\ audit \in [Tokens -> Seq(Row)]
  /\ restarts \in 0 .. MaxRestarts

\* A pending action is the request it was made for, and nothing has come of it.
PendingOK(n) ==
  n \in DOMAIN pending =>
    /\ pending[n] = [user |-> asked[n].user, cmd |-> asked[n].cmd,
                     args |-> Args(asked[n].cmd, asked[n].value), at |-> asked[n].at]
    /\ asked[n].cmd \notin Immediate
    /\ asked[n].at <= now
    /\ ended[n] = <<>> /\ audit[n] = <<>>

\* Nothing has come of a request that has not been made.
FutureOK(n) == n > Len(asked) => ended[n] = <<>> /\ audit[n] = <<>>

\* RunsAsApproved, for one request.
ApprovedOK(n) ==
  \A i \in Ran(n) :
    LET e == ended[n][i]
        r == asked[n]
    IN /\ n <= Len(asked) /\ r.admin
       /\ e.cmd = r.cmd /\ e.args = Args(r.cmd, r.value)
       /\ r.cmd \notin Immediate =>
            /\ e.at - r.at \in 0 .. e.timeout
            /\ IF e.selfOnly THEN e.user = r.user ELSE e.admin
       /\ r.cmd \in Immediate => e.user = r.user /\ e.admin

RequestOK(n) ==
  /\ n <= Len(asked) => asked[n].admin
  /\ n <= Len(asked) /\ asked[n].cmd # "setup.roles" => AuditedAs(n)
  /\ Len(ended[n]) <= 1
  /\ PendingOK(n) /\ FutureOK(n) /\ ApprovedOK(n)

\* The inductive invariant.
IInv == StateOK /\ \A n \in Tokens : RequestOK(n)

-----------------------------------------------------------------------------
\* The three ends ExecuteAction distinguishes.
LEMMA OutcomesOK == ASSUME NEW a PROVE Outcomes(a) \subseteq {"ran", "failed", "threw"}
  BY DEF Outcomes

\* A level is never outside its range, whatever was asked for.
LEMMA ClampOK == ASSUME NEW v \in Nat PROVE ClampLevel(v) \in 1 .. MaxLevel
  BY AdminAssumption, SMTT(30) DEF ClampLevel

LEMMA ArgsOK ==
  ASSUME NEW cmd, NEW v \in Values
  PROVE  Args(cmd, v) \in Seq([number : BOOLEAN, value : Nat])
<1>1. Text \in [number : BOOLEAN, value : Nat]
  BY DEF Text
<1>2. Number(v) \in [number : BOOLEAN, value : Nat]
  BY AdminAssumption DEF Number
<1>3. <<Text>> \in Seq([number : BOOLEAN, value : Nat])
  BY <1>1
<1>4. <<Text, Number(v)>> \in Seq([number : BOOLEAN, value : Nat])
  BY <1>1, <1>2
<1> QED
  BY <1>3, <1>4 DEF Args

\* The invariant holds at the start.
LEMMA InitIInv == Init => IInv
<1> SUFFICES ASSUME Init PROVE IInv
  OBVIOUS
<1>1. StateOK
  <2>1. asked \in Seq(Request) /\ Len(asked) = 0
    BY DEF Init
  <2>2. ended \in [Tokens -> Seq(EndRecord)]
    BY DEF Init
  <2>3. audit \in [Tokens -> Seq(Row)]
    BY DEF Init
  <2>4. DOMAIN pending = {}
    BY DEF Init
  <2>5. now \in 0 .. MaxTime /\ level \in 1 .. MaxLevel /\ restarts \in 0 .. MaxRestarts
    BY AdminAssumption DEF Init
  <2>6. Len(asked) <= MaxRequests /\ DOMAIN pending \subseteq 1 .. Len(asked)
    BY <2>1, <2>4, AdminAssumption
  <2>7. config \in Configs /\ online \in BOOLEAN /\ money \in Nat
    BY DEF Init
  <2> QED
    BY <2>1, <2>2, <2>3, <2>5, <2>6, <2>7 DEF StateOK
<1>2. ASSUME NEW n \in Tokens PROVE RequestOK(n)
  BY DEF Init, RequestOK, PendingOK, FutureOK, ApprovedOK, AuditedAs, Ran, Tokens
<1> QED
  BY <1>1, <1>2 DEF IInv
-----------------------------------------------------------------------------
\* A request that a step does not concern stays as it was.
LEMMA Untouched ==
  ASSUME StateOK, NEW n \in Tokens, RequestOK(n),
         ended'[n] = ended[n], audit'[n] = audit[n],
         Len(asked') \in Nat,
         n <= Len(asked') <=> n <= Len(asked),
         n <= Len(asked) => asked'[n] = asked[n],
         n \in DOMAIN pending' =>
           n \in DOMAIN pending /\ pending'[n] = pending[n] /\ asked[n].at <= now'
  PROVE  RequestOK(n)'
<1>1. n \in Nat /\ Len(asked) \in Nat
  BY AdminAssumption DEF StateOK, Tokens
<1>2. Ran(n)' = Ran(n)
  BY DEF Ran
<1>3. PendingOK(n)'
  BY <1>1 DEF RequestOK, PendingOK, StateOK
<1>4. FutureOK(n)'
  BY <1>1 DEF RequestOK, FutureOK
<1>5. ApprovedOK(n)'
  BY <1>1, <1>2 DEF RequestOK, ApprovedOK
<1>6. n <= Len(asked') /\ asked'[n].cmd # "setup.roles" => AuditedAs(n)'
  BY <1>2 DEF RequestOK, AuditedAs
<1>7. (n <= Len(asked') => asked'[n].admin) /\ Len(ended'[n]) <= 1
  BY DEF RequestOK
<1> QED
  BY <1>3, <1>4, <1>5, <1>6, <1>7 DEF RequestOK

\* What End appends, to a request nothing has come of.
LEMMA EndOK ==
  ASSUME StateOK, NEW n \in Tokens, NEW how \in Ends, NEW u \in Users, NEW roles,
         NEW a, a.cmd \in Commands, a.args \in Seq([number : BOOLEAN, value : Nat]),
         ended[n] = <<>>, End(n, how, a, u, roles)
  PROVE  /\ ended' \in [Tokens -> Seq(EndRecord)]
         /\ \A m \in Tokens \ {n} : ended'[m] = ended[m]
         /\ ended'[n] = <<[how |-> how, cmd |-> a.cmd, args |-> a.args, user |-> u,
                          at |-> now, admin |-> IsAdmin(u, roles),
                          selfOnly |-> config.selfOnly, timeout |-> config.timeout]>>
<1> DEFINE e == [how |-> how, cmd |-> a.cmd, args |-> a.args, user |-> u,
                 at |-> now, admin |-> IsAdmin(u, roles),
                 selfOnly |-> config.selfOnly, timeout |-> config.timeout]
<1>1. config.selfOnly \in BOOLEAN /\ config.timeout \in Nat /\ config.enable \in BOOLEAN
  BY AdminAssumption DEF StateOK, ConfigRecords
<1>2. IsAdmin(u, roles) \in BOOLEAN
  BY <1>1 DEF IsAdmin, IsAdminAuthorized
<1>3. now \in Nat
  BY AdminAssumption DEF StateOK
<1>4. e \in EndRecord
  BY <1>1, <1>2, <1>3 DEF EndRecord
<1>5. ended' = [ended EXCEPT ![n] = Append(<<>>, e)]
  BY DEF End
<1>6. Append(<<>>, e) = <<e>> /\ <<e>> \in Seq(EndRecord)
  BY <1>4
<1> HIDE DEF e
<1>7. /\ ended' \in [Tokens -> Seq(EndRecord)]
      /\ \A m \in Tokens \ {n} : ended'[m] = ended[m]
      /\ ended'[n] = <<e>>
  BY <1>5, <1>6 DEF StateOK
<1> QED
  BY <1>7 DEF e

\* What LogAudit appends, to a request nothing has been written about.
LEMMA AuditOK ==
  ASSUME StateOK, NEW n \in Tokens, NEW how \in {"ran", "failed"}, NEW u \in Users,
         audit[n] = <<>>, LogAudit(n, how, u)
  PROVE  /\ audit' \in [Tokens -> Seq(Row)]
         /\ \A m \in Tokens \ {n} : audit'[m] = audit[m]
         /\ audit'[n] = <<[how |-> how, user |-> u]>>
<1> DEFINE r == [how |-> how, user |-> u]
<1>1. r \in Row
  BY DEF Row
<1>2. audit' = [audit EXCEPT ![n] = Append(<<>>, r)]
  BY DEF LogAudit
<1>3. Append(<<>>, r) = <<r>> /\ <<r>> \in Seq(Row)
  BY <1>1
<1> HIDE DEF r
<1>4. /\ audit' \in [Tokens -> Seq(Row)]
      /\ \A m \in Tokens \ {n} : audit'[m] = audit[m]
      /\ audit'[n] = <<r>>
  BY <1>2, <1>3 DEF StateOK
<1> QED
  BY <1>4 DEF r

-----------------------------------------------------------------------------
\* A step about the pending request n that gives it its one end.
LEMMA PressEnds ==
  ASSUME IInv, NEW n \in Tokens, n \in DOMAIN pending,
         NEW u \in Users, NEW roles,
         NEW how \in Ends, End(n, how, pending[n], u, roles),
         how \in {"ran", "failed", "threw"} =>
           ~ Expired(pending[n]) /\ MayConfirm(pending[n], u, roles),
         IF how \in {"ran", "failed"} THEN LogAudit(n, how, u) ELSE UNCHANGED audit,
         pending' = Erase(n),
         UNCHANGED <<config, now, asked, restarts>>,
         online' \in BOOLEAN, level' \in 1 .. MaxLevel, money' \in Nat
  PROVE  IInv'
<1> DEFINE a == pending[n]
           e == [how |-> how, cmd |-> a.cmd, args |-> a.args, user |-> u, at |-> now,
                 admin |-> IsAdmin(u, roles), selfOnly |-> config.selfOnly,
                 timeout |-> config.timeout]
<1>1. StateOK /\ RequestOK(n) /\ PendingOK(n)
  BY DEF IInv, RequestOK
<1>2. n \in 1 .. Len(asked) /\ Len(asked) \in Nat /\ asked[n] \in Request
  BY <1>1 DEF StateOK
<1>3. /\ a = [user |-> asked[n].user, cmd |-> asked[n].cmd,
              args |-> Args(asked[n].cmd, asked[n].value), at |-> asked[n].at]
      /\ asked[n].cmd \notin Immediate /\ asked[n].admin
      /\ ended[n] = <<>> /\ audit[n] = <<>>
  BY <1>1, <1>2 DEF PendingOK, RequestOK
<1>4. asked[n].cmd \in Commands /\ asked[n].value \in Values /\ asked[n].at \in Nat
  BY <1>2 DEF Request
<1>5. a.cmd \in Commands /\ a.args \in Seq([number : BOOLEAN, value : Nat])
  BY <1>3, <1>4, ArgsOK
<1>6. /\ ended' \in [Tokens -> Seq(EndRecord)]
      /\ \A m \in Tokens \ {n} : ended'[m] = ended[m]
      /\ ended'[n] = <<e>>
  BY <1>1, <1>3, <1>5, EndOK
<1>7. /\ audit' \in [Tokens -> Seq(Row)]
      /\ \A m \in Tokens \ {n} : audit'[m] = audit[m]
      /\ audit'[n] = IF how \in {"ran", "failed"} THEN <<[how |-> how, user |-> u]>>
                     ELSE <<>>
  <2>1. CASE how \in {"ran", "failed"}
    BY <2>1, <1>1, <1>3, AuditOK
  <2>2. CASE how \notin {"ran", "failed"}
    BY <2>2, <1>1, <1>3 DEF StateOK
  <2> QED
    BY <2>1, <2>2
<1>8. DOMAIN pending' = DOMAIN pending \ {n}
      /\ \A m \in DOMAIN pending' : pending'[m] = pending[m]
  BY DEF Erase
<1>9. StateOK'
  BY <1>1, <1>6, <1>7, <1>8 DEF StateOK
<1>10. ASSUME NEW m \in Tokens \ {n} PROVE RequestOK(m)'
  <2>1. RequestOK(m)
    BY DEF IInv
  <2>2. m \in DOMAIN pending => asked[m].at <= now'
    BY <2>1 DEF RequestOK, PendingOK
  <2> QED
    BY <1>1, <1>2, <1>6, <1>7, <1>8, <2>1, <2>2, Untouched
<1>11. RequestOK(n)'
  <2>1. DOMAIN ended'[n] = {1} /\ ended'[n][1] = e /\ Len(ended'[n]) = 1
    BY <1>6
  <2>2. e.how = how /\ e.user = u /\ e.at = now /\ e.cmd = a.cmd /\ e.args = a.args
        /\ e.admin = IsAdmin(u, roles) /\ e.selfOnly = config.selfOnly
        /\ e.timeout = config.timeout
    OBVIOUS
  <2> HIDE DEF e
  <2>3. PendingOK(n)' /\ FutureOK(n)'
    BY <1>2, <1>8 DEF PendingOK, FutureOK
  <2>4. ApprovedOK(n)'
    <3>1. SUFFICES ASSUME how \in {"ran", "failed", "threw"}
                   PROVE  ApprovedOK(n)'
      BY <2>1, <2>2 DEF ApprovedOK, Ran
    <3>2. now - asked[n].at \in 0 .. config.timeout
      <4>1. asked[n].at <= now /\ now \in Nat /\ config.timeout \in Nat
        BY <1>1, <1>2, AdminAssumption DEF PendingOK, StateOK, ConfigRecords
      <4>2. ~ (now - asked[n].at > config.timeout)
        BY <3>1, <1>3 DEF Expired
      <4> QED
        BY <4>1, <4>2, <1>4
    <3>3. IF config.selfOnly THEN u = asked[n].user ELSE IsAdmin(u, roles)
      BY <3>1, <1>3 DEF MayConfirm
    <3>4. n <= Len(asked)
      BY <1>2
    <3> QED
      BY <1>3, <2>1, <2>2, <3>2, <3>3, <3>4 DEF ApprovedOK, Ran
  <2>5. AuditedAs(n)'
    <3>1. CASE how \in {"ran", "failed"}
      <4>1. Ran(n)' = {1}
        BY <3>1, <2>1, <2>2 DEF Ran
      <4>2. DOMAIN audit'[n] = {1} /\ Len(audit'[n]) = 1
            /\ audit'[n][1] = [how |-> how, user |-> u]
        BY <3>1, <1>7
      <4>3. {j \in Ran(n)' : ended'[n][j].how # "threw"} = {1}
        BY <3>1, <4>1, <2>1, <2>2
      <4> QED
        BY <4>2, <4>3, <2>1, <2>2 DEF AuditedAs
    <3>2. CASE how \notin {"ran", "failed"}
      <4>1. {j \in Ran(n)' : ended'[n][j].how # "threw"} = {}
        BY <3>2, <2>1, <2>2 DEF Ran
      <4>2. DOMAIN audit'[n] = {} /\ Len(audit'[n]) = 0
        BY <3>2, <1>7
      <4> QED
        BY <4>1, <4>2 DEF AuditedAs
    <3> QED
      BY <3>1, <3>2
  <2> QED
    BY <1>3, <2>1, <2>3, <2>4, <2>5 DEF RequestOK
<1> QED
  BY <1>9, <1>10, <1>11 DEF IInv
\* Any button pressed.
LEMMA Press ==
  ASSUME IInv, NEW n \in Tokens, NEW u \in Users, NEW roles \in SUBSET Roles,
         PressExpired(n, u, roles) \/ PressConfirm(n, u, roles) \/ PressCancel(n, u, roles)
  PROVE  IInv'
<1>1. n \in DOMAIN pending
  BY DEF PressExpired, PressConfirm, PressCancel
<1>2. StateOK
  BY DEF IInv
<1>3. online \in BOOLEAN /\ level \in 1 .. MaxLevel /\ money \in Nat
  BY <1>2 DEF StateOK
<1>4. CASE PressExpired(n, u, roles)
  <2>1. /\ End(n, "expired", pending[n], u, roles) /\ pending' = Erase(n)
        /\ UNCHANGED <<config, now, online, level, money, asked, audit, restarts>>
    BY <1>4 DEF PressExpired, player
  <2> QED
    BY <2>1, <1>1, <1>3, PressEnds DEF Ends
<1>5. CASE PressCancel(n, u, roles)
  <2>1. /\ End(n, "cancelled", pending[n], u, roles) /\ pending' = Erase(n)
        /\ UNCHANGED <<config, now, online, level, money, asked, audit, restarts>>
    BY <1>5 DEF PressCancel, player
  <2> QED
    BY <2>1, <1>1, <1>3, PressEnds DEF Ends
<1>6. CASE PressConfirm(n, u, roles)
  <2>1. /\ ~ Expired(pending[n]) /\ MayConfirm(pending[n], u, roles)
        /\ pending' = Erase(n)
        /\ ExecuteAction(n, pending[n], u, roles)
        /\ UNCHANGED <<config, now, asked, restarts>>
    BY <1>6 DEF PressConfirm
  <2>2. PICK how \in Outcomes(pending[n]) :
          /\ End(n, how, pending[n], u, roles)
          /\ Affect(pending[n], how)
          /\ IF how = "threw" THEN UNCHANGED audit ELSE LogAudit(n, how, u)
    BY <2>1 DEF ExecuteAction
  <2>3. how \in {"ran", "failed", "threw"}
    BY <2>2, OutcomesOK
  <2>4. online' \in BOOLEAN /\ level' \in 1 .. MaxLevel /\ money' \in Nat
    <3>1. PendingOK(n) /\ n \in 1 .. Len(asked) /\ asked[n] \in Request
      BY <1>1, <1>2 DEF IInv, RequestOK, StateOK
    <3>2. asked[n].value \in Nat /\ pending[n].cmd = asked[n].cmd
          /\ pending[n].args = Args(asked[n].cmd, asked[n].value)
      <4>1. asked[n].value \in Values /\ Values \subseteq Nat
        BY <3>1, AdminAssumption DEF Request
      <4>2. pending[n] = [user |-> asked[n].user, cmd |-> asked[n].cmd,
                          args |-> Args(asked[n].cmd, asked[n].value), at |-> asked[n].at]
        BY <3>1, <1>1 DEF PendingOK
      <4>3. pending[n].cmd = asked[n].cmd
            /\ pending[n].args = Args(asked[n].cmd, asked[n].value)
        BY <4>2
      <4> QED
        BY <4>1, <4>3
    <3>3. pending[n].cmd \in {"player.level", "player.money"} =>
            pending[n].args[2].value \in Nat
      BY <3>2 DEF Args, Number
    <3>4. online' = online
      BY <2>2 DEF Affect
    <3>5. level' \in 1 .. MaxLevel
      BY <2>2, <3>3, <1>3, ClampOK DEF Affect
    <3>6. money' \in Nat
      BY <2>2, <3>3, <1>3 DEF Affect
    <3> QED
      BY <3>4, <3>5, <3>6, <1>3
  <2>5. IF how \in {"ran", "failed"} THEN LogAudit(n, how, u) ELSE UNCHANGED audit
    BY <2>2, <2>3
  <2> QED
    BY <2>1, <2>2, <2>3, <2>4, <2>5, <1>1, PressEnds DEF Ends
<1> QED
  BY <1>4, <1>5, <1>6

-----------------------------------------------------------------------------
\* A new request is appended to the history.
LEMMA AskOK ==
  ASSUME StateOK, NEW u \in Users, NEW roles, NEW cmd \in Commands, NEW v \in Values,
         IsAdmin(u, roles), Ask(u, roles, cmd, v)
  PROVE  /\ Token \in Tokens /\ Token = Len(asked) + 1
         /\ asked' \in Seq(Request) /\ Len(asked') = Token /\ Len(asked') <= MaxRequests
         /\ \A m \in 1 .. Len(asked) : asked'[m] = asked[m]
         /\ asked'[Token] = [user |-> u, admin |-> TRUE, cmd |-> cmd,
                             value |-> v, at |-> now]
<1> DEFINE r == [user |-> u, admin |-> IsAdmin(u, roles), cmd |-> cmd,
                 value |-> v, at |-> now]
<1>1. now \in Nat /\ IsAdmin(u, roles) = TRUE
  <2>1. IsAdmin(u, roles) \in BOOLEAN
    <3>1. config.enable \in BOOLEAN
      BY AdminAssumption DEF StateOK, ConfigRecords
    <3> QED
      BY <3>1 DEF IsAdmin, IsAdminAuthorized
  <2> QED
    BY <2>1, AdminAssumption DEF StateOK
<1>2. r \in Request
  BY <1>1 DEF Request
<1>3. asked' = Append(asked, r) /\ Len(asked) < MaxRequests
  BY DEF Ask
<1>4. r = [user |-> u, admin |-> TRUE, cmd |-> cmd, value |-> v, at |-> now]
  BY <1>1
<1> HIDE DEF r
<1>5. asked \in Seq(Request) /\ Len(asked) \in Nat /\ MaxRequests \in Nat
  BY AdminAssumption DEF StateOK
<1> QED
  BY <1>2, <1>3, <1>4, <1>5 DEF Token, Tokens

\* A destructive command leaves a pending action.
LEMMA Confirmation ==
  ASSUME IInv, NEW u \in Users, NEW roles \in SUBSET Roles, NEW ch \in Channels,
         NEW cmd \in Commands, NEW v \in Values,
         RequestConfirmation(u, roles, ch, cmd, v)
  PROVE  IInv'
<1>1. /\ cmd \notin Immediate /\ IsAdmin(u, roles) /\ Ask(u, roles, cmd, v)
      /\ UNCHANGED <<config, now, online, level, money, ended, audit, restarts>>
  BY DEF RequestConfirmation, Accepted, player
<1>2. /\ DOMAIN pending' = DOMAIN pending \cup {Token}
      /\ \A m \in DOMAIN pending' :
           pending'[m] = IF m = Token
                         THEN [user |-> u, cmd |-> cmd, args |-> Args(cmd, v), at |-> now]
                         ELSE pending[m]
  BY DEF RequestConfirmation
<1>3. StateOK
  BY DEF IInv
<1>4. PICK n \in Tokens :
      /\ n = Token /\ n = Len(asked) + 1 /\ Len(asked) \in Nat
      /\ asked' \in Seq(Request) /\ Len(asked') = n /\ Len(asked') <= MaxRequests
      /\ \A m \in 1 .. Len(asked) : asked'[m] = asked[m]
      /\ asked'[n] = [user |-> u, admin |-> TRUE, cmd |-> cmd, value |-> v, at |-> now]
  BY <1>1, <1>3, AskOK DEF StateOK
<1>5. StateOK'
  BY <1>1, <1>2, <1>3, <1>4 DEF StateOK
<1>6. ASSUME NEW m \in Tokens, m # n PROVE RequestOK(m)'
  <2>1. RequestOK(m) /\ m \in Nat /\ m >= 1
    BY DEF IInv, Tokens
  <2>2. m <= Len(asked') <=> m <= Len(asked)
    BY <1>4, <1>6, <2>1
  <2>3. m \in DOMAIN pending' =>
          m \in DOMAIN pending /\ pending'[m] = pending[m] /\ asked[m].at <= now'
    BY <1>1, <1>2, <1>4, <1>6, <2>1 DEF RequestOK, PendingOK
  <2>4. m <= Len(asked) => asked'[m] = asked[m]
    BY <1>4, <2>1
  <2> QED
    BY <1>1, <1>3, <1>4, <2>1, <2>2, <2>3, <2>4, Untouched
<1>7. RequestOK(n)'
  <2>1. ended'[n] = <<>> /\ audit'[n] = <<>>
    BY <1>1, <1>4 DEF IInv, RequestOK, FutureOK
  <2>2. Ran(n)' = {}
    BY <2>1 DEF Ran
  <2>3. AuditedAs(n)' /\ ApprovedOK(n)' /\ FutureOK(n)'
    BY <2>1, <2>2 DEF AuditedAs, ApprovedOK, FutureOK
  <2>4. PendingOK(n)'
    <3>1. now \in Nat
      BY <1>3, AdminAssumption DEF StateOK
    <3> QED
      BY <1>1, <1>2, <1>4, <2>1, <3>1 DEF PendingOK
  <2> QED
    BY <1>4, <2>1, <2>3, <2>4 DEF RequestOK
<1> QED
  BY <1>5, <1>6, <1>7 DEF IInv
\* Any other command is executed and audited at once.
LEMMA Command ==
  ASSUME IInv, NEW u \in Users, NEW roles \in SUBSET Roles, NEW ch \in Channels,
         NEW cmd \in Commands, NEW v \in Values,
         HandleCommand(u, roles, ch, cmd, v)
  PROVE  IInv'
<1>1. /\ cmd \in Immediate /\ IsAdmin(u, roles) /\ Ask(u, roles, cmd, v)
      /\ End(Token, "ran", [cmd |-> cmd, args |-> Args(cmd, v)], u, roles)
      /\ config' \in Configs
      /\ IF cmd = "setup.roles" THEN UNCHANGED audit ELSE LogAudit(Token, "ran", u)
      /\ UNCHANGED <<now, pending, online, level, money, restarts>>
  <2>1. config \in Configs
    BY DEF IInv, StateOK
  <2> QED
    BY <2>1 DEF HandleCommand, Accepted, player
<1>2. StateOK
  BY DEF IInv
<1>3. PICK n \in Tokens :
      /\ n = Token /\ n = Len(asked) + 1 /\ Len(asked) \in Nat
      /\ asked' \in Seq(Request) /\ Len(asked') = n /\ Len(asked') <= MaxRequests
      /\ \A m \in 1 .. Len(asked) : asked'[m] = asked[m]
      /\ asked'[n] = [user |-> u, admin |-> TRUE, cmd |-> cmd, value |-> v, at |-> now]
  BY <1>1, <1>2, AskOK DEF StateOK
<1>4. ended[n] = <<>> /\ audit[n] = <<>> /\ n \notin DOMAIN pending
  BY <1>2, <1>3 DEF IInv, RequestOK, FutureOK, StateOK
<1> DEFINE a == [cmd |-> cmd, args |-> Args(cmd, v)]
           e == [how |-> "ran", cmd |-> a.cmd, args |-> a.args, user |-> u, at |-> now,
                 admin |-> IsAdmin(u, roles), selfOnly |-> config.selfOnly,
                 timeout |-> config.timeout]
<1>5. /\ ended' \in [Tokens -> Seq(EndRecord)]
      /\ \A m \in Tokens \ {n} : ended'[m] = ended[m]
      /\ ended'[n] = <<e>>
  <2>1. a.cmd = cmd /\ a.args \in Seq([number : BOOLEAN, value : Nat])
    BY ArgsOK
  <2>2. End(n, "ran", a, u, roles)
    BY <1>1, <1>3
  <2> HIDE DEF a
  <2> QED
    BY <2>1, <2>2, <1>2, <1>4, EndOK DEF Ends
<1>6. /\ audit' \in [Tokens -> Seq(Row)]
      /\ \A m \in Tokens \ {n} : audit'[m] = audit[m]
      /\ cmd # "setup.roles" => audit'[n] = <<[how |-> "ran", user |-> u]>>
  <2>1. CASE cmd = "setup.roles"
    BY <2>1, <1>1, <1>2 DEF StateOK
  <2>2. CASE cmd # "setup.roles"
    <3>1. LogAudit(n, "ran", u)
      BY <2>2, <1>1, <1>3
    <3> QED
      BY <3>1, <1>2, <1>4, AuditOK
  <2> QED
    BY <2>1, <2>2
<1>7. StateOK'
  BY <1>1, <1>2, <1>3, <1>5, <1>6 DEF StateOK
<1>8. ASSUME NEW m \in Tokens, m # n PROVE RequestOK(m)'
  <2>1. RequestOK(m) /\ m \in Nat /\ m >= 1
    BY DEF IInv, Tokens
  <2>2. m <= Len(asked') <=> m <= Len(asked)
    BY <1>3, <1>8, <2>1
  <2>3. m \in DOMAIN pending' =>
          m \in DOMAIN pending /\ pending'[m] = pending[m] /\ asked[m].at <= now'
    BY <1>1, <2>1 DEF RequestOK, PendingOK
  <2>4. m <= Len(asked) => asked'[m] = asked[m]
    BY <1>3, <2>1
  <2>5. ended'[m] = ended[m] /\ audit'[m] = audit[m]
    BY <1>5, <1>6, <1>8
  <2>6. Len(asked') \in Nat
    BY <1>3
  <2> QED
    BY <1>2, <2>1, <2>2, <2>3, <2>4, <2>5, <2>6, Untouched
<1>9. RequestOK(n)'
  <2>1. DOMAIN ended'[n] = {1} /\ ended'[n][1] = e /\ Len(ended'[n]) = 1
    BY <1>5
  <2>2. e.how = "ran" /\ e.user = u /\ e.cmd = cmd /\ e.args = Args(cmd, v)
        /\ e.admin = IsAdmin(u, roles)
    OBVIOUS
  <2> HIDE DEF e
  <2>3. Ran(n)' = {1}
    BY <2>1, <2>2 DEF Ran
  <2>4. PendingOK(n)' /\ FutureOK(n)'
    BY <1>1, <1>3, <1>4 DEF PendingOK, FutureOK
  <2>5. ApprovedOK(n)'
    <3>1. /\ n <= Len(asked') /\ asked'[n].admin /\ asked'[n].cmd = cmd
          /\ asked'[n].value = v /\ asked'[n].user = u
      BY <1>3
    <3>2. e.admin
      BY <1>1, <2>2
    <3> QED
      BY <1>1, <2>1, <2>2, <2>3, <3>1, <3>2 DEF ApprovedOK
  <2>6. cmd # "setup.roles" => AuditedAs(n)'
    <3>1. SUFFICES ASSUME cmd # "setup.roles" PROVE AuditedAs(n)'
      OBVIOUS
    <3>2. DOMAIN audit'[n] = {1} /\ Len(audit'[n]) = 1
          /\ audit'[n][1] = [how |-> "ran", user |-> u]
      <4>1. audit'[n] = <<[how |-> "ran", user |-> u]>>
        BY <3>1, <1>6
      <4> QED
        BY <4>1
    <3>3. {j \in Ran(n)' : ended'[n][j].how # "threw"} = {1}
      BY <2>1, <2>2, <2>3
    <3> QED
      BY <3>2, <3>3, <2>1, <2>2 DEF AuditedAs
  <2> QED
    BY <1>3, <2>1, <2>4, <2>5, <2>6 DEF RequestOK
<1> QED
  BY <1>7, <1>8, <1>9 DEF IInv

\* Every other step changes no request, and ages the pending ones at most.
LEMMA Elsewhere ==
  ASSUME IInv, Clock \/ LogInOrOut \/ ReloadConfig \/ Restart \/ UNCHANGED vars
  PROVE  IInv'
<1>1. StateOK
  BY DEF IInv
<1>2. /\ UNCHANGED <<asked, ended, audit, level, money>>
      /\ config' \in Configs /\ now' \in 0 .. MaxTime /\ online' \in BOOLEAN
      /\ restarts' \in 0 .. MaxRestarts
      /\ (pending' = pending /\ now <= now') \/ DOMAIN pending' = {}
  <2>1. /\ config \in Configs /\ now \in 0 .. MaxTime /\ online \in BOOLEAN
        /\ restarts \in 0 .. MaxRestarts
        /\ MaxTime \in Nat /\ MaxRestarts \in Nat
    BY <1>1, AdminAssumption DEF StateOK
  <2>2. CASE Clock
    BY <2>1, <2>2 DEF Clock, player
  <2>3. CASE LogInOrOut
    BY <2>1, <2>3 DEF LogInOrOut
  <2>4. CASE ReloadConfig
    BY <2>1, <2>4 DEF ReloadConfig, player
  <2>5. CASE Restart
    <3>1. DOMAIN pending' = {}
      BY <2>5 DEF Restart
    <3>2. now' = 0 /\ online' = FALSE /\ restarts' = restarts + 1 /\ restarts < MaxRestarts
          /\ config' \in Configs /\ UNCHANGED <<asked, ended, audit, level, money>>
      BY <2>5 DEF Restart
    <3>3. now' \in 0 .. MaxTime
      BY <2>1, <3>2
    <3>4. restarts' \in 0 .. MaxRestarts
      BY <2>1, <3>2
    <3>5. online' \in BOOLEAN
      BY <3>2, Zenon
    <3> QED
      BY <3>1, <3>2, <3>3, <3>4, <3>5
  <2>6. CASE UNCHANGED vars
    BY <2>1, <2>6 DEF vars, player
  <2> QED
    BY <2>2, <2>3, <2>4, <2>5, <2>6
<1>3. StateOK'
  BY <1>1, <1>2 DEF StateOK
<1>4. ASSUME NEW n \in Tokens PROVE RequestOK(n)'
  <2>1. RequestOK(n)
    BY DEF IInv
  <2>2. n \in DOMAIN pending' =>
          n \in DOMAIN pending /\ pending'[n] = pending[n] /\ asked[n].at <= now'
    <3>1. SUFFICES ASSUME n \in DOMAIN pending'
                   PROVE  n \in DOMAIN pending /\ pending'[n] = pending[n]
                          /\ asked[n].at <= now'
      OBVIOUS
    <3>2. pending' = pending /\ now <= now'
      BY <3>1, <1>2
    <3>3. n \in DOMAIN pending /\ n \in 1 .. Len(asked)
      BY <3>1, <3>2, <1>1 DEF StateOK
    <3>4. asked[n].at <= now
      BY <3>3, <2>1 DEF RequestOK, PendingOK
    <3>5. asked[n] \in Request
      BY <3>3, <1>1 DEF StateOK
    <3>6. asked[n].at \in Nat /\ now \in Nat /\ now' \in Nat
      BY <3>5, <1>1, <1>2, AdminAssumption DEF Request, StateOK
    <3> QED
      BY <3>2, <3>3, <3>4, <3>6
  <2>3. Len(asked') \in Nat
    BY <1>1, <1>2 DEF StateOK
  <2> QED
    BY <1>1, <1>2, <2>1, <2>2, <2>3, Untouched
<1> QED
  BY <1>3, <1>4 DEF IInv

LEMMA NextIInv == IInv /\ [Next]_vars => IInv'
<1> SUFFICES ASSUME IInv, [Next]_vars PROVE IInv'
  OBVIOUS
<1> QED
  BY Confirmation, Command, Press, Elsewhere DEF Next

\* The invariant is inductive.
THEOREM Invariance == Spec => []IInv
  BY InitIInv, NextIInv, PTL DEF Spec

-----------------------------------------------------------------------------
\* Every variable keeps its type; a pending action is about a request that was
\* made, and never younger than the clock.
THEOREM TypeCorrect == Spec => []TypeOK
<1>1. IInv => TypeOK
  <2> SUFFICES ASSUME IInv PROVE TypeOK
    OBVIOUS
  <2>1. StateOK
    BY DEF IInv
  <2>2. ASSUME NEW n \in DOMAIN pending
        PROVE  /\ pending[n].user \in Users /\ pending[n].at \in 0 .. now
               /\ pending[n].cmd \in Commands \ Immediate
    <3>1. n \in 1 .. Len(asked) /\ n \in Tokens /\ asked[n] \in Request
      BY <2>1, AdminAssumption DEF StateOK, Tokens
    <3>2. PendingOK(n)
      BY <3>1 DEF IInv, RequestOK
    <3>3. /\ asked[n].user \in Users /\ asked[n].cmd \in Commands /\ asked[n].at \in Nat
      BY <3>1 DEF Request
    <3>4. pending[n].user = asked[n].user /\ pending[n].cmd = asked[n].cmd
          /\ pending[n].at = asked[n].at
      BY <3>2 DEF PendingOK
    <3>5. now \in Nat
      BY <2>1, AdminAssumption DEF StateOK
    <3> QED
      BY <3>2, <3>3, <3>4, <3>5 DEF PendingOK
  <2> QED
    BY <2>1, <2>2 DEF TypeOK, StateOK
<1> QED
  BY <1>1, Invariance, PTL

\* A request comes to one end at most, however often its buttons are pressed.
THEOREM OneEnd == Spec => []ResolvedOnce
<1>1. IInv => ResolvedOnce
  BY DEF IInv, RequestOK, PendingOK, ResolvedOnce
<1> QED
  BY <1>1, Invariance, PTL

\* What is executed was asked for by an admin, in time, and confirmed by whoever
\* SelfConfirmOnly lets confirm at that moment.
THEOREM OnlyApproved == Spec => []RunsAsApproved
<1>1. IInv => RunsAsApproved
  BY DEF IInv, RequestOK, ApprovedOK, RunsAsApproved
<1> QED
  BY <1>1, Invariance, PTL

\* The audit log and what has been executed agree, but for /setup roles.
THEOREM AuditAgrees == Spec => []AuditMatches
<1>1. IInv => AuditMatches
  <2> SUFFICES ASSUME IInv, NEW n \in 1 .. Len(asked), asked[n].cmd # "setup.roles"
               PROVE  AuditedAs(n)
    BY DEF AuditMatches
  <2>1. n \in Tokens /\ n <= Len(asked)
    BY AdminAssumption DEF IInv, StateOK, Tokens
  <2> QED
    BY <2>1 DEF IInv, RequestOK
<1> QED
  BY <1>1, Invariance, PTL
-----------------------------------------------------------------------------
(***************************************************************************)
(* The refinement of ApprovedCommands.                                     *)
(***************************************************************************)

\* A request a step does not concern stays at its stage.
LEMMA StageKept ==
  ASSUME NEW n \in Tokens, ended'[n] = ended[n],
         n > Len(asked') <=> n > Len(asked),
         n \in DOMAIN pending' <=> n \in DOMAIN pending
  PROVE  StageOf(n)' = StageOf(n)
<1>1. Ran(n)' = Ran(n)
  BY DEF Ran
<1> QED
  BY <1>1 DEF StageOf

\* A step that concerns request n moves it, and no other one.
LEMMA StageMoves ==
  ASSUME NEW n \in Tokens,
         \A m \in Tokens \ {n} : StageOf(m)' = StageOf(m)
  PROVE  Approval!Move(n, StageOf(n), StageOf(n)')
<1>1. Stage[n] = StageOf(n)
  BY DEF Stage
<1>2. Stage' = [m \in Tokens |-> StageOf(m)']
  BY DEF Stage
<1>3. Stage' = [Stage EXCEPT ![n] = StageOf(n)']
  BY <1>2 DEF Stage
<1> QED
  BY <1>1, <1>3 DEF Approval!Move

\* What waits is a request nothing has come of.
LEMMA WaitingStage ==
  ASSUME IInv, NEW n \in Tokens
  PROVE  n \in DOMAIN pending <=> StageOf(n) = "waiting"
<1>1. DOMAIN pending \subseteq 1 .. Len(asked) /\ Len(asked) \in Nat
  BY DEF IInv, StateOK
<1>2. n \in DOMAIN pending => ~ (n > Len(asked))
  BY <1>1
<1> QED
  BY <1>2 DEF StageOf

\* A step that writes nothing leaves the log as it was.
LEMMA LogKept == ASSUME UNCHANGED audit PROVE Logged' = Logged
  BY DEF Logged

\* A row about request n puts it into the log.
LEMMA LogGrows ==
  ASSUME IInv, NEW n \in Tokens, NEW how, NEW u, LogAudit(n, how, u)
  PROVE  Approval!WriteDown(n)
<1> DEFINE r == [how |-> how, user |-> u]
<1>1. audit \in [Tokens -> Seq(Row)]
  BY DEF IInv, StateOK
<1>2. audit' = [audit EXCEPT ![n] = Append(audit[n], r)]
  BY DEF LogAudit
<1>3. Append(audit[n], r) # <<>>
  <2>1. audit[n] \in Seq(Row)
    BY <1>1
  <2> HIDE DEF r
  <2>2. DOMAIN Append(audit[n], r) = 1 .. Len(audit[n]) + 1 /\ Len(audit[n]) \in Nat
    BY <2>1
  <2>3. 1 \in DOMAIN Append(audit[n], r) /\ 1 \notin DOMAIN <<>>
    BY <2>2
  <2> QED
    BY <2>3
<1> HIDE DEF r
<1>4. \A m \in Tokens : audit'[m] = IF m = n THEN Append(audit[n], r) ELSE audit[m]
  BY <1>1, <1>2
<1>5. \A m \in Tokens : audit'[m] # <<>> <=> (audit[m] # <<>> \/ m = n)
  BY <1>3, <1>4
<1>6. Logged' = Logged \cup {n}
  BY <1>5 DEF Logged
<1> QED
  BY <1>6 DEF Approval!WriteDown

-----------------------------------------------------------------------------
LEMMA ApprovalInit == Init => Approval!Init
<1> SUFFICES ASSUME Init PROVE Approval!Init
  OBVIOUS
<1>1. Len(asked) = 0 /\ restarts = 0
  BY DEF Init
<1>2. ASSUME NEW n \in Tokens PROVE StageOf(n) = "unmade"
  <2>1. n > Len(asked)
    BY <1>1, AdminAssumption DEF Tokens
  <2> QED
    BY <2>1 DEF StageOf
<1>3. Stage = [n \in Tokens |-> "unmade"]
  BY <1>2 DEF Stage
<1>4. Logged = {}
  BY DEF Init, Logged
<1> QED
  BY <1>1, <1>3, <1>4 DEF Approval!Init

\* The stage of the request a command makes.
LEMMA NewStage ==
  ASSUME IInv, NEW n \in Tokens, n = Len(asked) + 1
  PROVE  StageOf(n) = "unmade" /\ n \notin DOMAIN pending
<1>1. Len(asked) \in Nat /\ DOMAIN pending \subseteq 1 .. Len(asked)
  BY DEF IInv, StateOK
<1>2. n > Len(asked) /\ n \notin 1 .. Len(asked)
  BY <1>1
<1> QED
  BY <1>1, <1>2 DEF StageOf

\* A destructive command waits to be confirmed.
LEMMA ConfirmationAsks ==
  ASSUME IInv, NEW u \in Users, NEW roles \in SUBSET Roles, NEW ch \in Channels,
         NEW cmd \in Commands, NEW v \in Values,
         RequestConfirmation(u, roles, ch, cmd, v)
  PROVE  \E n \in Tokens : Approval!Ask(n)
<1>1. /\ IsAdmin(u, roles) /\ Ask(u, roles, cmd, v)
      /\ UNCHANGED <<level, money, ended, audit, restarts>>
      /\ DOMAIN pending' = DOMAIN pending \cup {Token}
  BY DEF RequestConfirmation, Accepted, player
<1>2. StateOK
  BY DEF IInv
<1>3. PICK n \in Tokens : n = Token /\ n = Len(asked) + 1 /\ Len(asked') = n
  BY <1>1, <1>2, AskOK
<1>4. Len(asked) \in Nat
  BY <1>2 DEF StateOK
<1>5. ASSUME NEW m \in Tokens \ {n} PROVE StageOf(m)' = StageOf(m)
  <2>1. m > Len(asked') <=> m > Len(asked)
    BY <1>3, <1>4, <1>5, AdminAssumption DEF Tokens
  <2>2. m \in DOMAIN pending' <=> m \in DOMAIN pending
    BY <1>1, <1>3, <1>5
  <2> QED
    BY <1>1, <2>1, <2>2, StageKept
<1>6. StageOf(n) = "unmade"
  BY <1>3, NewStage
<1>7. StageOf(n)' = "waiting"
  <2>1. ~ (n > Len(asked')) /\ n \in DOMAIN pending'
    BY <1>1, <1>3, <1>4
  <2> QED
    BY <2>1 DEF StageOf
<1>8. Approval!Move(n, "unmade", "waiting")
  BY <1>5, <1>6, <1>7, StageMoves
<1>9. Logged' = Logged /\ UNCHANGED <<level, money, restarts>>
  BY <1>1, LogKept
<1> QED
  BY <1>8, <1>9 DEF Approval!Ask

\* Any other one is carried out at once, and changes nothing that needs a confirmation.
LEMMA CommandExecutes ==
  ASSUME IInv, NEW u \in Users, NEW roles \in SUBSET Roles, NEW ch \in Channels,
         NEW cmd \in Commands, NEW v \in Values,
         HandleCommand(u, roles, ch, cmd, v)
  PROVE  \E n \in Tokens : Approval!ExecuteAtOnce(n)
<1> DEFINE a == [cmd |-> cmd, args |-> Args(cmd, v)]
<1>1. /\ IsAdmin(u, roles) /\ Ask(u, roles, cmd, v)
      /\ End(Token, "ran", a, u, roles)
      /\ IF cmd = "setup.roles" THEN UNCHANGED audit ELSE LogAudit(Token, "ran", u)
      /\ UNCHANGED <<pending, level, money, restarts>>
  BY DEF HandleCommand, Accepted, player
<1>2. StateOK
  BY DEF IInv
<1>3. PICK n \in Tokens : n = Token /\ n = Len(asked) + 1 /\ Len(asked') = n
  BY <1>1, <1>2, AskOK
<1>4. Len(asked) \in Nat
  BY <1>2 DEF StateOK
<1>5. ended[n] = <<>>
  <2>1. n > Len(asked)
    BY <1>3, <1>4
  <2> QED
    BY <2>1 DEF IInv, RequestOK, FutureOK
<1>6. /\ \A m \in Tokens \ {n} : ended'[m] = ended[m]
      /\ Ran(n)' = {1}
  <2>1. a.cmd \in Commands /\ a.args \in Seq([number : BOOLEAN, value : Nat])
    BY ArgsOK
  <2>2. End(n, "ran", a, u, roles)
    BY <1>1, <1>3
  <2> HIDE DEF a
  <2> DEFINE e == [how |-> "ran", cmd |-> a.cmd, args |-> a.args, user |-> u, at |-> now,
                   admin |-> IsAdmin(u, roles), selfOnly |-> config.selfOnly,
                   timeout |-> config.timeout]
  <2>3. /\ \A m \in Tokens \ {n} : ended'[m] = ended[m]
        /\ ended'[n] = <<e>>
    BY <2>1, <2>2, <1>2, <1>5, EndOK DEF Ends
  <2>4. e.how = "ran"
    OBVIOUS
  <2> HIDE DEF e
  <2>5. DOMAIN ended'[n] = {1} /\ ended'[n][1] = e
    BY <2>3
  <2> QED
    BY <2>3, <2>4, <2>5 DEF Ran
<1>7. ASSUME NEW m \in Tokens \ {n} PROVE StageOf(m)' = StageOf(m)
  <2>1. m > Len(asked') <=> m > Len(asked)
    BY <1>3, <1>4, <1>7, AdminAssumption DEF Tokens
  <2> QED
    BY <1>1, <1>6, <2>1, StageKept
<1>8. StageOf(n) = "unmade" /\ n \notin DOMAIN pending
  BY <1>3, NewStage
<1>9. StageOf(n)' = "done"
  <2>1. ~ (n > Len(asked')) /\ n \notin DOMAIN pending'
    BY <1>1, <1>3, <1>4, <1>8
  <2> QED
    BY <1>6, <2>1 DEF StageOf
<1>10. Approval!Move(n, "unmade", "done")
  BY <1>7, <1>8, <1>9, StageMoves
<1>11. Approval!WriteDown(n) \/ Logged' = Logged
  <2>1. CASE cmd = "setup.roles"
    BY <1>1, <2>1, LogKept
  <2>2. CASE cmd # "setup.roles"
    BY <1>1, <1>3, <2>2, LogGrows
  <2> QED
    BY <2>1, <2>2
<1> QED
  BY <1>1, <1>10, <1>11 DEF Approval!ExecuteAtOnce

\* A button that ends request n, and whether it counts as carried out.
LEMMA PressMoves ==
  ASSUME IInv, NEW n \in Tokens, n \in DOMAIN pending, NEW u \in Users, NEW roles,
         NEW how \in Ends, End(n, how, pending[n], u, roles),
         pending' = Erase(n), asked' = asked
  PROVE  Approval!Move(n, "waiting", IF how \in {"ran", "failed", "threw"}
                                     THEN "done" ELSE "dismissed")
<1>1. StateOK /\ PendingOK(n)
  BY DEF IInv, RequestOK
<1>2. n \in 1 .. Len(asked) /\ Len(asked) \in Nat /\ asked[n] \in Request
  BY <1>1 DEF StateOK
<1>3. /\ pending[n] = [user |-> asked[n].user, cmd |-> asked[n].cmd,
                       args |-> Args(asked[n].cmd, asked[n].value), at |-> asked[n].at]
      /\ ended[n] = <<>>
  BY <1>1 DEF PendingOK
<1>4. asked[n].cmd \in Commands /\ asked[n].value \in Values
  BY <1>2 DEF Request
<1> DEFINE a == pending[n]
           e == [how |-> how, cmd |-> a.cmd, args |-> a.args, user |-> u, at |-> now,
                 admin |-> IsAdmin(u, roles), selfOnly |-> config.selfOnly,
                 timeout |-> config.timeout]
<1>5. a.cmd \in Commands /\ a.args \in Seq([number : BOOLEAN, value : Nat])
  BY <1>3, <1>4, ArgsOK
<1>6. /\ \A m \in Tokens \ {n} : ended'[m] = ended[m]
      /\ ended'[n] = <<e>>
  BY <1>1, <1>3, <1>5, EndOK
<1>7. e.how = how
  OBVIOUS
<1> HIDE DEF e
<1>8. DOMAIN ended'[n] = {1} /\ ended'[n][1] = e
  BY <1>6
<1>9. Ran(n)' = IF how \in {"ran", "failed", "threw"} THEN {1} ELSE {}
  BY <1>7, <1>8 DEF Ran
<1>10. DOMAIN pending' = DOMAIN pending \ {n}
  BY DEF Erase
<1>11. ASSUME NEW m \in Tokens \ {n} PROVE StageOf(m)' = StageOf(m)
  BY <1>6, <1>10, <1>11, StageKept
<1>12. StageOf(n) = "waiting"
  BY WaitingStage
<1>13. StageOf(n)' = IF how \in {"ran", "failed", "threw"} THEN "done" ELSE "dismissed"
  <2>1. ~ (n > Len(asked')) /\ n \notin DOMAIN pending'
    BY <1>2, <1>10
  <2> QED
    BY <1>9, <2>1 DEF StageOf
<1> QED
  BY <1>11, <1>12, <1>13, StageMoves

\* A button dismisses its request, or carries it out.
LEMMA PressStep ==
  ASSUME IInv, NEW n \in Tokens, NEW u \in Users, NEW roles \in SUBSET Roles,
         PressExpired(n, u, roles) \/ PressConfirm(n, u, roles) \/ PressCancel(n, u, roles)
  PROVE  Approval!Dismiss(n) \/ Approval!Execute(n)
<1>1. n \in DOMAIN pending /\ pending' = Erase(n) /\ asked' = asked /\ restarts' = restarts
  BY DEF PressExpired, PressConfirm, PressCancel
<1>2. CASE PressExpired(n, u, roles) \/ PressCancel(n, u, roles)
  <2>1. PICK how \in {"expired", "cancelled"} : End(n, how, pending[n], u, roles)
    BY <1>2 DEF PressExpired, PressCancel
  <2>2. UNCHANGED <<level, money, audit>>
    BY <1>2 DEF PressExpired, PressCancel, player
  <2>3. Approval!Move(n, "waiting", "dismissed")
    BY <1>1, <2>1, PressMoves DEF Ends
  <2>4. Logged' = Logged
    BY <2>2, LogKept
  <2> QED
    BY <1>1, <2>2, <2>3, <2>4 DEF Approval!Dismiss
<1>3. CASE PressConfirm(n, u, roles)
  <2>1. PICK how \in Outcomes(pending[n]) :
          /\ End(n, how, pending[n], u, roles)
          /\ Affect(pending[n], how)
          /\ IF how = "threw" THEN UNCHANGED audit ELSE LogAudit(n, how, u)
    BY <1>3 DEF PressConfirm, ExecuteAction
  <2>2. how \in {"ran", "failed", "threw"}
    BY <2>1, OutcomesOK
  <2>3. Approval!Move(n, "waiting", "done")
    BY <1>1, <2>1, <2>2, PressMoves DEF Ends
  <2>4. CASE how = "threw"
    <3>1. UNCHANGED <<level, money, audit>>
      BY <2>1, <2>4 DEF Affect
    <3>2. Logged' = Logged
      BY <3>1, LogKept
    <3> QED
      BY <1>1, <2>3, <3>1, <3>2 DEF Approval!Execute
  <2>5. CASE how # "threw"
    <3>1. Approval!WriteDown(n)
      BY <2>1, <2>5, LogGrows
    <3> QED
      BY <1>1, <2>3, <3>1 DEF Approval!Execute
  <2> QED
    BY <2>4, <2>5
<1> QED
  BY <1>2, <1>3

\* A restart dismisses whatever waits.
LEMMA RestartDismisses == ASSUME IInv, Restart PROVE Approval!Restart
<1>1. /\ DOMAIN pending' = {} /\ restarts' = restarts + 1
      /\ UNCHANGED <<level, money, asked, ended, audit>>
  BY DEF Restart
<1>2. ASSUME NEW n \in Tokens
      PROVE  StageOf(n)' = IF Stage[n] = "waiting" THEN "dismissed" ELSE Stage[n]
  <2>1. Stage[n] = StageOf(n) /\ Ran(n)' = Ran(n)
    BY <1>1 DEF Stage, Ran
  <2>2. CASE n \in DOMAIN pending
    <3>1. Stage[n] = "waiting"
      BY <2>1, <2>2, WaitingStage
    <3>2. ended[n] = <<>>
      BY <2>2 DEF IInv, RequestOK, PendingOK
    <3>3. Ran(n) = {}
      BY <3>2 DEF Ran
    <3>4. ~ (n > Len(asked))
      BY <2>2 DEF IInv, StateOK
    <3> QED
      BY <1>1, <2>1, <3>1, <3>3, <3>4 DEF StageOf
  <2>3. CASE n \notin DOMAIN pending
    <3>1. StageOf(n)' = StageOf(n)
      BY <1>1, <2>3, StageKept
    <3>2. StageOf(n) # "waiting"
      BY <2>3, WaitingStage
    <3> QED
      BY <2>1, <3>1, <3>2
  <2> QED
    BY <2>2, <2>3
<1>3. Stage' = [n \in Tokens |-> StageOf(n)']
  BY DEF Stage
<1>4. Stage' = [n \in Tokens |-> IF Stage[n] = "waiting" THEN "dismissed" ELSE Stage[n]]
  BY <1>2, <1>3
<1>5. Logged' = Logged
  BY <1>1, LogKept
<1> QED
  BY <1>1, <1>4, <1>5 DEF Approval!Restart

\* Time, log-ins and reloads of the configuration are none of its business.
LEMMA OthersStutter ==
  ASSUME Clock \/ LogInOrOut \/ ReloadConfig \/ UNCHANGED vars
  PROVE  UNCHANGED Approval!vars
<1>1. UNCHANGED <<pending, asked, ended, audit, level, money, restarts>>
  BY DEF Clock, LogInOrOut, ReloadConfig, vars, player
<1>2. \A n \in Tokens : StageOf(n)' = StageOf(n)
  BY <1>1, StageKept
<1>3. Stage' = Stage
  BY <1>2 DEF Stage
<1>4. Logged' = Logged
  BY <1>1, LogKept
<1> QED
  BY <1>1, <1>3, <1>4 DEF Approval!vars

LEMMA ApprovalStep ==
  ASSUME IInv, [Next]_vars PROVE [Approval!Next]_(Approval!vars)
<1>1. CASE \E u \in Users, roles \in SUBSET Roles, ch \in Channels, cmd \in Commands,
              v \in Values : RequestConfirmation(u, roles, ch, cmd, v)
  BY <1>1, ConfirmationAsks DEF Approval!Next
<1>2. CASE \E u \in Users, roles \in SUBSET Roles, ch \in Channels, cmd \in Commands,
              v \in Values : HandleCommand(u, roles, ch, cmd, v)
  BY <1>2, CommandExecutes DEF Approval!Next
<1>3. CASE \E n \in Tokens, u \in Users, roles \in SUBSET Roles :
              \/ PressExpired(n, u, roles)
              \/ PressConfirm(n, u, roles)
              \/ PressCancel(n, u, roles)
  BY <1>3, PressStep DEF Approval!Next
<1>4. CASE Restart
  BY <1>4, RestartDismisses DEF Approval!Next
<1>5. CASE Clock \/ LogInOrOut \/ ReloadConfig \/ UNCHANGED vars
  BY <1>5, OthersStutter
<1> QED
  BY <1>1, <1>2, <1>3, <1>4, <1>5 DEF Next

\* For any users, commands, configurations and restarts, the confirmation flow keeps
\* the promise of ApprovedCommands.
THEOREM Implements == Spec => ImplementsApproval
<1>1. Init => Approval!Init
  BY ApprovalInit
<1>2. IInv /\ [Next]_vars => [Approval!Next]_(Approval!vars)
  BY ApprovalStep
<1> QED
  BY <1>1, <1>2, Invariance, PTL DEF Spec, ImplementsApproval, Approval!Spec

\* What the promise comes to: a player changes only when a request that waited for its
\* confirmation is carried out and written down, the log loses nothing, a request that
\* came to its end stays there, and after a restart none waits.
PromiseKept ==
  /\ <<level, money>>' # <<level, money>> =>
       \E n \in Tokens : Stage[n] = "waiting" /\ Stage'[n] = "done" /\ n \in Logged'
  /\ Logged \subseteq Logged'
  /\ \A n \in Tokens : Stage[n] \in {"done", "dismissed"} => Stage'[n] = Stage[n]
  /\ restarts' # restarts => \A n \in Tokens : Stage'[n] # "waiting"

LEMMA PromiseStep == ASSUME Approval!Next PROVE PromiseKept
<1>1. Stage = [n \in Tokens |-> Stage[n]]
  BY DEF Stage
<1>2. CASE Approval!Restart
  BY <1>2 DEF Approval!Restart, PromiseKept
<1>3. ASSUME NEW r \in Tokens, NEW from, NEW to, Approval!Move(r, from, to),
             from \in {"unmade", "waiting"}
      PROVE  /\ \A n \in Tokens : Stage[n] \in {"done", "dismissed"} => Stage'[n] = Stage[n]
             /\ Stage[r] = from /\ Stage'[r] = to
  BY <1>1, <1>3 DEF Approval!Move
<1>4. ASSUME NEW r \in Tokens,
             Approval!Ask(r) \/ Approval!ExecuteAtOnce(r) \/ Approval!Dismiss(r)
      PROVE  PromiseKept
  BY <1>3, <1>4
     DEF Approval!Ask, Approval!ExecuteAtOnce, Approval!Dismiss, Approval!WriteDown, PromiseKept
<1>5. ASSUME NEW r \in Tokens, Approval!Execute(r) PROVE PromiseKept
  <2>1. Logged \subseteq Logged' /\ restarts' = restarts
    BY <1>5 DEF Approval!Execute, Approval!WriteDown
  <2>2. Approval!Move(r, "waiting", "done")
    BY <1>5 DEF Approval!Execute
  <2>3. r \in Logged' \/ UNCHANGED <<level, money>>
    BY <1>5 DEF Approval!Execute, Approval!WriteDown
  <2> QED
    BY <1>3, <2>1, <2>2, <2>3 DEF PromiseKept
<1> QED
  BY <1>2, <1>4, <1>5 DEF Approval!Next

\* Whatever keeps the promise of ApprovedCommands changes a player only upon a
\* confirmation it has on record, and never carries out a dismissed or forgotten request.
THEOREM PromiseSuffices == ImplementsApproval => [][PromiseKept]_(Approval!vars)
BY PromiseStep, PTL DEF ImplementsApproval, Approval!Spec
=============================================================================
