-------------------------- MODULE RoleSetupProofs --------------------------
(***************************************************************************)
(* Proofs about RoleSetup, for any roles, any number of setups, and any    *)
(* width of the clock: what a report says, when a role can be there twice, *)
(* and the distance between two creations.                                 *)
(*                                                                         *)
(* A role of a setup is always in one of five places: waiting, under       *)
(* request, created, existing or failed.  A role under request, or         *)
(* waiting, and not queued blindly, belongs to one setup only, and the     *)
(* guild does not have it.                                                 *)
(***************************************************************************)
EXTENDS RoleSetup, FiniteSetTheorems, TLAPS

\* The setup holds a role it has not put under a heading yet.
Held(s) == phase[s] \in {"request", "reply", "dropped"}

Chained ==
  \A s \in Setups :
    /\ current[s] = NoName <=> ~ Held(s)
    /\ reply[s] # "none" <=> phase[s] = "reply"
    /\ phase[s] \in {"idle", "done"} => pending[s] = {}
    /\ phase[s] = "idle" => created[s] = {} /\ failed[s] = {} /\ existing[s] = {}

\* Every name is in one place.
Partitioned ==
  \A s \in Setups : \A n \in Names :
    /\ phase[s] # "idle" => \/ n \in pending[s] \/ current[s] = n
                            \/ n \in created[s] \cup existing[s] \cup failed[s]
    /\ n \in pending[s] =>
         /\ current[s] # n
         /\ n \notin created[s] /\ n \notin existing[s] /\ n \notin failed[s]
    /\ current[s] = n => n \notin created[s] /\ n \notin existing[s] /\ n \notin failed[s]
    /\ n \in created[s] => n \notin existing[s] /\ n \notin failed[s]
    /\ n \in existing[s] => n \notin failed[s]

Backed(s) ==
  /\ reply[s] = "id" => current[s] \in Present
  /\ reply[s] = "other" => current[s] \in Present \cup errored
  /\ created[s] \subseteq Present
  /\ existing[s] \subseteq Present \cup errored

\* What the cache, the lists, the replies and the results say is so.
Truthful ==
  /\ cache \subseteq Present
  /\ \A i \in DOMAIN lists : lists[i] \subseteq Present
  /\ \A s \in Setups : Backed(s)

\* A role that is not queued blindly has one setup, and the guild not more than one.
Unique ==
  \A n \in Names \ blind :
    /\ guild[n] <= 1
    /\ \A s \in Setups : Coming(s, n) => guild[n] = 0
    /\ \A s, t \in Setups : Coming(s, n) /\ Coming(t, n) => s = t

\* The timer makes up for what the setup's age lacks.
Timed ==
  \A s \in Setups :
    /\ phase[s] = "idle" => age[s] = Delay
    /\ phase[s] = "request" => age[s] = Delay \/ early[s] = TRUE
    /\ phase[s] = "wait" /\ early[s] = FALSE => fire[s] + age[s] >= now + Delay

\* The inductive invariant.
IInv == TypeOK /\ Chained /\ Partitioned /\ Truthful /\ Unique /\ Timed

-----------------------------------------------------------------------------
LEMMA InWrap == \A x \in Nat : x % Wrap \in 0 .. Wrap - 1
  BY SetupAssumption

LEMMA NoWrap == \A x \in Nat : x < Wrap => x % Wrap = x
  BY SetupAssumption

LEMMA InitIInv == Init => IInv
<1> SUFFICES ASSUME Init PROVE IInv
  OBVIOUS
<1>1. TypeOK
  BY SetupAssumption DEF Init, TypeOK, Phases, Replies
<1>2. Chained /\ Partitioned
  BY SetupAssumption DEF Init, Chained, Partitioned, Held
<1>3. Truthful /\ Timed
  BY DEF Init, Truthful, Backed, Timed
<1>4. Unique
  <2>1. \A s \in Setups, n \in Names : ~ Coming(s, n)
    BY DEF Init, Coming
  <2>2. \A n \in Names : guild[n] \in {0, 1}
    BY DEF Init
  <2> SUFFICES ASSUME NEW n \in Names PROVE guild[n] <= 1
    BY <2>1 DEF Unique
  <2> QED
    BY <2>2
<1> QED
  BY <1>1, <1>2, <1>3, <1>4 DEF IInv

-----------------------------------------------------------------------------
(***************************************************************************)
(* Types.                                                                  *)
(***************************************************************************)

LEMMA CreateNextType ==
  ASSUME TypeOK, NEW s \in Setups, NEW queue \in SUBSET Names, CreateNextRole(s, queue)
  PROVE  /\ phase' \in [Setups -> Phases] /\ pending' \in [Setups -> SUBSET Names]
         /\ current' \in [Setups -> Names \cup {NoName}]
         /\ reply' \in [Setups -> Replies] /\ errored' \subseteq Names
<1>1. CASE queue = {} /\ phase' = [phase EXCEPT ![s] = "done"]
           /\ pending' = [pending EXCEPT ![s] = {}] /\ UNCHANGED <<current, reply, errored>>
  BY <1>1 DEF TypeOK, Phases
<1>2. ASSUME NEW n \in queue,
             pending' = [pending EXCEPT ![s] = queue \ {n}],
             current' = [current EXCEPT ![s] = n],
             \/ /\ phase' = [phase EXCEPT ![s] = "request"]
                /\ reply' = [reply EXCEPT ![s] = "none"]
                /\ errored' = errored
             \/ /\ phase' = [phase EXCEPT ![s] = "reply"]
                /\ reply' = [reply EXCEPT ![s] = "other"]
                /\ errored' = errored \cup {n}
      PROVE  /\ phase' \in [Setups -> Phases] /\ pending' \in [Setups -> SUBSET Names]
             /\ current' \in [Setups -> Names \cup {NoName}]
             /\ reply' \in [Setups -> Replies] /\ errored' \subseteq Names
  BY <1>2 DEF TypeOK, Phases, Replies
<1> QED
  BY <1>1, <1>2 DEF CreateNextRole

LEMMA PostDelayedType ==
  ASSUME TypeOK, NEW s \in Setups, PostDelayed(s)
  PROVE  /\ phase' \in [Setups -> Phases] /\ reply' \in [Setups -> Replies]
         /\ current' \in [Setups -> Names \cup {NoName}]
         /\ fire' \in [Setups -> 0 .. Wrap - 1] /\ early' \in [Setups -> BOOLEAN]
<1>1. now + Delay \in Nat /\ (now + Delay) % Wrap \in 0 .. Wrap - 1
  <2>1. now + Delay \in Nat
    BY SetupAssumption DEF TypeOK
  <2> QED
    BY <2>1, InWrap
<1> QED
  BY <1>1 DEF TypeOK, PostDelayed, Phases, Replies

LEMMA NextType == ASSUME IInv, [Next]_vars PROVE TypeOK'
<1> USE DEF IInv
<1>1. ASSUME NEW s \in Setups, Start(s) PROVE TypeOK'
  BY <1>1, CreateNextType
     DEF Start, TypeOK, timeVars, cacheVars
<1>2. ASSUME NEW s \in Setups, Reply(s) PROVE TypeOK'
  <2>1. current[s] \in Names
    BY <1>2 DEF Reply, Chained, Held, TypeOK
  <2> QED
    <3>1. PostDelayed(s) /\ UNCHANGED <<hasGuild, now, age, guildVars, cacheVars, pending,
                                        limited>>
      BY <1>2 DEF Reply
    <3>2. /\ created' \in [Setups -> SUBSET Names] /\ existing' \in [Setups -> SUBSET Names]
          /\ failed' \in [Setups -> SUBSET Names]
      <4>1. \A heading \in [Setups -> SUBSET Names] :
              [heading EXCEPT ![s] = @ \cup {current[s]}] \in [Setups -> SUBSET Names]
        BY <2>1
      <4>2. /\ created \in [Setups -> SUBSET Names] /\ existing \in [Setups -> SUBSET Names]
            /\ failed \in [Setups -> SUBSET Names]
        BY DEF TypeOK
      <4>3. \/ /\ created' = [created EXCEPT ![s] = @ \cup {current[s]}]
               /\ UNCHANGED <<existing, failed>>
            \/ /\ failed' = [failed EXCEPT ![s] = @ \cup {current[s]}]
               /\ UNCHANGED <<created, existing>>
            \/ /\ existing' = [existing EXCEPT ![s] = @ \cup {current[s]}]
               /\ UNCHANGED <<created, failed>>
        BY <1>2 DEF Reply
      <4> HIDE DEF IInv
      <4> QED
        BY <4>1, <4>2, <4>3
    <3> QED
      BY <3>1, <3>2, PostDelayedType DEF TypeOK, guildVars, cacheVars
<1>3. ASSUME NEW s \in Setups, Fire(s) PROVE TypeOK'
  <2>1. pending[s] \in SUBSET Names /\ 0 \in 0 .. Wrap - 1
    BY SetupAssumption DEF TypeOK
  <2> QED
    BY <1>3, <2>1, CreateNextType DEF Fire, TypeOK, cacheVars, results
<1>4. ASSUME NEW s \in Setups, CreateRole(s) PROVE TypeOK'
  <2>1. current[s] \in Names /\ 0 \in 0 .. Delay
    BY <1>4, SetupAssumption DEF CreateRole, Chained, Held, TypeOK
  <2>2. guild' \in [Names -> Nat] /\ age' \in [Setups -> 0 .. Delay] /\ errored' \subseteq Names
    <3>1. CASE guild' = [guild EXCEPT ![current[s]] = @ + 1] /\ errored' = errored
               /\ age' = [age EXCEPT ![s] = 0]
      BY <3>1, <2>1 DEF TypeOK
    <3>2. CASE errored' = errored \cup {current[s]} /\ UNCHANGED <<guild, age>>
      BY <3>2, <2>1 DEF TypeOK
    <3> QED
      BY <1>4, <3>1, <3>2 DEF CreateRole
  <2>3. /\ phase' \in [Setups -> Phases] /\ reply' \in [Setups -> Replies]
        /\ limited' \in [Setups -> BOOLEAN] /\ early' \in [Setups -> BOOLEAN]
    BY <1>4 DEF CreateRole, TypeOK, Phases, Replies
  <2> QED
    BY <1>4, <2>2, <2>3 DEF CreateRole, TypeOK, cacheVars, results
<1>5. ASSUME NEW s \in Setups, RateLimit(s) PROVE TypeOK'
  BY <1>5 DEF RateLimit, TypeOK, timeVars, guildVars, cacheVars, results, Phases
<1>6. ASSUME RefreshRoles PROVE TypeOK'
  <2>1. Present \in SUBSET Names /\ {} \in SUBSET Names
    BY DEF Present
  <2> QED
    BY <1>6, <2>1 DEF RefreshRoles, TypeOK, timeVars, guildVars, chainVars, results
<1>7. ASSUME ProcessGuildRoles PROVE TypeOK'
  BY <1>7 DEF ProcessGuildRoles, TypeOK, timeVars, guildVars, chainVars, results
<1>8. ASSUME Tick PROVE TypeOK'
  <2>1. (now + 1) % Wrap \in 0 .. Wrap - 1
    <3>1. now + 1 \in Nat
      BY SetupAssumption DEF TypeOK
    <3> QED
      BY <3>1, InWrap
  <2>2. age' \in [Setups -> 0 .. Delay]
    BY <1>8, SetupAssumption DEF Tick, TypeOK
  <2> QED
    BY <1>8, <2>1, <2>2 DEF Tick, TypeOK, guildVars, cacheVars, chainVars, results
<1>9. CASE UNCHANGED vars
  BY <1>9 DEF vars, timeVars, guildVars, cacheVars, chainVars, results, TypeOK
<1> QED
  BY <1>1, <1>2, <1>3, <1>4, <1>5, <1>6, <1>7, <1>8, <1>9 DEF Next, Chain
-----------------------------------------------------------------------------
(***************************************************************************)
(* What a step changes of the chains.                                      *)
(***************************************************************************)

\* The other steps leave the chains alone.
LEMMA Chains ==
  ASSUME [Next]_vars
  PROVE  \/ \E s \in Setups : Start(s) \/ Reply(s) \/ Fire(s) \/ CreateRole(s) \/ RateLimit(s)
         \/ UNCHANGED <<chainVars, results, guildVars>>
  BY DEF Next, Chain, RefreshRoles, ProcessGuildRoles, Tick, vars

LEMMA NextChained == ASSUME IInv, TypeOK', [Next]_vars PROVE Chained'
<1> USE SetupAssumption DEF IInv
<1>1. ASSUME NEW s \in Setups, Start(s) PROVE Chained'
  BY <1>1, SMTT(20) DEF Start, CreateNextRole, Chained, Held, TypeOK
<1>2. ASSUME NEW s \in Setups, Reply(s) PROVE Chained'
  BY <1>2, SMTT(20) DEF Reply, PostDelayed, Chained, Held, TypeOK
<1>3. ASSUME NEW s \in Setups, Fire(s) PROVE Chained'
  BY <1>3, SMTT(20) DEF Fire, CreateNextRole, Chained, Held, TypeOK, results
<1>4. ASSUME NEW s \in Setups, CreateRole(s) PROVE Chained'
  BY <1>4 DEF CreateRole, Chained, Held, TypeOK, results, Replies
<1>5. ASSUME NEW s \in Setups, RateLimit(s) PROVE Chained'
  <2>1. /\ phase[s] = "request" /\ phase' \in {phase, [phase EXCEPT ![s] = "dropped"]}
        /\ UNCHANGED <<pending, current, reply, created, existing, failed>>
    BY <1>5 DEF RateLimit, results
  <2> QED
    BY <2>1 DEF Chained, Held, TypeOK
<1>6. CASE UNCHANGED <<chainVars, results, guildVars>>
  BY <1>6 DEF chainVars, results, Chained, Held
<1> QED
  BY <1>1, <1>2, <1>3, <1>4, <1>5, <1>6, Chains

LEMMA NextPartitioned == ASSUME IInv, TypeOK', [Next]_vars PROVE Partitioned'
<1> USE SetupAssumption DEF IInv
<1>1. ASSUME NEW s \in Setups, Start(s) PROVE Partitioned'
  BY <1>1, SMTT(20) DEF Start, CreateNextRole, Chained, Partitioned, Held, TypeOK
<1>2. ASSUME NEW s \in Setups, Reply(s) PROVE Partitioned'
  BY <1>2 DEF Reply, PostDelayed, Chained, Partitioned, Held, TypeOK
<1>3. ASSUME NEW s \in Setups, Fire(s) PROVE Partitioned'
  BY <1>3 DEF Fire, CreateNextRole, Chained, Partitioned, Held, TypeOK, results
<1>4. ASSUME NEW s \in Setups, CreateRole(s) PROVE Partitioned'
  BY <1>4 DEF CreateRole, Chained, Partitioned, Held, TypeOK, results, Replies
<1>5. ASSUME NEW s \in Setups, RateLimit(s) PROVE Partitioned'
  BY <1>5, SMTT(20) DEF RateLimit, Chained, Partitioned, Held, TypeOK, results
<1>6. CASE UNCHANGED <<chainVars, results, guildVars>>
  BY <1>6 DEF chainVars, results, Partitioned
<1> QED
  BY <1>1, <1>2, <1>3, <1>4, <1>5, <1>6, Chains

\* Roles are never taken away.
LEMMA Grows ==
  ASSUME IInv, [Next]_vars
  PROVE  Present \subseteq Present' /\ errored \subseteq errored'
<1> USE DEF IInv
<1>1. ASSUME NEW s \in Setups, Start(s) \/ Reply(s) \/ Fire(s) \/ RateLimit(s)
      PROVE  guild' = guild /\ errored \subseteq errored'
  BY <1>1 DEF Start, Reply, Fire, RateLimit, CreateNextRole, guildVars
<1>2. ASSUME NEW s \in Setups, CreateRole(s)
      PROVE  Present \subseteq Present' /\ errored \subseteq errored'
  <2>1. CASE guild' = [guild EXCEPT ![current[s]] = @ + 1] /\ errored' = errored
    BY <2>1 DEF Present, TypeOK
  <2> QED
    BY <1>2, <2>1 DEF CreateRole, Present
<1>3. CASE UNCHANGED guildVars
  BY <1>3 DEF guildVars, Present
<1> QED
  BY <1>1, <1>2, <1>3, Chains DEF Present

LEMMA NextTruthful == ASSUME IInv, TypeOK', [Next]_vars PROVE Truthful'
<1> USE DEF IInv
<1>1. Present \subseteq Present' /\ errored \subseteq errored'
  BY Grows
<1>2. cache' \subseteq Present' /\ \A i \in DOMAIN lists' : lists'[i] \subseteq Present'
  <2>1. CASE RefreshRoles
    <3>1. UNCHANGED <<cache, guild>>
      BY <2>1 DEF RefreshRoles, guildVars
    <3>2. PICK answer \in {Present, {}} : lists' = Append(lists, answer)
      BY <2>1 DEF RefreshRoles
    <3>3. lists \in Seq(SUBSET Names) /\ answer \subseteq Present
      BY <3>2 DEF TypeOK
    <3> QED
      BY <3>1, <3>2, <3>3 DEF Truthful, Present
  <2>2. CASE ProcessGuildRoles
    <3>1. UNCHANGED guild /\ lists # <<>> /\ cache' = Head(lists) /\ lists' = Tail(lists)
      BY <2>2 DEF ProcessGuildRoles, guildVars
    <3> QED
      BY <3>1 DEF Truthful, Present, TypeOK
  <2>3. CASE UNCHANGED <<cache, lists>>
    BY <1>1, <2>3 DEF Truthful
  <2> QED
    BY <2>1, <2>2, <2>3 DEF Next, Chain, Start, Reply, Fire, CreateRole, RateLimit, Tick,
       cacheVars, vars
<1>3. ASSUME NEW t \in Setups PROVE Backed(t)'
  <2>1. ASSUME NEW s \in Setups, Start(s) PROVE Backed(t)'
    <3>1. existing' = [existing EXCEPT ![s] = Names \cap cache] /\ created' = created
      BY <2>1 DEF Start
    <3>2. existing'[t] \subseteq Present' \cup errored' /\ created'[t] \subseteq Present'
      BY <3>1, <1>1 DEF Truthful, Backed, TypeOK
    <3>3. /\ reply'[t] = "id" => current'[t] \in Present'
          /\ reply'[t] = "other" => current'[t] \in Present' \cup errored'
      BY <2>1, <1>1, SMTT(20) DEF Start, CreateNextRole, Truthful, Backed, TypeOK
    <3> QED
      BY <3>2, <3>3 DEF Backed
  <2>2. ASSUME NEW s \in Setups, Reply(s) PROVE Backed(t)'
    BY <2>2, <1>1 DEF Reply, PostDelayed, Truthful, Backed, TypeOK
  <2>3. ASSUME NEW s \in Setups, Fire(s) PROVE Backed(t)'
    BY <2>3, <1>1 DEF Fire, CreateNextRole, Truthful, Backed, TypeOK, results
  <2>4. ASSUME NEW s \in Setups, CreateRole(s) PROVE Backed(t)'
    <3>1. PICK r \in Replies \ {"none"}, done \in BOOLEAN :
            /\ r = "id" => done
            /\ reply' = [reply EXCEPT ![s] = r]
            /\ IF done THEN guild' = [guild EXCEPT ![current[s]] = @ + 1]
               ELSE errored' = errored \cup {current[s]}
      BY <2>4 DEF CreateRole
    <3>2. current[s] \in Names
      BY <2>4 DEF CreateRole, Chained, Held, TypeOK
    <3>3. done => current[s] \in Present'
      BY <3>1, <3>2 DEF Present, TypeOK
    <3>4. UNCHANGED <<current, created, existing>>
      BY <2>4 DEF CreateRole, results
    <3> QED
      BY <1>1, <3>1, <3>3, <3>4 DEF Truthful, Backed, TypeOK
  <2>5. ASSUME NEW s \in Setups, RateLimit(s) PROVE Backed(t)'
    BY <2>5, <1>1 DEF RateLimit, Truthful, Backed, results
  <2>6. CASE UNCHANGED <<chainVars, results, guildVars>>
    BY <2>6, <1>1 DEF chainVars, results, Truthful, Backed
  <2> QED
    BY <2>1, <2>2, <2>3, <2>4, <2>5, <2>6, Chains
<1> QED
  BY <1>2, <1>3 DEF Truthful

\* A creation meets nothing but its own setup's request.
LEMMA NextUnique == ASSUME IInv, TypeOK', [Next]_vars PROVE Unique'
<1> USE DEF IInv
<1> SUFFICES ASSUME NEW n \in Names, n \notin blind'
             PROVE  /\ guild'[n] <= 1
                    /\ \A s \in Setups : Coming(s, n)' => guild'[n] = 0
                    /\ \A s, t \in Setups : Coming(s, n)' /\ Coming(t, n)' => s = t
  BY DEF Unique
<1>1. n \notin blind => /\ guild[n] <= 1 /\ guild[n] \in Nat
                        /\ \A s \in Setups : Coming(s, n) => guild[n] = 0
                        /\ \A s, t \in Setups : Coming(s, n) /\ Coming(t, n) => s = t
  BY DEF Unique, TypeOK
<1>2. ASSUME NEW s \in Setups, Start(s) 
      PROVE  /\ n \notin blind /\ guild' = guild
             /\ \A t \in Setups :
                  Coming(t, n)' /\ ~ Coming(t, n)
                    => t = s /\ guild[n] = 0 /\ \A u \in Setups : ~ Coming(u, n)
  <2>1. /\ n \notin blind /\ guild' = guild
        /\ n \notin cache => n \notin Present /\ \A u \in Setups : ~ Coming(u, n)
    BY <1>2 DEF Start
  <2>2. n \notin Present => guild[n] = 0
    BY DEF Present, TypeOK
  <2>3. \A t \in Setups : Coming(t, n)' => Coming(t, n) \/ (t = s /\ n \in Names \ cache)
    <3>1. /\ phase \in [Setups -> Phases] /\ pending \in [Setups -> SUBSET Names]
          /\ current \in [Setups -> Names \cup {NoName}]
      BY DEF TypeOK
    <3>2. CreateNextRole(s, Names \ cache)
      BY <1>2 DEF Start
    <3>3. \A t \in Setups : t # s => /\ phase'[t] = phase[t] /\ pending'[t] = pending[t]
                                     /\ current'[t] = current[t]
      BY <3>1, <3>2 DEF CreateNextRole
    <3>4. pending'[s] \subseteq Names \ cache
      BY <3>1, <3>2 DEF CreateNextRole
    <3>5. phase'[s] = "request" => current'[s] \in Names \ cache
      BY <3>1, <3>2 DEF CreateNextRole
    <3> QED
      BY <3>3, <3>4, <3>5 DEF Coming
  <2>4. ASSUME NEW t \in Setups, Coming(t, n)', ~ Coming(t, n)
        PROVE  t = s /\ guild[n] = 0 /\ \A u \in Setups : ~ Coming(u, n)
    BY <2>1, <2>2, <2>3, <2>4
  <2> QED
    BY <2>1, <2>4
<1>3. ASSUME NEW s \in Setups, Reply(s) \/ Fire(s) \/ RateLimit(s)
      PROVE  /\ blind' = blind /\ guild' = guild
             /\ \A t \in Setups : Coming(t, n)' => Coming(t, n)
  BY <1>3, SMTT(20)
     DEF Reply, PostDelayed, Fire, RateLimit, CreateNextRole, guildVars, Coming, TypeOK
<1>4. ASSUME NEW s \in Setups, CreateRole(s)
      PROVE  /\ blind' = blind
             /\ \A t \in Setups : Coming(t, n)' => Coming(t, n)
             /\ \/ guild'[n] = guild[n]
                \/ guild'[n] = guild[n] + 1 /\ Coming(s, n) /\ ~ Coming(s, n)'
  BY <1>4 DEF CreateRole, Coming, Partitioned, TypeOK
<1>5. CASE UNCHANGED <<chainVars, results, guildVars>>
  BY <1>1, <1>5 DEF chainVars, guildVars, Coming
<1> QED
  BY <1>1, <1>2, <1>3, <1>4, <1>5, Chains

LEMMA NextTimed == ASSUME IInv, TypeOK', [Next]_vars PROVE Timed'
<1> USE SetupAssumption DEF IInv
<1>1. ASSUME NEW s \in Setups, Start(s) PROVE Timed'
  BY <1>1 DEF Start, CreateNextRole, Timed, TypeOK, timeVars
<1>2. ASSUME NEW s \in Setups, Reply(s) PROVE Timed'
  <2>1. now + Delay \in Nat /\ (now + Delay < Wrap => (now + Delay) % Wrap = now + Delay)
    <3>1. now + Delay \in Nat
      BY DEF TypeOK
    <3> QED
      BY <3>1, NoWrap
  <2>2. /\ phase' = [phase EXCEPT ![s] = "wait"]
        /\ fire' = [fire EXCEPT ![s] = (now + Delay) % Wrap]
        /\ early' = [early EXCEPT ![s] = now + Delay >= Wrap]
        /\ UNCHANGED <<now, age>>
    BY <1>2 DEF Reply, PostDelayed
  <2>3. ASSUME NEW t \in Setups, t # s
        PROVE  /\ phase'[t] = phase[t] /\ fire'[t] = fire[t] /\ early'[t] = early[t]
    BY <2>2, <2>3 DEF TypeOK
  <2>4. early'[s] = FALSE => fire'[s] + age'[s] >= now' + Delay
    <3>1. early'[s] = (now + Delay >= Wrap) /\ fire'[s] = (now + Delay) % Wrap
      BY <2>2 DEF TypeOK
    <3>2. early'[s] = FALSE => ~ (now + Delay >= Wrap)
      BY <3>1, Zenon
    <3>3. early'[s] = FALSE => fire'[s] = now + Delay
      BY <2>1, <3>1, <3>2 DEF TypeOK
    <3> QED
      BY <2>2, <3>3 DEF TypeOK
  <2> QED
    BY <2>2, <2>3, <2>4 DEF Timed, TypeOK
<1>3. ASSUME NEW s \in Setups, Fire(s) PROVE Timed'
  <2>1. age[s] = Delay \/ early[s] = TRUE
    BY <1>3 DEF Fire, Timed, TypeOK
  <2>2. /\ fire' = [fire EXCEPT ![s] = 0] /\ UNCHANGED <<now, age, early>>
        /\ \A t \in Setups : phase'[t] = IF t = s THEN phase'[s] ELSE phase[t]
        /\ phase'[s] \in {"done", "request", "reply"}
    BY <1>3 DEF Fire, CreateNextRole, TypeOK
  <2> QED
    BY <2>1, <2>2 DEF Timed, TypeOK
<1>4. ASSUME NEW s \in Setups, CreateRole(s) PROVE Timed'
  <2>1. /\ UNCHANGED <<now, fire>>
        /\ phase'[s] = "reply"
        /\ \A t \in Setups \ {s} : phase'[t] = phase[t] /\ early'[t] = early[t]
                                  /\ age'[t] = age[t]
    BY <1>4 DEF CreateRole, TypeOK
  <2> QED
    BY <2>1 DEF Timed
<1>5. ASSUME NEW s \in Setups, RateLimit(s) PROVE Timed'
  BY <1>5 DEF RateLimit, Timed, TypeOK, timeVars
<1>6. ASSUME Tick PROVE Timed'
  <2>1. \A s \in Setups : phase[s] = "wait" => fire[s] > now
    BY <1>6 DEF Tick
  <2>2. PICK w \in Setups : phase[w] = "wait"
    BY <1>6 DEF Tick
  <2>3. now' = now + 1
    <3>1. now + 1 \in Nat /\ now + 1 < Wrap
      BY <2>1, <2>2 DEF TypeOK
    <3> QED
      BY <1>6, <3>1, NoWrap DEF Tick
  <2>4. /\ UNCHANGED <<phase, fire, early>>
        /\ \A s \in Setups : age'[s] = IF age[s] < Delay THEN age[s] + 1 ELSE Delay
    BY <1>6 DEF Tick, TypeOK, chainVars
  <2> SUFFICES ASSUME NEW s \in Setups
               PROVE  /\ phase[s] = "idle" => age'[s] = Delay
                      /\ phase[s] = "request" => age'[s] = Delay \/ early[s] = TRUE
                      /\ phase[s] = "wait" /\ early[s] = FALSE
                           => fire[s] + age'[s] >= now' + Delay
    BY <2>4 DEF Timed
  <2>5. /\ age[s] \in Nat /\ fire[s] \in Nat /\ now \in Nat
        /\ age[s] = Delay => age'[s] = Delay
        /\ age'[s] = age[s] + 1 \/ age'[s] = Delay
    BY <2>4 DEF TypeOK
  <2>6. phase[s] = "wait" /\ early[s] = FALSE
          => fire[s] + age[s] >= now + Delay /\ fire[s] > now
    BY <2>1 DEF Timed
  <2>7. phase[s] = "wait" /\ early[s] = FALSE => fire[s] + age'[s] >= now' + Delay
    BY <2>3, <2>5, <2>6
  <2> QED
    BY <2>5, <2>7 DEF Timed
<1>7. ASSUME RefreshRoles \/ ProcessGuildRoles \/ UNCHANGED vars PROVE Timed'
  BY <1>7 DEF RefreshRoles, ProcessGuildRoles, vars, timeVars, chainVars, Timed
<1> QED
  BY <1>1, <1>2, <1>3, <1>4, <1>5, <1>6, <1>7 DEF Next, Chain

LEMMA NextIInv == IInv /\ [Next]_vars => IInv'
<1> SUFFICES ASSUME IInv, [Next]_vars PROVE IInv'
  OBVIOUS
<1>1. TypeOK'
  BY NextType
<1> QED
  BY <1>1, NextChained, NextPartitioned, NextTruthful, NextUnique, NextTimed DEF IInv

\* The invariant is inductive.
THEOREM Invariance == Spec => []IInv
  BY InitIInv, NextIInv, PTL DEF Spec

-----------------------------------------------------------------------------
\* Every variable keeps its type: the timer never leaves the width of the clock.
THEOREM TypeCorrect == Spec => []TypeOK
<1>1. IInv => TypeOK
  BY DEF IInv
<1> QED
  BY <1>1, Invariance, PTL

\* The report names every role once; what it says was created or exists is there,
\* unless its request met an error.
THEOREM ReportIsTrue == Spec => []SummaryTruthful
<1>1. IInv => SummaryTruthful
  <2> SUFFICES ASSUME IInv, NEW s \in Setups, phase[s] = "done"
               PROVE  /\ created[s] \cup existing[s] \cup failed[s] = Names
                      /\ created[s] \cap existing[s] = {}
                      /\ failed[s] \cap (created[s] \cup existing[s]) = {}
                      /\ created[s] \subseteq Present
                      /\ existing[s] \subseteq Present \cup errored
    BY DEF SummaryTruthful
  <2>1. pending[s] = {} /\ current[s] \notin Names
    BY SetupAssumption DEF IInv, Chained, Held
  <2>2. /\ created[s] \subseteq Names /\ existing[s] \subseteq Names /\ failed[s] \subseteq Names
    BY DEF IInv, TypeOK
  <2>3. \A n \in Names : n \in created[s] \cup existing[s] \cup failed[s]
    BY <2>1 DEF IInv, Partitioned
  <2>4. \A n \in Names : /\ n \in created[s] => n \notin existing[s] /\ n \notin failed[s]
                         /\ n \in existing[s] => n \notin failed[s]
    BY DEF IInv, Partitioned
  <2> QED
    BY <2>2, <2>3, <2>4 DEF IInv, Truthful, Backed
<1> QED
  BY <1>1, Invariance, PTL

\* Whatever the number of setups, a name gets a second role only if it was queued
\* blindly.
THEOREM NobodyCreatesTwice == Spec => []NoDuplicateRoles
<1>1. IInv => NoDuplicateRoles
  BY DEF IInv, Unique, NoDuplicateRoles
<1> QED
  BY <1>1, Invariance, PTL

\* Two creations of one setup are Delay apart, unless the clock has wrapped around.
THEOREM CreationsArePaced == Spec => Paced
<1>1. IInv /\ [Next]_vars => [\A s \in Setups :
        (phase[s] = "request" /\ guild' # guild /\ phase'[s] = "reply")
           => (age[s] = Delay \/ early[s])]_vars
  BY DEF IInv, Timed
<1> QED
  BY <1>1, Invariance, PTL DEF Spec, Paced
-----------------------------------------------------------------------------
(***************************************************************************)
(* The refinement of RoleLedger.                                           *)
(***************************************************************************)

\* A setup nothing of which has changed has its roles where they were.
LEMMA PlaceKept ==
  ASSUME NEW s \in Setups, NEW n \in Names,
         phase'[s] = "idle" <=> phase[s] = "idle",
         pending'[s] = pending[s], current'[s] = current[s],
         created'[s] = created[s], existing'[s] = existing[s]
  PROVE  Place(s, n)' = Place(s, n)
  BY DEF Place

\* A step that arranges the roles of one setup anew.
LEMMA PlacesMove ==
  ASSUME NEW s \in Setups, NEW f, f = [n \in Names |-> f[n]],
         \A t \in Setups \ {s}, n \in Names : Place(t, n)' = Place(t, n),
         \A n \in Names : Place(s, n)' = f[n]
  PROVE  Ledger!Arrange(s, f)
<1>1. Placed' = [t \in Setups |-> [n \in Names |-> Place(t, n)']]
  BY DEF Placed
<1>2. [n \in Names |-> Place(s, n)'] = f
  OBVIOUS
<1>3. ASSUME NEW t \in Setups \ {s}
      PROVE  [n \in Names |-> Place(t, n)'] = Placed[t]
  BY DEF Placed
<1>4. Placed' = [Placed EXCEPT ![s] = f]
  BY <1>1, <1>2, <1>3 DEF Placed
<1> QED
  BY <1>4 DEF Ledger!Arrange

\* The same, when one role moves.
LEMMA OnePlaceMoves ==
  ASSUME NEW s \in Setups, NEW m \in Names, NEW p,
         \A t \in Setups \ {s}, n \in Names : Place(t, n)' = Place(t, n),
         \A n \in Names \ {m} : Place(s, n)' = Place(s, n),
         Place(s, m)' = p
  PROVE  Ledger!Arrange(s, [Placed[s] EXCEPT ![m] = p])
<1> DEFINE f == [Placed[s] EXCEPT ![m] = p]
<1>1. Placed[s] = [n \in Names |-> Place(s, n)]
  BY DEF Placed
<1>2. f = [n \in Names |-> IF n = m THEN p ELSE Place(s, n)]
  BY <1>1
<1>3. f = [n \in Names |-> f[n]] /\ \A n \in Names : Place(s, n)' = f[n]
  BY <1>2
<1> HIDE DEF f
<1>4. Ledger!Arrange(s, f)
  BY <1>3, PlacesMove
<1> QED
  BY <1>4 DEF f

\* CreateNextRole takes one role off the list, or finds none.
LEMMA CreateNextEffect ==
  ASSUME TypeOK, NEW s \in Setups, NEW queue \in SUBSET Names, CreateNextRole(s, queue)
  PROVE  /\ \A t \in Setups \ {s} :
              /\ phase'[t] = phase[t] /\ pending'[t] = pending[t]
              /\ current'[t] = current[t]
         /\ \/ /\ queue = {} /\ phase'[s] = "done"
               /\ pending'[s] = {} /\ current'[s] = current[s]
            \/ \E m \in queue :
                 /\ phase'[s] \in {"request", "reply"}
                 /\ pending'[s] = queue \ {m} /\ current'[s] = m
<1>1. CASE queue = {} /\ phase' = [phase EXCEPT ![s] = "done"]
           /\ pending' = [pending EXCEPT ![s] = {}] /\ UNCHANGED <<current, reply, errored>>
  BY <1>1 DEF TypeOK
<1>2. ASSUME NEW m \in queue,
             pending' = [pending EXCEPT ![s] = queue \ {m}],
             current' = [current EXCEPT ![s] = m],
             \/ phase' = [phase EXCEPT ![s] = "request"]
             \/ phase' = [phase EXCEPT ![s] = "reply"]
      PROVE  /\ \A t \in Setups \ {s} :
                  /\ phase'[t] = phase[t] /\ pending'[t] = pending[t]
                  /\ current'[t] = current[t]
             /\ phase'[s] \in {"request", "reply"}
             /\ pending'[s] = queue \ {m} /\ current'[s] = m
  BY <1>2 DEF TypeOK
<1> QED
  BY <1>1, <1>2 DEF CreateNextRole

\* No report is sent by a step that ends no setup, and one by a step that does.
LEMMA ReportKept ==
  ASSUME \A s \in Setups : phase'[s] = "done" <=> phase[s] = "done"
  PROVE  Reported' = Reported
<1>1. Reported' = [s \in Setups |-> phase'[s] = "done"]
  BY DEF Reported
<1> QED
  BY <1>1, Zenon DEF Reported

LEMMA ReportSent ==
  ASSUME NEW s \in Setups, phase[s] # "done", phase'[s] = "done",
         \A t \in Setups \ {s} : phase'[t] = phase[t]
  PROVE  Ledger!Report(s)
<1>1. Reported' = [t \in Setups |-> phase'[t] = "done"]
  BY DEF Reported
<1>2. ASSUME NEW t \in Setups
      PROVE  (phase'[t] = "done") = [Reported EXCEPT ![s] = TRUE][t]
  <2>1. CASE t = s
    <3>1. [Reported EXCEPT ![s] = TRUE][t] = TRUE
      BY <2>1 DEF Reported
    <3>2. (phase'[t] = "done") = TRUE
      BY <2>1
    <3> QED
      BY <3>1, <3>2
  <2>2. CASE t # s
    <3>1. [Reported EXCEPT ![s] = TRUE][t] = (phase[t] = "done")
      BY <2>2 DEF Reported
    <3> QED
      BY <2>2, <3>1
  <2> QED
    BY <2>1, <2>2
<1>3. Reported' = [Reported EXCEPT ![s] = TRUE]
  <2> DEFINE R == [Reported EXCEPT ![s] = TRUE]
  <2>1. R = [t \in Setups |-> R[t]]
    BY DEF Reported
  <2>2. \A t \in Setups : (phase'[t] = "done") = R[t]
    BY <1>2
  <2> HIDE DEF R
  <2>3. Reported' = R
    BY <1>1, <2>1, <2>2, Zenon
  <2> QED
    BY <2>3 DEF R
<1>4. ~ Reported[s]
  BY DEF Reported
<1> QED
  BY <1>3, <1>4 DEF Ledger!Report

-----------------------------------------------------------------------------
LEMMA LedgerInit == Init => Ledger!Init
<1> SUFFICES ASSUME Init PROVE Ledger!Init
  OBVIOUS
<1>1. \A s \in Setups : phase[s] = "idle"
  BY DEF Init
<1>2. Placed = [s \in Setups |-> [n \in Names |-> "new"]]
  BY <1>1 DEF Placed, Place
<1>3. \A s \in Setups : (phase[s] = "done") = FALSE
  BY <1>1
<1>4. Reported = [s \in Setups |-> FALSE]
  BY <1>3, Zenon DEF Reported
<1> QED
  BY <1>2, <1>4 DEF Ledger!Init

\* The start of a setup.
LEMMA StartBegins == ASSUME IInv, NEW s \in Setups, Start(s) PROVE Ledger!Begin(s)
<1> DEFINE kept == Names \cap cache
<1>1. TypeOK /\ Chained
  BY DEF IInv
<1>2. /\ phase[s] = "idle" /\ existing' = [existing EXCEPT ![s] = kept]
      /\ CreateNextRole(s, Names \ cache) /\ UNCHANGED <<created, failed>>
  BY DEF Start
<1>3. /\ current[s] = NoName /\ created[s] = {}
      /\ existing'[s] = kept /\ \A t \in Setups \ {s} : existing'[t] = existing[t]
  BY <1>1, <1>2 DEF Chained, Held, TypeOK
<1>4. Ledger!In(s, "new") = Names
  BY <1>2 DEF Ledger!In, Placed, Place
<1>5. /\ \A t \in Setups \ {s} :
           phase'[t] = phase[t] /\ pending'[t] = pending[t] /\ current'[t] = current[t]
      /\ \/ /\ Names \ cache = {} /\ phase'[s] = "done"
            /\ pending'[s] = {} /\ current'[s] = NoName
         \/ \E m \in Names \ cache :
              /\ phase'[s] \in {"request", "reply"}
              /\ pending'[s] = (Names \ cache) \ {m} /\ current'[s] = m
  BY <1>1, <1>2, <1>3, CreateNextEffect
<1>6. \A t \in Setups \ {s}, n \in Names : Place(t, n)' = Place(t, n)
  BY <1>2, <1>3, <1>5, PlaceKept
<1>7. CASE Names \ cache = {} /\ phase'[s] = "done" /\ pending'[s] = {}
           /\ current'[s] = NoName
  <2>1. kept = Names
    BY <1>7
  <2>2. ASSUME NEW n \in Names PROVE Place(s, n)' = "existing"
    <3>1. n # NoName /\ n \in existing'[s] /\ n \notin created'[s]
      BY <1>2, <1>3, <2>1, SetupAssumption
    <3> QED
      BY <1>7, <3>1 DEF Place
  <2> DEFINE f == [n \in Names |-> "existing"]
  <2>3. f = [n \in Names |-> f[n]] /\ \A n \in Names : Place(s, n)' = f[n]
    BY <2>2
  <2> HIDE DEF f
  <2>4. Ledger!Arrange(s, f)
    BY <1>6, <2>3, PlacesMove
  <2>5. Ledger!Report(s)
    BY <1>2, <1>5, <1>7, ReportSent
  <2> QED
    BY <1>4, <2>1, <2>4, <2>5 DEF Ledger!Begin, f
<1>8. ASSUME NEW m \in Names \ cache, phase'[s] \in {"request", "reply"},
             pending'[s] = (Names \ cache) \ {m}, current'[s] = m
      PROVE  Ledger!Begin(s)
  <2> DEFINE f == [n \in Names |-> IF n \in kept THEN "existing"
                                   ELSE IF n = m THEN "asked" ELSE "queued"]
  <2>1. ASSUME NEW n \in Names
        PROVE  Place(s, n)' = IF n \in kept THEN "existing"
                              ELSE IF n = m THEN "asked" ELSE "queued"
    BY <1>2, <1>3, <1>8 DEF Place
  <2>2. f = [n \in Names |-> f[n]] /\ \A n \in Names : Place(s, n)' = f[n]
    BY <2>1
  <2> HIDE DEF f
  <2>3. Ledger!Arrange(s, f)
    BY <1>6, <2>2, PlacesMove
  <2>4. Reported' = Reported
    BY <1>2, <1>5, <1>8, ReportKept
  <2>5. m \in Names \ kept /\ kept \in SUBSET Names
    OBVIOUS
  <2> HIDE DEF kept
  <2>6. /\ Ledger!Arrange(s, [n \in Names |-> IF n \in kept THEN "existing"
                                ELSE IF n = m THEN "asked" ELSE "queued"])
    BY <2>3 DEF f
  <2> QED
    BY <1>4, <2>4, <2>5, <2>6 DEF Ledger!Begin
<1> QED
  BY <1>5, <1>7, <1>8

\* A reply puts the role that was asked for under a heading.
LEMMA ReplySettles ==
  ASSUME IInv, NEW s \in Setups, Reply(s) PROVE \E n \in Names : Ledger!Settle(s, n)
<1>1. TypeOK /\ Chained /\ Partitioned
  BY DEF IInv
<1>2. phase[s] = "reply" /\ current[s] \in Names
  BY <1>1 DEF Reply, Chained, Held, TypeOK
<1>3. PICK n \in Names : n = current[s]
  BY <1>2
<1>4. n \notin pending[s] /\ n \notin created[s] /\ n \notin existing[s]
  BY <1>1, <1>3 DEF Partitioned
<1>5. /\ phase' = [phase EXCEPT ![s] = "wait"]
      /\ current' = [current EXCEPT ![s] = NoName] /\ pending' = pending
  BY DEF Reply, PostDelayed
<1>6. /\ \A t \in Setups \ {s} : phase'[t] = phase[t] /\ current'[t] = current[t]
      /\ phase'[s] = "wait" /\ current'[s] = NoName
  BY <1>1, <1>5 DEF TypeOK
<1>7. PICK h \in {"created", "existing", "failed"} :
        /\ \A t \in Setups \ {s} : created'[t] = created[t] /\ existing'[t] = existing[t]
        /\ created'[s] = IF h = "created" THEN created[s] \cup {n} ELSE created[s]
        /\ existing'[s] = IF h = "existing" THEN existing[s] \cup {n} ELSE existing[s]
  <2>1. CASE created' = [created EXCEPT ![s] = @ \cup {n}] /\ existing' = existing
    BY <1>1, <2>1 DEF TypeOK
  <2>2. CASE existing' = [existing EXCEPT ![s] = @ \cup {n}] /\ created' = created
    BY <1>1, <2>2 DEF TypeOK
  <2>3. CASE UNCHANGED <<created, existing>>
    BY <2>3
  <2> QED
    BY <1>3, <2>1, <2>2, <2>3 DEF Reply
<1>8. \A t \in Setups \ {s}, m \in Names : Place(t, m)' = Place(t, m)
  BY <1>5, <1>6, <1>7, PlaceKept
<1>9. ASSUME NEW m \in Names \ {n} PROVE Place(s, m)' = Place(s, m)
  <2>1. m # NoName /\ current[s] # m
    BY <1>3, SetupAssumption
  <2>2. (m \in created'[s] <=> m \in created[s]) /\ (m \in existing'[s] <=> m \in existing[s])
    BY <1>7
  <2> QED
    BY <1>2, <1>5, <1>6, <2>1, <2>2 DEF Place
<1>10. Place(s, n)' = h
  <2>1. n # NoName
    BY SetupAssumption
  <2> QED
    BY <1>4, <1>5, <1>6, <1>7, <2>1 DEF Place
<1>11. Placed[s][n] = "asked"
  BY <1>2, <1>3, <1>4 DEF Placed, Place
<1>12. Ledger!Arrange(s, [Placed[s] EXCEPT ![n] = h])
  BY <1>8, <1>9, <1>10, OnePlaceMoves
<1>13. Reported' = Reported
  BY <1>2, <1>6, ReportKept
<1> QED
  BY <1>7, <1>11, <1>12, <1>13 DEF Ledger!Settle, Ledger!Headings

\* The timer asks for the next role, or ends the setup.
LEMMA FireGoesOn ==
  ASSUME IInv, NEW s \in Setups, Fire(s)
  PROVE  Ledger!Finish(s) \/ \E n \in Names : Ledger!Ask(s, n)
<1>1. TypeOK /\ Chained /\ Partitioned
  BY DEF IInv
<1>2. /\ phase[s] = "wait" /\ CreateNextRole(s, pending[s])
      /\ UNCHANGED <<created, existing, failed>>
  BY DEF Fire, results
<1>3. current[s] = NoName /\ pending[s] \in SUBSET Names
  BY <1>1, <1>2 DEF Chained, Held, TypeOK
<1>4. /\ \A t \in Setups \ {s} :
           phase'[t] = phase[t] /\ pending'[t] = pending[t] /\ current'[t] = current[t]
      /\ \/ /\ pending[s] = {} /\ phase'[s] = "done"
            /\ pending'[s] = {} /\ current'[s] = NoName
         \/ \E m \in pending[s] :
              /\ phase'[s] \in {"request", "reply"}
              /\ pending'[s] = pending[s] \ {m} /\ current'[s] = m
  BY <1>1, <1>2, <1>3, CreateNextEffect
<1>5. \A t \in Setups \ {s}, n \in Names : Place(t, n)' = Place(t, n)
  BY <1>2, <1>4, PlaceKept
<1>6. \A n \in Names : n # current[s]
  BY <1>3, SetupAssumption
<1>7. CASE pending[s] = {} /\ phase'[s] = "done" /\ pending'[s] = {}
           /\ current'[s] = NoName
  <2>1. \A n \in Names : Placed[s][n] \in Ledger!Headings
    BY <1>2, <1>6, <1>7 DEF Placed, Place, Ledger!Headings
  <2>2. \A n \in Names : Place(s, n)' = Place(s, n)
    BY <1>2, <1>3, <1>7, PlaceKept
  <2>3. Placed' = Placed
    BY <1>5, <2>2 DEF Placed
  <2>4. Ledger!Report(s)
    BY <1>2, <1>4, <1>7, ReportSent
  <2> QED
    BY <2>1, <2>3, <2>4 DEF Ledger!Finish
<1>8. ASSUME NEW m \in pending[s], phase'[s] \in {"request", "reply"},
             pending'[s] = pending[s] \ {m}, current'[s] = m
      PROVE  \E n \in Names : Ledger!Ask(s, n)
  <2>1. m \in Names
    BY <1>3
  <2>2. Placed[s][m] = "queued"
    BY <1>2, <2>1 DEF Placed, Place
  <2>3. Ledger!In(s, "new") \cup Ledger!In(s, "asked") = {}
    BY <1>2, <1>6 DEF Ledger!In, Placed, Place
  <2>4. ASSUME NEW n \in Names \ {m} PROVE Place(s, n)' = Place(s, n)
    BY <1>2, <1>6, <1>8 DEF Place
  <2>5. Place(s, m)' = "asked"
    BY <1>8 DEF Place
  <2>6. Ledger!Arrange(s, [Placed[s] EXCEPT ![m] = "asked"])
    BY <1>5, <2>1, <2>4, <2>5, OnePlaceMoves
  <2>7. Reported' = Reported
    BY <1>2, <1>4, <1>8, ReportKept
  <2> QED
    BY <2>1, <2>2, <2>3, <2>6, <2>7 DEF Ledger!Ask
<1> QED
  BY <1>4, <1>7, <1>8

\* The other steps of a chain, and the rest of the world, move no role.
LEMMA LedgerStutters ==
  ASSUME TypeOK,
         \/ RefreshRoles \/ ProcessGuildRoles \/ Tick \/ UNCHANGED vars
         \/ \E s \in Setups : CreateRole(s) \/ RateLimit(s)
  PROVE  UNCHANGED Ledger!vars
<1>1. UNCHANGED <<pending, current, created, existing>>
  BY DEF RefreshRoles, ProcessGuildRoles, Tick, CreateRole, RateLimit, vars, chainVars,
         results
<1>2. \A s \in Setups :
        /\ phase'[s] = "idle" <=> phase[s] = "idle"
        /\ phase'[s] = "done" <=> phase[s] = "done"
  <2>1. CASE phase' = phase
    BY <2>1
  <2>2. ASSUME NEW s \in Setups, phase[s] = "request",
               \/ phase' = [phase EXCEPT ![s] = "reply"]
               \/ phase' = [phase EXCEPT ![s] = "dropped"]
        PROVE  \A t \in Setups :
                 /\ phase'[t] = "idle" <=> phase[t] = "idle"
                 /\ phase'[t] = "done" <=> phase[t] = "done"
    BY <2>2 DEF TypeOK
  <2> QED
    BY <2>1, <2>2 DEF RefreshRoles, ProcessGuildRoles, Tick, CreateRole, RateLimit, vars,
                      chainVars
<1>3. \A s \in Setups, n \in Names : Place(s, n)' = Place(s, n)
  BY <1>1, <1>2, PlaceKept
<1>4. Placed' = Placed
  BY <1>3 DEF Placed
<1>5. Reported' = Reported
  BY <1>2, ReportKept
<1> QED
  BY <1>4, <1>5 DEF Ledger!vars

LEMMA LedgerStep == ASSUME IInv, [Next]_vars PROVE [Ledger!Next]_(Ledger!vars)
<1>1. ASSUME NEW s \in Setups, Start(s) \/ Reply(s) \/ Fire(s) PROVE Ledger!Next
  BY <1>1, StartBegins, ReplySettles, FireGoesOn DEF Ledger!Next
<1>2. CASE \/ RefreshRoles \/ ProcessGuildRoles \/ Tick \/ UNCHANGED vars
           \/ \E s \in Setups : CreateRole(s) \/ RateLimit(s)
  BY <1>2, LedgerStutters DEF IInv
<1> QED
  BY <1>1, <1>2 DEF Next, Chain

\* For any roles, any number of setups and any width of the clock, every chain keeps the
\* promise of RoleLedger.
THEOREM Implements == Spec => ImplementsRoleLedger
<1>1. Init => Ledger!Init
  BY LedgerInit
<1>2. IInv /\ [Next]_vars => [Ledger!Next]_(Ledger!vars)
  BY LedgerStep
<1> QED
  BY <1>1, <1>2, Invariance, PTL DEF Spec, ImplementsRoleLedger, Ledger!Spec

\* What the promise comes to: of what a setup has once asked for nothing is asked for
\* again, and when it reports, every role of the template is under a heading for good.
PromiseInv ==
  \A s \in Setups :
    /\ Reported[s] => \A n \in Names : Placed[s][n] \in Ledger!Headings
    /\ \A m, n \in Names : Placed[s][m] = "asked" /\ Placed[s][n] = "asked" => m = n
    /\ \A m, n \in Names : Placed[s][m] = "new" => Placed[s][n] = "new"

PromiseKept ==
  \A s \in Setups, n \in Names :
    /\ Placed[s][n] \in Ledger!Headings => Placed'[s][n] = Placed[s][n]
    /\ Placed[s][n] = "asked" => Placed'[s][n] \in {"asked"} \cup Ledger!Headings
    /\ Reported[s] => Reported'[s]

LEMMA LedgerTypes ==
  /\ Placed = [s \in Setups |-> [n \in Names |-> Placed[s][n]]]
  /\ Reported = [s \in Setups |-> Reported[s]]
  /\ \A s \in Setups : Reported[s] \in BOOLEAN
BY DEF Placed, Reported

\* A step of setup s leaves the others where they are.
LEMMA ArrangeMoves ==
  ASSUME NEW s \in Setups, NEW f, Ledger!Arrange(s, f)
  PROVE  Placed'[s] = f /\ \A t \in Setups : t # s => Placed'[t] = Placed[t]
BY LedgerTypes DEF Ledger!Arrange

LEMMA ReportMoves ==
  ASSUME NEW s \in Setups, Ledger!Report(s)
  PROVE  /\ ~Reported[s] /\ Reported'[s]
         /\ \A t \in Setups : t # s => Reported'[t] = Reported[t]
BY LedgerTypes DEF Ledger!Report

LEMMA PromiseInit == Ledger!Init => PromiseInv
BY DEF Ledger!Init, PromiseInv

LEMMA PromiseBegin ==
  ASSUME PromiseInv, NEW s \in Setups, Ledger!Begin(s)
  PROVE  PromiseInv' /\ PromiseKept
<1>1. \A n \in Names : Placed[s][n] = "new"
  BY DEF Ledger!Begin, Ledger!In
<1>2. PICK kept \in SUBSET Names :
       \/ /\ kept = Names /\ Ledger!Arrange(s, [n \in Names |-> "existing"])
          /\ Ledger!Report(s)
       \/ \E m \in Names \ kept :
            /\ Ledger!Arrange(s, [n \in Names |-> IF n \in kept THEN "existing"
                                           ELSE IF n = m THEN "asked" ELSE "queued"])
            /\ UNCHANGED Reported
  BY DEF Ledger!Begin
<1>3. CASE /\ Ledger!Arrange(s, [n \in Names |-> "existing"])
           /\ Ledger!Report(s)
  <2>1. /\ \A n \in Names : Placed'[s][n] = "existing"
        /\ \A t \in Setups : t # s => Placed'[t] = Placed[t]
    BY <1>3, ArrangeMoves
  <2>2. ~Reported[s] /\ Reported'[s] /\ \A t \in Setups : t # s => Reported'[t] = Reported[t]
    BY <1>3, ReportMoves
  <2>3. PromiseInv'
    BY <2>1, <2>2 DEF PromiseInv, Ledger!Headings
  <2>4. PromiseKept
    BY <1>1, <2>1, <2>2 DEF PromiseKept, Ledger!Headings
  <2> QED
    BY <2>3, <2>4
<1>4. ASSUME NEW m \in Names \ kept, UNCHANGED Reported,
             Ledger!Arrange(s, [n \in Names |-> IF n \in kept THEN "existing"
                                                ELSE IF n = m THEN "asked" ELSE "queued"])
      PROVE  PromiseInv' /\ PromiseKept
  <2>1. /\ \A n \in Names : Placed'[s][n] = IF n \in kept THEN "existing"
                                            ELSE IF n = m THEN "asked" ELSE "queued"
        /\ \A t \in Setups : t # s => Placed'[t] = Placed[t]
    BY <1>4, ArrangeMoves
  <2>2. ~Reported[s]
    BY <1>1, <1>4 DEF PromiseInv, Ledger!Headings
  <2>3. PromiseInv'
    BY <1>4, <2>1, <2>2 DEF PromiseInv, Ledger!Headings
  <2>4. PromiseKept
    BY <1>1, <1>4, <2>1 DEF PromiseKept, Ledger!Headings
  <2> QED
    BY <2>3, <2>4
<1> QED
  BY <1>2, <1>3, <1>4

LEMMA PromiseAsk ==
  ASSUME PromiseInv, NEW s \in Setups, NEW n \in Names, Ledger!Ask(s, n)
  PROVE  PromiseInv' /\ PromiseKept
<1>1. /\ UNCHANGED Reported /\ Placed[s][n] = "queued"
      /\ \A m \in Names : Placed[s][m] \notin {"new", "asked"}
      /\ Ledger!Arrange(s, [Placed[s] EXCEPT ![n] = "asked"])
  BY DEF Ledger!Ask, Ledger!In
<1>2. Placed[s] = [m \in Names |-> Placed[s][m]]
  BY DEF Placed
<1>3. /\ \A m \in Names : Placed'[s][m] = IF m = n THEN "asked" ELSE Placed[s][m]
      /\ \A t \in Setups : t # s => Placed'[t] = Placed[t]
  BY <1>1, <1>2, ArrangeMoves
<1>4. PromiseInv'
  BY <1>1, <1>3 DEF PromiseInv, Ledger!Headings
<1>5. PromiseKept
  BY <1>1, <1>3 DEF PromiseKept, Ledger!Headings
<1> QED
  BY <1>4, <1>5

LEMMA PromiseSettle ==
  ASSUME PromiseInv, NEW s \in Setups, NEW n \in Names, Ledger!Settle(s, n)
  PROVE  PromiseInv' /\ PromiseKept
<1>1. PICK h \in Ledger!Headings :
        /\ UNCHANGED Reported /\ Placed[s][n] = "asked"
        /\ Ledger!Arrange(s, [Placed[s] EXCEPT ![n] = h])
  BY DEF Ledger!Settle
<1>2. Placed[s] = [m \in Names |-> Placed[s][m]]
  BY DEF Placed
<1>3. /\ \A m \in Names : Placed'[s][m] = IF m = n THEN h ELSE Placed[s][m]
      /\ \A t \in Setups : t # s => Placed'[t] = Placed[t]
  BY <1>1, <1>2, ArrangeMoves
<1>4. PromiseInv'
  BY <1>1, <1>3 DEF PromiseInv, Ledger!Headings
<1>5. PromiseKept
  BY <1>1, <1>3 DEF PromiseKept, Ledger!Headings
<1> QED
  BY <1>4, <1>5

LEMMA PromiseFinish ==
  ASSUME PromiseInv, NEW s \in Setups, Ledger!Finish(s)
  PROVE  PromiseInv' /\ PromiseKept
<1>1. /\ \A n \in Names : Placed[s][n] \in Ledger!Headings
      /\ Placed' = Placed /\ Ledger!Report(s)
  BY DEF Ledger!Finish
<1>2. ~Reported[s] /\ Reported'[s] /\ \A t \in Setups : t # s => Reported'[t] = Reported[t]
  BY <1>1, ReportMoves
<1>3. PromiseInv'
  BY <1>1, <1>2 DEF PromiseInv, Ledger!Headings
<1>4. PromiseKept
  BY <1>1, <1>2 DEF PromiseKept
<1> QED
  BY <1>3, <1>4

LEMMA PromiseStep == ASSUME PromiseInv, Ledger!Next PROVE PromiseInv' /\ PromiseKept
BY PromiseBegin, PromiseAsk, PromiseSettle, PromiseFinish DEF Ledger!Next

\* Whatever keeps the promise of RoleLedger asks for one role at a time, for none twice,
\* and reports once, when every role is under the heading at which it stays.
THEOREM PromiseSuffices ==
  ImplementsRoleLedger => []PromiseInv /\ [][PromiseKept]_(Ledger!vars)
<1>1. PromiseInv /\ UNCHANGED Ledger!vars => PromiseInv'
  BY DEF PromiseInv, Ledger!vars
<1>2. PromiseInv /\ [Ledger!Next]_(Ledger!vars) => PromiseInv' /\ [PromiseKept]_(Ledger!vars)
  BY <1>1, PromiseStep
<1> QED
  BY <1>2, PromiseInit, PTL DEF ImplementsRoleLedger, Ledger!Spec

-----------------------------------------------------------------------------
(***************************************************************************)
(* Chains come to an end: the safety part of Finishes.                     *)
(***************************************************************************)

\* How many steps the chain of setup s takes at most until it is done or dropped: five
\* for each role, two of them refusals with 429.
StepsFrom(p, rest, again) ==
  CASE p = "idle"    -> 5 * Cardinality(Names) + 5
    [] p = "request" -> 5 * Cardinality(rest) + (IF again THEN 3 ELSE 4)
    [] p = "reply"   -> 5 * Cardinality(rest) + 2
    [] p = "wait"    -> 5 * Cardinality(rest) + 1
    [] OTHER         -> 0

StepsToGo(s) == StepsFrom(phase[s], pending[s], limited[s])

Ended(s) == phase[s] \in {"done", "dropped"}

\* No step of anybody takes a chain back, each step of its own brings it closer to its
\* end, and a clock that goes on never jumps over the time of a waiting task.
WindsDown(s) ==
  /\ StepsToGo(s)' <= StepsToGo(s)
  /\ Chain(s) => StepsToGo(s)' < StepsToGo(s)
  /\ phase[s] = "wait" /\ now' # now => now' = now + 1 /\ now' <= fire[s]

LEMMA Finite ==
  /\ Cardinality(Names) \in Nat
  /\ \A Q \in SUBSET Names : IsFiniteSet(Q) /\ Cardinality(Q) \in 0 .. Cardinality(Names)
<1>1. IsFiniteSet(Names)
  BY SetupAssumption
<1>2. Cardinality(Names) \in Nat
  BY <1>1, FS_CardinalityType
<1>3. ASSUME NEW Q \in SUBSET Names
      PROVE  IsFiniteSet(Q) /\ Cardinality(Q) \in 0 .. Cardinality(Names)
  <2>1. IsFiniteSet(Q) /\ Cardinality(Q) <= Cardinality(Names)
    BY <1>1, FS_Subset
  <2>2. Cardinality(Q) \in Nat
    BY <2>1, FS_CardinalityType
  <2> QED
    BY <1>2, <2>1, <2>2
<1> QED
  BY <1>2, <1>3

LEMMA FewerLeft ==
  ASSUME NEW Q \in SUBSET Names, NEW n \in Q
  PROVE  Cardinality(Q \ {n}) = Cardinality(Q) - 1 /\ Cardinality(Q) > 0
<1>1. IsFiniteSet(Q) /\ Cardinality(Q) \in Nat
  BY Finite
<1>2. Cardinality(Q \ {n}) = Cardinality(Q) - 1
  BY <1>1, FS_RemoveElement
<1>3. Cardinality(Q) # 0
  BY <1>1, FS_EmptySet
<1> QED
  BY <1>1, <1>2, <1>3

LEMMA StepsNatural ==
  ASSUME NEW p \in Phases, NEW rest \in SUBSET Names, NEW again \in BOOLEAN
  PROVE  /\ StepsFrom(p, rest, again) \in Nat
         /\ StepsFrom(p, rest, again) = 0 <=> p \in {"done", "dropped"}
<1>1. Cardinality(Names) \in Nat /\ Cardinality(rest) \in Nat
  BY Finite
<1> QED
  BY <1>1 DEF StepsFrom, Phases

LEMMA StepsAreNatural ==
  ASSUME TypeOK, NEW s \in Setups
  PROVE  StepsToGo(s) \in Nat /\ (StepsToGo(s) = 0 <=> Ended(s))
<1>1. phase[s] \in Phases /\ pending[s] \in SUBSET Names /\ limited[s] \in BOOLEAN
  BY DEF TypeOK
<1> QED
  BY <1>1, StepsNatural DEF StepsToGo, Ended

LEMMA StepsStayNatural ==
  ASSUME TypeOK', NEW s \in Setups PROVE StepsToGo(s)' \in Nat
<1>1. phase'[s] \in Phases /\ pending'[s] \in SUBSET Names /\ limited'[s] \in BOOLEAN
  BY DEF TypeOK
<1> QED
  BY <1>1, StepsNatural DEF StepsToGo

\* From the beginning or from a waiting task to the next request takes a step.
LEMMA CreateNextSteps ==
  ASSUME TypeOK, NEW s \in Setups, NEW queue \in SUBSET Names, CreateNextRole(s, queue),
         UNCHANGED limited
  PROVE  /\ StepsToGo(s)' <= 5 * Cardinality(queue)
         /\ \A t \in Setups : t # s => StepsToGo(t)' = StepsToGo(t)
<1>1. Cardinality(queue) \in Nat
  BY Finite
<1>2. CASE queue = {} /\ phase' = [phase EXCEPT ![s] = "done"]
           /\ pending' = [pending EXCEPT ![s] = {}]
  <2>1. phase'[s] = "done" /\ \A t \in Setups \ {s} : phase'[t] = phase[t] /\ pending'[t] = pending[t]
    BY <1>2 DEF TypeOK
  <2>2. StepsToGo(s)' = 0
    BY <2>1 DEF StepsToGo, StepsFrom
  <2>3. \A t \in Setups : t # s => StepsToGo(t)' = StepsToGo(t)
    BY <2>1 DEF StepsToGo, StepsFrom
  <2> QED
    BY <1>1, <2>2, <2>3
<1>3. ASSUME NEW n \in queue,
             pending' = [pending EXCEPT ![s] = queue \ {n}],
             \/ phase' = [phase EXCEPT ![s] = "request"]
             \/ phase' = [phase EXCEPT ![s] = "reply"]
      PROVE  /\ StepsToGo(s)' <= 5 * Cardinality(queue)
             /\ \A t \in Setups : t # s => StepsToGo(t)' = StepsToGo(t)
  <2>1. /\ phase'[s] \in {"request", "reply"} /\ pending'[s] = queue \ {n}
        /\ \A t \in Setups \ {s} : phase'[t] = phase[t] /\ pending'[t] = pending[t]
    BY <1>3 DEF TypeOK
  <2>2. Cardinality(queue \ {n}) = Cardinality(queue) - 1
    BY FewerLeft
  <2>3. StepsToGo(s)' <= 5 * Cardinality(queue)
    BY <1>1, <2>1, <2>2 DEF StepsToGo, StepsFrom
  <2>4. \A t \in Setups : t # s => StepsToGo(t)' = StepsToGo(t)
    BY <2>1 DEF StepsToGo, StepsFrom
  <2> QED
    BY <2>3, <2>4
<1> QED
  BY <1>2, <1>3 DEF CreateNextRole

\* A step of the chain of s.
LEMMA ChainGoesOn ==
  ASSUME IInv, NEW s \in Setups, Chain(s)
  PROVE  /\ StepsToGo(s)' < StepsToGo(s) /\ now' = now
         /\ \A t \in Setups : t # s => StepsToGo(t)' = StepsToGo(t)
<1>0. TypeOK
  BY DEF IInv
<1>1. Cardinality(Names) \in Nat /\ Cardinality(pending[s]) \in Nat
  BY <1>0, Finite DEF TypeOK
<1>2. CASE Start(s)
  <2>1. /\ StepsToGo(s)' <= 5 * Cardinality(Names \ cache)
        /\ \A t \in Setups : t # s => StepsToGo(t)' = StepsToGo(t)
    BY <1>0, <1>2, CreateNextSteps DEF Start
  <2>2. Cardinality(Names \ cache) \in 0 .. Cardinality(Names)
    BY Finite
  <2>3. StepsToGo(s) = 5 * Cardinality(Names) + 5
    BY <1>2 DEF Start, StepsToGo, StepsFrom
  <2>4. StepsToGo(s)' \in Nat /\ now' = now
    <3>1. TypeOK'
      BY <1>2, NextType DEF Next, Chain
    <3> QED
      BY <1>2, <3>1, StepsStayNatural DEF Start, timeVars
  <2> QED
    BY <1>1, <2>1, <2>2, <2>3, <2>4
<1>3. CASE Fire(s)
  <2>1. pending[s] \in SUBSET Names
    BY <1>0 DEF TypeOK
  <2>2. /\ StepsToGo(s)' <= 5 * Cardinality(pending[s])
        /\ \A t \in Setups : t # s => StepsToGo(t)' = StepsToGo(t)
    BY <1>0, <1>3, <2>1, CreateNextSteps DEF Fire
  <2>3. StepsToGo(s) = 5 * Cardinality(pending[s]) + 1
    BY <1>3 DEF Fire, StepsToGo, StepsFrom
  <2>4. StepsToGo(s)' \in Nat /\ now' = now
    <3>1. TypeOK'
      BY <1>3, NextType DEF Next, Chain
    <3> QED
      BY <1>3, <3>1, StepsStayNatural DEF Fire
  <2> QED
    BY <1>1, <2>2, <2>3, <2>4
<1>4. CASE Reply(s) \/ CreateRole(s) \/ RateLimit(s)
  <2>1. /\ now' = now /\ pending' = pending
        /\ \A t \in Setups \ {s} : phase'[t] = phase[t] /\ limited'[t] = limited[t]
        /\ \/ phase[s] = "reply" /\ phase'[s] = "wait"
           \/ phase[s] = "request" /\ phase'[s] \in {"reply", "dropped"}
           \/ phase[s] = "request" /\ phase'[s] = "request" /\ ~limited[s] /\ limited'[s]
    BY <1>0, <1>4 DEF Reply, PostDelayed, CreateRole, RateLimit, TypeOK, timeVars
  <2>2. StepsToGo(s)' < StepsToGo(s)
    BY <1>1, <2>1 DEF StepsToGo, StepsFrom
  <2>3. \A t \in Setups : t # s => StepsToGo(t)' = StepsToGo(t)
    BY <2>1 DEF StepsToGo, StepsFrom
  <2> QED
    BY <2>1, <2>2, <2>3
<1> QED
  BY <1>2, <1>3, <1>4 DEF Chain

\* The steps of everybody else.
LEMMA OthersDoNotDelay ==
  ASSUME IInv, RefreshRoles \/ ProcessGuildRoles \/ Tick \/ UNCHANGED vars,
         NEW s \in Setups
  PROVE  WindsDown(s)
<1>1. UNCHANGED <<phase, pending, limited>>
  BY DEF RefreshRoles, ProcessGuildRoles, Tick, vars, chainVars
<1>2. StepsToGo(s)' = StepsToGo(s)
  BY <1>1 DEF StepsToGo
<1>3. StepsToGo(s) \in Nat
  BY StepsAreNatural DEF IInv
<1>4. ~ Chain(s)
  <2>1. ASSUME Chain(s) PROVE FALSE
    BY <1>2, <1>3, <2>1, ChainGoesOn
  <2> QED
    BY <2>1
<1>5. phase[s] = "wait" /\ now' # now => now' = now + 1 /\ now' <= fire[s]
  <2>1. CASE Tick
    <3> SUFFICES ASSUME phase[s] = "wait" PROVE now' = now + 1 /\ now' <= fire[s]
      OBVIOUS
    <3>1. now \in Nat /\ fire[s] \in 0 .. Wrap - 1 /\ fire[s] > now /\ Wrap \in Nat
      BY <2>1, SetupAssumption DEF Tick, TypeOK, IInv
    <3>2. now + 1 \in Nat /\ now + 1 < Wrap
      BY <3>1
    <3>3. now' = now + 1
      BY <2>1, <3>2, NoWrap DEF Tick
    <3> QED
      BY <3>1, <3>3
  <2>2. CASE RefreshRoles \/ ProcessGuildRoles \/ UNCHANGED vars
    BY <2>2 DEF RefreshRoles, ProcessGuildRoles, vars, timeVars
  <2> QED
    BY <2>1, <2>2
<1> QED
  BY <1>2, <1>3, <1>4, <1>5 DEF WindsDown

LEMMA EverythingWindsDown ==
  ASSUME IInv, [Next]_vars, NEW s \in Setups PROVE WindsDown(s)
<1>1. ASSUME NEW t \in Setups, Chain(t) PROVE WindsDown(s)
  <2>1. StepsToGo(s) \in Nat
    BY StepsAreNatural DEF IInv
  <2>2. now' = now /\ StepsToGo(t)' < StepsToGo(t) /\ (s # t => StepsToGo(s)' = StepsToGo(s))
    BY <1>1, ChainGoesOn
  <2>3. Chain(s) => StepsToGo(s)' < StepsToGo(s)
    BY ChainGoesOn
  <2>4. StepsToGo(s)' <= StepsToGo(s)
    <3>1. CASE s = t
      <4>1. TypeOK'
        BY NextType
      <4>2. StepsToGo(s)' \in Nat
        BY <4>1, StepsStayNatural
      <4> QED
        BY <2>1, <2>2, <3>1, <4>2
    <3>2. CASE s # t
      BY <2>1, <2>2, <3>2
    <3> QED
      BY <3>1, <3>2
  <2> QED
    BY <2>2, <2>3, <2>4 DEF WindsDown
<1>2. CASE RefreshRoles \/ ProcessGuildRoles \/ Tick \/ UNCHANGED vars
  BY <1>2, OthersDoNotDelay DEF IInv
<1> QED
  BY <1>1, <1>2 DEF Next

\* Every setup has a number of steps to go that only falls, with each step of its chain,
\* and that is 0 only when it is done or dropped: whatever Discord answers, however often
\* the clock wraps and whatever else happens, no chain goes round in circles.
THEOREM ChainsWindDown ==
  Spec => /\ [](\A s \in Setups : StepsToGo(s) \in Nat /\ (StepsToGo(s) = 0 <=> Ended(s)))
          /\ [][\A s \in Setups : WindsDown(s)]_vars
<1>1. IInv => \A s \in Setups : StepsToGo(s) \in Nat /\ (StepsToGo(s) = 0 <=> Ended(s))
  BY StepsAreNatural DEF IInv
<1>2. IInv /\ [Next]_vars => [\A s \in Setups : WindsDown(s)]_vars
  BY EverythingWindsDown
<1> QED
  BY Invariance, <1>1, <1>2, PTL DEF Spec
=============================================================================
