---------------------------- MODULE GatewayProofs ----------------------------
(***************************************************************************)
(* Proofs about DiscordGateway, for any number of connections and          *)
(* payloads: one writer at a time, and connected_ means that READY has     *)
(* been received on the connection that is open.                           *)
(*                                                                         *)
(* The invariant ties the gateway thread's place to conn_, connected_ and  *)
(* the writers: a writer lives only between the start of its connection    *)
(* and the join, and connected_ is reset before anything else can happen   *)
(* to the connection it was about.                                         *)
(***************************************************************************)
EXTENDS Gateway, TLAPS

Between == {"new", "next", "retry", "dial", "done"}     \* no connection
Reading == {"loop", "read", "left"}                     \* the connection is open
Leaving == {"wake", "notify", "join"}                   \* its writer must end

Idle(c) == wpc[c] \in {"none", "ended"}

Placed ==
  /\ rpc \in Between => conn = 0 /\ connected = FALSE /\ \A c \in Conns : Idle(c)
  /\ rpc \in Reading => cur \in Conns /\ conn = cur /\ open[cur] = TRUE
  /\ rpc \in Leaving => cur \in Conns /\ conn = 0 /\ connected = FALSE

OldWriters == \A c \in Conns : c # cur => Idle(c)

SeenReady == connected = TRUE => "seen" \in session[cur]

\* The inductive invariant.
IInv == TypeOK /\ Placed /\ OldWriters /\ SeenReady

-----------------------------------------------------------------------------
LEMMA InitIInv == Init => IInv
<1> SUFFICES ASSUME Init PROVE IInv
  OBVIOUS
<1>1. TypeOK
  <2>1. queue \in Seq(Payloads) /\ Len(queue) <= MaxQueue
    BY GatewayAssumption DEF Init
  <2>2. cur \in 0 .. MaxConns /\ announced \in 0 .. MaxReadies /\ conn \in {0, cur}
    BY GatewayAssumption DEF Init
  <2> QED
    BY <2>1, <2>2 DEF Init, TypeOK
<1>2. Placed /\ OldWriters /\ SeenReady
  BY DEF Init, Placed, OldWriters, SeenReady, Idle, Between, Reading, Leaving
<1> QED
  BY <1>1, <1>2 DEF IInv

LEMMA Numbers == cur \in 0 .. MaxConns => cur \in Nat /\ cur + 1 # 0
  BY GatewayAssumption

\* Waking sleepers neither starts nor ends a writer.
LEMMA NotifiedOK ==
  ASSUME TypeOK
  PROVE  /\ Notified \in [Conns -> {"none", "check", "test", "falling", "asleep",
                                    "write", "ended"}]
         /\ \A c \in Conns : Notified[c] \in {"none", "ended"} <=> Idle(c)
         /\ \A c \in Conns : Notified[c] = "write" <=> wpc[c] = "write"
  BY DEF TypeOK, Notified, Idle
USE DEF Between, Reading, Leaving, Idle

\* The gateway thread between two connections.
LEMMA StepBetween ==
  ASSUME IInv, Begin \/ NextRound \/ DialFails
  PROVE  IInv'
<1>1. rpc \in Between /\ rpc' \in Between /\ connected' = FALSE /\ running' \in BOOLEAN
      /\ UNCHANGED <<wake, queue, cur, conn, open, wpc, took, session, pub, stop, announced>>
  BY DEF IInv, TypeOK, Placed, Begin, NextRound, DialFails, connVars, writers
<1>2. TypeOK'
  BY <1>1 DEF IInv, TypeOK
<1>3. Placed' /\ OldWriters' /\ SeenReady'
  BY <1>1 DEF IInv, Placed, OldWriters, SeenReady
<1> QED
  BY <1>2, <1>3 DEF IInv

\* A new connection and its writer.
LEMMA StepDial == ASSUME IInv, Dial PROVE IInv'
<1>1. TypeOK /\ cur \in Nat /\ cur + 1 \in Conns /\ cur' = cur + 1 /\ conn' = cur + 1
      /\ cur + 1 # cur /\ cur + 1 \in 0 .. MaxConns
  BY GatewayAssumption DEF IInv, TypeOK, Dial, Conns
<1>2. /\ open' = [open EXCEPT ![cur + 1] = TRUE]
      /\ wpc' = [wpc EXCEPT ![cur + 1] = "check"]
      /\ rpc = "dial" /\ rpc' = "loop"
      /\ UNCHANGED <<running, connected, wake, queue, took, session, pub, stop, announced>>
  BY DEF Dial
<1>3. connected = FALSE /\ \A c \in Conns : Idle(c)
  BY <1>2 DEF IInv, Placed
<1>4. TypeOK'
  <2>1. took[cur + 1] = <<>> /\ wpc[cur + 1] # "write"
    BY <1>1, <1>3 DEF TypeOK
  <2>2. open' \in [Conns -> BOOLEAN] /\ wpc' \in [Conns ->
          {"none", "check", "test", "falling", "asleep", "write", "ended"}]
    BY <1>1, <1>2 DEF TypeOK
  <2>3. \A c \in Conns : wpc'[c] = "write" <=> wpc[c] = "write"
    BY <1>1, <1>2, <2>1 DEF TypeOK
  <2> QED
    BY <1>1, <1>2, <2>2, <2>3 DEF TypeOK
<1>5. Placed'
  BY <1>1, <1>2 DEF TypeOK, Placed
<1>6. OldWriters' /\ SeenReady'
  BY <1>1, <1>2, <1>3 DEF TypeOK, OldWriters, SeenReady
<1> QED
  BY <1>4, <1>5, <1>6 DEF IInv

\* The end of a connection.
LEMMA StepLeave == ASSUME IInv, Leave PROVE IInv'
<1>1. /\ rpc = "left" /\ rpc' = "wake" /\ conn' = 0 /\ connected' = FALSE
      /\ open' = [open EXCEPT ![cur] = FALSE]
      /\ UNCHANGED <<running, wake, queue, cur, wpc, took, session, pub, stop, announced>>
  BY DEF Leave, writers
<1>2. TypeOK /\ cur \in Conns /\ OldWriters
  BY <1>1 DEF IInv, Placed
<1>3. TypeOK'
  BY <1>1, <1>2 DEF TypeOK
<1>4. Placed' /\ OldWriters' /\ SeenReady'
  BY <1>1, <1>2 DEF Placed, OldWriters, SeenReady
<1> QED
  BY <1>3, <1>4 DEF IInv

LEMMA StepWake == ASSUME IInv, WakeWriter PROVE IInv'
<1>1. /\ rpc = "wake" /\ rpc' = "notify" /\ wake' = TRUE
      /\ UNCHANGED <<running, connected, queue, cur, conn, open, wpc, took, session, pub, stop, announced>>
  BY DEF WakeWriter, writers, connVars
<1>2. TypeOK'
  BY <1>1 DEF IInv, TypeOK
<1>3. Placed' /\ OldWriters' /\ SeenReady'
  BY <1>1 DEF IInv, Placed, OldWriters, SeenReady
<1> QED
  BY <1>2, <1>3 DEF IInv

LEMMA StepNotify == ASSUME IInv, NotifyWriter PROVE IInv'
<1>1. /\ rpc = "notify" /\ rpc' = "join" /\ wpc' = Notified
      /\ UNCHANGED <<running, connected, wake, queue, cur, conn, open, took, session, pub, stop, announced>>
  BY DEF NotifyWriter, connVars
<1>2. TypeOK'
  BY <1>1, NotifiedOK DEF IInv, TypeOK
<1>3. Placed' /\ OldWriters' /\ SeenReady'
  BY <1>1, NotifiedOK DEF IInv, Placed, OldWriters, SeenReady
<1> QED
  BY <1>2, <1>3 DEF IInv

\* The writer has ended: no writer is left.
LEMMA StepJoin == ASSUME IInv, JoinWriter PROVE IInv'
<1>1. /\ rpc = "join" /\ rpc' = "next" /\ wpc[cur] = "ended"
      /\ UNCHANGED <<running, connected, wake, queue, cur, conn, open, wpc, took, session, pub, stop, announced>>
  BY DEF JoinWriter, connVars, writers
<1>2. TypeOK'
  BY <1>1 DEF IInv, TypeOK
<1>3. Placed' /\ OldWriters' /\ SeenReady'
  BY <1>1 DEF IInv, Placed, OldWriters, SeenReady
<1> QED
  BY <1>2, <1>3 DEF IInv
-----------------------------------------------------------------------------
\* What a step of ReadLoop other than a frame's own effect does.
LEMMA SendTextOK ==
  ASSUME TypeOK, NEW s \in Seq(Payloads), SendText(s)
  PROVE  /\ queue' \in Seq(Payloads) /\ Len(queue') <= MaxQueue
         /\ wpc' \in [Conns -> {"none", "check", "test", "falling", "asleep", "write",
                                "ended"}]
         /\ \A c \in Conns : wpc'[c] \in {"none", "ended"} <=> Idle(c)
         /\ \A c \in Conns : wpc'[c] = "write" <=> wpc[c] = "write"
         /\ rpc' = "loop"
         /\ UNCHANGED <<running, wake, cur, conn, open, took, pub, stop>>
<1>1. PICK due \in {<<>>, <<"other">>} :
        /\ Len(queue \o s \o due) <= MaxQueue
        /\ queue' = queue \o s \o due
        /\ wpc' = IF s \o due = <<>> THEN wpc ELSE Notified
  BY DEF SendText
<1>2. queue \in Seq(Payloads) /\ due \in Seq(Payloads)
  <2>1. "other" \in Payloads
    BY DEF Payloads
  <2>2. <<>> \in Seq(Payloads) /\ <<"other">> \in Seq(Payloads)
    BY <2>1
  <2> QED
    BY <2>2 DEF TypeOK
<1>3. queue' \in Seq(Payloads) /\ Len(queue') <= MaxQueue
  BY <1>1, <1>2
<1>4. /\ wpc' \in [Conns -> {"none", "check", "test", "falling", "asleep", "write", "ended"}]
      /\ \A c \in Conns : wpc'[c] \in {"none", "ended"} <=> Idle(c)
      /\ \A c \in Conns : wpc'[c] = "write" <=> wpc[c] = "write"
  BY <1>1, NotifiedOK DEF TypeOK
<1> QED
  BY <1>3, <1>4 DEF SendText, connVars

\* A frame on the open connection; connected_ is set by READY only.
LEMMA StepRead == ASSUME IInv, LoopHead \/ Read PROVE IInv'
<1>1. TypeOK /\ Placed /\ OldWriters /\ SeenReady
  BY DEF IInv
<1> DEFINE Frame(s) ==
      /\ rpc = "read" /\ SendText(s)
      /\ session' \in [Conns -> SUBSET {"greeted", "identified", "ready", "seen", "closed"}]
      /\ "seen" \in session[cur] => "seen" \in session'[cur]
      /\ connected' = connected \/ (connected' = TRUE /\ "seen" \in session'[cur])
      /\ announced' \in 0 .. MaxReadies
<1>2. ASSUME NEW s \in Seq(Payloads), Frame(s) PROVE IInv'
  <2>1. /\ queue' \in Seq(Payloads) /\ Len(queue') <= MaxQueue
        /\ wpc' \in [Conns -> {"none", "check", "test", "falling", "asleep", "write", "ended"}]
        /\ \A c \in Conns : wpc'[c] \in {"none", "ended"} <=> Idle(c)
        /\ \A c \in Conns : wpc'[c] = "write" <=> wpc[c] = "write"
        /\ rpc' = "loop"
        /\ UNCHANGED <<running, wake, cur, conn, open, took, pub, stop>>
    BY <1>1, <1>2, SendTextOK
  <2>2. connected' \in BOOLEAN
    BY <1>1, <1>2 DEF TypeOK
  <2>3. TypeOK'
    BY <1>1, <1>2, <2>1, <2>2 DEF TypeOK
  <2>4. Placed'
    BY <1>1, <1>2, <2>1 DEF Placed
  <2>5. OldWriters'
    BY <1>1, <2>1 DEF OldWriters
  <2>6. SeenReady'
    BY <1>1, <1>2, <2>1 DEF SeenReady
  <2> QED
    BY <2>3, <2>4, <2>5, <2>6 DEF IInv
<1>3. <<>> \in Seq(Payloads) /\ <<"identify">> \in Seq(Payloads) /\ <<"other">> \in Seq(Payloads)
  BY DEF Payloads
<1>4. rpc = "read" => cur \in Conns
  BY <1>1 DEF Placed
<1>5. CASE LoopHead
  <2>1. /\ rpc = "loop" /\ rpc' \in {"read", "left"}
        /\ UNCHANGED <<running, connected, wake, queue, cur, conn, open, wpc, took, session,
                       pub, stop, announced>>
    BY <1>5 DEF LoopHead, connVars, writers
  <2>2. TypeOK'
    BY <1>1, <2>1 DEF TypeOK
  <2>3. Placed' /\ OldWriters' /\ SeenReady'
    BY <1>1, <2>1 DEF Placed, OldWriters, SeenReady
  <2> QED
    BY <2>2, <2>3 DEF IInv
<1>6. CASE ReadHello
  <2>1. Frame(<<"identify">>)
    BY <1>1, <1>4, <1>6 DEF ReadHello, Alive, Happens, TypeOK
  <2> QED
    BY <2>1, <1>2, <1>3
<1>7. CASE ReadReady
  <2>1. announced' \in 0 .. MaxReadies
    BY <1>1, <1>7, GatewayAssumption DEF ReadReady, TypeOK
  <2>2. Frame(<<"other">>)
    BY <1>1, <1>4, <1>7, <2>1 DEF ReadReady, Alive, Happens, TypeOK
  <2> QED
    BY <2>2, <1>2, <1>3
<1>8. CASE ReadInvalidSession
  <2>1. Frame(<<"identify">>)
    BY <1>1, <1>4, <1>8 DEF ReadInvalidSession, Alive, TypeOK
  <2> QED
    BY <2>1, <1>2, <1>3
<1>9. CASE ReadHeartbeat
  <2>1. Frame(<<"other">>)
    BY <1>1, <1>9 DEF ReadHeartbeat, Alive, TypeOK
  <2> QED
    BY <2>1, <1>2, <1>3
<1>10. CASE ReadNothing
  <2>1. Frame(<<>>)
    BY <1>1, <1>10 DEF ReadNothing, TypeOK
  <2> QED
    BY <2>1, <1>2, <1>3
<1>11. CASE ReadEnd
  <2>1. /\ rpc = "read" /\ rpc' = "left"
        /\ UNCHANGED <<running, connected, wake, queue, cur, conn, open, wpc, took, session,
                       pub, stop, announced>>
    BY <1>11 DEF ReadEnd, connVars, writers
  <2>2. TypeOK'
    BY <1>1, <2>1 DEF TypeOK
  <2>3. Placed' /\ OldWriters' /\ SeenReady'
    BY <1>1, <2>1 DEF Placed, OldWriters, SeenReady
  <2> QED
    BY <2>2, <2>3 DEF IInv
<1> QED
  BY <1>5, <1>6, <1>7, <1>8, <1>9, <1>10, <1>11 DEF Read

-----------------------------------------------------------------------------
\* A step of a writer: it stays where it is started and joined.
LEMMA StepWriter == ASSUME IInv, NEW c \in Conns, Writer(c) PROVE IInv'
<1>1. TypeOK /\ Placed /\ OldWriters /\ SeenReady
  BY DEF IInv
<1> DEFINE Moves(pc, s) ==
      /\ ~ Idle(c)
      /\ wpc' = [wpc EXCEPT ![c] = pc] /\ took' = [took EXCEPT ![c] = s]
      /\ queue' \in Seq(Payloads) /\ Len(queue') <= MaxQueue
      /\ session' \in [Conns -> SUBSET {"greeted", "identified", "ready", "seen", "closed"}]
      /\ \A d \in Conns : "seen" \in session[d] => "seen" \in session'[d]
      /\ UNCHANGED <<running, connected, wake, cur, conn, open, rpc, pub, stop, announced>>
<1>2. ASSUME NEW pc \in {"check", "test", "falling", "asleep", "write", "ended"}, NEW s,
             IF pc = "write" THEN s \in {<<p>> : p \in Payloads} ELSE s = <<>>,
             Moves(pc, s)
      PROVE  IInv'
  <2>1. c = cur /\ rpc \notin Between
    BY <1>1, <1>2 DEF OldWriters, Placed, TypeOK
  <2>2. TypeOK'
    <3>1. wpc' \in [Conns -> {"none", "check", "test", "falling", "asleep", "write", "ended"}]
          /\ wpc'[c] = pc /\ \A d \in Conns \ {c} : wpc'[d] = wpc[d]
      BY <1>1, <1>2 DEF TypeOK
    <3>2. took' \in [Conns -> {<<>>} \cup {<<p>> : p \in Payloads}]
          /\ took'[c] = s /\ \A d \in Conns \ {c} : took'[d] = took[d]
      BY <1>1, <1>2 DEF TypeOK
    <3>3. s # <<>> <=> pc = "write"
      BY <1>2
    <3>4. \A d \in Conns : took'[d] # <<>> <=> wpc'[d] = "write"
      BY <1>1, <3>1, <3>2, <3>3 DEF TypeOK
    <3> QED
      BY <1>1, <1>2, <3>1, <3>2, <3>4 DEF TypeOK
  <2>3. Placed' /\ OldWriters'
    BY <1>1, <1>2, <2>1 DEF Placed, OldWriters, TypeOK
  <2>4. SeenReady'
    <3>1. connected = TRUE => cur \in Conns
      BY <2>1
    <3> QED
      BY <1>1, <1>2, <3>1 DEF SeenReady
  <2> QED
    BY <2>2, <2>3, <2>4 DEF IInv
<1>3. /\ queue \in Seq(Payloads) /\ Len(queue) <= MaxQueue
      /\ session \in [Conns -> SUBSET {"greeted", "identified", "ready", "seen", "closed"}]
      /\ wpc[c] # "write" => took = [took EXCEPT ![c] = <<>>]
  BY <1>1 DEF TypeOK
<1>4. ASSUME Take(c), wpc[c] \in {"test", "asleep"} PROVE IInv'
  <2>1. UNCHANGED <<running, connected, wake, cur, conn, open, rpc, session, pub, stop, announced>>
    BY <1>4 DEF Take, connVars
  <2>2. CASE queue = <<>>
    <3>1. Moves("check", <<>>)
      BY <1>3, <1>4, <2>1, <2>2 DEF Take
    <3> HIDE DEF Moves
    <3> QED
      BY <3>1, <1>2
  <2>3. CASE queue # <<>>
    <3>1. Head(queue) \in Payloads /\ Tail(queue) \in Seq(Payloads)
          /\ Len(Tail(queue)) <= MaxQueue
      BY <1>3, <2>3, GatewayAssumption
    <3>2. Moves("write", <<Head(queue)>>)
      BY <1>3, <1>4, <2>1, <2>3, <3>1 DEF Take
    <3> HIDE DEF Moves
    <3> QED
      BY <3>1, <3>2, <1>2
  <2> QED
    BY <2>2, <2>3
<1>5. ASSUME NEW pc \in {"check", "test", "falling", "asleep", "ended"},
             ~ Idle(c), wpc[c] # "write", wpc' = [wpc EXCEPT ![c] = pc],
             UNCHANGED <<running, connected, wake, queue, connVars, rpc, took, session, pub, stop,
                         announced>>
      PROVE  IInv'
  <2>1. Moves(pc, <<>>)
    BY <1>3, <1>5 DEF connVars
  <2> HIDE DEF Moves
  <2> QED
    BY <2>1, <1>2, <1>5
<1>6. CASE CheckOpen(c)
  BY <1>5, <1>6 DEF CheckOpen
<1>7. CASE TestTrue(c)
  BY <1>4, <1>7 DEF TestTrue
<1>8. CASE TestFalse(c)
  BY <1>5, <1>8 DEF TestFalse
<1>9. CASE Sleep(c)
  BY <1>5, <1>9 DEF Sleep
<1>10. CASE Timeout(c)
  BY <1>4, <1>10 DEF Timeout
<1>11. CASE Write(c)
  <2>1. PICK pc \in {"check", "ended"} :
          /\ wpc[c] = "write" /\ wpc' = [wpc EXCEPT ![c] = pc]
          /\ took' = [took EXCEPT ![c] = <<>>]
          /\ session' \in {session, [session EXCEPT ![c] = @ \cup {"identified"}]}
          /\ UNCHANGED <<running, connected, wake, queue, cur, conn, open, rpc, pub, stop, announced>>
    BY <1>11 DEF Write, connVars
  <2>2. /\ session' \in [Conns -> SUBSET {"greeted", "identified", "ready", "seen", "closed"}]
        /\ \A d \in Conns : "seen" \in session[d] => "seen" \in session'[d]
    BY <1>3, <2>1
  <2>3. Moves(pc, <<>>)
    BY <1>3, <2>1, <2>2
  <2> HIDE DEF Moves
  <2> QED
    BY <2>1, <2>3, <1>2
<1> QED
  BY <1>6, <1>7, <1>8, <1>9, <1>10, <1>11 DEF Writer

-----------------------------------------------------------------------------
\* The steps of Discord, of the REST worker and of Stop.
LEMMA StepOthers ==
  ASSUME IInv, \/ (\E c \in Conns : Close(c)) \/ Publish \/ PublishNotify
               \/ Stop \/ Stopping \/ UNCHANGED vars
  PROVE  IInv'
<1>1. TypeOK /\ Placed /\ OldWriters /\ SeenReady
  BY DEF IInv
<1>2. /\ UNCHANGED <<connected, cur, conn, open, rpc, took, announced>>
      /\ running' \in BOOLEAN /\ wake' \in BOOLEAN
      /\ stop' \in {"no", "wake", "notify", "join", "done"} /\ pub' \in {"out", "notify"}
      /\ queue' \in Seq(Payloads) /\ Len(queue') <= MaxQueue
      /\ session' \in [Conns -> SUBSET {"greeted", "identified", "ready", "seen", "closed"}]
      /\ \A c \in Conns : "seen" \in session[c] => "seen" \in session'[c]
      /\ wpc' \in {wpc, Notified}
  <2>1. CASE \E c \in Conns : Close(c)
    BY <1>1, <2>1 DEF Close, TypeOK, connVars, writers
  <2>2. CASE Publish
    <3>1. "other" \in Payloads
      BY DEF Payloads
    <3>2. queue' = Append(queue, "other") /\ queue \in Seq(Payloads) /\ Len(queue) < MaxQueue
      BY <1>1, <2>2 DEF Publish, TypeOK
    <3>3. queue' \in Seq(Payloads) /\ Len(queue') <= MaxQueue
      BY <3>1, <3>2, GatewayAssumption
    <3> QED
      BY <1>1, <2>2, <3>3 DEF Publish, TypeOK, connVars, writers
  <2>8. CASE PublishNotify
    BY <1>1, <2>8 DEF PublishNotify, TypeOK, connVars
  <2>3. CASE Stop
    BY <1>1, <2>3 DEF Stop, TypeOK, connVars, writers
  <2>4. CASE StopWake
    BY <1>1, <2>4 DEF StopWake, TypeOK, connVars, writers
  <2>5. CASE StopNotify
    BY <1>1, <2>5 DEF StopNotify, TypeOK, connVars
  <2>6. CASE StopJoin
    BY <1>1, <2>6 DEF StopJoin, TypeOK, connVars, writers
  <2>7. CASE UNCHANGED vars
    BY <1>1, <2>7 DEF vars, TypeOK, connVars, writers
  <2> QED
    BY <2>1, <2>2, <2>3, <2>4, <2>5, <2>6, <2>7, <2>8 DEF Stopping
<1>3. /\ wpc' \in [Conns -> {"none", "check", "test", "falling", "asleep", "write", "ended"}]
      /\ \A c \in Conns : wpc'[c] \in {"none", "ended"} <=> Idle(c)
      /\ \A c \in Conns : wpc'[c] = "write" <=> wpc[c] = "write"
  BY <1>1, <1>2, NotifiedOK DEF TypeOK
<1>4. TypeOK'
  BY <1>1, <1>2, <1>3 DEF TypeOK
<1>5. Placed' /\ OldWriters'
  BY <1>1, <1>2, <1>3 DEF Placed, OldWriters
<1>6. SeenReady'
  <2>1. connected = TRUE => cur \in Conns
    BY <1>1 DEF Placed, TypeOK
  <2> QED
    BY <1>1, <1>2, <2>1 DEF SeenReady
<1> QED
  BY <1>4, <1>5, <1>6 DEF IInv

LEMMA NextIInv == IInv /\ [Next]_vars => IInv'
<1> SUFFICES ASSUME IInv, [Next]_vars PROVE IInv'
  OBVIOUS
<1> QED
  BY StepBetween, StepDial, StepLeave, StepWake, StepNotify, StepJoin, StepRead, StepWriter,
     StepOthers DEF Next, GatewayThread, Writing

\* The invariant is inductive.
THEOREM Invariance == Spec => []IInv
  BY InitIInv, NextIInv, PTL DEF Spec

-----------------------------------------------------------------------------
\* Every variable keeps its type, and a payload is held only while it is written.
THEOREM TypeCorrect == Spec => []TypeOK
<1>1. IInv => TypeOK
  BY DEF IInv
<1> QED
  BY <1>1, Invariance, PTL

\* The publish queue has one consumer, and it ends with its connection.
THEOREM SingleWriter == Spec => []OneWriter
<1>1. IInv => OneWriter
  <2> SUFFICES ASSUME IInv, NEW c \in Conns, ~ Idle(c)
               PROVE  c = cur /\ rpc \in Reading \cup Leaving
    BY DEF OneWriter
  <2> QED
    BY DEF IInv, OldWriters, Placed, TypeOK
<1> QED
  BY <1>1, Invariance, PTL

\* connected_ is never true without a READY on the open connection.
THEOREM ConnectedIsReady == Spec => []ConnectedMeansReady
<1>1. IInv => ConnectedMeansReady
  <2> SUFFICES ASSUME IInv, connected = TRUE
               PROVE  conn # 0 /\ conn = cur /\ open[cur] = TRUE /\ "seen" \in session[cur]
    BY DEF IInv, TypeOK, ConnectedMeansReady
  <2>1. rpc \in Reading
    BY DEF IInv, Placed, TypeOK
  <2>2. cur \in Conns /\ cur # 0
    BY <2>1, GatewayAssumption DEF IInv, Placed, Conns
  <2> QED
    BY <2>1, <2>2 DEF IInv, Placed, SeenReady
<1> QED
  BY <1>1, Invariance, PTL

-----------------------------------------------------------------------------
(***************************************************************************)
(* Payloads and notifications.                                             *)
(***************************************************************************)

LEMMA PayloadsInit == Init => NoPayloadSleeps
  BY DEF Init, NoPayloadSleeps

\* Whatever queues a payload holds the mutex, and notifies at once or has still to do so; a
\* writer falls asleep only over an empty queue.
LEMMA PayloadsStep ==
  ASSUME IInv, NoPayloadSleeps, [Next]_vars
  PROVE  NoPayloadSleeps'
<1>1. wpc \in [Conns -> {"none", "check", "test", "falling", "asleep", "write", "ended"}]
  BY DEF IInv, TypeOK
<1>2. \A c \in Conns : Notified[c] # "asleep" /\ (Notified[c] = "falling" => wpc[c] = "falling")
  BY <1>1 DEF Notified
<1>3. ASSUME UNCHANGED <<queue, pub>>,
             \A c \in Conns :
               /\ wpc'[c] = "falling" => wpc[c] = "falling" \/ queue = <<>>
               /\ wpc'[c] = "asleep" => wpc[c] \in {"falling", "asleep"}
      PROVE  NoPayloadSleeps'
  BY <1>3 DEF NoPayloadSleeps
<1>4. ASSUME UNCHANGED <<queue, wpc, pub>> PROVE NoPayloadSleeps'
  BY <1>3, <1>4
<1>5. ASSUME UNCHANGED queue, wpc' = Notified PROVE NoPayloadSleeps'
  BY <1>2, <1>5 DEF NoPayloadSleeps
<1>6. ASSUME NEW s \in Seq(Payloads), SendText(s) PROVE NoPayloadSleeps'
  <2>1. PICK due \in {<<>>, <<"other">>} :
          /\ queue' = queue \o s \o due
          /\ wpc' = IF s \o due = <<>> THEN wpc ELSE Notified
    BY <1>6 DEF SendText
  <2>2. CASE s \o due = <<>>
    <3>1. queue \in Seq(Payloads) /\ due \in Seq(Payloads)
      <4>1. "other" \in Payloads
        BY DEF Payloads
      <4>2. <<>> \in Seq(Payloads) /\ <<"other">> \in Seq(Payloads)
        BY <4>1
      <4> QED
        BY <4>2 DEF IInv, TypeOK
    <3>2. queue' = queue
      BY <2>1, <2>2, <3>1
    <3> QED
      BY <1>4, <1>6, <2>1, <2>2, <3>2 DEF SendText
  <2>3. CASE s \o due # <<>>
    <3>1. \A c \in Conns : wpc'[c] \notin {"falling", "asleep"}
      BY <1>2, <1>6, <2>1, <2>3 DEF SendText, MutexFree
    <3> QED
      BY <3>1 DEF NoPayloadSleeps
  <2> QED
    BY <2>2, <2>3
<1>7. ASSUME NEW c \in Conns, Writer(c) PROVE NoPayloadSleeps'
  <2>1. ASSUME Take(c), wpc[c] \in {"test", "asleep"}, MutexFree PROVE NoPayloadSleeps'
    <3>1. \A d \in Conns : d # c => Idle(d)
      BY <2>1 DEF IInv, OldWriters
    <3>2. \A d \in Conns : wpc'[d] = "asleep" \/ wpc'[d] = "falling" => FALSE
      BY <1>1, <2>1, <3>1 DEF Take
    <3> QED
      BY <3>2 DEF NoPayloadSleeps
  <2>2. CASE CheckOpen(c) \/ Write(c)
    BY <1>1, <1>3, <2>2 DEF CheckOpen, Write
  <2>3. CASE TestTrue(c)
    BY <2>1, <2>3 DEF TestTrue
  <2>4. CASE TestFalse(c)
    BY <1>1, <1>3, <2>4 DEF TestFalse
  <2>5. CASE Sleep(c)
    BY <1>1, <1>3, <2>5 DEF Sleep
  <2>6. CASE Timeout(c)
    BY <2>1, <2>6 DEF Timeout
  <2> QED
    BY <1>7, <2>2, <2>3, <2>4, <2>5, <2>6 DEF Writer
<1>8. CASE Dial
  BY <1>1, <1>3, <1>8, GatewayAssumption DEF Dial
<1>9. CASE Publish
  <2>1. \A c \in Conns : wpc'[c] # "falling"
    BY <1>9 DEF Publish, MutexFree, writers
  <2>2. pub' = "notify"
    BY <1>9 DEF Publish
  <2> QED
    BY <2>1, <2>2 DEF NoPayloadSleeps
<1>10. CASE Read
  <2>1. <<>> \in Seq(Payloads) /\ <<"identify">> \in Seq(Payloads) /\ <<"other">> \in Seq(Payloads)
    BY DEF Payloads
  <2>2. CASE ReadEnd
    BY <1>4, <2>2 DEF ReadEnd, writers
  <2> QED
    BY <1>6, <1>10, <2>1, <2>2 DEF Read, ReadHello, ReadReady, ReadInvalidSession, ReadHeartbeat,
                                   ReadNothing
<1>11. CASE NotifyWriter \/ StopNotify \/ PublishNotify
  BY <1>5, <1>11 DEF NotifyWriter, StopNotify, PublishNotify
<1>12. CASE \/ Begin \/ NextRound \/ DialFails \/ Leave \/ WakeWriter \/ JoinWriter \/ LoopHead
            \/ Stop \/ StopWake \/ StopJoin \/ (\E c \in Conns : Close(c)) \/ UNCHANGED vars
  BY <1>4, <1>12 DEF Begin, NextRound, DialFails, Leave, WakeWriter, JoinWriter, LoopHead, Stop,
                     StopWake, StopJoin, Close, vars, writers
<1> QED
  BY <1>7, <1>8, <1>9, <1>10, <1>11, <1>12 DEF Next, GatewayThread, Writing, Stopping

\* SendText and Publish lose no notification: a writer sleeps over a payload only until the
\* REST worker, done with the mutex, notifies it.
THEOREM PayloadsAreHeard == Spec => []NoPayloadSleeps
  BY PayloadsInit, PayloadsStep, Invariance, PTL DEF Spec

-----------------------------------------------------------------------------
(***************************************************************************)
(* What the gateway thread has told its writer, and Stop the gateway       *)
(* thread.                                                                 *)
(***************************************************************************)

Told ==
  /\ rpc \in Reading \cup Leaving => wpc[cur] # "none"
  /\ rpc \in Leaving => open[cur] = FALSE
  /\ rpc \in {"notify", "join"} => wake = TRUE
  /\ ~EarlyStop /\ stop # "no" => running = FALSE /\ rpc # "new"

LInv == IInv /\ Told

\* Where a step of the gateway thread leads; after Stop it does not dial again.
LEMMA GatewayMoves ==
  ASSUME IInv, GatewayThread
  PROVE  /\ \/ rpc = "new" /\ rpc' = "next"
            \/ rpc \in {"next", "retry"} /\ rpc' = (IF running THEN "dial" ELSE "done")
            \/ rpc = "dial" /\ rpc' \in {"loop", "retry"}
            \/ rpc = "loop" /\ rpc' = (IF running THEN "read" ELSE "left")
            \/ rpc = "read" /\ rpc' \in {"loop", "left"}
            \/ rpc = "left" /\ rpc' = "wake"
            \/ rpc = "wake" /\ rpc' = "notify"
            \/ rpc = "notify" /\ rpc' = "join"
            \/ rpc = "join" /\ rpc' = "next" /\ wpc[cur] = "ended"
         /\ stop' = stop /\ (running' = running \/ rpc = "new")
  BY DEF GatewayThread, Begin, NextRound, Dial, DialFails, Leave, WakeWriter, NotifyWriter,
         JoinWriter, LoopHead, Read, ReadHello, ReadReady, ReadInvalidSession, ReadHeartbeat,
         ReadNothing, ReadEnd, SendText, Alive

\* The others leave the gateway thread and its connection where they are.
LEMMA OthersStay ==
  ASSUME \/ Writing \/ (\E c \in Conns : Close(c)) \/ Publish \/ PublishNotify
         \/ Stop \/ Stopping \/ UNCHANGED vars
  PROVE  UNCHANGED <<rpc, cur, conn, open>>
  BY DEF Writing, Writer, CheckOpen, TestTrue, TestFalse, Take, Sleep, Timeout, Write, Close,
         Publish, PublishNotify, Stop, Stopping, StopWake, StopNotify, StopJoin, vars, connVars

LEMMA ToldInit == Init => Told
  BY DEF Init, Told

LEMMA ToldStep ==
  ASSUME IInv, IInv', Told, [Next]_vars
  PROVE  Told'
<1>1. wpc \in [Conns -> {"none", "check", "test", "falling", "asleep", "write", "ended"}]
      /\ open \in [Conns -> BOOLEAN]
  BY DEF IInv, TypeOK
<1>2. \A c \in Conns : wpc[c] # "none" => Notified[c] # "none"
  BY <1>1 DEF Notified
<1>3. rpc \in Reading \cup Leaving => cur \in Conns
  BY DEF IInv, Placed
<1>4. ASSUME GatewayThread PROVE Told'
  <2>1. rpc' \in Reading \cup Leaving => wpc'[cur'] # "none"
    <3>1. CASE Dial
      <4>1. cur' = cur + 1 /\ cur + 1 \in Conns /\ wpc' = [wpc EXCEPT ![cur + 1] = "check"]
        BY <3>1, GatewayAssumption DEF IInv, TypeOK, Dial, Conns
      <4> QED
        BY <1>1, <4>1
    <3>2. CASE ~Dial /\ rpc' \in Reading \cup Leaving
      <4>1. rpc \in Reading \cup Leaving /\ cur' = cur /\ wpc' \in {wpc, Notified}
        BY <1>4, <3>2 DEF GatewayThread, Begin, NextRound, DialFails, Leave, WakeWriter,
             NotifyWriter, JoinWriter, LoopHead, Read, ReadHello, ReadReady, ReadInvalidSession,
             ReadHeartbeat, ReadNothing, ReadEnd, SendText, Alive, connVars, writers
      <4> QED
        BY <1>2, <1>3, <4>1 DEF Told
    <3> QED
      BY <3>1, <3>2
  <2>2. rpc' \in Leaving => open'[cur'] = FALSE
    <3>1. CASE Leave
      BY <1>1, <1>3, <3>1 DEF Leave
    <3>2. CASE WakeWriter \/ NotifyWriter
      BY <3>2 DEF WakeWriter, NotifyWriter, connVars, Told
    <3>3. CASE ~Leave /\ ~WakeWriter /\ ~NotifyWriter
      BY <1>4, <3>3 DEF GatewayThread, Begin, NextRound, Dial, DialFails,
           JoinWriter, LoopHead, Read, ReadHello, ReadReady, ReadInvalidSession,
           ReadHeartbeat, ReadNothing, ReadEnd, SendText, Alive
    <3> QED
      BY <3>1, <3>2, <3>3
  <2>3. rpc' \in {"notify", "join"} => wake' = TRUE
    BY <1>4 DEF GatewayThread, Begin, NextRound, Dial, DialFails, Leave, WakeWriter, NotifyWriter,
         JoinWriter, LoopHead, Read, ReadHello, ReadReady, ReadInvalidSession, ReadHeartbeat,
         ReadNothing, ReadEnd, SendText, Alive, Told
  <2>4. ~EarlyStop /\ stop' # "no" => running' = FALSE /\ rpc' # "new"
    BY <1>4, GatewayMoves DEF Told
  <2> QED
    BY <2>1, <2>2, <2>3, <2>4 DEF Told
<1>5. ASSUME UNCHANGED <<rpc, cur, conn, open, stop, running>>, wake' = wake \/ wake' = TRUE,
             \A c \in Conns : wpc[c] # "none" => wpc'[c] # "none"
      PROVE  Told'
  BY <1>3, <1>5 DEF Told
<1>6. CASE Writing
  <2>1. UNCHANGED <<rpc, cur, conn, open>>
    BY <1>6, OthersStay
  <2>2. UNCHANGED <<stop, running, wake>>
        /\ \A c \in Conns : wpc[c] # "none" => wpc'[c] # "none"
    BY <1>1, <1>6 DEF Writing, Writer, CheckOpen, TestTrue, TestFalse, Take, Sleep, Timeout, Write
  <2> QED
    BY <1>5, <2>1, <2>2
<1>7. CASE Publish \/ PublishNotify \/ Stopping \/ (\E c \in Conns : Close(c)) \/ UNCHANGED vars
  <2>1. UNCHANGED <<rpc, cur, conn, open>>
    BY <1>7, OthersStay
  <2>2. UNCHANGED running /\ (wake' = wake \/ wake' = TRUE) /\ wpc' \in {wpc, Notified}
        /\ (stop' # "no" => stop # "no")
    BY <1>7 DEF Publish, PublishNotify, Stopping, StopWake, StopNotify, StopJoin, Close, vars,
                writers
  <2> QED
    BY <1>2, <1>3, <2>1, <2>2 DEF Told
<1>8. CASE Stop
  BY <1>8 DEF Stop, Told, connVars, writers
<1> QED
  BY <1>4, <1>6, <1>7, <1>8 DEF Next

LEMMA LInvariance == Spec => []LInv
<1>1. Init => LInv
  BY InitIInv, ToldInit DEF LInv
<1>2. LInv /\ [Next]_vars => LInv'
  BY NextIInv, ToldStep DEF LInv
<1> QED
  BY <1>1, <1>2, PTL DEF Spec

\* Once Stop has stored running_ = false, each step of the gateway thread is one step
\* closer to its end.
THEOREM StopIsHeard == Spec => StopWindsDown
<1>1. LInv /\ [Next]_vars =>
        [~EarlyStop /\ stop # "no" => rpc' = rpc \/ StepsLeft[rpc'] < StepsLeft[rpc]]_vars
  <2> SUFFICES ASSUME LInv, [Next]_vars, ~EarlyStop, stop # "no"
               PROVE  rpc' = rpc \/ StepsLeft[rpc'] < StepsLeft[rpc]
    OBVIOUS
  <2>1. running = FALSE /\ rpc # "new"
    BY DEF LInv, Told
  <2>2. CASE GatewayThread
    BY <2>1, <2>2, GatewayMoves DEF LInv, StepsLeft
  <2>3. CASE ~GatewayThread
    BY <2>3, OthersStay DEF Next
  <2> QED
    BY <2>2, <2>3
<1> QED
  BY <1>1, LInvariance, PTL DEF Spec, StopWindsDown

-----------------------------------------------------------------------------
(***************************************************************************)
(* The IDENTIFY that a connection owes.                                    *)
(***************************************************************************)

Holds(q) == \E i \in DOMAIN q : q[i] = "identify"

\* Only the current connection is open, and on those to come nothing has happened.
Newest ==
  /\ \A c \in Conns : open[c] => c = cur /\ rpc \in Reading
  /\ \A c \in Conns : session[c] # {} => c <= cur

Live == rpc \in Reading /\ "closed" \notin session[cur]

\* Its writer lives until Stop.
WriterLives == Live /\ running => ~Idle(cur)

Answering ==
  Live /\ "greeted" \in session[cur] =>
    "identified" \in session[cur] \/ took[cur] = <<"identify">> \/ Holds(queue)

UInv == Newest /\ WriterLives /\ Answering

LEMMA UInvImplies == ASSUME IInv, UInv PROVE IdentifyUnderWay
  BY DEF UInv, Newest, WriterLives, Answering, Live, IdentifyUnderWay, Owed, Holds

LEMMA UInvInit == ASSUME Init PROVE UInv
  BY DEF Init, UInv, Newest, WriterLives, Answering, Live

\* What is added behind leaves what waits where it is.
LEMMA HoldsOn ==
  ASSUME NEW q \in Seq(Payloads), NEW s \in Seq(Payloads), Holds(q) \/ Holds(s)
  PROVE  Holds(q \o s)
<1>1. CASE Holds(q)
  BY <1>1 DEF Holds
<1>2. CASE Holds(s)
  <2>1. PICK i \in DOMAIN s : s[i] = "identify"
    BY <1>2 DEF Holds
  <2>2. Len(q) + i \in DOMAIN (q \o s) /\ (q \o s)[Len(q) + i] = s[i]
    BY <2>1
  <2> QED
    BY <2>1, <2>2 DEF Holds
<1> QED
  BY <1>1, <1>2

\* Newest: connections are opened by Dial alone, and things happen on the newest only.
LEMMA NewestStep == ASSUME IInv, Newest, [Next]_vars PROVE Newest'
<1>1. /\ TypeOK /\ cur \in Nat /\ (rpc \in Reading => cur \in Conns)
      /\ \A c \in Conns : c \in Nat
  BY GatewayAssumption DEF IInv, TypeOK, Placed, Conns
<1>2. CASE Dial
  <2>1. /\ cur' = cur + 1 /\ cur + 1 \in Conns /\ rpc' = "loop" /\ session' = session
        /\ open' = [open EXCEPT ![cur + 1] = TRUE] /\ rpc = "dial"
    BY <1>1, <1>2, GatewayAssumption DEF Dial, TypeOK, Conns
  <2> QED
    BY <1>1, <2>1 DEF Newest, TypeOK
<1>3. CASE Leave
  <2>1. /\ cur' = cur /\ cur \in Conns /\ rpc = "left" /\ session' = session
        /\ open' = [open EXCEPT ![cur] = FALSE]
    BY <1>1, <1>3 DEF Leave
  <2> QED
    BY <1>1, <2>1 DEF Newest, TypeOK
<1>4. ASSUME UNCHANGED <<cur, open>>, rpc \in Reading => rpc' \in Reading,
             \A c \in Conns : session'[c] # {} => session[c] # {} \/ c <= cur
      PROVE  Newest'
  BY <1>4 DEF Newest
<1>5. ASSUME UNCHANGED <<cur, open>>, rpc \in Reading => rpc' \in Reading,
             NEW c \in Conns, c <= cur, NEW S, session' \in {session, [session EXCEPT ![c] = S]}
      PROVE  Newest'
  BY <1>1, <1>4, <1>5 DEF TypeOK
<1>6. CASE Read
  <2>1. UNCHANGED <<cur, open>> /\ rpc' \in Reading /\ cur \in Conns
    BY <1>1, <1>6 DEF Read, ReadHello, ReadReady, ReadInvalidSession, ReadHeartbeat, ReadNothing,
                      ReadEnd, SendText, Alive, connVars
  <2>2. PICK S : session' \in {session, [session EXCEPT ![cur] = S]}
    BY <1>6 DEF Read, ReadHello, ReadReady, ReadInvalidSession, ReadHeartbeat, ReadNothing,
                ReadEnd, Happens
  <2> QED
    BY <1>1, <1>5, <2>1, <2>2
<1>7. CASE Writing
  <2>1. PICK c \in Conns : Writer(c)
    BY <1>7 DEF Writing
  <2>2. ~Idle(c)
    BY <2>1 DEF Writer, CheckOpen, TestTrue, TestFalse, Sleep, Timeout, Write
  <2>3. c = cur
    BY <2>2 DEF IInv, OldWriters
  <2>4. UNCHANGED <<rpc, cur, open>>
    BY <1>7, OthersStay
  <2>5. PICK S : session' \in {session, [session EXCEPT ![c] = S]}
    BY <2>1 DEF Writer, CheckOpen, TestTrue, TestFalse, Sleep, Timeout, Take, Write
  <2> QED
    BY <1>1, <1>5, <2>3, <2>4, <2>5
<1>8. CASE \E c \in Conns : Close(c)
  <2>1. PICK c \in Conns : Close(c)
    BY <1>8
  <2>2. UNCHANGED <<rpc, cur, open>>
    BY <1>8, OthersStay
  <2>3. PICK S : session' \in {session, [session EXCEPT ![c] = S]}
    BY <2>1 DEF Close
  <2>4. c <= cur
    BY <2>1 DEF Close
  <2> QED
    BY <1>5, <2>2, <2>3, <2>4
<1>9. CASE \/ Begin \/ NextRound \/ DialFails \/ WakeWriter \/ NotifyWriter \/ JoinWriter
           \/ LoopHead \/ Publish \/ PublishNotify \/ Stop \/ Stopping \/ UNCHANGED vars
  <2>1. UNCHANGED <<cur, open, session>> /\ (rpc \in Reading => rpc' \in Reading)
    BY <1>9 DEF Begin, NextRound, DialFails, WakeWriter, NotifyWriter, JoinWriter, LoopHead,
                Publish, PublishNotify, Stop, Stopping, StopWake, StopNotify, StopJoin, vars,
                connVars
  <2> QED
    BY <1>4, <2>1
<1> QED
  BY <1>2, <1>3, <1>6, <1>7, <1>8, <1>9 DEF Next, GatewayThread

\* What leaves the queue, the payload taken and the current connection alone: no HELLO has
\* come since, and no answer to one is undone.
LEMMA UInvStays ==
  ASSUME IInv, UInv, UNCHANGED <<cur, took>>, rpc' \in Reading => rpc \in Reading,
         running' => running \/ rpc = "new",
         wpc' \in {wpc, Notified},
         Holds(queue) => Holds(queue)',
         rpc \in Reading =>
           /\ "closed" \in session[cur] => "closed" \in session'[cur]
           /\ "identified" \in session[cur] => "identified" \in session'[cur]
           /\ "greeted" \in session'[cur] => "greeted" \in session[cur]
  PROVE  WriterLives' /\ Answering'
<1>1. \A c \in Conns : Idle(c)' => Idle(c)
  BY NotifiedOK DEF IInv, TypeOK
<1>2. rpc \in Reading => cur \in Conns /\ rpc # "new"
  BY DEF IInv, Placed
<1>3. WriterLives'
  BY <1>1, <1>2 DEF UInv, WriterLives, Live
<1>4. Answering'
  BY <1>2 DEF UInv, Answering, Live
<1> QED
  BY <1>3, <1>4

\* A frame read: an IDENTIFY that is owed from now on is queued at once.
LEMMA UInvFrame ==
  ASSUME IInv, UInv, NEW s \in Seq(Payloads), SendText(s), rpc = "read",
         "closed" \in session[cur] => "closed" \in session'[cur],
         s = <<"identify">> \/ /\ "identified" \in session[cur] => "identified" \in session'[cur]
                               /\ "greeted" \in session'[cur] => "greeted" \in session[cur]
  PROVE  WriterLives' /\ Answering'
<1>1. /\ UNCHANGED <<running, cur, took>> /\ cur \in Conns
      /\ \A c \in Conns : Idle(c)' <=> Idle(c)
  BY SendTextOK DEF IInv, TypeOK, Placed
<1>2. (Holds(queue) => Holds(queue)') /\ (s = <<"identify">> => Holds(queue)')
  <2>1. PICK due \in {<<>>, <<"other">>} : queue' = queue \o s \o due
    BY DEF SendText
  <2>2. queue \in Seq(Payloads) /\ due \in Seq(Payloads) /\ queue \o s \in Seq(Payloads)
    <3>1. "other" \in Payloads
      BY DEF Payloads
    <3>2. <<>> \in Seq(Payloads) /\ <<"other">> \in Seq(Payloads)
      BY <3>1
    <3>3. queue \in Seq(Payloads) /\ due \in Seq(Payloads)
      BY <3>2 DEF IInv, TypeOK
    <3> QED
      BY <3>3
  <2>3. Holds(<<"identify">>)
    BY DEF Holds
  <2>4. Holds(queue) \/ Holds(s) => Holds(queue')
    BY <2>1, <2>2, HoldsOn
  <2> QED
    BY <2>3, <2>4 DEF Holds
<1>3. WriterLives'
  BY <1>1 DEF UInv, WriterLives, Live
<1>4. Answering'
  BY <1>1, <1>2 DEF UInv, Answering, Live
<1> QED
  BY <1>3, <1>4

\* The writer: it takes the first payload, and lets it go only when it has been written or
\* the connection is broken.
LEMMA UInvWriter ==
  ASSUME IInv, UInv, NEW c \in Conns, Writer(c)
  PROVE  WriterLives' /\ Answering'
<1>1. ~Idle(c)
  BY DEF Writer, CheckOpen, TestTrue, TestFalse, Sleep, Timeout, Write
<1>2. c = cur
  BY <1>1 DEF IInv, OldWriters
<1>3. UNCHANGED <<rpc, cur, open, running>>
  BY DEF Writer, CheckOpen, TestTrue, TestFalse, Sleep, Timeout, Take, Write, connVars
<1>4. TypeOK /\ (Live => open[c] = TRUE)
  BY <1>2 DEF IInv, Placed, Live
<1>5. CASE CheckOpen(c)
  <2>1. /\ UNCHANGED <<session, took, queue>>
        /\ wpc' = [wpc EXCEPT ![c] = IF running /\ open[c] THEN "test" ELSE "ended"]
    BY <1>5 DEF CheckOpen
  <2>2. Live' => Live
    BY <1>3, <2>1 DEF Live
  <2>3. Live /\ running => wpc'[c] = "test"
    BY <1>4, <2>1 DEF TypeOK
  <2> QED
    BY <1>2, <1>3, <2>1, <2>2, <2>3 DEF UInv, WriterLives, Answering, Live
<1>6. CASE TestFalse(c) \/ Sleep(c)
  <2>1. /\ UNCHANGED <<session, took, queue>>
        /\ wpc'[c] \in {"falling", "asleep"}
    BY <1>4, <1>6 DEF TestFalse, Sleep, TypeOK
  <2> QED
    BY <1>2, <1>3, <2>1 DEF UInv, WriterLives, Answering, Live
<1>7. CASE TestTrue(c) \/ Timeout(c)
  <2>1. Take(c) /\ wpc[c] # "write" /\ session' = session
    BY <1>7 DEF TestTrue, Timeout, Take
  <2>2. wpc'[c] \in {"check", "write"} /\ took[c] = <<>>
    BY <1>4, <2>1 DEF Take, TypeOK
  <2>3. Holds(queue) => took'[c] = <<"identify">> \/ Holds(queue)'
    <3>1. SUFFICES ASSUME NEW i \in DOMAIN queue, queue[i] = "identify"
                   PROVE  took'[c] = <<"identify">> \/ Holds(queue')
      BY DEF Holds
    <3>2. queue \in Seq(Payloads) /\ queue # <<>>
      BY <1>4, <3>1 DEF TypeOK
    <3>3. queue' = Tail(queue) /\ took'[c] = <<Head(queue)>>
      BY <1>4, <2>1, <3>2 DEF Take, TypeOK
    <3>4. CASE i = 1
      BY <3>1, <3>2, <3>3, <3>4
    <3>5. CASE i # 1
      <4>1. i - 1 \in DOMAIN Tail(queue) /\ Tail(queue)[i - 1] = queue[i]
        BY <3>1, <3>2, <3>5
      <4> QED
        BY <3>1, <3>3, <4>1 DEF Holds
    <3> QED
      BY <3>4, <3>5
  <2> QED
    BY <1>2, <1>3, <2>1, <2>2, <2>3 DEF UInv, WriterLives, Answering, Live
<1>8. CASE Write(c)
  <2>1. /\ queue' = queue /\ took'[c] = <<>> /\ wpc[c] = "write"
        /\ \/ /\ open[c] => "closed" \in session[c]
              /\ wpc' = [wpc EXCEPT ![c] = IF open[c] THEN "ended" ELSE "check"]
              /\ session' = session
           \/ /\ wpc'[c] = "check"
              /\ session' = IF took[c] = <<"identify">> /\ "closed" \notin session[c]
                            THEN [session EXCEPT ![c] = @ \cup {"identified"}] ELSE session
    BY <1>4, <1>8 DEF Write, TypeOK
  <2>2. \/ session' = session
        \/ session'[c] = session[c] \cup {"identified"}
    BY <1>4, <2>1 DEF TypeOK
  <2>3. Live' => Live /\ wpc'[c] = "check"
                 /\ (took[c] = <<"identify">> => "identified" \in session'[c])
    BY <1>2, <1>3, <1>4, <2>1, <2>2 DEF Live, TypeOK
  <2>4. WriterLives'
    BY <1>2, <1>3, <2>3 DEF WriterLives
  <2>5. Answering'
    BY <1>2, <1>3, <2>1, <2>2, <2>3 DEF UInv, Answering, Holds
  <2> QED
    BY <2>4, <2>5
<1> QED
  BY <1>5, <1>6, <1>7, <1>8 DEF Writer

LEMMA UInvStep == ASSUME IInv, UInv, [Next]_vars PROVE UInv'
<1>1. Newest'
  BY NewestStep DEF UInv
<1>2. TypeOK /\ (rpc \in Reading => cur \in Conns)
  BY DEF IInv, Placed
<1>3. CASE Dial
  <2>1. /\ cur' = cur + 1 /\ cur + 1 \in Conns /\ session' = session
        /\ wpc' = [wpc EXCEPT ![cur + 1] = "check"]
    BY <1>2, <1>3, GatewayAssumption DEF Dial, TypeOK, Conns
  <2>2. wpc'[cur'] = "check"
    BY <1>2, <2>1 DEF TypeOK
  <2>3. session'[cur'] = {}
    BY <1>2, <2>1, GatewayAssumption DEF UInv, Newest, TypeOK
  <2> QED
    BY <1>1, <2>2, <2>3 DEF UInv, WriterLives, Answering
<1>4. CASE Read
  <2>1. <<>> \in Seq(Payloads) /\ <<"identify">> \in Seq(Payloads) /\ <<"other">> \in Seq(Payloads)
    BY DEF Payloads
  <2>2. CASE ReadHello
    BY <1>1, <1>2, <2>1, <2>2, UInvFrame DEF ReadHello, Alive, Happens, TypeOK, UInv
  <2>3. CASE ReadReady
    <3>1. rpc = "read" /\ SendText(<<"other">>)
          /\ session' = [session EXCEPT ![cur] = session[cur] \cup {"ready", "seen"}]
      BY <2>3 DEF ReadReady, Alive, Happens
    <3> QED
      BY <1>1, <1>2, <2>1, <3>1, UInvFrame DEF TypeOK, UInv
  <2>4. CASE ReadInvalidSession
    BY <1>1, <1>2, <2>1, <2>4, UInvFrame DEF ReadInvalidSession, Alive, TypeOK, UInv
  <2>5. CASE ReadHeartbeat
    BY <1>1, <2>1, <2>5, UInvFrame DEF ReadHeartbeat, Alive, UInv
  <2>6. CASE ReadNothing
    BY <1>1, <2>1, <2>6, UInvFrame DEF ReadNothing, UInv
  <2>7. CASE ReadEnd
    BY <1>1, <2>7, UInvStays DEF ReadEnd, UInv, Holds, connVars, writers
  <2> QED
    BY <1>4, <2>2, <2>3, <2>4, <2>5, <2>6, <2>7 DEF Read
<1>5. CASE Writing
  BY <1>1, <1>5, UInvWriter DEF Writing, UInv
<1>6. CASE \E c \in Conns : Close(c)
  <2>1. PICK c \in Conns : Close(c)
    BY <1>6
  <2>2. /\ session' = [session EXCEPT ![c] = session[c] \cup {"closed"}]
        /\ UNCHANGED <<running, queue, cur, rpc, wpc, took>>
    BY <2>1 DEF Close, connVars, writers
  <2>3. \A d \in Conns : session'[d] \in {session[d], session[d] \cup {"closed"}}
    BY <1>2, <2>2 DEF TypeOK
  <2>4. WriterLives' /\ Answering'
    BY <1>2, <2>2, <2>3, UInvStays DEF Holds
  <2> QED
    BY <1>1, <2>4 DEF UInv
<1>7. CASE Publish
  <2>1. Holds(queue) => Holds(queue')
    BY <1>2, <1>7 DEF Publish, Holds, TypeOK
  <2>2. WriterLives' /\ Answering'
    BY <1>7, <2>1, UInvStays DEF Publish, Holds, connVars, writers
  <2> QED
    BY <1>1, <2>2 DEF UInv
<1>8. CASE \/ Begin \/ NextRound \/ DialFails \/ Leave \/ WakeWriter \/ NotifyWriter \/ JoinWriter
           \/ LoopHead \/ PublishNotify \/ Stop \/ Stopping \/ UNCHANGED vars
  <2>1. /\ UNCHANGED <<cur, took, queue, session>> /\ wpc' \in {wpc, Notified}
        /\ rpc' \in Reading => rpc \in Reading
        /\ running' => running \/ rpc = "new"
    BY <1>8 DEF Begin, NextRound, DialFails, Leave, WakeWriter, NotifyWriter, JoinWriter, LoopHead,
                PublishNotify, Stop, Stopping, StopWake, StopNotify, StopJoin, vars, connVars,
                writers
  <2>2. WriterLives' /\ Answering'
    BY <2>1, UInvStays DEF Holds
  <2> QED
    BY <1>1, <2>2 DEF UInv
<1> QED
  BY <1>3, <1>4, <1>5, <1>6, <1>7, <1>8 DEF Next, GatewayThread

\* For any number of connections: what was left in the queue, what others publish and when
\* the writer sleeps, wakes or gives up waiting, an IDENTIFY that Discord waits for is
\* never lost on an open connection (SendText, WriteLoop).
THEOREM NoIdentifyIsLost == Spec => []IdentifyUnderWay
<1>1. Init => UInv
  BY UInvInit
<1>2. IInv /\ UInv /\ [Next]_vars => UInv'
  BY UInvStep
<1>3. IInv /\ UInv => IdentifyUnderWay
  BY UInvImplies
<1> QED
  BY <1>1, <1>2, <1>3, Invariance, PTL DEF Spec

-----------------------------------------------------------------------------
(***************************************************************************)
(* The gateway implements GatewayLink, if Stop does not come before Run    *)
(* has begun.                                                              *)
(***************************************************************************)

\* Nothing but Stop makes Run return, and Stop returns after it.
OnlyStopEnds ==
  /\ rpc # "new" /\ stop = "no" => running = TRUE
  /\ stop = "done" => rpc = "done"

LEMMA OnlyStopEndsStep == IInv /\ OnlyStopEnds /\ [Next]_vars => OnlyStopEnds'
<1> SUFFICES ASSUME IInv, OnlyStopEnds, [Next]_vars PROVE OnlyStopEnds'
  OBVIOUS
<1>1. CASE Begin
  BY <1>1 DEF Begin, OnlyStopEnds
<1>2. CASE GatewayThread /\ ~Begin
  <2>1. rpc # "new" /\ rpc # "done" /\ UNCHANGED <<stop, running>>
    BY <1>2 DEF GatewayThread, NextRound, Dial, DialFails, Leave, WakeWriter, NotifyWriter,
         JoinWriter, LoopHead, Read, ReadHello, ReadReady, ReadInvalidSession, ReadHeartbeat,
         ReadNothing, ReadEnd, SendText, Alive
  <2> QED
    BY <2>1 DEF OnlyStopEnds
<1>3. CASE Stop
  BY <1>3 DEF Stop, OnlyStopEnds
<1>4. CASE \/ Writing \/ (\E c \in Conns : Close(c)) \/ Publish \/ PublishNotify
           \/ Stopping \/ UNCHANGED vars
  <2>1. UNCHANGED <<rpc, running>> /\ (stop' = "no" => stop = "no")
        /\ (stop' = "done" => stop = "done" \/ rpc = "done")
    BY <1>4 DEF Writing, Writer, CheckOpen, TestTrue, TestFalse, Sleep, Timeout, Take, Write,
                Close, Publish, PublishNotify, Stopping, StopWake, StopNotify, StopJoin, vars
  <2> QED
    BY <2>1 DEF OnlyStopEnds
<1> QED
  BY <1>1, <1>2, <1>3, <1>4 DEF Next

LEMMA LinkInit == Init => Link!Init
  BY DEF Init, Link!Init, LinkState, WriterAlive, StopState

LEMMA LinkStutter ==
  ASSUME UNCHANGED <<LinkState, WriterAlive, connected, cur, announced, StopState>>
  PROVE  [Link!Next]_(Link!vars)
  BY DEF Link!vars

\* Waking sleepers is no step of the link.
LEMMA NotifiedAlive ==
  ASSUME TypeOK, wpc' \in {wpc, Notified}
  PROVE  WriterAlive' <=> WriterAlive
  BY NotifiedOK DEF WriterAlive

LEMMA LinkGateway ==
  ASSUME ~EarlyStop, LInv, OnlyStopEnds, GatewayThread
  PROVE  [Link!Next]_(Link!vars)
<1>1. /\ TypeOK /\ Placed /\ OldWriters /\ (stop # "no" => running = FALSE \/ rpc = "new")
      /\ (rpc \in Between => ~WriterAlive)
  BY DEF LInv, IInv, Told, Placed, WriterAlive
<1>2. CASE Begin \/ LoopHead \/ ReadEnd \/ WakeWriter
  <2>1. /\ UNCHANGED <<wpc, connected, cur, announced, stop>>
    BY <1>1, <1>2 DEF Begin, LoopHead, ReadEnd, WakeWriter, connVars, writers, Placed
  <2>2. LinkState' = LinkState
    BY <1>2 DEF Begin, LoopHead, ReadEnd, WakeWriter, LinkState
  <2> QED
    BY <2>1, <2>2, LinkStutter DEF WriterAlive, StopState
<1>3. CASE NextRound
  <2>1. /\ UNCHANGED <<wpc, connected, cur, announced, stop>> /\ LinkState = "idle" /\ ~WriterAlive
        /\ rpc' = (IF running THEN "dial" ELSE "done")
    BY <1>1, <1>3 DEF NextRound, connVars, writers, LinkState
  <2>2. CASE running
    <3>1. stop = "no"
      BY <1>1, <1>3, <2>2 DEF NextRound, TypeOK
    <3>2. Link!BeginDial
      BY <2>1, <2>2, <3>1 DEF Link!BeginDial, LinkState, WriterAlive, StopState
    <3> QED
      BY <3>2 DEF Link!Next
  <2>3. CASE ~running
    <3>1. stop # "no"
      BY <1>3, <2>3 DEF NextRound, OnlyStopEnds
    <3>2. stop # "done"
      BY <1>3 DEF NextRound, OnlyStopEnds
    <3>3. Link!Finish
      BY <2>1, <2>3, <3>1, <3>2 DEF Link!Finish, LinkState, WriterAlive, StopState
    <3> QED
      BY <3>3 DEF Link!Next
  <2> QED
    BY <2>2, <2>3
<1>4. CASE Dial
  <2>1. /\ cur' = cur + 1 /\ cur + 1 \in Conns /\ wpc' = [wpc EXCEPT ![cur + 1] = "check"]
        /\ rpc = "dial" /\ rpc' = "loop" /\ UNCHANGED <<connected, announced, stop>>
    BY <1>1, <1>4, GatewayAssumption DEF Dial, TypeOK, Conns
  <2>2. WriterAlive'
    BY <1>1, <2>1 DEF WriterAlive, TypeOK
  <2>3. Link!Establish
    BY <2>1, <2>2 DEF Link!Establish, LinkState, StopState
  <2> QED
    BY <2>3 DEF Link!Next
<1>5. CASE DialFails
  <2>1. UNCHANGED <<wpc, connected, cur, announced, stop>> /\ rpc = "dial" /\ rpc' = "retry"
    BY <1>1, <1>5 DEF DialFails, connVars, writers, Placed
  <2>2. Link!Fail
    BY <2>1 DEF Link!Fail, LinkState, WriterAlive, StopState
  <2> QED
    BY <2>2 DEF Link!Next
<1>6. CASE Leave
  <2>1. /\ UNCHANGED <<wpc, cur, announced, stop>> /\ connected' = FALSE
        /\ rpc = "left" /\ rpc' = "wake"
    BY <1>6 DEF Leave, writers
  <2>2. Link!End
    BY <2>1 DEF Link!End, LinkState, WriterAlive, StopState
  <2> QED
    BY <2>2 DEF Link!Next
<1>7. CASE NotifyWriter \/ JoinWriter
  <2>1. /\ UNCHANGED <<connected, cur, announced, stop>> /\ wpc' \in {wpc, Notified}
        /\ LinkState' = LinkState
    BY <1>7 DEF NotifyWriter, JoinWriter, connVars, writers, LinkState
  <2>2. WriterAlive' = WriterAlive /\ StopState' = StopState
    BY <1>1, <2>1, NotifiedAlive DEF WriterAlive, StopState
  <2> QED
    BY <2>1, <2>2, LinkStutter
<1>8. CASE Read /\ ~ReadEnd
  <2>1. /\ rpc = "read" /\ rpc' = "loop" /\ wpc' \in {wpc, Notified} /\ UNCHANGED <<cur, stop>>
        /\ \/ UNCHANGED <<connected, announced>>
           \/ connected' = TRUE /\ announced' = announced + 1
    BY <1>8 DEF Read, ReadHello, ReadReady, ReadInvalidSession, ReadHeartbeat, ReadNothing,
                SendText, Alive, connVars
  <2>2. UNCHANGED <<LinkState, StopState>> /\ LinkState = "open" /\ WriterAlive' = WriterAlive
    BY <1>1, <2>1, NotifiedAlive DEF LinkState, StopState, WriterAlive
  <2>3. CASE UNCHANGED <<connected, announced>>
    BY <2>1, <2>2, <2>3, LinkStutter
  <2>4. CASE connected' = TRUE /\ announced' = announced + 1
    <3>1. Link!Ready
      BY <2>1, <2>2, <2>4 DEF Link!Ready
    <3> QED
      BY <3>1 DEF Link!Next
  <2> QED
    BY <2>1, <2>3, <2>4
<1> QED
  BY <1>2, <1>3, <1>4, <1>5, <1>6, <1>7, <1>8 DEF GatewayThread

\* A step of a writer is none of the link's, except its last one.
LEMMA LinkWriter ==
  ASSUME LInv, NEW c \in Conns, Writer(c)
  PROVE  [Link!Next]_(Link!vars)
<1>1. /\ wpc[c] \notin {"none", "ended"}
      /\ wpc \in [Conns -> {"none", "check", "test", "falling", "asleep", "write", "ended"}]
  BY DEF LInv, IInv, TypeOK, Writer, CheckOpen, TestTrue, TestFalse, Sleep, Timeout, Write
<1>2. UNCHANGED <<connected, cur, announced, rpc, stop>>
  BY DEF Writer, CheckOpen, TestTrue, TestFalse, Sleep, Timeout, Take, Write, connVars
<1>3. UNCHANGED <<LinkState, StopState>> /\ WriterAlive
  BY <1>1, <1>2 DEF LinkState, StopState, WriterAlive
<1>4. CASE WriterAlive'
  <2>1. WriterAlive' = WriterAlive
    BY <1>3, <1>4 DEF WriterAlive
  <2> QED
    BY <1>2, <1>3, <2>1, LinkStutter
<1>5. CASE ~WriterAlive'
  <2>1. WriterAlive' = FALSE
    BY <1>5 DEF WriterAlive
  <2>2. Link!WriterEnds
    BY <1>2, <1>3, <2>1 DEF Link!WriterEnds
  <2> QED
    BY <2>2 DEF Link!Next
<1> QED
  BY <1>4, <1>5

LEMMA LinkStep ==
  ASSUME ~EarlyStop, LInv, OnlyStopEnds, [Next]_vars
  PROVE  [Link!Next]_(Link!vars)
<1>1. CASE GatewayThread
  BY <1>1, LinkGateway
<1>2. CASE Writing
  BY <1>2, LinkWriter DEF Writing
<1>3. CASE \/ Publish \/ PublishNotify \/ StopWake \/ StopNotify
           \/ (\E c \in Conns : Close(c)) \/ UNCHANGED vars
  <2>1. /\ UNCHANGED <<connected, cur, announced, rpc>> /\ wpc' \in {wpc, Notified}
        /\ stop' = stop \/ (stop \in {"wake", "notify"} /\ stop' \in {"notify", "join"})
    BY <1>3 DEF Publish, PublishNotify, StopWake, StopNotify, Close, vars, connVars, writers
  <2>2. UNCHANGED <<LinkState, StopState>>
    BY <2>1 DEF LinkState, StopState
  <2>3. WriterAlive' = WriterAlive
    BY <2>1, NotifiedAlive DEF LInv, IInv, WriterAlive
  <2> QED
    BY <2>1, <2>2, <2>3, LinkStutter
<1>4. CASE Stop
  <2>1. UNCHANGED <<connected, cur, announced, rpc, wpc>> /\ stop = "no" /\ stop' = "wake"
    BY <1>4 DEF Stop, connVars, writers
  <2>2. Link!Ask
    BY <2>1 DEF Link!Ask, LinkState, WriterAlive, StopState
  <2> QED
    BY <2>2 DEF Link!Next
<1>5. CASE StopJoin
  <2>1. /\ UNCHANGED <<connected, cur, announced, rpc, wpc>>
        /\ rpc = "done" /\ stop = "join" /\ stop' = "done"
    BY <1>5 DEF StopJoin, connVars, writers
  <2>2. Link!Return
    BY <2>1 DEF Link!Return, LinkState, WriterAlive, StopState
  <2> QED
    BY <2>2 DEF Link!Next
<1> QED
  BY <1>1, <1>2, <1>3, <1>4, <1>5 DEF Next, Stopping

\* For any number of connections, READYs and payloads, the four actors of the gateway keep
\* GatewayLink's promise, if Stop does not come before Run has begun.
THEOREM Implements ==
  ASSUME ~EarlyStop
  PROVE  Spec => ImplementsGatewayLink
<1>1. Init => OnlyStopEnds
  BY DEF Init, OnlyStopEnds
<1>2. LInv => IInv
  BY DEF LInv
<1>3. LInv /\ OnlyStopEnds /\ [Next]_vars => [Link!Next]_(Link!vars)
  BY LinkStep
<1> QED
  BY <1>1, <1>2, <1>3, LinkInit, OnlyStopEndsStep, LInvariance, PTL
     DEF Spec, ImplementsGatewayLink, Link!Spec

(***************************************************************************)
(* That promise is enough: of the gateway nothing is used here but that it *)
(* implements GatewayLink.                                                 *)
(***************************************************************************)

LinkInv ==
  /\ LinkState \in {"idle", "dialing", "open", "over"}
  /\ connected = TRUE => LinkState = "open"
  /\ WriterAlive => LinkState \in {"open", "idle"}
  /\ StopState = "returned" => LinkState = "over"

\* Nobody writes or is connected before an attempt has succeeded or after the end, and
\* once Stop has returned there is no further attempt and no further READY.
THEOREM PromiseSuffices ==
  ImplementsGatewayLink =>
    /\ [](/\ connected = TRUE => LinkState = "open"
          /\ WriterAlive => LinkState \in {"open", "idle"})
    /\ [][StopState = "returned" =>
            UNCHANGED <<LinkState, WriterAlive, connected, cur, announced>>]_(Link!vars)
<1>1. Link!Init => LinkInv
  BY DEF Link!Init, LinkInv
<1>2. LinkInv /\ [Link!Next]_(Link!vars) => LinkInv'
  BY DEF LinkInv, Link!Next, Link!vars, Link!BeginDial, Link!Establish, Link!Fail, Link!Ready,
         Link!WriterEnds, Link!End, Link!Ask, Link!Finish, Link!Return
<1>3. LinkInv /\ [Link!Next]_(Link!vars) =>
        [StopState = "returned" =>
           UNCHANGED <<LinkState, WriterAlive, connected, cur, announced>>]_(Link!vars)
  BY DEF LinkInv, Link!Next, Link!vars, Link!BeginDial, Link!Establish, Link!Fail, Link!Ready,
         Link!WriterEnds, Link!End, Link!Ask, Link!Finish, Link!Return
<1>4. LinkInv => /\ connected = TRUE => LinkState = "open"
                 /\ WriterAlive => LinkState \in {"open", "idle"}
  BY DEF LinkInv
<1> QED
  BY <1>1, <1>2, <1>3, <1>4, PTL DEF ImplementsGatewayLink, Link!Spec

-----------------------------------------------------------------------------
(***************************************************************************)
(* Liveness.  The theorems below rest on ThreadsCanMove, which says when   *)
(* the actions of Fairness are enabled; TLC checks it.                     *)
(***************************************************************************)

Falling  == rpc = "join" /\ wpc[cur] = "falling"
Asleep   == rpc = "join" /\ wpc[cur] = "asleep"
Testing  == rpc = "join" /\ wpc[cur] = "test"
Writes   == rpc = "join" /\ wpc[cur] = "write"
Checking == rpc = "join" /\ wpc[cur] = "check"
Ended    == rpc = "join" /\ wpc[cur] = "ended"

\* The writer to be joined only moves towards its end: its connection is closed, and with
\* wake_ set it does not fall asleep again.
LEMMA JoinedWriterMoves ==
  ASSUME LInv, rpc = "join", Writing
  PROVE  /\ Falling => Asleep'
         /\ Asleep => Checking' \/ Writes'
         /\ Testing => Checking' \/ Writes'
         /\ Writes => Checking' \/ Ended'
         /\ Checking => Ended'
         /\ ~Ended
<1>1. UNCHANGED <<rpc, cur, conn, open>>
  BY OthersStay
<1>2. /\ wpc \in [Conns -> {"none", "check", "test", "falling", "asleep", "write", "ended"}]
      /\ cur \in Conns /\ open[cur] = FALSE /\ wake = TRUE
  BY DEF LInv, IInv, TypeOK, Placed, Told
<1>3. PICK c \in Conns : Writer(c)
  BY DEF Writing
<1>4. ~Idle(c)
  BY <1>3 DEF Writer, CheckOpen, TestTrue, TestFalse, Sleep, Timeout, Write
<1>5. c = cur
  BY <1>4 DEF LInv, IInv, OldWriters
<1>6. CASE CheckOpen(c) \/ Sleep(c)
  BY <1>1, <1>2, <1>5, <1>6
     DEF CheckOpen, Sleep, Falling, Asleep, Testing, Writes, Checking, Ended
<1>7. CASE TestTrue(c) \/ Timeout(c)
  BY <1>1, <1>2, <1>5, <1>7
     DEF TestTrue, Timeout, Take, Falling, Asleep, Testing, Writes, Checking, Ended
<1>8. CASE TestFalse(c)
  BY <1>2, <1>5, <1>8 DEF TestFalse
<1>9. CASE Write(c)
  BY <1>1, <1>2, <1>5, <1>9 DEF Write, Falling, Asleep, Testing, Writes, Checking, Ended
<1> QED
  BY <1>3, <1>6, <1>7, <1>8, <1>9 DEF Writer

\* Nobody else moves that writer, except that a notification wakes it, and the gateway
\* thread waits for it.
LEMMA JoinStays ==
  ASSUME LInv, rpc = "join", [Next]_vars, ~Writing
  PROVE  /\ Falling => Falling'
         /\ Asleep => Asleep' \/ Testing'
         /\ Testing => Testing'
         /\ Writes => Writes'
         /\ Checking => Checking'
         /\ Ended => Ended' \/ rpc' = "next"
<1>1. /\ wpc \in [Conns -> {"none", "check", "test", "falling", "asleep", "write", "ended"}]
      /\ cur \in Conns
  BY DEF LInv, IInv, TypeOK, Placed
<1>2. CASE GatewayThread
  <2>1. rpc' = "next" /\ wpc[cur] = "ended"
    BY <1>2, GatewayMoves DEF LInv
  <2> QED
    BY <2>1 DEF Falling, Asleep, Testing, Writes, Checking
<1>3. CASE ~GatewayThread
  <2>1. UNCHANGED <<rpc, cur, conn, open>>
    BY <1>3, OthersStay DEF Next
  <2>2. wpc' \in {wpc, Notified}
    BY <1>3 DEF Next, Publish, PublishNotify, Stop, Stopping, StopWake, StopNotify, StopJoin,
                Close, vars,
                writers
  <2>3. /\ wpc[cur] = "asleep" => wpc'[cur] \in {"asleep", "test"}
        /\ wpc[cur] # "asleep" => wpc'[cur] = wpc[cur]
    BY <1>1, <2>2 DEF Notified
  <2> QED
    BY <2>1, <2>3 DEF Falling, Asleep, Testing, Writes, Checking, Ended
<1> QED
  BY <1>2, <1>3

\* While there is a writer to be joined, it can move on; then the gateway thread can.
LEMMA JoinCanMove ==
  ASSUME LInv, ThreadsCanMove, rpc = "join"
  PROVE  /\ Ended => ENABLED <<GatewayThread>>_vars
         /\ ~Ended => ENABLED <<Writing>>_vars
<1>1. /\ wpc[cur] \in {"check", "test", "falling", "asleep", "write", "ended"}
      /\ cur \in Conns /\ \A c \in Conns : c # cur => Idle(c)
  BY DEF LInv, IInv, TypeOK, Placed, Told, OldWriters
<1>2. CASE Ended
  BY <1>2 DEF Ended, ThreadsCanMove
<1>3. CASE ~Ended
  <2>1. wpc[cur] \in {"test", "asleep"} => MutexFree
    BY <1>1 DEF MutexFree
  <2>2. \/ wpc[cur] \in {"check", "falling", "write"}
        \/ wpc[cur] \in {"test", "asleep"} /\ MutexFree
    BY <1>1, <1>3, <2>1 DEF Ended
  <2> QED
    BY <1>1, <1>3, <2>2 DEF ThreadsCanMove
<1> QED
  BY <1>2, <1>3

\* The join of a writer returns.
LEMMA WriterIsJoined == FairSpec /\ []ThreadsCanMove => (rpc = "join" ~> rpc = "next")
<1>1. LInv /\ rpc = "join" => Falling \/ Asleep \/ Testing \/ Writes \/ Checking \/ Ended
  BY DEF LInv, IInv, TypeOK, Placed, Told, Falling, Asleep, Testing, Writes, Checking, Ended
<1>2. /\ Falling => rpc = "join" /\ ~Ended
      /\ Asleep => rpc = "join" /\ ~Ended
      /\ Testing => rpc = "join" /\ ~Ended
      /\ Writes => rpc = "join" /\ ~Ended
      /\ Checking => rpc = "join" /\ ~Ended
      /\ Ended => rpc = "join"
  BY DEF Falling, Asleep, Testing, Writes, Checking, Ended
<1>3. LInv /\ Falling /\ [Next]_vars => Falling' \/ Asleep'
  BY <1>2, JoinedWriterMoves, JoinStays
<1>4. LInv /\ Asleep /\ [Next]_vars => Asleep' \/ Testing' \/ Checking' \/ Writes'
  BY <1>2, JoinedWriterMoves, JoinStays
<1>5. LInv /\ Testing /\ [Next]_vars => Testing' \/ Checking' \/ Writes'
  BY <1>2, JoinedWriterMoves, JoinStays
<1>6. LInv /\ Writes /\ [Next]_vars => Writes' \/ Checking' \/ Ended'
  BY <1>2, JoinedWriterMoves, JoinStays
<1>7. LInv /\ Checking /\ [Next]_vars => Checking' \/ Ended'
  BY <1>2, JoinedWriterMoves, JoinStays
<1>8. LInv /\ Ended /\ [Next]_vars => Ended' \/ (rpc = "next")'
  BY <1>2, JoinedWriterMoves, JoinStays
<1>9. /\ LInv /\ Falling /\ <<Writing>>_vars => Asleep'
      /\ LInv /\ Asleep /\ <<Writing>>_vars => Checking' \/ Writes'
      /\ LInv /\ Testing /\ <<Writing>>_vars => Checking' \/ Writes'
      /\ LInv /\ Writes /\ <<Writing>>_vars => Checking' \/ Ended'
      /\ LInv /\ Checking /\ <<Writing>>_vars => Ended'
  BY <1>2, JoinedWriterMoves
<1>10. LInv /\ Ended /\ <<GatewayThread>>_vars => (rpc = "next")'
  BY <1>2, GatewayMoves DEF LInv
<1>11. /\ LInv /\ ThreadsCanMove /\ (Falling \/ Asleep \/ Testing \/ Writes \/ Checking)
            => ENABLED <<Writing>>_vars
       /\ LInv /\ ThreadsCanMove /\ Ended => ENABLED <<GatewayThread>>_vars
  BY <1>2, JoinCanMove
<1> QED
  BY <1>1, <1>3, <1>4, <1>5, <1>6, <1>7, <1>8, <1>9, <1>10, <1>11, LInvariance, PTL
     DEF FairSpec, Spec, Fairness

\* The gateway thread moves by its own steps, and can unless it waits for a writer.
LEMMA GatewayAlone ==
  ASSUME LInv, [Next]_vars
  PROVE  rpc' = rpc \/ GatewayThread
  BY OthersStay DEF Next

LEMMA GatewayCanMove ==
  ASSUME LInv, ThreadsCanMove, rpc \notin {"join", "done"}
  PROVE  ENABLED <<GatewayThread>>_vars
  BY DEF ThreadsCanMove

\* If threads that can run do, a connection that has ended is replaced by another attempt or
\* the thread ends: although wake_ is set without pubMutex_, so that the notification can be
\* lost, the 300 ms timeout of the wait lets the writer end and the join return.
THEOREM LostConnectionsAreReplaced == FairSpec /\ []ThreadsCanMove => Reconnects
<1>1. LInv /\ rpc = "left" /\ [Next]_vars => (rpc = "left")' \/ (rpc = "wake")'
  BY GatewayAlone, GatewayMoves DEF LInv
<1>2. LInv /\ rpc = "wake" /\ [Next]_vars => (rpc = "wake")' \/ (rpc = "notify")'
  BY GatewayAlone, GatewayMoves DEF LInv
<1>3. LInv /\ rpc = "notify" /\ [Next]_vars => (rpc = "notify")' \/ (rpc = "join")'
  BY GatewayAlone, GatewayMoves DEF LInv
<1>4. LInv /\ rpc = "next" /\ [Next]_vars => (rpc = "next")' \/ (rpc \in {"dial", "done"})'
  BY GatewayAlone, GatewayMoves DEF LInv
<1>5. /\ LInv /\ rpc = "left" /\ <<GatewayThread>>_vars => (rpc = "wake")'
      /\ LInv /\ rpc = "wake" /\ <<GatewayThread>>_vars => (rpc = "notify")'
      /\ LInv /\ rpc = "notify" /\ <<GatewayThread>>_vars => (rpc = "join")'
      /\ LInv /\ rpc = "next" /\ <<GatewayThread>>_vars => (rpc \in {"dial", "done"})'
  BY GatewayMoves DEF LInv
<1>6. LInv /\ ThreadsCanMove /\ (rpc = "left" \/ rpc = "wake" \/ rpc = "notify" \/ rpc = "next")
        => ENABLED <<GatewayThread>>_vars
  BY GatewayCanMove
<1> QED
  BY <1>1, <1>2, <1>3, <1>4, <1>5, <1>6, WriterIsJoined, LInvariance, PTL
     DEF FairSpec, Spec, Fairness, Reconnects

\* Where the gateway thread goes after Stop.
LEMMA WindsDown ==
  ASSUME ~EarlyStop, LInv, stop # "no", [Next]_vars
  PROVE  /\ rpc = "dial" => rpc' \in {"dial", "loop", "retry"}
         /\ rpc = "read" => rpc' \in {"read", "loop", "left"}
         /\ rpc = "loop" => rpc' \in {"loop", "left"}
         /\ rpc = "left" => rpc' \in {"left", "wake"}
         /\ rpc = "wake" => rpc' \in {"wake", "notify"}
         /\ rpc = "notify" => rpc' \in {"notify", "join"}
         /\ rpc \in {"next", "retry"} => rpc' \in {rpc, "done"}
         /\ rpc = "done" => rpc' = "done"
         /\ GatewayThread => rpc' # rpc
         /\ stop' # "no"
<1>1. running = FALSE /\ rpc # "new"
  BY DEF LInv, Told
<1>2. stop' # "no"
  BY DEF Next, GatewayThread, Begin, NextRound, Dial, DialFails, Leave, WakeWriter, NotifyWriter,
         JoinWriter, LoopHead, Read, ReadHello, ReadReady, ReadInvalidSession, ReadHeartbeat,
         ReadNothing, ReadEnd, SendText, Writing, Writer, CheckOpen, TestTrue, TestFalse, Take,
         Sleep, Timeout, Write, Close, Publish, PublishNotify, Stop, Stopping, StopWake,
         StopNotify, StopJoin,
         vars
<1>3. GatewayThread => rpc' # rpc
  BY <1>1, GatewayMoves DEF LInv
<1> QED
  BY <1>1, <1>2, <1>3, GatewayAlone, GatewayMoves DEF LInv

\* A Stop that comes once Run has begun ends Run.
LEMMA RunEnds ==
  ASSUME ~EarlyStop
  PROVE  FairSpec /\ []ThreadsCanMove => (stop # "no" ~> rpc = "done")
<1>1. LInv /\ stop # "no" /\ [Next]_vars => (stop # "no")'
  BY WindsDown
<1>2. LInv /\ stop # "no" =>
        \/ rpc = "dial" \/ rpc = "read" \/ rpc = "loop" \/ rpc = "left" \/ rpc = "wake"
        \/ rpc = "notify" \/ rpc = "join" \/ rpc = "next" \/ rpc = "retry" \/ rpc = "done"
  BY DEF LInv, IInv, TypeOK, Told
<1>3. LInv /\ stop # "no" /\ [Next]_vars =>
        /\ rpc = "dial" => (rpc = "dial")' \/ (rpc = "loop")' \/ (rpc = "retry")'
        /\ rpc = "read" => (rpc = "read")' \/ (rpc = "loop")' \/ (rpc = "left")'
        /\ rpc = "loop" => (rpc = "loop")' \/ (rpc = "left")'
        /\ rpc = "left" => (rpc = "left")' \/ (rpc = "wake")'
        /\ rpc = "wake" => (rpc = "wake")' \/ (rpc = "notify")'
        /\ rpc = "notify" => (rpc = "notify")' \/ (rpc = "join")'
        /\ rpc = "next" => (rpc = "next")' \/ (rpc = "done")'
        /\ rpc = "retry" => (rpc = "retry")' \/ (rpc = "done")'
  BY WindsDown
<1>4. LInv /\ stop # "no" /\ <<GatewayThread>>_vars =>
        /\ rpc = "dial" => ~(rpc = "dial")'
        /\ rpc = "read" => ~(rpc = "read")'
        /\ rpc = "loop" => ~(rpc = "loop")'
        /\ rpc = "left" => ~(rpc = "left")'
        /\ rpc = "wake" => ~(rpc = "wake")'
        /\ rpc = "notify" => ~(rpc = "notify")'
        /\ rpc = "next" => ~(rpc = "next")'
        /\ rpc = "retry" => ~(rpc = "retry")'
  BY WindsDown DEF Next
<1>5. LInv /\ ThreadsCanMove /\ ~(rpc = "join") /\ ~(rpc = "done")
        => ENABLED <<GatewayThread>>_vars
  BY GatewayCanMove
<1>6. /\ rpc = "dial" => ~(rpc = "join") /\ ~(rpc = "done")
      /\ rpc = "read" => ~(rpc = "join") /\ ~(rpc = "done")
      /\ rpc = "loop" => ~(rpc = "join") /\ ~(rpc = "done")
      /\ rpc = "left" => ~(rpc = "join") /\ ~(rpc = "done")
      /\ rpc = "wake" => ~(rpc = "join") /\ ~(rpc = "done")
      /\ rpc = "notify" => ~(rpc = "join") /\ ~(rpc = "done")
      /\ rpc = "next" => ~(rpc = "join") /\ ~(rpc = "done")
      /\ rpc = "retry" => ~(rpc = "join") /\ ~(rpc = "done")
  OBVIOUS
<1> QED
  BY <1>1, <1>2, <1>3, <1>4, <1>5, <1>6, WriterIsJoined, LInvariance, PTL
     DEF FairSpec, Spec, Fairness

\* After Run has returned, nobody but the caller of Stop moves on.
LEMMA StopAlone ==
  ASSUME ~EarlyStop, LInv, rpc = "done", stop # "no", [Next]_vars
  PROVE  /\ stop' = stop \/ Stopping
         /\ rpc' = "done"
<1>1. rpc' = "done"
  BY WindsDown
<1>2. stop' = stop \/ Stopping
  BY DEF Next, GatewayThread, Begin, NextRound, Dial, DialFails, Leave, WakeWriter, NotifyWriter,
         JoinWriter, LoopHead, Read, ReadHello, ReadReady, ReadInvalidSession, ReadHeartbeat,
         ReadNothing, ReadEnd, SendText, Writing, Writer, CheckOpen, TestTrue, TestFalse, Take,
         Sleep, Timeout, Write, Close, Publish, PublishNotify, Stop, vars
<1> QED
  BY <1>1, <1>2

\* "Runs until Stop() is called": if threads that can run do, and Stop does not come before
\* Run has begun, Stop ends the writer and the gateway thread, joins it, and returns.
THEOREM StopAlwaysReturns ==
  ASSUME ~EarlyStop
  PROVE  FairSpec /\ []ThreadsCanMove => StopReturns
<1>1. LInv /\ rpc = "done" => MutexFree
  BY DEF LInv, IInv, Placed, MutexFree
<1>2. LInv /\ stop # "no" /\ [Next]_vars => (stop # "no")'
  BY WindsDown
<1>3. LInv /\ stop # "no" => stop = "wake" \/ stop = "notify" \/ stop = "join" \/ stop = "done"
  BY DEF LInv, IInv, TypeOK
<1>4. LInv /\ rpc = "done" /\ stop # "no" /\ [Next]_vars =>
        /\ (rpc = "done")'
        /\ stop = "wake" => (stop = "wake")' \/ (stop = "notify")'
        /\ stop = "notify" => (stop = "notify")' \/ (stop = "join")'
        /\ stop = "join" => (stop = "join")' \/ (stop = "done")'
  BY StopAlone DEF Stopping, StopWake, StopNotify, StopJoin
<1>5. <<Stopping>>_vars =>
        /\ stop = "wake" => ~(stop = "wake")'
        /\ stop = "notify" => ~(stop = "notify")'
        /\ stop = "join" => ~(stop = "join")'
  BY DEF Stopping, StopWake, StopNotify, StopJoin
<1>6. LInv /\ ThreadsCanMove /\ rpc = "done" /\ (stop = "wake" \/ stop = "notify" \/ stop = "join")
        => ENABLED <<Stopping>>_vars
  BY <1>1 DEF ThreadsCanMove
<1>7. /\ stop = "wake" => stop # "no"
      /\ stop = "notify" => stop # "no"
      /\ stop = "join" => stop # "no"
  OBVIOUS
<1> QED
  BY <1>2, <1>3, <1>4, <1>5, <1>6, <1>7, RunEnds, LInvariance, PTL
     DEF FairSpec, Spec, Fairness, StopReturns
=============================================================================
