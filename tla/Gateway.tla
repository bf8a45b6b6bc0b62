------------------------------- MODULE Gateway -------------------------------
(***************************************************************************)
(* DiscordGateway: the websocket to Discord.  Four actors share its state: *)
(* the gateway thread (Run and ReadLoop), one writer thread per connection *)
(* (WriteLoop), the thread that calls Stop and joins the gateway thread    *)
(* (NetWorker::Stop), and the REST worker, which calls Publish.            *)
(*                                                                         *)
(* pubMutex_ guards queue and wake, with one exception: the gateway thread *)
(* sets wake without it.  A writer holds it from the test of the condition *)
(* until it is asleep (wpc "falling").                                     *)
(*                                                                         *)
(* Discord's side of a connection is the set of what has happened on it.   *)
(* Of a payload only this matters: whether it is an IDENTIFY.              *)
(***************************************************************************)
EXTENDS Naturals, Sequences, FiniteSets

CONSTANTS
  EarlyStop,           \* whether Stop may come before Run has set running
  MaxConns,            \* bound: how many connections are made
  MaxQueue,            \* bound: how many payloads wait
  MaxReadies           \* bound: how many times Discord says READY

ASSUME GatewayAssumption ==
  /\ EarlyStop \in BOOLEAN
  /\ MaxConns \in Nat /\ MaxQueue \in Nat \ {0} /\ MaxReadies \in Nat

Conns == 1 .. MaxConns
Payloads == {"identify", "other"}

VARIABLES
  running, connected,  \* running_, connected_
  wake,                \* wake_
  queue,               \* publishQueue_
  cur,                 \* how many connections have been made
  conn,                \* conn_: the current connection, or 0
  open,                \* open[c]: GwConn::open
  rpc,                 \* where the gateway thread is
  wpc,                 \* wpc[c]: where the writer of connection c is
  took,                \* took[c]: the payload it has taken, if any
  session,             \* session[c]: what has happened on Discord's side
  pub,                 \* where the REST worker is in Publish
  stop,                \* where the thread that calls Stop is
  announced            \* how often DiscordMgr announced the server's start

connVars == <<cur, conn, open>>
writers  == <<wpc, took>>
vars == <<running, connected, wake, queue, connVars, rpc, writers, session, pub, stop,
          announced>>

Init ==
  /\ running = FALSE /\ connected = FALSE /\ wake = FALSE /\ queue = <<>>
  /\ cur = 0 /\ conn = 0 /\ open = [c \in Conns |-> FALSE]
  /\ rpc = "new"
  /\ wpc = [c \in Conns |-> "none"] /\ took = [c \in Conns |-> <<>>]
  /\ session = [c \in Conns |-> {}]
  /\ pub = "out" /\ stop = "no" /\ announced = 0

\* Nobody holds pubMutex_ for longer than a step.
MutexFree == \A c \in Conns : wpc[c] # "falling"

\* pubCv_.notify: a writer that sleeps tests the condition again.
Notified == [c \in Conns |-> IF wpc[c] = "asleep" THEN "test" ELSE wpc[c]]

(***************************************************************************)
(* Faulty variants, not part of the specification.                         *)
(***************************************************************************)

\* Leave: connected_ is not reset.
LeaveConnected ==
  /\ rpc = "left" /\ rpc' = "wake"
  /\ conn' = 0
  /\ open' = [open EXCEPT ![cur] = FALSE]
  /\ UNCHANGED <<running, connected, wake, queue, cur, writers, session, pub, stop, announced>>

\* JoinWriter: the writer is detached.
DetachWriter ==
  /\ rpc = "join" /\ rpc' = "next"
  /\ UNCHANGED <<running, connected, wake, queue, connVars, writers, session, pub, stop, announced>>

\* NextRound: the loop does not look at running_.
NextRoundAlways ==
  /\ rpc \in {"next", "retry"} /\ rpc' = "dial"
  /\ UNCHANGED <<running, connected, wake, queue, connVars, writers, session, pub, stop, announced>>

\* Timeout: the writer gives up after 300 ms without a payload.
TimeoutEnds(c) ==
  /\ wpc[c] = "asleep" /\ wpc' = [wpc EXCEPT ![c] = "ended"]
  /\ UNCHANGED <<running, connected, wake, queue, connVars, rpc, took, session, pub, stop, announced>>

\* Timeout: wait instead of wait_for.
TimeoutNever(c) == FALSE /\ UNCHANGED vars

\* Publish: the payload is queued without pubMutex_.
PublishUnlocked ==
  /\ pub = "out" /\ stop = "no" /\ running
  /\ Len(queue) < MaxQueue
  /\ queue' = Append(queue, "other")
  /\ pub' = "notify"
  /\ UNCHANGED <<running, connected, wake, connVars, rpc, writers, session, stop, announced>>

(***************************************************************************)
(* The gateway thread: Run.                                                *)
(***************************************************************************)

Begin ==
  /\ rpc = "new" /\ rpc' = "next"
  /\ running' = TRUE /\ connected' = FALSE
  /\ UNCHANGED <<wake, queue, connVars, writers, session, pub, stop, announced>>

\* The head of Run's loop, also reached by the break after Stop.
NextRound ==
  /\ rpc \in {"next", "retry"}
  /\ rpc' = IF running THEN "dial" ELSE "done"
  /\ UNCHANGED <<running, connected, wake, queue, connVars, writers, session, pub, stop, announced>>

\* Resolve, connect and both handshakes; then the writer is started.
Dial ==
  /\ rpc = "dial" /\ cur < MaxConns
  /\ cur' = cur + 1 /\ conn' = cur + 1
  /\ open' = [open EXCEPT ![cur + 1] = TRUE]
  /\ wpc' = [wpc EXCEPT ![cur + 1] = "check"]
  /\ rpc' = "loop"
  /\ UNCHANGED <<running, connected, wake, queue, took, session, pub, stop, announced>>

\* One of them throws.  The loop goes on after some time, at once after Stop.
DialFails ==
  /\ rpc = "dial" /\ rpc' = "retry"
  /\ connected' = FALSE
  /\ UNCHANGED <<running, wake, queue, connVars, writers, session, pub, stop, announced>>

\* After ReadLoop.
Leave ==
  /\ rpc = "left" /\ rpc' = "wake"
  /\ conn' = 0
  /\ open' = [open EXCEPT ![cur] = FALSE]
  /\ connected' = FALSE
  /\ UNCHANGED <<running, wake, queue, cur, writers, session, pub, stop, announced>>

\* wake_ is set without the mutex, and never reset.
WakeWriter ==
  /\ rpc = "wake" /\ rpc' = "notify"
  /\ wake' = TRUE
  /\ UNCHANGED <<running, connected, queue, connVars, writers, session, pub, stop, announced>>

NotifyWriter ==
  /\ rpc = "notify" /\ rpc' = "join"
  /\ wpc' = Notified
  /\ UNCHANGED <<running, connected, wake, queue, connVars, took, session, pub, stop, announced>>

JoinWriter ==
  /\ rpc = "join" /\ wpc[cur] = "ended"
  /\ rpc' = "next"
  /\ UNCHANGED <<running, connected, wake, queue, connVars, writers, session, pub, stop, announced>>

(***************************************************************************)
(* The gateway thread: ReadLoop.                                           *)
(***************************************************************************)

LoopHead ==
  /\ rpc = "loop"
  /\ rpc' = IF running THEN "read" ELSE "left"
  /\ UNCHANGED <<running, connected, wake, queue, connVars, writers, session, pub, stop, announced>>

\* SendText of each of s in turn, then of whatever heartbeat and presence update
\* are due, and on to the next round.
SendText(s) ==
  /\ MutexFree
  /\ conn # 0 /\ open[conn]
  /\ \E due \in {<<>>, <<"other">>} :
       /\ Len(queue \o s \o due) <= MaxQueue
       /\ queue' = queue \o s \o due
       /\ wpc' = IF s \o due = <<>> THEN wpc ELSE Notified
  /\ rpc' = "loop"
  /\ UNCHANGED <<running, wake, connVars, took, pub, stop>>

Alive == rpc = "read" /\ "closed" \notin session[cur]

Happens(what) == session' = [session EXCEPT ![cur] = @ \cup what]

ReadHello ==
  /\ Alive /\ "greeted" \notin session[cur]
  /\ Happens({"greeted"})
  /\ SendText(<<"identify">>)
  /\ UNCHANGED <<connected, announced>>

\* READY; HandleReady announces the server's start on the game thread.
ReadReady ==
  /\ Alive /\ "identified" \in session[cur] /\ "ready" \notin session[cur]
  /\ announced < MaxReadies
  /\ Happens({"ready", "seen"})
  /\ connected' = TRUE
  /\ SendText(<<"other">>)
  /\ announced' = announced + 1

\* INVALID_SESSION: Discord wants another IDENTIFY.
ReadInvalidSession ==
  /\ Alive /\ "identified" \in session[cur]
  /\ session' = [session EXCEPT ![cur] = @ \ {"identified", "ready"}]
  /\ SendText(<<"identify">>)
  /\ UNCHANGED <<connected, announced>>

\* A request for a heartbeat.
ReadHeartbeat ==
  /\ Alive
  /\ SendText(<<"other">>)
  /\ UNCHANGED <<connected, session, announced>>

\* Any other frame, or none for 500 ms.
ReadNothing ==
  /\ rpc = "read"
  /\ SendText(<<>>)
  /\ UNCHANGED <<connected, session, announced>>

\* RECONNECT, or an error once the connection is broken.
ReadEnd ==
  /\ rpc = "read" /\ rpc' = "left"
  /\ UNCHANGED <<running, connected, wake, queue, connVars, writers, session, pub, stop, announced>>

Read ==
  \/ ReadHello \/ ReadReady \/ ReadInvalidSession
  \/ ReadHeartbeat \/ ReadNothing \/ ReadEnd

\* Discord or the network ends the connection.
Close(c) ==
  /\ c <= cur /\ "closed" \notin session[c]
  /\ session' = [session EXCEPT ![c] = @ \cup {"closed"}]
  /\ UNCHANGED <<running, connected, wake, queue, connVars, rpc, writers, pub, stop, announced>>

(***************************************************************************)
(* The writer of connection c: WriteLoop.                                  *)
(***************************************************************************)

CheckOpen(c) ==
  /\ wpc[c] = "check"
  /\ wpc' = [wpc EXCEPT ![c] = IF running /\ open[c] THEN "test" ELSE "ended"]
  /\ UNCHANGED <<running, connected, wake, queue, connVars, rpc, took, session, pub, stop, announced>>

\* What follows the wait: the first payload is taken, if there is one.
Take(c) ==
  /\ IF queue = <<>>
     THEN wpc' = [wpc EXCEPT ![c] = "check"] /\ UNCHANGED <<queue, took>>
     ELSE /\ took' = [took EXCEPT ![c] = <<Head(queue)>>]
          /\ queue' = Tail(queue)
          /\ wpc' = [wpc EXCEPT ![c] = "write"]
  /\ UNCHANGED <<running, connected, wake, connVars, rpc, session, pub, stop, announced>>

\* The condition of the wait.
TestTrue(c) == wpc[c] = "test" /\ MutexFree /\ (queue # <<>> \/ wake) /\ Take(c)

TestFalse(c) ==
  /\ wpc[c] = "test" /\ MutexFree /\ ~ (queue # <<>> \/ wake)
  /\ wpc' = [wpc EXCEPT ![c] = "falling"]
  /\ UNCHANGED <<running, connected, wake, queue, connVars, rpc, took, session, pub, stop, announced>>

Sleep(c) ==
  /\ wpc[c] = "falling"
  /\ wpc' = [wpc EXCEPT ![c] = "asleep"]
  /\ UNCHANGED <<running, connected, wake, queue, connVars, rpc, took, session, pub, stop, announced>>

Timeout(c) == wpc[c] = "asleep" /\ MutexFree /\ Take(c)

\* The payload is written, dropped, or fails to be written.
Write(c) ==
  /\ wpc[c] = "write"
  /\ took' = [took EXCEPT ![c] = <<>>]
  /\ \/ /\ open[c] => "closed" \in session[c]
        /\ wpc' = [wpc EXCEPT ![c] = IF open[c] THEN "ended" ELSE "check"]
        /\ UNCHANGED session
     \/ /\ open[c]
        /\ wpc' = [wpc EXCEPT ![c] = "check"]
        /\ session' = IF took[c] = <<"identify">> /\ "closed" \notin session[c]
                      THEN [session EXCEPT ![c] = @ \cup {"identified"}] ELSE session
  /\ UNCHANGED <<running, connected, wake, queue, connVars, rpc, pub, stop, announced>>

Writer(c) ==
  CheckOpen(c) \/ TestTrue(c) \/ TestFalse(c) \/ Sleep(c) \/ Timeout(c) \/ Write(c)

(***************************************************************************)
(* The REST worker, and the thread that calls Stop after joining it.       *)
(***************************************************************************)

\* What the REST worker reads of running_ stays so until it is done: Stop has joined it.
Publish ==
  /\ pub = "out" /\ stop = "no" /\ running
  /\ MutexFree /\ Len(queue) < MaxQueue
  /\ queue' = Append(queue, "other")
  /\ pub' = "notify"
  /\ UNCHANGED <<running, connected, wake, connVars, rpc, writers, session, stop, announced>>

\* pubMutex_ is free again before the notification.
PublishNotify ==
  /\ pub = "notify" /\ pub' = "out"
  /\ wpc' = Notified
  /\ UNCHANGED <<running, connected, wake, queue, connVars, rpc, took, session, stop, announced>>

Stop ==
  /\ stop = "no" /\ pub = "out" /\ (EarlyStop \/ rpc # "new")
  /\ stop' = "wake"
  /\ running' = FALSE
  /\ UNCHANGED <<connected, wake, queue, connVars, rpc, writers, session, pub, announced>>

StopWake ==
  /\ stop = "wake" /\ MutexFree
  /\ stop' = "notify"
  /\ wake' = TRUE
  /\ UNCHANGED <<running, connected, queue, connVars, rpc, writers, session, pub, announced>>

StopNotify ==
  /\ stop = "notify" /\ stop' = "join"
  /\ wpc' = Notified
  /\ UNCHANGED <<running, connected, wake, queue, connVars, rpc, took, session, pub, announced>>

StopJoin ==
  /\ stop = "join" /\ rpc = "done"
  /\ stop' = "done"
  /\ UNCHANGED <<running, connected, wake, queue, connVars, rpc, writers, session, pub, announced>>

-----------------------------------------------------------------------------
GatewayThread ==
  \/ Begin \/ NextRound \/ Dial \/ DialFails \/ Leave \/ WakeWriter \/ NotifyWriter
  \/ JoinWriter \/ LoopHead \/ Read

Writing == \E c \in Conns : Writer(c)

Stopping == StopWake \/ StopNotify \/ StopJoin

Next ==
  \/ GatewayThread \/ Publish \/ PublishNotify \/ Stop \/ Stopping
  \/ Writing \/ \E c \in Conns : Close(c)

Spec == Init /\ [][Next]_vars

\* Threads that can run do (there is only one writer at a time, OneWriter); reads,
\* writes, handshakes and sleeps return.  Nothing makes Discord answer, anybody
\* publish (or notify, having published), or Stop be called.
Fairness == WF_vars(GatewayThread) /\ WF_vars(Writing) /\ WF_vars(Stopping)

FairSpec == Spec /\ Fairness

-----------------------------------------------------------------------------
TypeOK ==
  /\ running \in BOOLEAN /\ connected \in BOOLEAN /\ wake \in BOOLEAN
  /\ queue \in Seq(Payloads) /\ Len(queue) <= MaxQueue
  /\ cur \in 0 .. MaxConns /\ conn \in {0, cur}
  /\ open \in [Conns -> BOOLEAN]
  /\ rpc \in {"new", "next", "retry", "dial", "loop", "read", "left", "wake", "notify",
              "join", "done"}
  /\ wpc \in [Conns -> {"none", "check", "test", "falling", "asleep", "write", "ended"}]
  /\ took \in [Conns -> {<<>>} \cup {<<p>> : p \in Payloads}]
  /\ \A c \in Conns : took[c] # <<>> <=> wpc[c] = "write"
  /\ session \in [Conns -> SUBSET {"greeted", "identified", "ready", "seen", "closed"}]
  /\ pub \in {"out", "notify"}
  /\ stop \in {"no", "wake", "notify", "join", "done"}
  /\ announced \in 0 .. MaxReadies

\* The queue has one consumer: while a writer lives it is the one of the newest
\* connection, and the gateway thread does not begin another connection, return,
\* or let Stop return before it has ended.
OneWriter ==
  \A c \in Conns :
    wpc[c] \notin {"none", "ended"} =>
      c = cur /\ rpc \in {"loop", "read", "left", "wake", "notify", "join"}

\* connected_ is true only on a connection that is open and on which READY has been
\* received: never while reconnecting, nor on a new connection before its READY.
ConnectedMeansReady ==
  connected => /\ conn # 0 /\ conn = cur /\ open[conn]
               /\ "seen" \in session[conn]

\* No writer falls asleep over a payload, and one sleeps over a payload only while the
\* REST worker, which has queued it, has yet to notify: payloads are queued under
\* pubMutex_, so no notification for one is lost (that for wake_ is).
NoPayloadSleeps ==
  \A c \in Conns :
    /\ wpc[c] = "falling" => queue = <<>>
    /\ wpc[c] = "asleep"  => queue = <<>> \/ pub = "notify"

\* The IDENTIFY that c owes Discord: in the queue or in the hands of its writer, which
\* ends only after Stop.
Owed(c) ==
  /\ took[c] = <<"identify">> \/ \E i \in DOMAIN queue : queue[i] = "identify"
  /\ running => wpc[c] \notin {"none", "ended"}

\* On an open connection a HELLO or an INVALID_SESSION has been answered, or the answer
\* is on its way, whatever was left over in the queue and whoever else publishes.
IdentifyUnderWay ==
  \A c \in Conns :
    "greeted" \in session[c] /\ open[c] /\ "closed" \notin session[c]
      => "identified" \in session[c] \/ Owed(c)

\* The gateway as DiscordMgr sees it.
LinkState ==
  CASE rpc = "dial" -> "dialing"
    [] rpc \in {"loop", "read", "left"} -> "open"
    [] rpc = "done" -> "over"
    [] OTHER -> "idle"

WriterAlive == \E c \in Conns : wpc[c] \notin {"none", "ended"}

StopState ==
  CASE stop = "no" -> "no" [] stop = "done" -> "returned" [] OTHER -> "asked"

Link == INSTANCE GatewayLink WITH
  link <- LinkState, writer <- WriterAlive, up <- connected, made <- cur,
  told <- announced, asked <- StopState

\* However the four actors interleave, and wherever Stop meets the gateway thread, the
\* gateway keeps that promise.
ImplementsGatewayLink == Link!Spec

\* How many steps the gateway thread takes at most to return from Run after Stop.
StepsLeft ==
  [dial |-> 9, read |-> 8, loop |-> 7, left |-> 6, wake |-> 5, notify |-> 4, join |-> 3,
   next |-> 2, retry |-> 2, done |-> 1]

\* A Stop that Run cannot forget is heard wherever the thread is, in the middle of a
\* handshake too: from then on every step of it is one step closer to its end, and
\* at most the frame being read is still handled.
StopWindsDown ==
  [][~EarlyStop /\ stop # "no"
       => rpc' = rpc \/ StepsLeft[rpc'] < StepsLeft[rpc]]_vars

\* Nobody is stuck: the gateway thread can move on unless it waits to join a writer that
\* lives, a writer unless it waits for the mutex, and the caller of Stop unless it
\* waits for the mutex or to join the gateway thread.
ThreadsCanMove ==
  /\ rpc # "done" /\ (rpc = "join" => wpc[cur] = "ended") => ENABLED <<GatewayThread>>_vars
  /\ \A c \in Conns :
       wpc[c] \in {"check", "falling", "write"} \/ (wpc[c] \in {"test", "asleep"} /\ MutexFree)
         => ENABLED <<Writing>>_vars
  /\ (stop = "wake" /\ MutexFree) \/ stop = "notify" \/ (stop = "join" /\ rpc = "done")
       => ENABLED <<Stopping>>_vars

\* After a HELLO the bot identifies itself, unless the connection ends: no payload
\* left over, lost notification or timeout keeps the IDENTIFY in the queue.
HelloIsAnswered ==
  \A c \in Conns :
    "greeted" \in session[c] ~>
      "identified" \in session[c] \/ "closed" \in session[c] \/ ~ open[c]

\* A connection that has ended is replaced by another attempt, or the thread ends:
\* the join of the writer never blocks it for ever.
Reconnects == rpc = "left" ~> rpc \in {"dial", "done"}

\* "Runs until Stop() is called": Stop makes both threads end, and returns.
StopReturns == stop # "no" ~> stop = "done"
==============================================================================
