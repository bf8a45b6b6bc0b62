------------------------------ MODULE NetWorker ------------------------------
(***************************************************************************)
(* DiscordNetWorker and DiscordQueue, with the part of DiscordMgr that     *)
(* marshals their callbacks back onto the game thread.                     *)
(*                                                                         *)
(* Three threads share this state.  The game thread queues requests, runs  *)
(* the tasks posted to it in batches (Update), and shuts everything down.  *)
(* The REST worker pops one request at a time, performs a blocking HTTP    *)
(* call, and either retries it once after a 429, gives it up, or posts its *)
(* callback's continuation to the game thread.  The gateway thread only    *)
(* appears through the events it posts; Gateway models it.                 *)
(*                                                                         *)
(* Requests are numbered in the order in which they are queued.            *)
(***************************************************************************)
EXTENDS Naturals, Sequences

CONSTANTS
  MaxRequests,         \* bound: how many requests are ever queued
  MaxBacklog           \* bound: gateway events stop arriving at this backlog

ASSUME BoundsAssumption == MaxRequests \in Nat /\ MaxBacklog \in Nat

Requests == 1 .. MaxRequests
None     == 0          \* the worker holds no message
Event    == 0          \* a game-thread task that is a gateway event

Kinds == {"call",      \* a REST request with a callback
          "send",      \* a REST request without one
          "ws"}        \* a payload for the websocket (Publish)
Fates == {"open", "answered", "sent", "dropped"}

VARIABLES
  messages,            \* DiscordQueue::messages_
  retried,             \* the messages whose `retried` flag is set
  worker,              \* program counter of the REST worker's Run
  hand,                \* the message the worker has popped, or None
  running,             \* DiscordNetWorker::running_
  gateway,             \* the gateway thread: not created, running, joined
  gameQueue,           \* DiscordMgr::queue_
  local,               \* `local` in ProcessGameQueue: the batch being run
  game,                \* program counter of the game thread
  issued,              \* history: how many requests have been queued
  kind,                \* history: what each of them is
  attempts,            \* history: HTTP requests made for each of them
  applied,             \* history: how often Discord carried each of them out
  fate                 \* history: how each of them ended

queueVars   == <<messages, retried>>
workerVars  == <<worker, hand, running, gateway>>
gameVars    == <<gameQueue, local, game>>
historyVars == <<issued, kind, attempts, applied, fate>>
vars == <<queueVars, workerVars, gameVars, historyVars>>

-----------------------------------------------------------------------------
Init ==
  /\ messages = <<>>  /\ retried = {}
  /\ worker = "off"   /\ hand = None
  /\ running = FALSE  /\ gateway = "none"
  /\ gameQueue = <<>> /\ local = <<>>
  /\ game = "boot"
  /\ issued = 0
  /\ kind     = [r \in Requests |-> "call"]
  /\ attempts = [r \in Requests |-> 0]
  /\ applied  = [r \in Requests |-> 0]
  /\ fate     = [r \in Requests |-> "open"]

Attempt == attempts' = [attempts EXCEPT ![hand] = @ + 1]

(***************************************************************************)
(* Faulty variants.  None is part of the specification: each is a mistake  *)
(* the code could plausibly contain, and substituting it for the operator  *)
(* named after the colon breaks the property that guards against it.       *)
(***************************************************************************)

\* Push: the retried message is put first in line.
PushInFront(r) == messages' = <<r>> \o messages

\* RateLimited: the retry is queued before the sleep instead of after it, and
\* once more after it.
RequeueEarly ==
  /\ worker = "http"
  /\ Attempt
  /\ retried' = retried \cup {hand}
  /\ worker' = "backoff"
  /\ messages' = Append(messages, hand)
  /\ UNCHANGED <<hand, running, gateway, gameVars, issued, kind, applied, fate>>

\* Complete: a lost reply is retried like a 429.
RetryLostReply(done) ==
  /\ worker = "http"
  /\ Attempt
  /\ applied' = IF done THEN [applied EXCEPT ![hand] = @ + 1] ELSE applied
  /\ retried' = retried \cup {hand}
  /\ worker' = IF hand \in retried THEN "loop" ELSE "backoff"
  /\ hand' = IF hand \in retried THEN None ELSE hand
  /\ fate' = IF hand \in retried THEN [fate EXCEPT ![hand] = "sent"] ELSE fate
  /\ UNCHANGED <<messages, running, gateway, gameVars, issued, kind>>

\* EndShutdown: Stop does not join the worker.
EndWithoutJoin ==
  /\ game = "join"
  /\ gateway' = "joined"
  /\ game' = "down"
  /\ UNCHANGED <<queueVars, worker, hand, running, gameQueue, local, historyVars>>

\* Tick: Update does not look at initialized_.
TickWhenDown ==
  /\ game \in {"free", "down"}
  /\ gameQueue # <<>>
  /\ local' = gameQueue
  /\ gameQueue' = <<>>
  /\ game' = "drain"
  /\ UNCHANGED <<queueVars, workerVars, historyVars>>

\* EndTick: Update loops until the queue stays empty.
EndTickWhenEmpty ==
  /\ game = "drain"
  /\ local = <<>>
  /\ local' = gameQueue
  /\ gameQueue' = <<>>
  /\ game' = IF gameQueue = <<>> THEN "free" ELSE "drain"
  /\ UNCHANGED <<queueVars, workerVars, historyVars>>

\* PopTimeout: Run returns when Pop finds nothing.
ExitOnTimeout ==
  /\ worker = "pop"
  /\ messages = <<>>
  /\ worker' = "exited"
  /\ UNCHANGED <<queueVars, hand, running, gateway, gameVars, historyVars>>

\* PopTimeout: Pop waits without a timeout.
PopForever ==
  /\ worker = "pop"
  /\ messages # <<>>
  /\ worker' = "loop"
  /\ UNCHANGED <<queueVars, hand, running, gateway, gameVars, historyVars>>

\* CheckRunning: Run drains the queue instead of reading running_.
LoopForever ==
  /\ worker = "loop"
  /\ worker' = "pop"
  /\ UNCHANGED <<queueVars, hand, running, gateway, gameVars, historyVars>>

\* DiscordQueue::Push.
Push(r) == messages' = Append(messages, r)

(***************************************************************************)
(* The game thread.                                                        *)
(***************************************************************************)

\* DiscordMgr::Initialize with a valid configuration.  The requests it queues
\* itself are steps of Queue: the worker is already running by then.
Initialize ==
  /\ game = "boot"
  /\ game' = "free"
  /\ running' = TRUE
  /\ worker' = "starting"
  /\ UNCHANGED <<queueVars, hand, gateway, gameQueue, local, historyVars>>

\* A DiscordClient call (or Publish) made by game-thread code, between ticks or
\* from inside a task.
Queue(k) ==
  /\ game \in {"free", "drain"}
  /\ issued < MaxRequests
  /\ issued' = issued + 1
  /\ kind' = [kind EXCEPT ![issued'] = k]
  /\ Push(issued')
  /\ UNCHANGED <<retried, workerVars, gameVars, attempts, applied, fate>>

\* Update: ProcessGameQueue takes the whole queue under the lock ...
Tick ==
  /\ game = "free"
  /\ gameQueue # <<>>               \* on an empty queue Update changes nothing
  /\ local' = gameQueue
  /\ gameQueue' = <<>>
  /\ game' = "drain"
  /\ UNCHANGED <<queueVars, workerVars, historyVars>>

\* ... and runs its tasks one by one, a throwing one included.
RunTask ==
  /\ game = "drain"
  /\ local # <<>>
  /\ local' = Tail(local)
  /\ fate' = IF Head(local) = Event THEN fate
             ELSE [fate EXCEPT ![Head(local)] = "answered"]
  /\ UNCHANGED <<queueVars, workerVars, gameQueue, game,
                 issued, kind, attempts, applied>>

EndTick ==
  /\ game = "drain"
  /\ local = <<>>
  /\ game' = "free"
  /\ UNCHANGED <<queueVars, workerVars, gameQueue, local, historyVars>>

\* DiscordMgr::Shutdown, as far as the join in DiscordNetWorker::Stop.
Shutdown ==
  /\ game = "free"
  /\ running' = FALSE
  /\ game' = "join"
  /\ UNCHANGED <<queueVars, worker, hand, gateway, gameQueue, local, historyVars>>

\* The rest of it: both threads are joined, initialized_ becomes false and no
\* Update runs a task again.
EndShutdown ==
  /\ game = "join"
  /\ worker = "exited"
  /\ gateway' = "joined"
  /\ game' = "down"
  /\ UNCHANGED <<queueVars, worker, hand, running, gameQueue, local, historyVars>>

(***************************************************************************)
(* The REST worker.                                                        *)
(***************************************************************************)

\* The head of Run creates the gateway and its thread.
StartGateway ==
  /\ worker = "starting"
  /\ gateway' = "running"
  /\ worker' = "loop"
  /\ UNCHANGED <<queueVars, hand, running, gameVars, historyVars>>

\* while (running_): read once per round, before the wait on the queue.
CheckRunning ==
  /\ worker = "loop"
  /\ worker' = IF running THEN "pop" ELSE "exited"
  /\ UNCHANGED <<queueVars, hand, running, gateway, gameVars, historyVars>>

\* DiscordQueue::Pop times out only on an empty queue.
PopTimeout ==
  /\ worker = "pop"
  /\ messages = <<>>
  /\ worker' = "loop"
  /\ UNCHANGED <<queueVars, hand, running, gateway, gameVars, historyVars>>

\* A websocket payload is handed to the gateway's own queue.
PopPublish ==
  /\ worker = "pop"
  /\ messages # <<>>
  /\ kind[Head(messages)] = "ws"
  /\ fate' = [fate EXCEPT ![Head(messages)] = "sent"]
  /\ messages' = Tail(messages)
  /\ worker' = "loop"
  /\ UNCHANGED <<retried, hand, running, gateway, gameVars,
                 issued, kind, attempts, applied>>

PopRequest ==
  /\ worker = "pop"
  /\ messages # <<>>
  /\ kind[Head(messages)] # "ws"
  /\ hand' = Head(messages)
  /\ messages' = Tail(messages)
  /\ worker' = "http"
  /\ UNCHANGED <<retried, running, gateway, gameVars, historyVars>>

\* HandleHttpMessage on a 429, which Discord sends instead of carrying the
\* request out: the first one is slept on, the second one ends the request.
RateLimited ==
  /\ worker = "http"
  /\ Attempt
  /\ \/ /\ hand \notin retried
        /\ retried' = retried \cup {hand}
        /\ worker' = "backoff"
        /\ UNCHANGED <<hand, fate>>
     \/ /\ hand \in retried
        /\ fate' = [fate EXCEPT ![hand] = "dropped"]
        /\ hand' = None
        /\ worker' = "loop"
        /\ UNCHANGED retried
  /\ UNCHANGED <<messages, running, gateway, gameVars, issued, kind, applied>>

\* After the sleep the message goes to the back of the queue.
Requeue ==
  /\ worker = "backoff"
  /\ Push(hand)
  /\ hand' = None
  /\ worker' = "loop"
  /\ UNCHANGED <<retried, running, gateway, gameVars, historyVars>>

\* HandleHttpMessage on any other status.  `done` says whether Discord carried
\* the request out: an error status or a lost reply (status 0) both reach the
\* callback like a success.  Callbacks post their work to the game thread.
Complete(done) ==
  /\ worker = "http"
  /\ Attempt
  /\ applied' = IF done THEN [applied EXCEPT ![hand] = @ + 1] ELSE applied
  /\ \/ /\ kind[hand] = "call"
        /\ gameQueue' = Append(gameQueue, hand)      \* PostToGameThread
        /\ UNCHANGED fate
     \/ /\ kind[hand] # "call"
        /\ fate' = [fate EXCEPT ![hand] = "sent"]
        /\ UNCHANGED gameQueue
  /\ hand' = None
  /\ worker' = "loop"
  /\ UNCHANGED <<queueVars, running, gateway, local, game, issued, kind>>

(***************************************************************************)
(* The gateway thread: DispatchEvent posts every event.                    *)
(***************************************************************************)
GatewayEvent ==
  /\ gateway = "running"
  /\ Len(gameQueue) < MaxBacklog
  /\ gameQueue' = Append(gameQueue, Event)
  /\ UNCHANGED <<queueVars, workerVars, local, game, historyVars>>

-----------------------------------------------------------------------------
WorkerStep ==
  \/ StartGateway \/ CheckRunning \/ PopTimeout \/ PopPublish \/ PopRequest
  \/ RateLimited \/ Requeue
  \/ \E done \in BOOLEAN : Complete(done)

TickStep == Tick \/ RunTask \/ EndTick

Next ==
  \/ Initialize
  \/ \E k \in Kinds : Queue(k)
  \/ TickStep
  \/ Shutdown
  \/ EndShutdown
  \/ WorkerStep
  \/ GatewayEvent

Spec == Init /\ [][Next]_vars

\* The worker's loop never blocks for good: Pop has a timeout and the HTTP
\* calls are bounded.  The world server keeps calling Update, and a Shutdown
\* that has begun is carried through.  Nobody has to queue anything, to shut
\* down, or to send an event.
Fairness ==
  /\ WF_vars(WorkerStep)
  /\ WF_vars(TickStep)
  /\ WF_vars(EndShutdown)

FairSpec == Spec /\ Fairness
-----------------------------------------------------------------------------
(***************************************************************************)
(* Properties.                                                             *)
(***************************************************************************)

TypeOK ==
  /\ messages \in Seq(Requests)
  /\ retried \in SUBSET Requests
  /\ worker \in {"off", "starting", "loop", "pop", "http", "backoff", "exited"}
  /\ hand \in {None} \cup Requests
  /\ running \in BOOLEAN
  /\ gateway \in {"none", "running", "joined"}
  /\ gameQueue \in Seq({Event} \cup Requests)
  /\ local \in Seq({Event} \cup Requests)
  /\ game \in {"boot", "free", "drain", "join", "down"}
  /\ issued \in 0 .. MaxRequests
  /\ kind \in [Requests -> Kinds]
  /\ attempts \in [Requests -> Nat]
  /\ applied \in [Requests -> Nat]
  /\ fate \in [Requests -> Fates]

\* The places in which request r is to be found.
Places(r) ==
       {<<"messages", i>>  : i \in {j \in DOMAIN messages  : messages[j] = r}}
  \cup {<<"gameQueue", i>> : i \in {j \in DOMAIN gameQueue : gameQueue[j] = r}}
  \cup {<<"local", i>>     : i \in {j \in DOMAIN local     : local[j] = r}}
  \cup {<<"hand", i>>      : i \in {j \in {hand}           : j = r}}
  \cup {<<"ended", i>>     : i \in {j \in {r}              : fate[j] # "open"}}

\* A queued request is always in exactly one place: in the outbound queue, in
\* the worker's hand, in one of the two batches of callbacks, or finished.
\* Neither the requeue after a 429, nor the swap in ProcessGameQueue, nor a
\* shutdown in the middle of either loses or duplicates one.
OnePlace == \A r \in 1 .. issued : \E p \in Places(r) : Places(r) = {p}

\* The retry policy of HandleHttpMessage never makes Discord carry a request
\* out twice: it only repeats requests that were refused with a 429, and never
\* one whose reply was lost.  It makes at most two HTTP requests for each.
AppliedAtMostOnce == \A r \in Requests : applied[r] <= 1 /\ attempts[r] <= 2

Handled(r) ==
  \/ fate[r] # "open"
  \/ \E i \in DOMAIN gameQueue : gameQueue[i] = r
  \/ \E i \in DOMAIN local : local[i] = r

\* s has been handled and r has not, or s's callback is due before r's.
Overtakes(s, r) ==
  LET due == local \o gameQueue
  IN \/ Handled(s) /\ ~ Handled(r)
     \/ \E i, j \in DOMAIN due : i < j /\ due[i] = s /\ due[j] = r

\* Requests are carried out, and their callbacks are run, in the order in which
\* the game thread queued them; only one that was rate-limited can be overtaken
\* by a later one.
OnlyRetriesOvertaken ==
  \A r, s \in 1 .. issued : r < s /\ Overtakes(s, r) => r \in retried

\* Once Shutdown has returned, nothing is sent, posted or run any more: no
\* thread touches the subsystems it has torn down.
QuietAfterShutdown == [][game # "down"]_vars

\* Every request is eventually carried out and answered, or given up; only a
\* shutdown leaves some of them in the queue.
EveryRequestEnds ==
  \A r \in Requests : issued >= r ~> fate[r] # "open" \/ game = "down"

\* Stop's join on the REST worker returns, whatever is still queued.
ShutdownReturns == game = "join" ~> game = "down"

\* One Update runs a bounded batch: tasks that keep arriving while it runs do
\* not keep the world thread inside it.
TickReturns == game = "drain" ~> game = "free"

\* How far request r has come.
Stage(r) ==
  CASE fate[r] # "open" -> 8
    [] \E i \in DOMAIN local : local[i] = r -> 7
    [] \E i \in DOMAIN gameQueue : gameQueue[i] = r -> 6
    [] hand = r /\ worker = "http" -> IF r \in retried THEN 5 ELSE 2
    [] hand = r /\ worker = "backoff" -> 3
    [] \E i \in DOMAIN messages : messages[i] = r -> IF r \in retried THEN 4 ELSE 1
    [] OTHER -> 0

\* A request only moves forward: queued, tried, slept on after a 429, queued and tried
\* once more, due to be answered, in the batch being run, finished.  Neither the requeue
\* nor an answer, a swap or a shutdown sends one back to where it has been, so that
\* nothing is tried or answered for ever.
OnlyForward == [][\A r \in Requests : Stage(r)' >= Stage(r)]_vars

\* Nobody is stuck: the worker can go on from wherever it is until it has returned, the
\* game thread inside Update can, and once the worker has returned Shutdown can.
ThreadsCanMove ==
  /\ worker \notin {"off", "exited"} => ENABLED <<WorkerStep>>_vars
  /\ game = "drain" => ENABLED <<TickStep>>_vars
  /\ game = "join" /\ worker = "exited" => ENABLED <<EndShutdown>>_vars

(***************************************************************************)
(* The promise of RestChannel, seen through this state.                    *)
(***************************************************************************)
ChanOf(r) ==
  IF r > issued THEN "idle"
  ELSE IF fate[r] = "open" THEN "pending"
  ELSE IF fate[r] = "answered" THEN "answered"
  ELSE "settled"

Channel == INSTANCE RestChannel
  WITH Calls <- Requests,
       chan  <- [r \in Requests |-> ChanOf(r)],
       open  <- game # "down"

\* The worker, its queue and the game thread's batches implement the abstract
\* channel, liveness included.
ImplementsRestChannel == Channel!FairSpec
==============================================================================
